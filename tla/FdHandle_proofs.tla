-------------------------- MODULE FdHandle_proofs --------------------------
(***************************************************************************)
(* Proofs about file handles: with any number of descriptors, files and    *)
(* queued operations, no close ever hits a descriptor number that has been *)
(* given to another file, and no closed handle leaks its file in silence.  *)
(***************************************************************************)
EXTENDS FdHandle, RingSteps_proofs

USE SizesAssumption, FdsAssumption

\* A step of the handles is a step of the ring, or none.
LEMMA HandleStepIsRingStep ==
  ASSUME [HandleNext]_allVars
  PROVE  [Next]_vars
<1>1. CASE from_completion_event \/ FdHandle_close
  BY <1>1 DEF from_completion_event, FdHandle_close
<1>2. CASE prep_openat_relative \/ prep_socket
  BY <1>2 DEF prep_openat_relative, prep_openat, prep_socket, Next
<1>3. CASE prep_read_handle
  <2>1. prep_read
    BY <1>3 DEF prep_read_handle, prep_read
  <2> QED  BY <2>1 DEF Next
<1>4. CASE prep_close_handle
  <2>1. prep_close
    BY <1>4 DEF prep_close_handle, prep_close
  <2> QED  BY <2>1 DEF Next
<1>5. CASE IoUring_submit \/ IoUring_get_completion_entries
             \/ make_io_ring_exit
  BY <1>5 DEF Next
<1>6. CASE \E e \in inflight : HandleKernel(e)
  BY <1>6 DEF HandleKernel, Kernel, Next
<1>7. CASE UNCHANGED allVars
  BY <1>7 DEF allVars
<1> QED  BY <1>1, <1>2, <1>3, <1>4, <1>5, <1>6, <1>7 DEF HandleNext

\* So whatever is proved of the ring holds with handles in front of it.
LEMMA HandleSpecIsSpec == HandleSpec => Spec
<1>1. HandleInit => Init
  BY DEF HandleInit
<1>2. [HandleNext]_allVars => [Next]_vars
  BY HandleStepIsRingStep
<1> QED  BY <1>1, <1>2, PTL DEF HandleSpec, Spec
-----------------------------------------------------------------------------
(***************************************************************************)
(* The ring as the handles see it: the operations it still has, and the    *)
(* results it has reported.                                                *)
(***************************************************************************)
InRing == {e.ud : e \in Pending}
Done == {<<x.ud, x.result>> : x \in Entries(cqes) \cup events}

Keeps ==
  /\ user_data_counter' \in {user_data_counter, user_data_counter + 1}
  /\ \/ UNCHANGED <<InRing, Done, ring>>
     \/ ring' # "open" /\ InRing' \subseteq InRing /\ Done' \subseteq Done

Pushes ==
  /\ user_data_counter < MaxUserData
  /\ user_data_counter' = user_data_counter + 1
  /\ InRing' = InRing \cup {user_data_counter}
  /\ UNCHANGED <<Done, ring>>

\* Submitting changes nothing the handles see.
LEMMA SubmitSeen ==
  ASSUME TypeOK, IoUring_submit
  PROVE  Keeps
<1>1. CASE Quiet
  BY <1>1 DEF Quiet, Keeps, InRing, Done, Pending, Entries
<1>2. CASE Moving /\ Carried(Pending', Pending)
  <2>1. InRing' = InRing
    BY <1>2 DEF InRing, Carried, Same
  <2> QED  BY <1>2, <2>1 DEF Moving, Keeps, Done, Entries
<1> QED  BY <1>1, <1>2, SubmitKinds DEF IoUring_submit

\* Reaping turns completions into events.
LEMMA ReapSeen ==
  ASSUME TypeOK, IoUring_get_completion_entries
  PROVE  Keeps
<1>1. get_completion_entries /\ UNCHANGED user_data_counter
  BY DEF IoUring_get_completion_entries
<1>2. CASE Refuse("closed")
  BY <1>1, <1>2 DEF Refuse, queues, Keeps, InRing, Done, Pending, Entries
<1>3. CASE ~Refuse("closed")
  <2> DEFINE c == Rest(cqes, visible)
             D(S) == {<<x.ud, x.result>> : x \in S}
  <2>1. /\ cqes' = c /\ UNCHANGED <<ring, sq, inflight>>
        /\ events' = events \cup {Event(i) : i \in 1 .. visible}
    BY <1>1, <1>3 DEF get_completion_entries
  <2>2. cqes \in Seq(Cqe) /\ visible \in 0 .. Len(cqes) /\ Len(cqes) \in Nat
    BY DEF TypeOK
  <2>3. /\ Len(c) = Len(cqes) - visible
        /\ \A i \in 1 .. (Len(cqes) - visible) : c[i] = cqes[i + visible]
    BY <2>2, RestLemma
  <2> HIDE DEF c
  <2>4. \A i \in 1 .. visible :
          Event(i).ud = cqes[i].ud /\ Event(i).result = cqes[i].result
    BY DEF Event
  <2>5. InRing' = InRing
    BY <2>1 DEF InRing, Pending, Entries
  <2>6. ASSUME NEW i \in 1 .. Len(cqes)
        PROVE  <<cqes[i].ud, cqes[i].result>> \in Done'
    <3>1. CASE i \in 1 .. visible
      BY <2>1, <2>4, <3>1 DEF Done
    <3>2. CASE i \notin 1 .. visible
      <4>1. i - visible \in 1 .. Len(c) /\ c[i - visible] = cqes[i]
        BY <2>2, <2>3, <3>2
      <4>2. cqes[i] \in Entries(cqes')
        BY <2>1, <4>1 DEF Entries
      <4> QED  BY <4>2 DEF Done
    <3> QED  BY <3>1, <3>2
  <2>7. Done \subseteq Done'
    <3>1. \A ev \in events : <<ev.ud, ev.result>> \in Done'
      BY <2>1 DEF Done
    <3> QED  BY <2>6, <3>1 DEF Done, Entries
  <2>8. Done' \subseteq Done
    <3>1. \A i \in 1 .. Len(c) : c[i] \in Entries(cqes)
      BY <2>2, <2>3 DEF Entries
    <3>2. \A i \in 1 .. visible : cqes[i] \in Entries(cqes)
      BY <2>2 DEF Entries
    <3>3. \A i \in 1 .. visible : <<Event(i).ud, Event(i).result>> \in Done
      BY <2>4, <3>2 DEF Done
    <3>4. \A x \in Entries(cqes') : <<x.ud, x.result>> \in Done
      BY <2>1, <3>1 DEF Done, Entries
    <3> QED  BY <2>1, <3>3, <3>4 DEF Done
  <2> QED  BY <1>1, <2>1, <2>5, <2>7, <2>8 DEF Keeps
<1> QED  BY <1>2, <1>3

\* Closing takes the queues away.
LEMMA CloseSeen ==
  ASSUME make_io_ring_exit
  PROVE  Keeps
<1>1. /\ sq' = <<>> /\ cqes' = <<>> /\ ring' = "closed"
      /\ UNCHANGED <<inflight, events, user_data_counter>>
  BY DEF make_io_ring_exit, close
<1>2. InRing' \subseteq InRing
  BY <1>1 DEF InRing, Pending, Entries
<1>3. Done' \subseteq Done
  BY <1>1 DEF Done, Entries
<1> QED  BY <1>1, <1>2, <1>3 DEF Keeps

\* A prep_* pushes, or is refused and leaves pushed alone.
LEMMA PrepSeen ==
  ASSUME TypeOK, PrepStep
  PROVE  (Keeps /\ pushed' = pushed) \/ (Pushes /\ pushed' # pushed)
<1>1. CASE Quiet
  BY <1>1 DEF Quiet, Keeps, InRing, Done, Pending, Entries
<1>2. CASE Pushing
  <2>1. PICK e : e.ud = user_data_counter
                   /\ Carried(Pending', Pending \cup {e})
    BY <1>2 DEF Pushing, NewEntry
  <2>2. InRing' = InRing \cup {user_data_counter}
    BY <2>1 DEF InRing, Carried, Same
  <2>3. pushed' # pushed
    BY <1>2 DEF Pushing, TypeOK
  <2> QED  BY <1>2, <2>2, <2>3 DEF Pushing, Pushes, Done, Entries
<1> QED  BY <1>1, <1>2, AutosubmitKinds

\* The kernel finishes an operation: it leaves the ring, and only it does.
LEMMA FinishSeen ==
  ASSUME TypeOK, IInv, NEW e \in inflight, IsUser(e.ud), Finishing(e)
  PROVE  /\ InRing' = InRing \ {e.ud}
         /\ UNCHANGED <<ring, user_data_counter, events>>
<1>1. PICK fate \in Fates : inflight' = Without(e, fate)
  BY DEF Finishing
<1>2. UNCHANGED <<ring, sq, events, user_data_counter>>
  BY DEF Finishing
<1>3. /\ \A f \in inflight' : \E g \in inflight \ {e} : f.ud = g.ud
      /\ \A g \in inflight \ {e} : \E f \in inflight' : f.ud = g.ud
  BY <1>1, WithoutSame DEF Same
<1>4. /\ \A g \in inflight \ {e} : g.ud # e.ud
      /\ \A g \in Entries(sq) : g.ud # e.ud
  BY DEF IInv, Placed, DistinctPending, Entries
<1>5. Entries(sq)' = Entries(sq)
  BY <1>2 DEF Entries
<1>6. InRing' = InRing \ {e.ud}
  BY <1>3, <1>4, <1>5 DEF InRing, Pending
<1> QED  BY <1>2, <1>6

\* One more completion.
LEMMA PostSeen ==
  ASSUME TypeOK, NEW x \in Cqe, cqes' = Append(cqes, x), UNCHANGED events
  PROVE  /\ Done' = Done \cup {<<x.ud, x.result>>}
         /\ cqes' # cqes /\ cqes'[Len(cqes')] = x
<1>1. /\ cqes \in Seq(Cqe)
      /\ Len(cqes') = Len(cqes) + 1 /\ Len(cqes) \in Nat
      /\ \A i \in 1 .. Len(cqes) : cqes'[i] = cqes[i]
      /\ cqes'[Len(cqes) + 1] = x
  BY DEF TypeOK
<1>2. 1 .. Len(cqes') = (1 .. Len(cqes)) \cup {Len(cqes) + 1}
  BY <1>1
<1>3. Entries(cqes') = Entries(cqes) \cup {x}
  BY <1>1, <1>2 DEF Entries
<1> QED  BY <1>1, <1>3 DEF Done, Entries

\* An operation that ran reports success only if it succeeded.
LEMMA CompleteSeen ==
  ASSUME TypeOK, NEW e \in inflight, KernelComplete(e), NEW ok \in Succeeded
  PROVE  \/ Done' = Done
         \/ \E r \in Int : Done' = Done \cup {<<e.ud, r>>} /\ (r >= 0 => ok)
<1>1. Finishing(e) /\ UNCHANGED events
  BY KernelKinds DEF Kernel, Finishing
<1>2. CASE UNCHANGED cqes
  BY <1>1, <1>2 DEF Done, Entries
<1>3. ASSUME NEW result \in Int, ring = "open",
             cqes' = Append(cqes, [ud |-> e.ud, result |-> result,
                                   data |-> e.data, len |-> e.len])
      PROVE  Done' = Done \cup {<<e.ud, result>>} /\ (result >= 0 => ok)
  <2> DEFINE x == [ud |-> e.ud, result |-> result, data |-> e.data,
                   len |-> e.len]
  <2>1. x \in Cqe /\ x.ud = e.ud /\ x.result = result
    BY DEF TypeOK, Entry, Cqe
  <2> HIDE DEF x
  <2>2. /\ Done' = Done \cup {<<x.ud, x.result>>}
        /\ cqes' # cqes /\ cqes'[Len(cqes')] = x
    BY <1>1, <1>3, <2>1, PostSeen DEF x
  <2>3. ok = (cqes' = cqes \/ cqes'[Len(cqes')].result >= 0)
    BY <1>3 DEF Succeeded
  <2>4. result >= 0 => ok
    BY <2>1, <2>2, <2>3
  <2> QED  BY <2>1, <2>2, <2>4
<1> QED  BY <1>1, <1>2, <1>3 DEF Finishing

\* One that is cancelled reports a failure, if it reports.
LEMMA CancelSeen ==
  ASSUME TypeOK, NEW e \in inflight, KernelCancel(e)
  PROVE  \/ Done' = Done /\ (ring = "open" => e.fate = "mute")
         \/ Done' = Done \cup {<<e.ud, -1>>}
<1> DEFINE x == [ud |-> e.ud, result |-> -1, data |-> e.data, len |-> e.len]
<1>1. x \in Cqe /\ x.ud = e.ud /\ x.result = -1
  BY DEF TypeOK, Entry, Cqe
<1>2. Completion(e, -1) = <<x>> /\ <<x>> # <<>>
  BY DEF Completion
<1> HIDE DEF x
<1>3. UNCHANGED events
  BY DEF KernelCancel, Finish
<1>4. CASE UNCHANGED cqes /\ (ring = "open" => e.fate = "mute")
  BY <1>3, <1>4 DEF Done, Entries
<1>5. CASE cqes' = cqes \o <<x>>
  <2>1. cqes' = Append(cqes, x)
    BY <1>1, <1>5 DEF TypeOK
  <2> QED  BY <1>1, <1>3, <2>1, PostSeen
<1> QED  BY <1>2, <1>4, <1>5 DEF KernelCancel, Finish
-----------------------------------------------------------------------------
(***************************************************************************)
(* The invariant.  A file is at one descriptor, the one its opener was     *)
(* given; a handle is only made of an opener that got one; a close in the  *)
(* ring is the only one of its handle, which is marked closed, and the     *)
(* file is still there.                                                    *)
(***************************************************************************)
HandleTypeOK ==
  /\ table \in [Fds -> Keys \cup {NoFile}]
  /\ fd \in [Keys -> Fds \cup {NoFd}]
  /\ handle \in [Keys -> {"none", "open", "closed"}]
  /\ about \in [Keys -> [op : {"none", "open", "use", "close"},
                         handle : Keys \cup {NoHandle}]]

\* Nothing is known of values that have not been drawn.
Undrawn ==
  \A u \in Keys : u >= user_data_counter =>
    about[u].op = "none" /\ fd[u] = NoFd

\* What is in the ring has not been executed.
Unexecuted ==
  \A u \in InRing : u \in Keys /\ u < user_data_counter
                      /\ about[u].op # "none" /\ fd[u] = NoFd

\* An opener that reports success has a descriptor.
Reported ==
  \A p \in Done : /\ p[1] \in Keys /\ p[1] < user_data_counter
                  /\ about[p[1]].op = "open" /\ p[2] >= 0 => fd[p[1]] # NoFd

HandleHasFd == \A u \in Keys : handle[u] # "none" => fd[u] # NoFd

FileAtFd == \A d \in Fds : table[d] # NoFile => fd[table[d]] = d

CloseIsOwn ==
  \A u \in InRing : about[u].op = "close" =>
    LET h == about[u].handle
    IN  /\ h \in Keys /\ handle[h] = "closed"
        /\ fd[h] # NoFd /\ table[fd[h]] = h

OneClose ==
  \A u, v \in InRing :
    about[u].op = "close" /\ about[v].op = "close"
      /\ about[u].handle = about[v].handle => u = v

FInv ==
  /\ HandleTypeOK
  /\ Undrawn
  /\ Unexecuted
  /\ Reported
  /\ HandleHasFd
  /\ FileAtFd
  /\ OpenFileStays
  /\ CloseIsOwn
  /\ OneClose

\* Numbers that stand for nothing are no keys and no descriptors.
LEMMA Nones ==
  NoFd \notin Fds /\ NoFile \notin Keys /\ NoHandle \notin Keys
  BY DEF NoFd, NoFile, NoHandle, Keys

\* Steps that leave the handles and the descriptor table alone.
LEMMA KeepsInv ==
  ASSUME TypeOK, FInv, Keeps, UNCHANGED handleVars
  PROVE  FInv'
<1>1. /\ user_data_counter \in Nat /\ user_data_counter' \in Nat
      /\ user_data_counter <= user_data_counter'
  BY DEF TypeOK, Keeps
<1>2. InRing' \subseteq InRing /\ Done' \subseteq Done
  BY DEF Keeps
<1>3. UNCHANGED <<table, fd, handle, about>>
  BY DEF handleVars
<1>4. HandleTypeOK' /\ HandleHasFd' /\ FileAtFd' /\ OpenFileStays'
  BY <1>3 DEF FInv, HandleTypeOK, HandleHasFd, FileAtFd, OpenFileStays
<1>5. Undrawn'
  BY <1>1, <1>3 DEF FInv, Undrawn, Keys
<1>6. Unexecuted'
  BY <1>1, <1>2, <1>3 DEF FInv, Unexecuted, Keys
<1>7. Reported'
  BY <1>1, <1>2, <1>3 DEF FInv, Reported, Keys
<1>8. CloseIsOwn' /\ OneClose'
  BY <1>2, <1>3 DEF FInv, CloseIsOwn, OneClose
<1> QED  BY <1>4, <1>5, <1>6, <1>7, <1>8 DEF FInv

\* A handle is made of a completion.
LEMMA MakeInv ==
  ASSUME TypeOK, FInv, from_completion_event
  PROVE  FInv'
<1>1. PICK ev \in events :
        /\ about[ev.ud].op = "open" /\ handle[ev.ud] = "none"
        /\ ~raise_for_cqe(ev)
        /\ handle' = [handle EXCEPT ![ev.ud] = "open"]
  BY DEF from_completion_event
<1>2. UNCHANGED <<ring, user_data_counter, sq, inflight, cqes, events, table,
                  fd, about>>
  BY DEF from_completion_event, vars, queues
<1>3. InRing' = InRing /\ Done' = Done
  BY <1>2 DEF InRing, Done, Pending, Entries
<1> DEFINE u == ev.ud
<1>4. u \in Keys /\ fd[u] # NoFd
  <2>1. <<ev.ud, ev.result>> \in Done
    BY DEF Done
  <2>2. <<ev.ud, ev.result>>[1] = ev.ud /\ <<ev.ud, ev.result>>[2] = ev.result
    OBVIOUS
  <2>3. u \in Keys
    BY <2>1, <2>2 DEF FInv, Reported
  <2>4. ev.result >= 0
    BY <1>1 DEF raise_for_cqe, TypeOK, CompletionEvent
  <2> QED  BY <1>1, <2>1, <2>2, <2>3, <2>4 DEF FInv, Reported
<1> HIDE DEF u
<1>5. /\ handle' \in [Keys -> {"none", "open", "closed"}]
      /\ \A v \in Keys : handle'[v] = IF v = u THEN "open" ELSE handle[v]
      /\ handle[u] = "none"
  BY <1>1, <1>4 DEF FInv, HandleTypeOK, u
<1>6. HandleTypeOK' /\ HandleHasFd' /\ FileAtFd' /\ OpenFileStays'
  BY <1>2, <1>4, <1>5
     DEF FInv, HandleTypeOK, HandleHasFd, FileAtFd, OpenFileStays
<1>7. Undrawn' /\ Unexecuted' /\ Reported' /\ OneClose'
  BY <1>2, <1>3 DEF FInv, Undrawn, Unexecuted, Reported, OneClose
<1>8. CloseIsOwn'
  BY <1>2, <1>3, <1>5 DEF FInv, CloseIsOwn
<1> QED  BY <1>6, <1>7, <1>8 DEF FInv

\* The synchronous close frees the descriptor of its own file.
LEMMA SyncCloseInv ==
  ASSUME FInv, FdHandle_close
  PROVE  FInv'
<1>1. PICK h \in Handles :
        /\ handle[h] = "open"
        /\ table' = [table EXCEPT ![fd[h]] = NoFile]
        /\ handle' = [handle EXCEPT ![h] = "closed"]
  BY DEF FdHandle_close, CloseRuns, Finally
<1>2. UNCHANGED <<ring, user_data_counter, sq, inflight, cqes, events, fd,
                  about>>
  BY DEF FdHandle_close, vars, queues
<1>3. InRing' = InRing /\ Done' = Done
  BY <1>2 DEF InRing, Done, Pending, Entries
<1>4. h \in Keys /\ fd[h] \in Fds /\ table[fd[h]] = h
  <2>1. h \in Keys /\ fd[h] # NoFd
    BY <1>1 DEF Handles, FInv, HandleHasFd
  <2> QED  BY <1>1, <2>1 DEF FInv, HandleTypeOK, OpenFileStays
<1>5. /\ handle' \in [Keys -> {"none", "open", "closed"}]
      /\ \A v \in Keys : handle'[v] = IF v = h THEN "closed" ELSE handle[v]
  BY <1>1, <1>4 DEF FInv, HandleTypeOK
<1>6. /\ table' \in [Fds -> Keys \cup {NoFile}]
      /\ \A d \in Fds : table'[d] = IF d = fd[h] THEN NoFile ELSE table[d]
  BY <1>1, <1>4 DEF FInv, HandleTypeOK
<1>7. HandleTypeOK' /\ HandleHasFd' /\ FileAtFd'
  BY <1>1, <1>2, <1>5, <1>6 DEF FInv, HandleTypeOK, HandleHasFd, FileAtFd
<1>8. OpenFileStays'
  <2> SUFFICES ASSUME NEW u \in Keys, fd[u] # NoFd, handle'[u] # "closed"
               PROVE  table'[fd[u]] = u
    BY <1>2 DEF OpenFileStays
  <2>1. u # h /\ table[fd[u]] = u /\ fd[u] \in Fds
    BY <1>5 DEF FInv, OpenFileStays, HandleTypeOK
  <2> QED  BY <1>4, <1>6, <2>1
<1>9. Undrawn' /\ Unexecuted' /\ Reported' /\ OneClose'
  BY <1>2, <1>3 DEF FInv, Undrawn, Unexecuted, Reported, OneClose
<1>10. CloseIsOwn'
  <2> SUFFICES ASSUME NEW u \in InRing, about[u].op = "close"
               PROVE  LET g == about[u].handle
                      IN  /\ g \in Keys /\ handle'[g] = "closed"
                          /\ fd[g] # NoFd /\ table'[fd[g]] = g
    BY <1>2, <1>3 DEF CloseIsOwn
  <2> DEFINE g == about[u].handle
  <2>1. /\ g \in Keys /\ handle[g] = "closed"
        /\ fd[g] # NoFd /\ table[fd[g]] = g
    BY DEF FInv, CloseIsOwn
  <2> HIDE DEF g
  <2>2. g # h /\ fd[g] \in Fds
    BY <1>1, <2>1 DEF FInv, HandleTypeOK
  <2> QED  BY <1>4, <1>5, <1>6, <2>1, <2>2 DEF g
<1> QED  BY <1>7, <1>8, <1>9, <1>10 DEF FInv

\* An operation other than a close is accepted.
LEMMA PushInv ==
  ASSUME TypeOK, FInv, Pushes, NEW op \in {"open", "use"},
         NEW h \in Keys \cup {NoHandle},
         about' = [about EXCEPT ![user_data_counter] = [op |-> op,
                                                        handle |-> h]],
         UNCHANGED <<table, fd, handle>>
  PROVE  FInv'
<1> DEFINE n == user_data_counter
<1>1. n \in Keys /\ n \in Nat /\ n' = n + 1
  BY DEF TypeOK, Pushes, Keys
<1>2. InRing' = InRing \cup {n} /\ Done' = Done
  BY DEF Pushes
<1>3. /\ about' \in [Keys -> [op : {"none", "open", "use", "close"},
                              handle : Keys \cup {NoHandle}]]
      /\ about'[n].op = op
      /\ \A u \in Keys : u # n => about'[u] = about[u]
  BY <1>1 DEF FInv, HandleTypeOK
<1> HIDE DEF n
<1>4. HandleTypeOK' /\ HandleHasFd' /\ FileAtFd' /\ OpenFileStays'
  BY <1>3 DEF FInv, HandleTypeOK, HandleHasFd, FileAtFd, OpenFileStays
<1>5. Undrawn'
  BY <1>1, <1>3 DEF FInv, Undrawn, Keys, n
<1>6. \A u \in InRing : u \in Keys /\ u < n
  BY DEF FInv, Unexecuted, n
<1>7. Unexecuted'
  <2>1. fd[n] = NoFd
    BY <1>1 DEF FInv, Undrawn, n
  <2> QED  BY <1>1, <1>2, <1>3, <1>6, <2>1 DEF FInv, Unexecuted, Keys, n
<1>8. Reported'
  BY <1>1, <1>2, <1>3 DEF FInv, Reported, Keys, n
<1>9. \A u \in InRing' : about'[u].op = "close" => u \in InRing
                                                     /\ about'[u] = about[u]
  BY <1>1, <1>2, <1>3, <1>6
<1>10. CloseIsOwn' /\ OneClose'
  BY <1>9 DEF FInv, CloseIsOwn, OneClose
<1> QED  BY <1>4, <1>5, <1>7, <1>8, <1>10 DEF FInv

\* A close is accepted: its handle was open, so it is the first of the handle,
\* and the file is at its descriptor.
LEMMA PushCloseInv ==
  ASSUME TypeOK, FInv, Pushes, NEW h \in Handles, handle[h] = "open",
         about' = [about EXCEPT ![user_data_counter] = [op |-> "close",
                                                        handle |-> h]],
         handle' = [handle EXCEPT ![h] = "closed"],
         UNCHANGED <<table, fd>>
  PROVE  FInv'
<1> DEFINE n == user_data_counter
<1>1. n \in Keys /\ n \in Nat /\ n' = n + 1
  BY DEF TypeOK, Pushes, Keys
<1>2. InRing' = InRing \cup {n} /\ Done' = Done
  BY DEF Pushes
<1>3. h \in Keys /\ fd[h] # NoFd /\ table[fd[h]] = h
  <2>1. h \in Keys /\ fd[h] # NoFd
    BY DEF Handles, FInv, HandleHasFd
  <2> QED  BY <2>1 DEF FInv, OpenFileStays
<1>4. /\ about' \in [Keys -> [op : {"none", "open", "use", "close"},
                              handle : Keys \cup {NoHandle}]]
      /\ about'[n].op = "close" /\ about'[n].handle = h
      /\ \A u \in Keys : u # n => about'[u] = about[u]
  BY <1>1, <1>3 DEF FInv, HandleTypeOK
<1>5. /\ handle' \in [Keys -> {"none", "open", "closed"}]
      /\ \A v \in Keys : handle'[v] = IF v = h THEN "closed" ELSE handle[v]
  BY <1>3 DEF FInv, HandleTypeOK
<1> HIDE DEF n
<1>6. HandleTypeOK' /\ HandleHasFd' /\ FileAtFd' /\ OpenFileStays'
  BY <1>3, <1>4, <1>5
     DEF FInv, HandleTypeOK, HandleHasFd, FileAtFd, OpenFileStays
<1>7. Undrawn'
  BY <1>1, <1>4 DEF FInv, Undrawn, Keys, n
<1>8. \A u \in InRing : u \in Keys /\ u < n
  BY DEF FInv, Unexecuted, n
<1>9. Unexecuted'
  <2>1. fd[n] = NoFd
    BY <1>1 DEF FInv, Undrawn, n
  <2> QED  BY <1>1, <1>2, <1>4, <1>8, <2>1 DEF FInv, Unexecuted, Keys, n
<1>10. Reported'
  BY <1>1, <1>2, <1>4 DEF FInv, Reported, Keys, n
<1>11. \A u \in InRing : u # n /\ about'[u] = about[u]
  BY <1>1, <1>4, <1>8 DEF Keys
<1>12. \A u \in InRing : about[u].op = "close" => about[u].handle # h
  BY DEF FInv, CloseIsOwn
<1>13. CloseIsOwn'
  BY <1>2, <1>3, <1>4, <1>5, <1>11 DEF FInv, CloseIsOwn
<1>14. OneClose'
  BY <1>2, <1>4, <1>11, <1>12 DEF FInv, OneClose
<1> QED  BY <1>6, <1>7, <1>9, <1>10, <1>13, <1>14 DEF FInv

\* The methods that prepare operations.
LEMMA PrepInv ==
  ASSUME TypeOK, FInv,
         \/ prep_openat_relative \/ prep_socket \/ prep_read_handle
         \/ prep_close_handle
  PROVE  FInv'
<1>1. PrepStep
  <2>1. prep_openat \/ prep_create_socket \/ prep_read \/ prep_close
    BY DEF prep_openat_relative, prep_openat, prep_socket, prep_read_handle,
           prep_read, prep_close_handle, prep_close
  <2> QED  BY <2>1, PrepsArePrepSteps
<1>2. CASE Keeps /\ pushed' = pushed
  <2>1. UNCHANGED <<table, fd, handle, about>>
    BY <1>2 DEF prep_openat_relative, prep_socket, prep_read_handle,
                prep_close_handle, Prepared, mark_closed
  <2> QED  BY <1>2, <2>1, KeepsInv DEF handleVars
<1>3. CASE Pushes /\ pushed' # pushed
  <2>0. Handles \subseteq Keys
    BY DEF Handles
  <2>1. CASE prep_openat_relative \/ prep_socket
    <3>1. PICK h \in Handles \cup {NoHandle} : Prepared("open", h)
      BY <2>1 DEF prep_openat_relative, prep_socket
    <3>2. UNCHANGED <<table, fd, handle>>
      BY <2>1 DEF prep_openat_relative, prep_socket
    <3> QED  BY <1>3, <2>0, <3>1, <3>2, PushInv DEF Prepared
  <2>2. CASE prep_read_handle
    <3>1. PICK h \in Handles : Prepared("use", h)
      BY <2>2 DEF prep_read_handle
    <3>2. UNCHANGED <<table, fd, handle>>
      BY <2>2 DEF prep_read_handle
    <3> QED  BY <1>3, <2>0, <3>1, <3>2, PushInv DEF Prepared
  <2>3. CASE prep_close_handle
    <3>1. PICK h \in Handles :
            /\ \/ Refuse("ValueError")
               \/ handle[h] = "open" /\ handle' = mark_closed(h)
            /\ Prepared("close", h)
      BY <2>3 DEF prep_close_handle, unwrap_file, unwrap_file_raises
    <3>2. ~Refuse("ValueError")
      BY <1>3 DEF Refuse, ghosts
    <3>3. UNCHANGED <<table, fd>>
      BY <2>3 DEF prep_close_handle
    <3> QED
      BY <1>3, <3>1, <3>2, <3>3, PushCloseInv DEF Prepared, mark_closed
  <2> QED  BY <2>1, <2>2, <2>3
<1> QED  BY <1>1, <1>2, <1>3, PrepSeen

\* An operation leaves the ring and nothing is opened or closed.
LEMMA LeaveInv ==
  ASSUME TypeOK, FInv, NEW u \in InRing, InRing' = InRing \ {u},
         \/ Done' = Done
         \/ \E r \in Int : /\ Done' = Done \cup {<<u, r>>}
                           /\ r >= 0 => about[u].op # "open",
         UNCHANGED <<user_data_counter, table, fd, handle, about>>
  PROVE  FInv'
<1>1. HandleTypeOK' /\ HandleHasFd' /\ FileAtFd' /\ OpenFileStays'
      /\ Undrawn'
  BY DEF FInv, HandleTypeOK, HandleHasFd, FileAtFd, OpenFileStays, Undrawn
<1>2. Unexecuted' /\ CloseIsOwn' /\ OneClose'
  BY DEF FInv, Unexecuted, CloseIsOwn, OneClose
<1>3. Reported'
  <2>1. u \in Keys /\ u < user_data_counter
    BY DEF FInv, Unexecuted
  <2>2. \A r : <<u, r>>[1] = u /\ <<u, r>>[2] = r
    OBVIOUS
  <2> QED  BY <2>1, <2>2 DEF FInv, Reported
<1> QED  BY <1>1, <1>2, <1>3 DEF FInv

\* A file is opened: its opener had no descriptor and gets a free one.
LEMMA InstallInv ==
  ASSUME TypeOK, FInv, NEW u \in InRing, InRing' = InRing \ {u},
         about[u].op = "open", Install(u),
         Done' = Done \/ \E r \in Int : Done' = Done \cup {<<u, r>>},
         UNCHANGED <<user_data_counter, handle, about>>
  PROVE  FInv'
<1>1. PICK d \in Fds : /\ table[d] = NoFile
                       /\ table' = [table EXCEPT ![d] = u]
                       /\ fd' = [fd EXCEPT ![u] = d]
  BY DEF Install
<1>2. u \in Keys /\ u < user_data_counter /\ fd[u] = NoFd
  BY DEF FInv, Unexecuted
<1>3. /\ table' \in [Fds -> Keys \cup {NoFile}]
      /\ \A c \in Fds : table'[c] = IF c = d THEN u ELSE table[c]
  BY <1>1, <1>2 DEF FInv, HandleTypeOK
<1>4. /\ fd' \in [Keys -> Fds \cup {NoFd}]
      /\ \A v \in Keys : fd'[v] = IF v = u THEN d ELSE fd[v]
  BY <1>1, <1>2 DEF FInv, HandleTypeOK
<1>5. d # NoFd /\ NoFile \notin Keys
  BY Nones
<1>6. HandleTypeOK' /\ HandleHasFd'
  BY <1>3, <1>4, <1>5 DEF FInv, HandleTypeOK, HandleHasFd
<1>7. FileAtFd'
  <2> SUFFICES ASSUME NEW c \in Fds, table'[c] # NoFile
               PROVE  fd'[table'[c]] = c
    BY DEF FileAtFd
  <2>1. CASE c = d
    BY <1>2, <1>3, <1>4, <2>1
  <2>2. CASE c # d
    <3>1. table'[c] = table[c] /\ table[c] \in Keys /\ fd[table[c]] = c
      BY <1>3, <2>2 DEF FInv, FileAtFd, HandleTypeOK
    <3>2. table[c] # u
      BY <1>2, <3>1, Nones
    <3> QED  BY <1>4, <3>1, <3>2
  <2> QED  BY <2>1, <2>2
<1>8. \A v \in Keys : v # u /\ fd[v] # NoFd /\ table[fd[v]] = v
                        => fd'[v] = fd[v] /\ table'[fd'[v]] = v
  <2> SUFFICES ASSUME NEW v \in Keys, v # u, fd[v] # NoFd, table[fd[v]] = v
               PROVE  fd'[v] = fd[v] /\ table'[fd'[v]] = v
    OBVIOUS
  <2>1. fd'[v] = fd[v] /\ fd[v] \in Fds
    BY <1>4 DEF FInv, HandleTypeOK
  <2>2. fd[v] # d
    BY <1>1, <1>5
  <2> QED  BY <1>3, <2>1, <2>2
<1>9. OpenFileStays'
  BY <1>2, <1>3, <1>4, <1>8 DEF FInv, OpenFileStays
<1>10. Undrawn'
  BY <1>2, <1>4 DEF FInv, Undrawn, Keys, TypeOK
<1>11. Unexecuted'
  BY <1>4 DEF FInv, Unexecuted
<1>12. Reported'
  <2>1. \A r : <<u, r>>[1] = u /\ <<u, r>>[2] = r
    OBVIOUS
  <2> QED  BY <1>2, <1>4, <1>5, <2>1 DEF FInv, Reported
<1>13. CloseIsOwn' /\ OneClose'
  BY <1>2, <1>8 DEF FInv, CloseIsOwn, OneClose
<1> QED
  BY <1>6, <1>7, <1>9, <1>10, <1>11, <1>12, <1>13 DEF FInv

\* A close in the ring is executed: it frees the descriptor of its own file.
LEMMA FreeInv ==
  ASSUME TypeOK, FInv, NEW u \in InRing, InRing' = InRing \ {u},
         about[u].op = "close",
         table' = [table EXCEPT ![fd[about[u].handle]] = NoFile],
         Done' = Done \/ \E r \in Int : Done' = Done \cup {<<u, r>>},
         UNCHANGED <<user_data_counter, fd, handle, about>>
  PROVE  FInv'
<1> DEFINE h == about[u].handle
<1>1. /\ h \in Keys /\ handle[h] = "closed"
      /\ fd[h] # NoFd /\ table[fd[h]] = h
  BY DEF FInv, CloseIsOwn
<1>2. \A v \in InRing' : about[v].op = "close" => about[v].handle # h
  BY DEF FInv, OneClose
<1> HIDE DEF h
<1>3. fd[h] \in Fds
  BY <1>1 DEF FInv, HandleTypeOK
<1>4. /\ table' \in [Fds -> Keys \cup {NoFile}]
      /\ \A d \in Fds : table'[d] = IF d = fd[h] THEN NoFile ELSE table[d]
  BY <1>3 DEF FInv, HandleTypeOK, h
<1>5. HandleTypeOK' /\ HandleHasFd' /\ FileAtFd' /\ Undrawn'
  BY <1>4 DEF FInv, HandleTypeOK, HandleHasFd, FileAtFd, Undrawn
<1>6. \A v \in Keys : v # h /\ fd[v] # NoFd /\ table[fd[v]] = v
                        => table'[fd[v]] = v
  BY <1>1, <1>4 DEF FInv, HandleTypeOK
<1>7. OpenFileStays'
  BY <1>1, <1>6 DEF FInv, OpenFileStays
<1>8. Unexecuted' /\ OneClose'
  BY DEF FInv, Unexecuted, OneClose
<1>9. Reported'
  <2>1. u \in Keys /\ u < user_data_counter
    BY DEF FInv, Unexecuted
  <2>2. \A r : <<u, r>>[1] = u /\ <<u, r>>[2] = r
    OBVIOUS
  <2> QED  BY <2>1, <2>2 DEF FInv, Reported
<1>10. CloseIsOwn'
  BY <1>2, <1>6 DEF FInv, CloseIsOwn
<1> QED  BY <1>5, <1>7, <1>8, <1>9, <1>10 DEF FInv

\* What a step of the kernel is to the ring.
LEMMA HandleKernelSeen ==
  ASSUME TypeOK, IInv, FInv, NEW e \in inflight, HandleKernel(e)
  PROVE  /\ e.ud \in InRing /\ InRing' = InRing \ {e.ud}
         /\ UNCHANGED <<ring, user_data_counter>>
<1>1. e.ud \in InRing
  BY DEF InRing, Pending
<1>2. IsUser(e.ud)
  <2>1. e.ud \in Keys
    BY <1>1 DEF FInv, Unexecuted
  <2> QED  BY <2>1 DEF Keys, IsUser, TimeoutUserData
<1>3. Finishing(e)
  BY KernelKinds DEF HandleKernel, Kernel
<1> QED  BY <1>1, <1>2, <1>3, FinishSeen

\* The kernel's steps keep the invariant.
LEMMA KernelInv ==
  ASSUME TypeOK, IInv, FInv, NEW e \in inflight, HandleKernel(e)
  PROVE  FInv'
<1> DEFINE u == e.ud
<1>1. /\ u \in InRing /\ InRing' = InRing \ {u}
      /\ UNCHANGED <<user_data_counter, handle, about>>
  BY HandleKernelSeen DEF HandleKernel
<1>2. CASE KernelCancel(e) /\ UNCHANGED <<table, fd>>
  <2>1. \/ Done' = Done
        \/ \E r \in Int : Done' = Done \cup {<<u, r>>} /\ ~(r >= 0)
    <3>1. -1 \in Int /\ ~(-1 >= 0)
      OBVIOUS
    <3> QED  BY <1>2, <3>1, CancelSeen
  <2> HIDE DEF u
  <2> QED  BY <1>1, <1>2, <2>1, LeaveInv
<1>3. ASSUME KernelComplete(e), NEW ok \in Succeeded, Execute(u, ok)
      PROVE  FInv'
  <2>1. \/ Done' = Done
        \/ \E r \in Int : Done' = Done \cup {<<u, r>>} /\ (r >= 0 => ok)
    BY <1>3, CompleteSeen
  <2> HIDE DEF u
  <2>2. CASE about[u].op = "open" /\ ok /\ Install(u)
    BY <1>1, <2>1, <2>2, InstallInv
  <2>3. CASE about[u].op = "open" /\ ~ok /\ UNCHANGED <<table, fd>>
    BY <1>1, <2>1, <2>3, LeaveInv
  <2>4. CASE about[u].op = "close" /\ Free(fd[about[u].handle], ok)
    BY <1>1, <2>1, <2>4, FreeInv DEF Free
  <2>5. CASE about[u].op = "use" /\ UNCHANGED <<table, fd>>
    BY <1>1, <2>1, <2>5, LeaveInv
  <2> QED  BY <1>3, <2>2, <2>3, <2>4, <2>5 DEF Execute
<1> QED  BY <1>2, <1>3 DEF HandleKernel

\* The invariant holds in every reachable state.
LEMMA HandleInvariance ==
  ASSUME ~DropBusy
  PROVE  HandleSpec => [](TypeOK /\ IInv /\ FInv)
<1>1. ASSUME HandleInit
      PROVE  FInv
  <2>1. InRing = {} /\ Done = {}
    BY <1>1 DEF HandleInit, Init, InRing, Done, Pending, Entries
  <2>2. HandleTypeOK
    BY <1>1 DEF HandleInit, HandleTypeOK
  <2>3. /\ \A u \in Keys : /\ fd[u] = NoFd /\ handle[u] = "none"
                           /\ about[u].op = "none"
        /\ \A d \in Fds : table[d] = NoFile
    BY <1>1 DEF HandleInit
  <2> QED
    BY <2>1, <2>2, <2>3
       DEF FInv, Undrawn, Unexecuted, Reported, HandleHasFd, FileAtFd,
           OpenFileStays, CloseIsOwn, OneClose
<1>2. ASSUME TypeOK, IInv, FInv, [HandleNext]_allVars
      PROVE  FInv'
  <2>1. CASE from_completion_event
    BY <1>2, <2>1, MakeInv
  <2>2. CASE FdHandle_close
    BY <1>2, <2>2, SyncCloseInv
  <2>3. CASE prep_openat_relative \/ prep_socket \/ prep_read_handle
               \/ prep_close_handle
    BY <1>2, <2>3, PrepInv
  <2>4. CASE /\ IoUring_submit \/ IoUring_get_completion_entries
                  \/ make_io_ring_exit
             /\ UNCHANGED handleVars
    BY <1>2, <2>4, SubmitSeen, ReapSeen, CloseSeen, KeepsInv
  <2>5. CASE \E e \in inflight : HandleKernel(e)
    BY <1>2, <2>5, KernelInv
  <2>6. CASE UNCHANGED allVars
    <3>1. Keeps /\ UNCHANGED handleVars
      BY <2>6 DEF allVars, vars, queues, Keeps, InRing, Done, Pending, Entries
    <3> QED  BY <1>2, <3>1, KeepsInv
  <2> QED
    BY <1>2, <2>1, <2>2, <2>3, <2>4, <2>5, <2>6 DEF HandleNext
<1> QED
  BY <1>1, <1>2, HandleSpecIsSpec, Invariance, PTL DEF HandleSpec

\* A file stays at its descriptor until its own handle is closed, however
\* closes and the reuse of numbers interleave.
THEOREM FilesStay ==
  ASSUME ~DropBusy
  PROVE  HandleSpec => []OpenFileStays
<1>1. FInv => OpenFileStays
  BY DEF FInv
<1> QED  BY <1>1, HandleInvariance, PTL

\* A close in the ring names a descriptor that still is the one it was
\* prepared for, however long it is queued.
THEOREM QueuedClosesAreOwn ==
  ASSUME ~DropBusy
  PROVE  HandleSpec => []QueuedCloseIsOwn
<1>1. FInv => QueuedCloseIsOwn
  BY DEF FInv, CloseIsOwn, QueuedCloseIsOwn, InRing
<1> QED  BY <1>1, HandleInvariance, PTL
-----------------------------------------------------------------------------
(***************************************************************************)
(* No silent leak.  The file of a closed handle is still open only while   *)
(* the close is in the ring, or after it was cancelled; and no operation   *)
(* is cancelled without a completion (LInv, under NoSilentChains).         *)
(***************************************************************************)
Accounts(h) ==
  \E u \in Keys :
    /\ about[u] = [op |-> "close", handle |-> h]
    /\ u \in InRing \/ \E r \in Int : r < 0 /\ <<u, r>> \in Done

Accounted ==
  ring = "open" =>
    \A h \in Keys : handle[h] = "closed" /\ table[fd[h]] = h => Accounts(h)

\* The invariant is the property, in terms of what the handles see.
LEMMA AccountedIsProperty ==
  ASSUME TypeOK, Accounted
  PROVE  ClosedIsAccountedFor
<1> SUFFICES ASSUME ring = "open", NEW h \in Keys, handle[h] = "closed",
                    table[fd[h]] = h
             PROVE  \E u \in Keys :
                      /\ about[u] = [op |-> "close", handle |-> h]
                      /\ \/ \E e \in Pending : e.ud = u
                         \/ \E c \in Entries(cqes) \cup events :
                              c.ud = u /\ c.result < 0
  BY DEF ClosedIsAccountedFor
<1>1. PICK u \in Keys :
        /\ about[u] = [op |-> "close", handle |-> h]
        /\ u \in InRing \/ \E r \in Int : r < 0 /\ <<u, r>> \in Done
  BY DEF Accounted, Accounts
<1>2. CASE u \in InRing
  BY <1>1, <1>2 DEF InRing
<1>3. ASSUME NEW r \in Int, r < 0, <<u, r>> \in Done
      PROVE  \E c \in Entries(cqes) \cup events : c.ud = u /\ c.result < 0
  <2>1. PICK c \in Entries(cqes) \cup events : <<u, r>> = <<c.ud, c.result>>
    BY <1>3 DEF Done
  <2> QED  BY <1>3, <2>1
<1> QED  BY <1>1, <1>2, <1>3

\* Pushing keeps what accounts.
LEMMA AccountsPush ==
  ASSUME TypeOK, FInv, Pushes, NEW x,
         about' = [about EXCEPT ![user_data_counter] = x], NEW h \in Keys,
         Accounts(h)
  PROVE  Accounts(h)'
<1>1. PICK u \in Keys :
        /\ about[u] = [op |-> "close", handle |-> h]
        /\ u \in InRing \/ \E r \in Int : r < 0 /\ <<u, r>> \in Done
  BY DEF Accounts
<1>2. user_data_counter \in Nat
  BY DEF TypeOK
<1>3. u # user_data_counter
  BY <1>1, <1>2 DEF FInv, Undrawn
<1>4. about'[u] = about[u]
  BY <1>3 DEF FInv, HandleTypeOK
<1> QED  BY <1>1, <1>4 DEF Accounts, Pushes

\* The methods that prepare operations.
LEMMA AccountedPrep ==
  ASSUME TypeOK, FInv, Accounted,
         \/ prep_openat_relative \/ prep_socket \/ prep_read_handle
         \/ prep_close_handle
  PROVE  Accounted'
<1>1. PrepStep
  <2>1. prep_openat \/ prep_create_socket \/ prep_read \/ prep_close
    BY DEF prep_openat_relative, prep_openat, prep_socket, prep_read_handle,
           prep_read, prep_close_handle, prep_close
  <2> QED  BY <2>1, PrepsArePrepSteps
<1>2. PICK op, g : Prepared(op, g)
  BY DEF prep_openat_relative, prep_socket, prep_read_handle,
         prep_close_handle
<1>3. UNCHANGED <<table, fd>>
  BY DEF prep_openat_relative, prep_socket, prep_read_handle,
         prep_close_handle
<1>4. CASE Keeps /\ pushed' = pushed
  <2>1. UNCHANGED <<handle, about>>
    BY <1>4 DEF prep_openat_relative, prep_socket, prep_read_handle,
                prep_close_handle, Prepared, mark_closed
  <2> QED  BY <1>3, <1>4, <2>1 DEF Accounted, Accounts, Keeps
<1>5. CASE Pushes /\ pushed' # pushed
  <2>1. about' = [about EXCEPT ![user_data_counter] = [op |-> op,
                                                       handle |-> g]]
    BY <1>2, <1>5 DEF Prepared
  <2>2. \A h \in Keys : Accounts(h) => Accounts(h)'
    BY <1>5, <2>1, AccountsPush
  <2>3. UNCHANGED ring
    BY <1>5 DEF Pushes
  <2>4. CASE UNCHANGED handle
    BY <1>3, <2>2, <2>3, <2>4 DEF Accounted
  <2>5. CASE prep_close_handle
    <3>1. PICK h \in Handles :
            /\ \/ Refuse("ValueError")
               \/ handle[h] = "open" /\ handle' = mark_closed(h)
            /\ Prepared("close", h)
      BY <2>5 DEF prep_close_handle, unwrap_file, unwrap_file_raises
    <3>2. ~Refuse("ValueError")
      BY <1>5 DEF Refuse, ghosts
    <3>3. handle' = [handle EXCEPT ![h] = "closed"]
      BY <1>5, <3>1, <3>2 DEF mark_closed
    <3>4. \A k \in Keys : k # h => handle'[k] = handle[k]
      BY <3>3 DEF FInv, HandleTypeOK
    <3>5. h \in Keys /\ user_data_counter \in Keys
      BY <1>5 DEF Handles, Pushes, TypeOK, Keys
    <3>6. about'[user_data_counter] = [op |-> "close", handle |-> h]
      BY <1>5, <3>1, <3>5 DEF Prepared, FInv, HandleTypeOK
    <3>7. Accounts(h)'
      BY <1>5, <3>5, <3>6 DEF Accounts, Pushes
    <3> QED  BY <1>3, <2>2, <2>3, <3>4, <3>7 DEF Accounted
  <2> QED
    BY <2>4, <2>5 DEF prep_openat_relative, prep_socket, prep_read_handle
<1> QED  BY <1>1, <1>4, <1>5, PrepSeen

\* The kernel.  A close that runs frees the descriptor, one that is cancelled
\* says so.
LEMMA AccountedKernel ==
  ASSUME TypeOK, IInv, FInv, Accounted, NEW e \in inflight, HandleKernel(e),
         e.fate # "mute"
  PROVE  Accounted'
<1> DEFINE u == e.ud
<1>1. /\ u \in InRing /\ InRing' = InRing \ {u} /\ UNCHANGED ring
      /\ UNCHANGED <<handle, about>>
  BY HandleKernelSeen DEF HandleKernel
<1>2. u \in Keys /\ fd[u] = NoFd
  BY <1>1 DEF FInv, Unexecuted
<1>3. ASSUME NEW h \in Keys, Accounts(h), Done \subseteq Done',
             about[u] # [op |-> "close", handle |-> h]
      PROVE  Accounts(h)'
  BY <1>1, <1>3 DEF Accounts
<1>4. CASE KernelCancel(e) /\ UNCHANGED <<table, fd>>
  <2>1. ring = "open" => Done' = Done \cup {<<u, -1>>}
    BY <1>4, CancelSeen
  <2>2. -1 \in Int /\ -1 < 0
    OBVIOUS
  <2>3. ASSUME NEW h \in Keys, ring = "open", Accounts(h)
        PROVE  Accounts(h)'
    <3>1. CASE about[u] = [op |-> "close", handle |-> h]
      BY <1>1, <1>2, <2>1, <2>2, <2>3, <3>1 DEF Accounts
    <3>2. CASE about[u] # [op |-> "close", handle |-> h]
      BY <1>3, <2>1, <2>3, <3>2
    <3> QED  BY <3>1, <3>2
  <2> QED  BY <1>1, <1>4, <2>3 DEF Accounted
<1>5. ASSUME KernelComplete(e), NEW ok \in Succeeded, Execute(u, ok)
      PROVE  Accounted'
  <2>1. Done \subseteq Done'
    BY <1>5, CompleteSeen
  <2> HIDE DEF u
  <2>2. CASE about[u].op # "close" /\ UNCHANGED <<table, fd>>
    <3>1. \A h \in Keys : about[u] # [op |-> "close", handle |-> h]
      BY <2>2
    <3> QED  BY <1>1, <1>3, <2>1, <2>2, <3>1 DEF Accounted
  <2>3. CASE about[u].op = "open" /\ Install(u)
    <3>1. PICK d \in Fds : /\ table[d] = NoFile
                           /\ table' = [table EXCEPT ![d] = u]
                           /\ fd' = [fd EXCEPT ![u] = d]
      BY <2>3 DEF Install
    <3>2. ASSUME NEW h \in Keys, handle[h] = "closed", table'[fd'[h]] = h
          PROVE  table[fd[h]] = h
      <4>1. h # u /\ fd[h] \in Fds
        BY <1>2, <3>2 DEF FInv, HandleHasFd, HandleTypeOK
      <4>2. fd'[h] = fd[h]
        BY <3>1, <4>1 DEF FInv, HandleTypeOK
      <4>3. table'[fd[h]] = IF fd[h] = d THEN u ELSE table[fd[h]]
        BY <3>1, <4>1 DEF FInv, HandleTypeOK
      <4> QED  BY <3>2, <4>1, <4>2, <4>3
    <3>3. \A h \in Keys : about[u] # [op |-> "close", handle |-> h]
      BY <2>3
    <3> QED  BY <1>1, <1>3, <2>1, <3>2, <3>3 DEF Accounted
  <2>4. CASE about[u].op = "close" /\ Free(fd[about[u].handle], ok)
    <3> DEFINE g == about[u].handle
    <3>1. /\ table' = [table EXCEPT ![fd[g]] = NoFile] /\ UNCHANGED fd
          /\ g \in Keys /\ fd[g] # NoFd
      BY <1>1, <2>4 DEF Free, FInv, CloseIsOwn
    <3> HIDE DEF g
    <3>2. fd[g] \in Fds
      BY <3>1 DEF FInv, HandleTypeOK
    <3>3. ASSUME NEW h \in Keys, handle[h] = "closed", table'[fd'[h]] = h
          PROVE  table[fd[h]] = h /\ h # g
      <4>1. fd[h] \in Fds
        BY <3>3 DEF FInv, HandleHasFd, HandleTypeOK
      <4>2. table'[fd[h]] = IF fd[h] = fd[g] THEN NoFile ELSE table[fd[h]]
        BY <3>1, <3>2, <4>1 DEF FInv, HandleTypeOK
      <4> QED  BY <3>1, <3>3, <4>2, Nones
    <3>4. \A h \in Keys : h # g => about[u] # [op |-> "close", handle |-> h]
      BY DEF g
    <3> QED  BY <1>1, <1>3, <2>1, <3>3, <3>4 DEF Accounted
  <2> QED  BY <1>5, <2>2, <2>3, <2>4 DEF Execute
<1> QED  BY <1>4, <1>5 DEF HandleKernel

\* A handle that says it is closed and whose file is still open has a close
\* in the ring or one that was reported as cancelled, provided that the client
\* puts no soft link on a SKIP_SUCCESS entry.
THEOREM ClosedAccountedFor ==
  ASSUME ~DropBusy, NoSilentChains
  PROVE  HandleSpec => []ClosedIsAccountedFor
<1>1. HandleInit => Accounted
  BY DEF HandleInit, Accounted
<1>2. ASSUME TypeOK, IInv, LInv, FInv, Accounted, [HandleNext]_allVars
      PROVE  Accounted'
  <2>1. CASE from_completion_event
    <3>1. \A h \in Keys : handle'[h] = "closed" => handle[h] = "closed"
      BY <1>2, <2>1 DEF from_completion_event, FInv, HandleTypeOK
    <3>2. UNCHANGED <<ring, InRing, Done, about, table, fd>>
      BY <2>1 DEF from_completion_event, vars, queues, InRing, Done, Pending,
                  Entries
    <3> QED  BY <1>2, <3>1, <3>2 DEF Accounted, Accounts
  <2>2. CASE FdHandle_close
    <3>1. PICK g \in Handles :
            /\ handle[g] = "open"
            /\ table' = [table EXCEPT ![fd[g]] = NoFile]
            /\ handle' = [handle EXCEPT ![g] = "closed"]
      BY <2>2 DEF FdHandle_close, CloseRuns, Finally
    <3>2. UNCHANGED <<ring, InRing, Done, about, fd>>
      BY <2>2 DEF FdHandle_close, vars, queues, InRing, Done, Pending, Entries
    <3>3. g \in Keys /\ fd[g] \in Fds
      BY <1>2, <3>1 DEF Handles, FInv, HandleHasFd, HandleTypeOK
    <3>4. ASSUME NEW h \in Keys, handle'[h] = "closed", table'[fd'[h]] = h
          PROVE  handle[h] = "closed" /\ table[fd[h]] = h
      <4>1. handle'[h] = IF h = g THEN "closed" ELSE handle[h]
        BY <1>2, <3>1, <3>3 DEF FInv, HandleTypeOK
      <4>2. fd[h] \in Fds
        BY <1>2, <3>3, <3>4, <4>1 DEF FInv, HandleHasFd, HandleTypeOK
      <4>3. table'[fd[h]] = IF fd[h] = fd[g] THEN NoFile ELSE table[fd[h]]
        BY <1>2, <3>1, <3>3, <4>2 DEF FInv, HandleTypeOK
      <4> QED  BY <3>2, <3>4, <4>1, <4>3, Nones
    <3> QED  BY <1>2, <3>2, <3>4 DEF Accounted, Accounts
  <2>3. CASE prep_openat_relative \/ prep_socket \/ prep_read_handle
               \/ prep_close_handle
    BY <1>2, <2>3, AccountedPrep
  <2>4. ASSUME Keeps, UNCHANGED handleVars
        PROVE  Accounted'
    BY <1>2, <2>4 DEF Keeps, handleVars, Accounted, Accounts
  <2>5. CASE /\ IoUring_submit \/ IoUring_get_completion_entries
                  \/ make_io_ring_exit
             /\ UNCHANGED handleVars
    BY <1>2, <2>4, <2>5, SubmitSeen, ReapSeen, CloseSeen
  <2>6. CASE \E e \in inflight : HandleKernel(e)
    <3>1. \A e \in inflight : e.fate # "mute"
      BY <1>2 DEF LInv, Answered, Pending
    <3> QED  BY <1>2, <2>6, <3>1, AccountedKernel
  <2>7. CASE UNCHANGED allVars
    <3>1. Keeps /\ UNCHANGED handleVars
      BY <2>7 DEF allVars, vars, queues, Keeps, InRing, Done, Pending, Entries
    <3> QED  BY <2>4, <3>1
  <2> QED
    BY <1>2, <2>1, <2>2, <2>3, <2>5, <2>6, <2>7 DEF HandleNext
<1>3. TypeOK /\ Accounted => ClosedIsAccountedFor
  BY AccountedIsProperty
<1> QED
  BY <1>1, <1>2, <1>3, HandleInvariance, HandleSpecIsSpec,
     ReapableInvariance, PTL DEF HandleSpec
-----------------------------------------------------------------------------
\* prep_openat is the only way a closed handle gets into the ring: a client
\* that opens nothing relative to a directory submits with open handles only.
THEOREM OnlyOpenUsed ==
  ASSUME ~DropBusy, "prep_openat" \notin Calls
  PROVE  HandleSpec => ClosedNotUsed
<1> DEFINE Used ==
      pushed' # pushed =>
        LET h == about'[user_data_counter].handle
        IN  h # NoHandle => handle[h] = "open"
<1>1. ASSUME TypeOK, FInv, [HandleNext]_allVars
      PROVE  Used
  <2> SUFFICES ASSUME pushed' # pushed
               PROVE  LET h == about'[user_data_counter].handle
                      IN  h # NoHandle => handle[h] = "open"
    OBVIOUS
  <2>1. ASSUME NEW op, NEW h, Prepared(op, h), user_data_counter < MaxUserData
        PROVE  about'[user_data_counter].handle = h
    <3>1. user_data_counter \in Keys
      BY <1>1, <2>1 DEF TypeOK, Keys
    <3> QED  BY <1>1, <2>1, <3>1 DEF Prepared, FInv, HandleTypeOK
  <2>2. ~Refuse("ValueError")
    BY DEF Refuse, ghosts
  <2>3. CASE prep_socket
    BY <2>1, <2>3 DEF prep_socket, prep_create_socket, Prepares
  <2>4. CASE prep_read_handle
    <3>1. PICK h \in Handles : handle[h] = "open" /\ Prepared("use", h)
      BY <2>2, <2>4 DEF prep_read_handle, unwrap_file, unwrap_file_raises
    <3> QED  BY <2>1, <2>4, <3>1 DEF prep_read_handle, Prepares
  <2>5. CASE prep_close_handle
    <3>1. PICK h \in Handles : handle[h] = "open" /\ Prepared("close", h)
      BY <2>2, <2>5 DEF prep_close_handle, unwrap_file, unwrap_file_raises
    <3> QED  BY <2>1, <2>5, <3>1 DEF prep_close_handle, Prepares
  <2>6. ~prep_openat_relative
    BY DEF prep_openat_relative, Prepares, Client
  <2>7. ~(from_completion_event \/ FdHandle_close \/ UNCHANGED allVars)
    BY DEF from_completion_event, FdHandle_close, allVars, vars, ghosts
  <2>8. ~(IoUring_submit \/ IoUring_get_completion_entries
            \/ make_io_ring_exit)
    BY DEF IoUring_submit, submit, IoUring_get_completion_entries,
           get_completion_entries, make_io_ring_exit, close, Refuse, ghosts
  <2>9. \A e \in inflight : ~HandleKernel(e)
    BY DEF HandleKernel, KernelComplete, KernelCancel, Finish, ghosts
  <2> QED
    BY <1>1, <2>3, <2>4, <2>5, <2>6, <2>7, <2>8, <2>9 DEF HandleNext
<1>2. [](TypeOK /\ FInv) /\ [][HandleNext]_allVars => ClosedNotUsed
  BY <1>1, PTL DEF ClosedNotUsed
<1> QED  BY <1>2, HandleInvariance, PTL DEF HandleSpec
=============================================================================

-------------------------- MODULE RingSteps_proofs --------------------------
(***************************************************************************)
(* The steps of TheIoRing by what they do to the operations: nothing, move *)
(* entries from the queue to the kernel, push one, finish one, reap,       *)
(* close, drop.  An invariant about operations and their memory is then    *)
(* proved once per kind of step, not once per method.  Here: what          *)
(* completions and events say about the memory of their operation, and     *)
(* that nothing is leaked.                                                 *)
(***************************************************************************)
EXTENDS TheIoRing_proofs

USE SizesAssumption

Fates == {"run", "cancel", "mute"}

\* The entries agree in all that was fixed when they were pushed.
Same(x, y) ==
  /\ x.ud = y.ud /\ x.data = y.data /\ x.len = y.len
  /\ x.link = y.link /\ x.skip = y.skip
  /\ x.seq = y.seq /\ x.after = y.after

\* S has the entries of T, perhaps in other places.
Carried(S, T) ==
  /\ \A x \in S : \E y \in T : Same(x, y) /\ x.fate = y.fate
  /\ \A y \in T : \E x \in S : Same(x, y)

\* The kernel takes k entries: the same entries are pending.
LEMMA TakeCarries ==
  ASSUME NEW q \in Seq(Entry), NEW fl \in SUBSET Entry, NEW k \in 0 .. Len(q)
  PROVE  /\ Carried(Entries(Rest(q, k)) \cup fl \cup Batch(q, k),
                    Entries(q) \cup fl)
         /\ Rest(q, k) \in Seq(Entry)
         /\ fl \cup Batch(q, k) \in SUBSET Entry
<1> DEFINE r == Rest(q, k)
           b == Batch(q, k)
           P(i) == IF i > 1 /\ q[i - 1].link # "none"
                   THEN q[i - 1].seq ELSE 0
           B(i) == [q[i] EXCEPT !.prev = P(i)]
<1>0. Len(q) \in Nat
  OBVIOUS
<1>1. /\ r \in Seq(Entry) /\ Len(r) = Len(q) - k
      /\ \A i \in 1 .. (Len(q) - k) : r[i] = q[i + k]
  <2> HIDE DEF r
  <2> QED  BY RestLemma DEF r
<1>2. b = {B(i) : i \in 1 .. k} /\ b \subseteq Entry
  BY BatchLemma DEF Batch
<1>3. ASSUME NEW i \in 1 .. k
      PROVE  Same(B(i), q[i]) /\ B(i).fate = q[i].fate
  <2>1. q[i] \in Entry
    OBVIOUS
  <2> QED  BY <2>1 DEF Entry, Same
<1> HIDE DEF r, b, B
<1>4. \A x \in Entries(r) : x \in Entries(q)
  BY <1>0, <1>1 DEF Entries
<1>5. \A x \in b : \E y \in Entries(q) : Same(x, y) /\ x.fate = y.fate
  BY <1>2, <1>3 DEF Entries
<1>6. ASSUME NEW y \in Entries(q)
      PROVE  \E x \in Entries(r) \cup b : Same(x, y)
  <2>1. PICK i \in 1 .. Len(q) : y = q[i]
    BY DEF Entries
  <2>2. CASE i \in 1 .. k
    BY <1>2, <1>3, <2>1, <2>2
  <2>3. CASE i \notin 1 .. k
    <3>1. i - k \in 1 .. Len(r) /\ r[i - k] = q[i]
      BY <1>0, <1>1, <2>3
    <3> QED  BY <2>1, <3>1 DEF Entries, Same
  <2> QED  BY <2>2, <2>3
<1>7. \A x : Same(x, x)
  BY DEF Same
<1>8. Carried(Entries(r) \cup fl \cup b, Entries(q) \cup fl)
  BY <1>4, <1>5, <1>6, <1>7 DEF Carried
<1> QED  BY <1>1, <1>2, <1>8 DEF r, b

\* The entries of a queue with one more.
LEMMA AppendEntries ==
  ASSUME NEW q \in Seq(Entry), NEW e \in Entry
  PROVE  Entries(Append(q, e)) = Entries(q) \cup {e}
<1>1. /\ Len(q) \in Nat /\ Len(Append(q, e)) = Len(q) + 1
      /\ \A i \in 1 .. Len(q) : Append(q, e)[i] = q[i]
      /\ Append(q, e)[Len(q) + 1] = e
  OBVIOUS
<1>2. 1 .. (Len(q) + 1) = (1 .. Len(q)) \cup {Len(q) + 1}
  BY <1>1
<1> DEFINE p == Append(q, e)
<1> HIDE DEF p
<1> QED  BY <1>1, <1>2 DEF Entries, p

\* Carrying twice.
LEMMA CarriedTwice ==
  ASSUME NEW S, NEW T, NEW U, Carried(S, T), Carried(T, U)
  PROVE  Carried(S, U)
  BY DEF Carried, Same
-----------------------------------------------------------------------------
(***************************************************************************)
(* The kinds of steps.                                                     *)
(***************************************************************************)
Quiet ==
  /\ user_data_counter' \in {user_data_counter, user_data_counter + 1}
  /\ UNCHANGED <<ring, sq, inflight, cqes, events, owned_data, pushed>>

\* Entries go to the kernel; a timed wait adds its timeout.
Moving ==
  /\ ring = "open"
  /\ UNCHANGED <<ring, cqes, events, owned_data, user_data_counter>>
  /\ \/ Carried(Pending', Pending)
     \/ Carried(Pending', Pending \cup {TimeoutEntry})

Pushing ==
  /\ ring = "open"
  /\ user_data_counter < MaxUserData
  /\ user_data_counter' = user_data_counter + 1
  /\ pushed' = pushed + 1
  /\ UNCHANGED <<ring, cqes, events>>
  /\ \E data \in Data, len \in Nat, flags \in FlagSets :
       LET e == NewEntry(user_data_counter, data, len, flags) IN
       /\ ~SkipRefused(data, flags)
       /\ add_owned(e)
       /\ Carried(Pending', Pending \cup {e})

Finishing(e) ==
  \E fate \in Fates, result \in Int :
    /\ HandsOn(e, fate)
    /\ inflight' = Without(e, fate)
    /\ UNCHANGED <<ring, sq, events, owned_data, user_data_counter>>
    /\ \/ /\ ring = "open"
          /\ cqes' = Append(cqes, [ud |-> e.ud, result |-> result,
                                   data |-> e.data, len |-> e.len])
       \/ /\ ring = "open" => e.skip \/ e.fate = "mute"
          /\ UNCHANGED cqes

Reaping ==
  /\ ring = "open"
  /\ get_completion_entries
  /\ UNCHANGED <<ring, sq, inflight, user_data_counter>>

Closing ==
  /\ ring = "open" /\ ring' = "closed"
  /\ sq' = <<>> /\ cqes' = <<>>
  /\ UNCHANGED <<inflight, owned_data, events, user_data_counter>>

\* autosubmit pushes, or changes nothing.
LEMMA AutosubmitKinds ==
  ASSUME TypeOK, PrepStep
  PROVE  Quiet \/ Pushing
<1>1. CASE \E r : Refuse(r)
  BY <1>1 DEF PrepStep, Refuse, queues, ghosts, Quiet
<1>2. ASSUME NEW data \in Data, NEW len \in Nat, NEW flags \in FlagSets,
             ~SkipRefused(data, flags),
             user_data_counter' = user_data_counter + 1,
             autosubmit(NewEntry(user_data_counter, data, len, flags))
      PROVE  Quiet \/ Pushing
  <2> DEFINE e == NewEntry(user_data_counter, data, len, flags)
  <2>1. e \in Entry
    <3>1. user_data_counter \in UserData
      BY DEF PrepStep, TypeOK, UserData
    <3> QED  BY <3>1, NewEntryType, ArgumentsAssumption
  <2>2. sq \in Seq(Entry) /\ inflight \in SUBSET Entry
    BY DEF TypeOK
  <2>3. autosubmit(e)
    BY <1>2
  <2>4. ASSUME NEW r \in Seq(Entry), NEW fl \in SUBSET Entry,
               Carried(Entries(r) \cup fl, Pending), ring = "open",
               sq' = Append(r, e), inflight' = fl, UNCHANGED cqes, Accept(e)
        PROVE  Pushing
    <3> HIDE DEF e
    <3>1. Pending' = Entries(r) \cup {e} \cup fl
      BY <2>1, <2>4, AppendEntries DEF Pending, Entries
    <3>2. Carried(Pending', Pending \cup {e})
      BY <2>4, <3>1 DEF Carried, Same
    <3>3. add_owned(e) /\ UNCHANGED <<ring, events>> /\ pushed' = pushed + 1
      BY <2>4 DEF Accept, e, NewEntry
    <3>4. user_data_counter < MaxUserData
      BY DEF PrepStep
    <3> QED  BY <1>2, <2>4, <3>2, <3>3, <3>4 DEF Pushing, e
  <2> HIDE DEF e
  <2>5. CASE \E r : Refuse(r)
    BY <1>1, <2>5
  <2>6. CASE /\ ring = "open"
             /\ sq' = Append(sq, e)
             /\ UNCHANGED <<inflight, cqes, visible, poller, eventfd>>
             /\ Accept(e)
    <3>1. Carried(Entries(sq) \cup inflight, Pending)
      BY DEF Carried, Pending, Same
    <3> QED  BY <2>2, <2>4, <2>6, <3>1
  <2>7. CASE /\ Enter(sq, {}, 0)
             /\ UNCHANGED <<ring, owned_data, ghosts, call, events>>
    BY <1>2, <2>7 DEF Enter, Quiet, ghosts
  <2>8. ASSUME NEW k \in Consumed(sq), ring = "open", Accept(e),
               Enter(Append(Rest(sq, k), e), Batch(sq, k), 0)
        PROVE  Pushing
    <3>1. k \in 0 .. Len(sq)
      BY <2>2, ConsumedLemma
    <3>2. /\ Carried(Entries(Rest(sq, k)) \cup inflight \cup Batch(sq, k),
                     Pending)
          /\ Rest(sq, k) \in Seq(Entry)
          /\ inflight \cup Batch(sq, k) \in SUBSET Entry
      BY <2>2, <3>1, TakeCarries DEF Pending
    <3>3. Entries(Rest(sq, k)) \cup inflight \cup Batch(sq, k)
            = Entries(Rest(sq, k)) \cup (inflight \cup Batch(sq, k))
      OBVIOUS
    <3> QED  BY <2>4, <2>8, <3>2, <3>3 DEF Enter
  <2> QED  BY <2>3, <2>5, <2>6, <2>7, <2>8 DEF autosubmit
<1> QED  BY <1>1, <1>2 DEF PrepStep

\* submit and wait move entries, or change nothing.
LEMMA SubmitKinds ==
  ASSUME TypeOK, UNCHANGED user_data_counter,
         submit \/ \E want \in Wants : wait(want)
  PROVE  Quiet \/ (Moving /\ Carried(Pending', Pending))
<1>1. CASE \E r : Refuse(r)
  BY <1>1 DEF Refuse, queues, ghosts, Quiet
<1>2. ASSUME NEW k \in Consumed(sq), NEW want, ring = "open",
             Enter(Rest(sq, k), Batch(sq, k), want),
             UNCHANGED <<ring, owned_data, events>>
      PROVE  Moving /\ Carried(Pending', Pending)
  <2>1. sq \in Seq(Entry) /\ inflight \in SUBSET Entry
    BY DEF TypeOK
  <2>2. k \in 0 .. Len(sq)
    BY <2>1, ConsumedLemma
  <2>3. Carried(Entries(Rest(sq, k)) \cup inflight \cup Batch(sq, k), Pending)
    BY <2>1, <2>2, TakeCarries DEF Pending
  <2>4. Pending' = Entries(Rest(sq, k)) \cup inflight \cup Batch(sq, k)
    BY <1>2 DEF Pending, Entries, Enter
  <2> QED  BY <1>2, <2>3, <2>4 DEF Moving, Enter
<1> QED  BY <1>1, <1>2 DEF submit, wait

\* wait_with_timeout moves entries and its own timeout, or changes nothing.
LEMMA TimeoutKinds ==
  ASSUME TypeOK, UNCHANGED user_data_counter, wait_with_timeout
  PROVE  Quiet \/ Moving
<1>1. CASE \E r : Refuse(r)
  BY <1>1 DEF Refuse, queues, ghosts, Quiet
<1>2. ASSUME NEW k \in Purged, ring = "open",
             UNCHANGED <<ring, owned_data, events>>,
             \/ Enter(Rest(sq, k), Batch(sq, k), 0)
             \/ Enter(Append(Rest(sq, k), TimeoutEntry), Batch(sq, k), 0)
             \/ \E j \in Awaited(Append(Rest(sq, k), TimeoutEntry)) :
                  Enter(Rest(Append(Rest(sq, k), TimeoutEntry), j),
                        Batch(sq, k)
                          \cup Batch(Append(Rest(sq, k), TimeoutEntry), j), 1)
      PROVE  Moving
  <2> DEFINE r == Rest(sq, k)
             fl == inflight \cup Batch(sq, k)
             q == Append(r, TimeoutEntry)
  <2>1. sq \in Seq(Entry) /\ inflight \in SUBSET Entry
    BY DEF TypeOK
  <2>2. k \in 0 .. Len(sq)
    BY <2>1, ConsumedLemma DEF Purged
  <2>3. /\ Carried(Entries(r) \cup fl, Pending)
        /\ r \in Seq(Entry) /\ fl \in SUBSET Entry
    <3>1. Entries(r) \cup fl = Entries(r) \cup inflight \cup Batch(sq, k)
      OBVIOUS
    <3> QED  BY <2>1, <2>2, <3>1, TakeCarries DEF Pending
  <2>4. TimeoutEntry \in Entry
    BY TimeoutEntryType
  <2> HIDE DEF r, fl
  <2>5. q \in Seq(Entry) /\ Entries(q) = Entries(r) \cup {TimeoutEntry}
    BY <2>3, <2>4, AppendEntries
  <2>6. Carried(Entries(q) \cup fl, Pending \cup {TimeoutEntry})
    BY <2>3, <2>5 DEF Carried, Same
  <2> HIDE DEF q
  <2>7. CASE Enter(r, Batch(sq, k), 0)
    <3>1. Pending' = Entries(r) \cup fl
      BY <2>7 DEF Pending, Entries, Enter, fl
    <3> QED  BY <1>2, <2>3, <2>7, <3>1 DEF Moving, Enter
  <2>8. CASE Enter(q, Batch(sq, k), 0)
    <3>1. Pending' = Entries(q) \cup fl
      BY <2>8 DEF Pending, Entries, Enter, fl
    <3> QED  BY <1>2, <2>6, <2>8, <3>1 DEF Moving, Enter
  <2>9. ASSUME NEW j \in Awaited(q),
               Enter(Rest(q, j), Batch(sq, k) \cup Batch(q, j), 1)
        PROVE  Moving
    <3>1. j \in 0 .. Len(q)
      BY <2>5, ConsumedLemma DEF Awaited
    <3>2. Carried(Entries(Rest(q, j)) \cup fl \cup Batch(q, j),
                  Entries(q) \cup fl)
      BY <2>3, <2>5, <3>1, TakeCarries
    <3>3. Pending' = Entries(Rest(q, j)) \cup fl \cup Batch(q, j)
      BY <2>9 DEF Pending, Entries, Enter, fl
    <3>4. Carried(Pending', Pending \cup {TimeoutEntry})
      BY <2>6, <3>2, <3>3, CarriedTwice
    <3> QED  BY <1>2, <2>9, <3>4 DEF Moving, Enter
  <2> QED  BY <1>2, <2>7, <2>8, <2>9 DEF q, r
<1> QED  BY <1>1, <1>2 DEF wait_with_timeout

\* A step of the kernel on an operation finishes it.
LEMMA KernelKinds ==
  ASSUME TypeOK, NEW e \in inflight, Kernel(e)
  PROVE  Finishing(e)
<1>1. PICK fate \in Fates, result \in Int :
        /\ HandsOn(e, fate)
        /\ \/ Finish(Without(e, fate), Completion(e, result))
           \/ /\ Finish(Without(e, fate), <<>>)
              /\ e.skip \/ e.fate = "mute"
  BY KernelIsFinish DEF Fates
<1> DEFINE x == [ud |-> e.ud, result |-> result, data |-> e.data,
                 len |-> e.len]
<1>2. Completion(e, result) = <<x>> /\ Completion(e, result) # <<>>
  BY DEF Completion
<1>3. /\ inflight' = Without(e, fate)
      /\ UNCHANGED <<ring, sq, events, owned_data, user_data_counter>>
  BY <1>1 DEF Finish
<1>4. x \in Cqe /\ cqes \in Seq(Cqe)
  BY DEF TypeOK, Entry, Cqe
<1> HIDE DEF x
<1>5. cqes \o <<x>> = Append(cqes, x)
  BY <1>4
<1>6. CASE Finish(Without(e, fate), Completion(e, result))
  <2>1. CASE ring = "open"
    <3>1. cqes' = Append(cqes, x)
      BY <1>2, <1>5, <1>6, <2>1 DEF Finish
    <3> QED  BY <1>1, <1>3, <2>1, <3>1 DEF Finishing, x
  <2>2. CASE ring # "open"
    BY <1>1, <1>3, <1>6, <2>2 DEF Finishing, Finish
  <2> QED  BY <2>1, <2>2
<1>7. CASE Finish(Without(e, fate), <<>>) /\ (e.skip \/ e.fate = "mute")
  BY <1>1, <1>3, <1>7 DEF Finishing, Finish
<1> QED  BY <1>1, <1>6, <1>7

\* Every step but a timed wait is of one of the kinds, and the entries that
\* move are those that were pending.
LEMMA UntimedKinds ==
  ASSUME TypeOK, [Next]_vars, ~IoUring_submit_and_wait_with_timeout
  PROVE  \/ Quiet \/ (Moving /\ Carried(Pending', Pending))
         \/ Pushing \/ Reaping \/ Closing \/ Drop
         \/ \E e \in inflight : Finishing(e)
<1>1. CASE prep_openat \/ prep_close \/ prep_read \/ prep_write
             \/ prep_create_socket \/ prep_connect_v4 \/ prep_connect_v6
             \/ prep_recv \/ prep_send
  BY <1>1, PrepsArePrepSteps, AutosubmitKinds
<1>2. CASE IoUring_submit \/ IoUring_submit_and_wait
  BY <1>2, SubmitKinds DEF IoUring_submit, IoUring_submit_and_wait
<1>3. CASE IoUring_get_completion_entries
  BY <1>3 DEF IoUring_get_completion_entries, get_completion_entries,
              Reaping, Quiet, Refuse, queues, ghosts
<1>4. CASE IoUring_register_eventfd
  BY <1>4 DEF IoUring_register_eventfd, register_eventfd, Refuse, queues,
              ghosts, Quiet
<1>5. CASE make_io_ring_exit
  BY <1>5 DEF make_io_ring_exit, close, Closing
<1>6. CASE ReadEventfd \/ WaitReturn \/ SqPollSleep \/ UNCHANGED vars
  BY <1>6 DEF ReadEventfd, WaitReturn, SqPollSleep, vars, queues, ghosts,
              Quiet
<1>7. CASE \E e \in inflight : Kernel(e)
  BY <1>7, KernelKinds
<1>8. CASE SqPollConsume
  <2>1. PICK k \in 1 .. Len(sq) : /\ sq' = Rest(sq, k)
                                  /\ inflight' = inflight \cup Batch(sq, k)
    BY <1>8 DEF SqPollConsume
  <2>2. k \in 0 .. Len(sq) /\ sq \in Seq(Entry) /\ inflight \in SUBSET Entry
    BY DEF TypeOK
  <2>3. Carried(Entries(Rest(sq, k)) \cup inflight \cup Batch(sq, k), Pending)
    BY <2>2, TakeCarries DEF Pending
  <2>4. Pending' = Entries(Rest(sq, k)) \cup inflight \cup Batch(sq, k)
    BY <2>1 DEF Pending, Entries
  <2> QED  BY <1>8, <2>3, <2>4 DEF Moving, SqPollConsume
<1> QED
  BY <1>1, <1>2, <1>3, <1>4, <1>5, <1>6, <1>7, <1>8 DEF Next

\* Every step is of one of the kinds.
LEMMA StepKinds ==
  ASSUME TypeOK, [Next]_vars
  PROVE  \/ Quiet \/ Moving \/ Pushing \/ Reaping \/ Closing \/ Drop
         \/ \E e \in inflight : Finishing(e)
<1>1. CASE IoUring_submit_and_wait_with_timeout
  BY <1>1, TimeoutKinds DEF IoUring_submit_and_wait_with_timeout
<1> QED  BY <1>1, UntimedKinds
-----------------------------------------------------------------------------
(***************************************************************************)
(* What is stored under a user data value: the memory of the operation     *)
(* that has it, from the push until its completion is reaped; nothing      *)
(* under values the counter has not reached, the timeouts' one among them. *)
(***************************************************************************)
Describes(x, own) ==
  own[x.ud] = IF x.data \in OwnedKinds
              THEN [data |-> x.data, len |-> x.len] ELSE NoData
Marked(x) == x.data = "timespec" <=> ~IsUser(x.ud)

Fresh(own, n) == \A u \in UserData : u >= n => own[u] = NoData

HInv ==
  /\ \A e \in Pending : Describes(e, owned_data)
  /\ \A i \in 1 .. Len(cqes) : Describes(cqes[i], owned_data)
                                 /\ Marked(cqes[i])
  /\ Fresh(owned_data, user_data_counter)
  /\ \A ev \in events : Marked(ev)
  /\ EventBuffers

\* IInv in terms of the sets: the user data of what is pending, completed
\* and reaped.
LEMMA PlacedSets ==
  ASSUME TypeOK, IInv
  PROVE  /\ \A e \in Pending : e \in Entry /\ Known(e, user_data_counter)
         /\ \A i \in 1 .. Len(cqes) :
              /\ cqes[i] \in Cqe
              /\ Drawn(cqes[i].ud, user_data_counter)
              /\ IsUser(cqes[i].ud) => \A e \in Pending : e.ud # cqes[i].ud
  BY DEF TypeOK, IInv, Placed, Numbered, DistinctDone, Absent, Pending, Entries

\* What is carried is described as before.
LEMMA CarriedDescribes ==
  ASSUME NEW S, NEW T, NEW own, Carried(S, T), \A y \in T : Describes(y, own)
  PROVE  \A x \in S : Describes(x, own)
<1> TAKE x \in S
<1>1. PICK y \in T : Same(x, y)
  BY DEF Carried
<1>2. Describes(y, own)
  OBVIOUS
<1> QED  BY <1>1, <1>2 DEF Same, Describes

\* A step that leaves the operations alone keeps HInv.
LEMMA HoldsQuiet ==
  ASSUME TypeOK, IInv, HInv, Quiet
  PROVE  HInv'
<1>1. Fresh(owned_data, user_data_counter + 1)
  BY DEF HInv, Fresh, TypeOK, UserData
<1> QED  BY <1>1 DEF HInv, Quiet, Pending, Entries, EventBuffers, Fresh

\* Moving entries keeps HInv.
LEMMA HoldsMoving ==
  ASSUME TypeOK, IInv, HInv, Moving
  PROVE  HInv'
<1>1. Describes(TimeoutEntry, owned_data)
  <2>1. TimeoutUserData \in UserData /\ TimeoutUserData >= user_data_counter
    BY TimeoutUserDataLemma DEF TypeOK, TimeoutUserData
  <2> QED  BY <2>1 DEF HInv, Fresh, Describes, TimeoutEntry, OwnedKinds
<1>2. \A e \in Pending' : Describes(e, owned_data)
  BY <1>1, CarriedDescribes DEF HInv, Moving
<1>3. \A e \in Pending' : Describes(e, owned_data')
  BY <1>2 DEF Moving
<1> QED  BY <1>3 DEF HInv, Moving, EventBuffers

\* Pushing an entry and storing its memory keeps HInv.
LEMMA HoldsPushing ==
  ASSUME TypeOK, IInv, HInv, Pushing
  PROVE  HInv'
<1>1. PICK data \in Data, len \in Nat, flags \in FlagSets :
        /\ add_owned(NewEntry(user_data_counter, data, len, flags))
        /\ Carried(Pending', Pending
                     \cup {NewEntry(user_data_counter, data, len, flags)})
  BY DEF Pushing
<1> DEFINE e == NewEntry(user_data_counter, data, len, flags)
           n == user_data_counter
<1>2. e.ud = n /\ e.data = data /\ e.len = len
  BY DEF NewEntry
<1>3. n \in UserData /\ n < MaxUserData /\ n \in Nat /\ IsUser(n)
  BY DEF TypeOK, Pushing, UserData, IsUser, TimeoutUserData
<1> HIDE DEF e
<1>4. /\ Describes(e, owned_data')
      /\ \A u \in UserData : u # n => owned_data'[u] = owned_data[u]
  <2>1. CASE data = "none"
    <3>1. owned_data' = owned_data /\ owned_data[n] = NoData
      BY <1>1, <1>2, <1>3, <2>1 DEF add_owned, HInv, Fresh, e
    <3> QED  BY <1>2, <2>1, <3>1 DEF Describes, OwnedKinds
  <2>2. CASE data # "none"
    <3>1. owned_data' = [owned_data EXCEPT ![n] = [data |-> data, len |-> len]]
      BY <1>1, <1>2, <2>2 DEF add_owned, e
    <3>2. owned_data \in [UserData -> OwnedData]
      BY DEF TypeOK
    <3>3. data \in OwnedKinds
      BY <2>2 DEF Data
    <3> QED  BY <1>2, <1>3, <3>1, <3>2, <3>3 DEF Describes
  <2> QED  BY <2>1, <2>2
<1>5. ASSUME NEW x, x.ud \in UserData, x.ud # n, Describes(x, owned_data)
      PROVE  Describes(x, owned_data')
  BY <1>4, <1>5 DEF Describes
<1>6. \A x \in Pending : x.ud \in UserData /\ x.ud # n
  BY <1>3, PlacedSets DEF Known, Entry, IsUser, UserData
<1>7. \A i \in 1 .. Len(cqes) : cqes[i].ud \in UserData /\ cqes[i].ud # n
  BY <1>3, PlacedSets DEF Drawn, Cqe, IsUser, UserData
<1>8. \A x \in Pending \cup {e} : Describes(x, owned_data')
  BY <1>4, <1>5, <1>6 DEF HInv
<1>9. \A x \in Pending' : Describes(x, owned_data')
  BY <1>1, <1>8, CarriedDescribes DEF e
<1>10. \A i \in 1 .. Len(cqes) : Describes(cqes[i], owned_data')
  BY <1>5, <1>7 DEF HInv
<1>11. Fresh(owned_data', n + 1)
  BY <1>3, <1>4 DEF HInv, Fresh, UserData
<1> QED  BY <1>9, <1>10, <1>11 DEF HInv, Pushing, EventBuffers

\* Finishing an operation leaves the others, up to the fate of one of them.
LEMMA WithoutSame ==
  ASSUME TypeOK, NEW e \in inflight, NEW fate \in Fates
  PROVE  /\ \A f \in Without(e, fate) : \E g \in inflight \ {e} :
              Same(f, g) /\ f.fate \in {g.fate, fate}
         /\ \A g \in inflight \ {e} : \E f \in Without(e, fate) : Same(f, g)
<1> DEFINE F(f) == IF f.prev = e.seq THEN [f EXCEPT !.fate = fate] ELSE f
<1>1. Without(e, fate) = {F(f) : f \in inflight \ {e}}
  BY DEF Without
<1>2. ASSUME NEW g \in inflight
      PROVE  Same(F(g), g) /\ F(g).fate \in {g.fate, fate}
  <2>1. g \in Entry
    BY DEF TypeOK
  <2> QED  BY <2>1 DEF Entry, Same
<1> HIDE DEF F
<1> QED  BY <1>1, <1>2

\* The queue of completions with one more.
LEMMA AppendCqe ==
  ASSUME NEW c \in Seq(Cqe), NEW x \in Cqe
  PROVE  /\ Len(Append(c, x)) = Len(c) + 1 /\ Len(c) \in Nat
         /\ \A i \in 1 .. Len(Append(c, x)) :
              \/ i \in 1 .. Len(c) /\ Append(c, x)[i] = c[i]
              \/ i = Len(c) + 1 /\ Append(c, x)[i] = x
  BY AppendLemma

\* Finishing an operation keeps HInv: its completion describes what it did.
LEMMA HoldsFinishing ==
  ASSUME TypeOK, IInv, HInv, NEW e \in inflight, Finishing(e)
  PROVE  HInv'
<1>1. PICK fate \in Fates, result \in Int :
        /\ inflight' = Without(e, fate)
        /\ \/ cqes' = Append(cqes, [ud |-> e.ud, result |-> result,
                                    data |-> e.data, len |-> e.len])
           \/ UNCHANGED cqes
  BY DEF Finishing
<1>2. UNCHANGED <<ring, sq, events, owned_data, user_data_counter>>
  BY DEF Finishing
<1>3. \A x \in Pending' : \E y \in Pending : Same(x, y)
  BY <1>1, <1>2, WithoutSame DEF Pending, Entries, Same
<1>4. ASSUME NEW x \in Pending'
      PROVE  Describes(x, owned_data)
  <2>1. PICK y \in Pending : Same(x, y)
    BY <1>3
  <2>2. Describes(y, owned_data)
    BY DEF HInv
  <2> QED  BY <2>1, <2>2 DEF Same, Describes
<1>5. \A i \in 1 .. Len(cqes') : Describes(cqes'[i], owned_data)
                                   /\ Marked(cqes'[i])
  <2>1. CASE UNCHANGED cqes
    BY <2>1 DEF HInv
  <2>2. CASE cqes' = Append(cqes, [ud |-> e.ud, result |-> result,
                                   data |-> e.data, len |-> e.len])
    <3> DEFINE x == [ud |-> e.ud, result |-> result,
                     data |-> e.data, len |-> e.len]
    <3>1. e \in Pending /\ e \in Entry /\ Known(e, user_data_counter)
      BY PlacedSets DEF Pending
    <3>2. x \in Cqe /\ cqes \in Seq(Cqe)
      BY <3>1 DEF Cqe, Entry, TypeOK
    <3>3. Describes(x, owned_data) /\ Marked(x)
      BY <3>1 DEF HInv, Describes, Marked, Known
    <3> HIDE DEF x
    <3>4. \A i \in 1 .. Len(cqes') :
            (i \in 1 .. Len(cqes) /\ cqes'[i] = cqes[i]) \/ cqes'[i] = x
      BY <2>2, <3>2, AppendCqe DEF x
    <3> QED  BY <3>3, <3>4 DEF HInv
  <2> QED  BY <1>1, <2>1, <2>2
<1> QED  BY <1>2, <1>4, <1>5 DEF HInv, EventBuffers

\* Nothing is stored for the timeouts, and a reaped operation's memory has not
\* been removed by an earlier one.
LEMMA RemovedOwn ==
  ASSUME TypeOK, IInv, HInv
  PROVE  /\ \A u \in UserData : ~IsUser(u) => owned_data[u] = NoData
         /\ \A i \in 1 .. visible : Removed(i) = owned_data[cqes[i].ud]
<1>1. \A u \in UserData : ~IsUser(u) => owned_data[u] = NoData
  BY TimeoutUserDataLemma DEF HInv, Fresh, TypeOK, IsUser, UserData
<1>2. DistinctReaped(cqes, events) /\ visible \in 0 .. Len(cqes)
        /\ Len(cqes) \in Nat
  BY DEF IInv, Placed, TypeOK
<1>3. ASSUME NEW i \in 1 .. visible
      PROVE  Removed(i) = owned_data[cqes[i].ud]
  <2>1. i \in 1 .. Len(cqes)
    BY <1>2
  <2>2. cqes[i].ud \in UserData
    BY <2>1, PlacedSets DEF Cqe
  <2>3. CASE IsUser(cqes[i].ud)
    <3>1. ~\E j \in 1 .. (i - 1) : cqes[j].ud = cqes[i].ud
      BY <1>2, <2>1, <2>3 DEF DistinctReaped
    <3> QED  BY <3>1 DEF Removed
  <2>4. CASE ~IsUser(cqes[i].ud)
    BY <1>1, <2>2, <2>4 DEF Removed
  <2> QED  BY <2>3, <2>4
<1> QED  BY <1>1, <1>3

\* Reaping: each event is about the memory of its own operation, and nobody
\* else's memory is freed.
LEMMA HoldsReaping ==
  ASSUME TypeOK, IInv, HInv, Reaping
  PROVE  HInv'
<1> DEFINE c == Rest(cqes, visible)
           own == [u \in UserData |->
                     IF \E i \in 1 .. visible : cqes[i].ud = u THEN NoData
                     ELSE owned_data[u]]
<1>1. /\ events' = events \cup {Event(i) : i \in 1 .. visible}
      /\ owned_data' = own /\ cqes' = c
      /\ UNCHANGED <<sq, inflight, user_data_counter>>
  BY DEF Reaping, get_completion_entries
<1>2. /\ cqes \in Seq(Cqe) /\ visible \in 0 .. Len(cqes)
      /\ Len(cqes) \in Nat
  BY DEF TypeOK
<1>3. \A i \in 1 .. Len(c) : /\ i + visible \in 1 .. Len(cqes)
                             /\ i + visible > visible
                             /\ c[i] = cqes[i + visible]
  <2>1. /\ Len(c) = Len(cqes) - visible
        /\ \A i \in 1 .. (Len(cqes) - visible) : c[i] = cqes[i + visible]
    BY <1>2, RestLemma
  <2> HIDE DEF c
  <2> QED  BY <1>2, <2>1
<1>4. \A u \in UserData : ~IsUser(u) => owned_data[u] = NoData
  BY RemovedOwn
<1>5. DistinctReaped(cqes, events)
  BY DEF IInv, Placed
<1>6. ASSUME NEW x, x.ud \in UserData, Describes(x, owned_data),
             IsUser(x.ud) => \A i \in 1 .. visible : cqes[i].ud # x.ud
      PROVE  Describes(x, own)
  <2>1. CASE IsUser(x.ud)
    <3>1. own[x.ud] = owned_data[x.ud]
      BY <1>6, <2>1
    <3> QED  BY <1>6, <3>1 DEF Describes
  <2>2. CASE ~IsUser(x.ud)
    <3>1. own[x.ud] = NoData /\ owned_data[x.ud] = NoData
      BY <1>4, <1>6, <2>2
    <3> QED  BY <1>6, <3>1 DEF Describes
  <2> QED  BY <2>1, <2>2
<1> HIDE DEF c
<1>7. \A e \in Pending : Describes(e, own)
  <2> TAKE e \in Pending
  <2>1. e.ud \in UserData
    BY PlacedSets DEF Entry
  <2>2. IsUser(e.ud) => \A i \in 1 .. visible : cqes[i].ud # e.ud
    BY <1>2, PlacedSets
  <2>3. Describes(e, owned_data)
    BY DEF HInv
  <2> QED  BY <1>6, <2>1, <2>2, <2>3
<1>8. \A i \in 1 .. Len(c) : Describes(c[i], own) /\ Marked(c[i])
  <2> TAKE i \in 1 .. Len(c)
  <2>1. /\ i + visible \in 1 .. Len(cqes) /\ i + visible > visible
        /\ c[i] = cqes[i + visible]
    BY <1>3
  <2>2. c[i].ud \in UserData
    BY <2>1, PlacedSets DEF Cqe
  <2>3. IsUser(c[i].ud) => \A j \in 1 .. visible : cqes[j].ud # c[i].ud
    BY <1>2, <1>5, <2>1 DEF DistinctReaped
  <2>4. Describes(c[i], owned_data) /\ Marked(c[i])
    BY <2>1 DEF HInv
  <2> QED  BY <1>6, <2>2, <2>3, <2>4
<1>9. Fresh(own, user_data_counter)
  BY DEF HInv, Fresh
<1>10. ASSUME NEW i \in 1 .. visible
       PROVE  /\ Marked(Event(i))
              /\ Event(i).buffer = IF Event(i).data # "Buffer" THEN NoBuffer
                                   ELSE IF Event(i).result < 0
                                        THEN Event(i).len ELSE Event(i).result
  <2>1. i \in 1 .. Len(cqes)
    BY <1>2
  <2>2. /\ cqes[i].ud \in UserData /\ cqes[i].result \in Int
        /\ cqes[i].len \in Nat
    BY <2>1, PlacedSets DEF Cqe
  <2>3. Describes(cqes[i], owned_data) /\ Marked(cqes[i])
    BY <2>1 DEF HInv
  <2>4. Removed(i) = owned_data[cqes[i].ud]
    BY RemovedOwn
  <2>5. /\ Event(i).ud = cqes[i].ud /\ Event(i).data = cqes[i].data
        /\ Event(i).result = cqes[i].result /\ Event(i).len = cqes[i].len
        /\ Event(i).buffer = event_buffer(Removed(i), cqes[i].result)
    BY DEF Event
  <2>6. CASE cqes[i].data = "Buffer"
    <3>1. Removed(i).data = "Buffer" /\ Removed(i).len = cqes[i].len
      BY <2>3, <2>4, <2>6 DEF Describes, OwnedKinds
    <3>2. Event(i).buffer = IF cqes[i].result < 0 THEN cqes[i].len
                            ELSE cqes[i].result
      BY <2>2, <2>5, <3>1 DEF event_buffer
    <3> QED  BY <2>3, <2>5, <2>6, <3>2 DEF Marked
  <2>7. CASE cqes[i].data # "Buffer"
    <3>1. Removed(i).data # "Buffer"
      BY <2>3, <2>4, <2>7 DEF Describes, NoData
    <3> QED  BY <2>3, <2>5, <2>7, <3>1 DEF Marked, event_buffer
  <2> QED  BY <2>6, <2>7
<1> HIDE DEF own
<1>11. (\A ev \in events' : Marked(ev)) /\ EventBuffers'
  BY <1>1, <1>10 DEF HInv, EventBuffers
<1>12. /\ \A e \in Pending' : Describes(e, owned_data')
       /\ \A i \in 1 .. Len(cqes') : Describes(cqes'[i], owned_data')
                                       /\ Marked(cqes'[i])
       /\ Fresh(owned_data', user_data_counter')
  BY <1>1, <1>7, <1>8, <1>9 DEF Pending, Entries
<1> QED  BY <1>11, <1>12 DEF HInv

\* Closing the ring and dropping the object keep HInv.
LEMMA HoldsEnd ==
  ASSUME TypeOK, IInv, HInv, Closing \/ (Drop /\ ~DropBusy)
  PROVE  HInv'
<1>1. CASE Closing
  <2>1. /\ Pending' = inflight /\ Len(cqes') = 0
        /\ UNCHANGED <<owned_data, events, user_data_counter>>
    BY <1>1 DEF Closing, Pending, Entries
  <2> QED  BY <2>1 DEF HInv, Pending, EventBuffers
<1>2. CASE Drop /\ ~DropBusy
  <2>1. /\ inflight = {} /\ Len(sq) = 0 /\ Len(cqes) = 0
        /\ UNCHANGED <<sq, inflight, cqes, events, user_data_counter>>
        /\ owned_data' = [u \in UserData |-> NoData]
    BY <1>2 DEF Drop, queues, IInv, ClosedIsEmpty
  <2>2. Pending' = {}
    BY <2>1 DEF Pending, Entries
  <2>3. Fresh(owned_data', user_data_counter')
    BY <2>1 DEF Fresh
  <2> QED  BY <2>1, <2>2, <2>3 DEF HInv, EventBuffers
<1> QED  BY <1>1, <1>2

\* HInv holds of every reachable state.
LEMMA HoldsInvariance ==
  ASSUME ~DropBusy
  PROVE  Spec => [](TypeOK /\ IInv /\ HInv)
<1>1. Init => HInv
  BY DEF Init, HInv, Pending, Entries, Fresh, EventBuffers
<1>2. TypeOK /\ IInv /\ HInv /\ [Next]_vars => HInv'
  BY StepKinds, HoldsQuiet, HoldsMoving, HoldsPushing, HoldsFinishing,
     HoldsReaping, HoldsEnd
<1> QED  BY <1>1, <1>2, Invariance, PTL DEF Spec

\* Bit 63 of a value that the counter draws, and of the timeouts' value.
LEMMA BitLemma ==
  /\ \A u \in 0 .. (MaxUserData - 1) : ~should_be_ignored(u)
  /\ should_be_ignored(TimeoutUserData)
<1>1. ASSUME NEW M \in Nat \ {0}, NEW u \in 0 .. (M - 1)
      PROVE  u \div M = 0
  OBVIOUS
<1>2. ASSUME NEW M \in Nat \ {0}
      PROVE  (2 * M - 1) \div M = 1
  OBVIOUS
<1>3. 0 % 2 = 0 /\ 1 % 2 = 1
  OBVIOUS
<1> QED  BY <1>1, <1>2, <1>3 DEF should_be_ignored, TimeoutUserData

\* Whatever overflows, is reaped late, fails or comes up short, the event of a
\* read, write, send or recv carries the buffer made for that operation,
\* resized to the bytes reported, and no other event has a buffer
\* (get_completion_entries).
THEOREM BuffersReturned ==
  ASSUME ~DropBusy
  PROVE  Spec => []EventBuffers
<1>1. HInv => EventBuffers
  BY DEF HInv
<1> QED  BY <1>1, HoldsInvariance, PTL

\* should_be_ignored is true of the events of the ring's own timeouts and of no
\* others, for every place of the separating bit.
THEOREM IgnoredExactly ==
  ASSUME ~DropBusy
  PROVE  Spec => []IgnoredAreTimeouts
<1>1. TypeOK /\ IInv /\ HInv => IgnoredAreTimeouts
  <2> SUFFICES ASSUME TypeOK, IInv, HInv, NEW ev \in events
               PROVE  should_be_ignored(ev.ud) <=> ev.data = "timespec"
    BY DEF IgnoredAreTimeouts
  <2>1. Marked(ev) /\ Drawn(ev.ud, user_data_counter) /\ ev.ud \in UserData
    BY DEF HInv, IInv, Placed, Numbered, TypeOK, CompletionEvent
  <2>2. CASE IsUser(ev.ud)
    <3>1. ev.ud \in 0 .. (MaxUserData - 1)
      BY <2>1, <2>2 DEF Drawn, UserData, TypeOK
    <3> QED  BY <2>1, <2>2, <3>1, BitLemma DEF Marked
  <2>3. CASE ~IsUser(ev.ud)
    BY <2>1, <2>3, BitLemma DEF Marked, IsUser
  <2> QED  BY <2>2, <2>3
<1> QED  BY <1>1, HoldsInvariance, PTL
-----------------------------------------------------------------------------
(***************************************************************************)
(* No leak.  What is stored is freed when a completion is reaped, so an    *)
(* operation with memory must not end without one.  That can happen to an  *)
(* operation behind a SKIP_SUCCESS entry with a soft link, and nowhere     *)
(* else: SkipRefused keeps SKIP_SUCCESS from operations with memory.       *)
(***************************************************************************)
NoSilentChains == \A f \in FlagSets : ~(f.link = "soft" /\ f.skip)

Answered(e) ==
  /\ e.skip => e.data \notin OwnedKinds
  /\ ~(e.skip /\ e.link = "soft")
  /\ e.fate # "mute"

LInv ==
  /\ \A e \in Pending : Answered(e)
  /\ OwnedIsReapable

\* The timeout is answered, and so is every new entry.
LEMMA NewAnswered ==
  ASSUME NoSilentChains
  PROVE  /\ Answered(TimeoutEntry)
         /\ \A u, len : \A data \in Data, flags \in FlagSets :
              ~SkipRefused(data, flags) =>
                Answered(NewEntry(u, data, len, flags))
<1>1. Answered(TimeoutEntry)
  BY DEF TimeoutEntry, Answered, OwnedKinds
<1>2. ASSUME NEW u, NEW len, NEW data \in Data, NEW flags \in FlagSets,
             ~SkipRefused(data, flags)
      PROVE  Answered(NewEntry(u, data, len, flags))
  BY <1>2 DEF NewEntry, Answered, OwnedKinds, SkipRefused, NoSilentChains
<1> QED  BY <1>1, <1>2

\* What is carried is answered as before.
LEMMA CarriedAnswered ==
  ASSUME NEW S, NEW T, Carried(S, T), \A y \in T : Answered(y)
  PROVE  \A x \in S : Answered(x)
  BY DEF Carried, Same, Answered

\* Moving entries keeps LInv.
LEMMA ReapableMoving ==
  ASSUME NoSilentChains, LInv, Moving
  PROVE  LInv'
<1>1. \A y \in Pending \cup {TimeoutEntry} : Answered(y)
  BY NewAnswered DEF LInv
<1>2. \A x \in Pending' : Answered(x)
  BY <1>1, CarriedAnswered DEF Moving, LInv
<1>3. \A y \in Pending : \E x \in Pending' : x.ud = y.ud
  BY DEF Moving, Carried, Same
<1>4. OwnedIsReapable'
  BY <1>3 DEF OwnedIsReapable, Moving, LInv, Entries
<1> QED  BY <1>2, <1>4 DEF LInv

\* Pushing an entry keeps LInv.
LEMMA ReapablePushing ==
  ASSUME NoSilentChains, TypeOK, LInv, Pushing
  PROVE  LInv'
<1>1. PICK data \in Data, len \in Nat, flags \in FlagSets :
        /\ ~SkipRefused(data, flags)
        /\ add_owned(NewEntry(user_data_counter, data, len, flags))
        /\ Carried(Pending', Pending
                     \cup {NewEntry(user_data_counter, data, len, flags)})
  BY DEF Pushing
<1> DEFINE e == NewEntry(user_data_counter, data, len, flags)
<1>2. Answered(e)
  BY <1>1, NewAnswered
<1>3. e.ud = user_data_counter
  BY DEF NewEntry
<1> HIDE DEF e
<1>4. \A x \in Pending' : Answered(x)
  BY <1>1, <1>2, CarriedAnswered DEF LInv, e
<1>5. \A y \in Pending \cup {e} : \E x \in Pending' : x.ud = y.ud
  BY <1>1 DEF Carried, Same, e
<1>6. \A u \in UserData : u # e.ud => owned_data'[u] = owned_data[u]
  BY <1>1 DEF add_owned, e, TypeOK
<1>7. ASSUME NEW u \in UserData, owned_data'[u] # NoData
      PROVE  \/ \E x \in Pending' : x.ud = u
             \/ \E c \in Entries(cqes') : c.ud = u
  <2>1. CASE u = e.ud
    BY <1>5, <2>1
  <2>2. CASE u # e.ud
    BY <1>5, <1>6, <1>7, <2>2 DEF LInv, OwnedIsReapable, Pushing, Entries
  <2> QED  BY <2>1, <2>2
<1> QED  BY <1>4, <1>7 DEF LInv, OwnedIsReapable

\* Finishing an operation keeps LInv: one that holds memory has a completion.
LEMMA ReapableFinishing ==
  ASSUME TypeOK, HInv, LInv, NEW e \in inflight, Finishing(e)
  PROVE  LInv'
<1>0. Answered(e) /\ Describes(e, owned_data)
  BY DEF LInv, HInv, Pending
<1>1. PICK fate \in Fates, result \in Int :
        /\ HandsOn(e, fate)
        /\ inflight' = Without(e, fate)
        /\ \/ cqes' = Append(cqes, [ud |-> e.ud, result |-> result,
                                    data |-> e.data, len |-> e.len])
           \/ /\ ring = "open" => e.skip \/ e.fate = "mute"
              /\ UNCHANGED cqes
  BY DEF Finishing
<1>2. UNCHANGED <<ring, sq, owned_data>>
  BY DEF Finishing
<1>3. fate # "mute"
  BY <1>0, <1>1 DEF HandsOn, Answered
<1>4. \A x \in Pending' : Answered(x)
  <2>1. \A x \in Pending' : \E y \in Pending :
          Same(x, y) /\ x.fate \in {y.fate, fate}
    BY <1>1, <1>2, WithoutSame DEF Pending, Entries, Same
  <2> QED  BY <1>3, <2>1 DEF LInv, Answered, Same
<1>5. \A y \in Pending : y = e \/ \E x \in Pending' : x.ud = y.ud
  BY <1>1, <1>2, WithoutSame DEF Pending, Entries, Same
<1>6. cqes \in Seq(Cqe) /\ e \in Entry
  BY DEF TypeOK
<1>7. CASE cqes' = Append(cqes, [ud |-> e.ud, result |-> result,
                                 data |-> e.data, len |-> e.len])
  <2> DEFINE x == [ud |-> e.ud, result |-> result, data |-> e.data,
                   len |-> e.len]
  <2>1. x \in Cqe /\ x.ud = e.ud
    BY <1>6 DEF Cqe, Entry
  <2> HIDE DEF x
  <2>2. /\ Len(cqes') = Len(cqes) + 1 /\ Len(cqes) \in Nat
        /\ \A i \in 1 .. Len(cqes) : cqes'[i] = cqes[i]
        /\ cqes'[Len(cqes) + 1] = x
    BY <1>6, <1>7, <2>1 DEF x
  <2>3. Entries(cqes) \subseteq Entries(cqes') /\ x \in Entries(cqes')
    BY <2>2 DEF Entries
  <2>4. OwnedIsReapable'
    BY <1>2, <1>5, <2>1, <2>3 DEF LInv, OwnedIsReapable
  <2> QED  BY <1>4, <2>4 DEF LInv
<1>8. CASE /\ ring = "open" => e.skip \/ e.fate = "mute"
           /\ UNCHANGED cqes
  <2>1. ring = "open" => owned_data[e.ud] = NoData
    BY <1>0, <1>8 DEF Answered, Describes
  <2>2. OwnedIsReapable'
    BY <1>2, <1>5, <1>8, <2>1 DEF LInv, OwnedIsReapable, Entries
  <2> QED  BY <1>4, <2>2 DEF LInv
<1> QED  BY <1>1, <1>7, <1>8

\* Reaping keeps LInv: what is still stored was not among the reaped.
LEMMA ReapableReaping ==
  ASSUME TypeOK, LInv, Reaping
  PROVE  LInv'
<1> DEFINE c == Rest(cqes, visible)
<1>1. /\ cqes' = c /\ UNCHANGED <<ring, sq, inflight>>
      /\ owned_data' = [u \in UserData |->
                          IF \E i \in 1 .. visible : cqes[i].ud = u THEN NoData
                          ELSE owned_data[u]]
  BY DEF Reaping, get_completion_entries
<1>2. /\ cqes \in Seq(Cqe) /\ visible \in 0 .. Len(cqes)
      /\ Len(cqes) \in Nat
  BY DEF TypeOK
<1>3. /\ Len(c) = Len(cqes) - visible
      /\ \A i \in 1 .. (Len(cqes) - visible) : c[i] = cqes[i + visible]
  BY <1>2, RestLemma
<1> HIDE DEF c
<1>4. ASSUME NEW i \in 1 .. Len(cqes), i \notin 1 .. visible
      PROVE  cqes[i] \in Entries(c)
  <2>1. i - visible \in 1 .. Len(c) /\ c[i - visible] = cqes[i]
    BY <1>2, <1>3, <1>4
  <2> QED  BY <2>1 DEF Entries
<1>5. Pending' = Pending /\ Entries(cqes') = Entries(c)
  BY <1>1 DEF Pending, Entries
<1>6. OwnedIsReapable'
  BY <1>1, <1>4, <1>5 DEF LInv, OwnedIsReapable, Entries
<1> QED  BY <1>5, <1>6 DEF LInv

\* LInv holds of every reachable state.
LEMMA ReapableInvariance ==
  ASSUME ~DropBusy, NoSilentChains
  PROVE  Spec => [](TypeOK /\ IInv /\ HInv /\ LInv)
<1>1. Init => LInv
  BY DEF Init, LInv, OwnedIsReapable, Pending, Entries
<1>2. ASSUME TypeOK, IInv, HInv, LInv, [Next]_vars
      PROVE  LInv'
  <2>1. CASE Quiet
    BY <1>2, <2>1 DEF Quiet, LInv, OwnedIsReapable, Pending, Entries
  <2>2. CASE Closing
    <3>1. Pending' \subseteq Pending /\ ring' # "open"
      BY <2>2 DEF Closing, Pending, Entries
    <3> QED  BY <1>2, <3>1 DEF LInv, OwnedIsReapable
  <2>3. CASE Drop
    <3>1. Pending' = Pending /\ ring' # "open"
      BY <2>3 DEF Drop, Pending, Entries, queues
    <3> QED  BY <1>2, <3>1 DEF LInv, OwnedIsReapable
  <2> QED  BY <1>2, <2>1, <2>2, <2>3, StepKinds, ReapableMoving,
              ReapablePushing, ReapableFinishing, ReapableReaping
<1> QED  BY <1>1, <1>2, HoldsInvariance, PTL DEF Spec

\* No leak: while the ring is open, all it owns belongs to an operation that
\* is queued, running, or has a completion to be reaped, provided that the
\* client puts no soft link on a SKIP_SUCCESS entry (with one, TLC finds the
\* leak).
THEOREM NothingLeaks ==
  ASSUME ~DropBusy, NoSilentChains
  PROVE  Spec => []OwnedIsReapable
<1>1. LInv => OwnedIsReapable
  BY DEF LInv
<1> QED  BY <1>1, ReapableInvariance, PTL
=============================================================================

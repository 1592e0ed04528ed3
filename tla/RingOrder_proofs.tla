-------------------------- MODULE RingOrder_proofs --------------------------
(***************************************************************************)
(* What depends on how much of the queue a system call takes: that         *)
(* autosubmit makes room, that no timeout outlives the frame of its        *)
(* timespec, and that linked operations run one after the other; and what  *)
(* a wait returns with when no timer of an earlier one is around.          *)
(***************************************************************************)
EXTENDS RingSteps_proofs, FiniteSetTheorems

USE SizesAssumption

\* A call takes something: the queue is not empty and there is no poller.
LEMMA SomeConsumed ==
  ASSUME ~SqPoll, NEW q \in Seq(Entry), q # <<>>, NEW k \in Consumed(q)
  PROVE  k # 0
<1>1. Len(q) \in Nat \ {0}
  OBVIOUS
<1> QED  BY <1>1 DEF Consumed

\* autosubmit says "full" only when it may not retry.
LEMMA PrepNotFull ==
  ASSUME TypeOK, PrepStep, ~SqPoll, Autosubmit
  PROVE  ret' # "full"
<1>1. CASE Refuse("NotImplementedError") \/ Refuse("ValueError")
  BY <1>1 DEF Refuse, Return
<1>2. ASSUME NEW e, autosubmit(e)
      PROVE  ret' # "full"
  <2>1. ASSUME ~Room
        PROVE  sq \in Seq(Entry) /\ sq # <<>>
    BY <2>1 DEF Room, TypeOK
  <2>2. ASSUME ~Room, NEW k \in Consumed(sq), k = 0
        PROVE  FALSE
    BY <2>1, <2>2, SomeConsumed
  <2> QED  BY <1>2, <2>2 DEF autosubmit, Refuse, Return, Accept, MayRetry
<1> QED  BY <1>1, <1>2 DEF PrepStep

\* With autosubmit and without SQPOLL, no call fails because the submission
\* queue is full, even if system calls fail or take only part of the queue.
THEOREM AutosubmitMakesRoom ==
  ASSUME ~SqPoll
  PROVE  Spec => []AutosubmitAbsorbsFull
<1>1. Init => AutosubmitAbsorbsFull
  BY DEF Init, AutosubmitAbsorbsFull
<1>2. ASSUME TypeOK, AutosubmitAbsorbsFull, [Next]_vars
      PROVE  AutosubmitAbsorbsFull'
  <2> SUFFICES ASSUME Autosubmit PROVE ret' # "full"
    BY DEF AutosubmitAbsorbsFull
  <2>0. ret # "full"
    BY <1>2 DEF AutosubmitAbsorbsFull
  <2>1. CASE prep_openat \/ prep_close \/ prep_read \/ prep_write
               \/ prep_create_socket \/ prep_connect_v4 \/ prep_connect_v6
               \/ prep_recv \/ prep_send
    BY <1>2, <2>1, PrepsArePrepSteps, PrepNotFull
  <2>2. CASE IoUring_submit
    BY <2>2 DEF IoUring_submit, submit, Refuse, Return
  <2>3. CASE IoUring_submit_and_wait
    BY <2>0, <2>3 DEF IoUring_submit_and_wait, wait, Block, Refuse, Return
  <2>4. CASE IoUring_submit_and_wait_with_timeout
    BY <2>0, <2>4 DEF IoUring_submit_and_wait_with_timeout, wait_with_timeout,
                      Block, Refuse, Return
  <2>5. CASE IoUring_get_completion_entries
    BY <2>5 DEF IoUring_get_completion_entries, get_completion_entries,
                Refuse, Return
  <2>6. CASE IoUring_register_eventfd
    BY <2>6 DEF IoUring_register_eventfd, register_eventfd, Refuse, Return
  <2>7. CASE make_io_ring_exit
    BY <2>7 DEF make_io_ring_exit, close, Return
  <2>8. CASE WaitReturn
    BY <2>8 DEF WaitReturn, Return
  <2>9. CASE ReadEventfd \/ Drop \/ SqPollConsume \/ SqPollSleep
    BY <2>0, <2>9 DEF ReadEventfd, Drop, SqPollConsume, SqPollSleep
  <2>10. CASE \E e \in inflight : Kernel(e)
    BY <2>0, <2>10 DEF Kernel, KernelComplete, KernelCancel, Finish
  <2>11. CASE UNCHANGED vars
    BY <2>0, <2>11 DEF vars
  <2> QED
    BY <1>2, <2>1, <2>2, <2>3, <2>4, <2>5, <2>6, <2>7, <2>8, <2>9, <2>10,
       <2>11 DEF Next
<1> QED  BY <1>1, <1>2, TypeCorrect, PTL DEF Spec
-----------------------------------------------------------------------------
(***************************************************************************)
(* Without SQPOLL, and unless the kernel runs out of memory on the way, a  *)
(* system call takes the whole queue.                                      *)
(***************************************************************************)
WholeQueue == ~SqPoll /\ "short" \notin Faults

\* A call takes all that is queued and leaves an empty queue.
LEMMA AllConsumed ==
  ASSUME WholeQueue, NEW q \in Seq(Entry), NEW k \in Consumed(q)
  PROVE  k = Len(q) /\ Rest(q, k) = <<>>
<1>1. k = Len(q) /\ Len(q) \in Nat
  BY DEF WholeQueue, Consumed
<1>2. Rest(q, k) \in Seq(Entry) /\ Len(Rest(q, k)) = 0
  BY <1>1, RestLemma
<1> QED  BY <1>1, <1>2

(***************************************************************************)
(* The kinds of steps, with the numbers and the links of the entries.      *)
(***************************************************************************)
LinkQuiet ==
  /\ UNCHANGED <<inflight, pushed>>
  /\ \/ UNCHANGED <<ring, sq, open_link>>
     \/ ring' # "open" /\ sq' \in {sq, <<>>} /\ UNCHANGED open_link

\* e is accepted, as the client's next submission.
Numbers(e) ==
  /\ ring = "open"
  /\ e \in Entry /\ e.data # "timespec"
  /\ e.seq = pushed + 1 /\ e.after = open_link
  /\ pushed' = e.seq
  /\ open_link' = IF e.link = "none" THEN 0 ELSE e.seq
  /\ UNCHANGED ring
LinkPush ==
  /\ \E e \in Entry : Numbers(e) /\ sq' = Append(sq, e)
  /\ UNCHANGED inflight
\* A full queue is submitted to make room.
LinkRetry ==
  /\ Autosubmit
  /\ \E e \in Entry : Numbers(e) /\ sq' = <<e>>
  /\ inflight' = inflight \cup Batch(sq, Len(sq))

LinkTake ==
  /\ ring = "open"
  /\ sq' = <<>>
  /\ inflight' = inflight \cup Batch(sq, Len(sq))
  /\ open_link' = 0
  /\ UNCHANGED <<ring, pushed>>
\* The timeout stays in the queue if the call that should take it fails.
LinkTimeout ==
  /\ ring = "open"
  /\ \/ /\ "enter_error" \in Faults
        /\ sq' = <<TimeoutEntry>>
        /\ inflight' = inflight \cup Batch(sq, Len(sq))
     \/ /\ sq' = <<>>
        /\ inflight' = inflight \cup Batch(sq, Len(sq)) \cup {TimeoutEntry}
  /\ pushed' = pushed + 1
  /\ open_link' = 0
  /\ UNCHANGED ring
LinkFinish(e) ==
  /\ \E fate \in Fates : inflight' = Without(e, fate)
  /\ e.fate = "run" => Runnable(e)
  /\ UNCHANGED <<ring, sq, pushed, open_link>>

\* A prepared operation is queued, or nothing happens.
LEMMA PrepLinks ==
  ASSUME TypeOK, WholeQueue, PrepStep
  PROVE  LinkQuiet \/ LinkPush \/ LinkRetry
<1>0. sq \in Seq(Entry)
  BY DEF TypeOK
<1>1. CASE \E r : Refuse(r)
  BY <1>1 DEF Refuse, queues, ghosts, LinkQuiet
<1>2. ASSUME NEW data \in Data, NEW len \in Nat, NEW flags \in FlagSets,
             autosubmit(NewEntry(user_data_counter, data, len, flags))
      PROVE  LinkQuiet \/ LinkPush \/ LinkRetry
  <2> DEFINE e == NewEntry(user_data_counter, data, len, flags)
  <2>1. e \in Entry
    <3>1. user_data_counter \in UserData
      BY DEF PrepStep, TypeOK, UserData
    <3> QED  BY <3>1, NewEntryType, ArgumentsAssumption
  <2>2. e.data # "timespec" /\ e.seq = pushed + 1 /\ e.after = open_link
    BY DEF NewEntry, Data, OwnedKinds
  <2>3. autosubmit(e)
    BY <1>2
  <2> HIDE DEF e
  <2>4. ring = "open" /\ Accept(e) => Numbers(e)
    BY <2>1, <2>2 DEF Accept, Numbers
  <2>5. CASE \E r : Refuse(r)
    BY <1>1, <2>5
  <2>6. CASE ring = "open" /\ sq' = Append(sq, e) /\ UNCHANGED inflight
               /\ Accept(e)
    BY <2>1, <2>4, <2>6 DEF LinkPush
  <2>7. CASE Enter(sq, {}, 0) /\ UNCHANGED <<ring, ghosts>>
    BY <2>7 DEF Enter, LinkQuiet, ghosts
  <2>8. ASSUME MayRetry, NEW k \in Consumed(sq), ring = "open", Accept(e),
               Enter(Append(Rest(sq, k), e), Batch(sq, k), 0)
        PROVE  LinkRetry
    <3>1. k = Len(sq) /\ Rest(sq, k) = <<>>
      BY <1>0, <2>8, AllConsumed
    <3>2. sq' = Append(<<>>, e)
            /\ inflight' = inflight \cup Batch(sq, Len(sq))
      BY <2>8, <3>1 DEF Enter
    <3> QED  BY <2>1, <2>4, <2>8, <3>2 DEF LinkRetry, MayRetry
  <2> QED  BY <2>3, <2>5, <2>6, <2>7, <2>8 DEF autosubmit
<1> QED  BY <1>1, <1>2 DEF PrepStep

\* The calls that submit empty the queue, or nothing happens.
LEMMA SubmitLinks ==
  ASSUME TypeOK, WholeQueue, submit \/ \E want \in Wants : wait(want)
  PROVE  LinkQuiet \/ LinkTake
<1>0. sq \in Seq(Entry)
  BY DEF TypeOK
<1>1. CASE \E r : Refuse(r)
  BY <1>1 DEF Refuse, queues, ghosts, LinkQuiet
<1>2. ASSUME NEW k \in Consumed(sq), NEW want, ring = "open",
             Enter(Rest(sq, k), Batch(sq, k), want),
             open_link' = 0, UNCHANGED <<ring, pushed>>
      PROVE  LinkTake
  BY <1>0, <1>2, AllConsumed DEF LinkTake, Enter
<1> QED  BY <1>1, <1>2 DEF submit, wait

\* The batch of a queue that holds one timeout.
LEMMA TimeoutBatch ==
  ASSUME TypeOK
  PROVE  Batch(Append(<<>>, TimeoutEntry), 1) = {TimeoutEntry}
<1> DEFINE t == TimeoutEntry
           q == Append(<<>>, t)
           B(i) == [q[i] EXCEPT !.prev = IF i > 1 /\ q[i - 1].link # "none"
                                         THEN q[i - 1].seq ELSE 0]
<1>1. t \in Entry /\ t.prev = 0
  BY TimeoutEntryType DEF TimeoutEntry
<1> HIDE DEF t
<1>2. q[1] = t
  BY <1>1
<1>3. B(1) = t
  BY <1>1, <1>2 DEF Entry
<1>4. Batch(q, 1) = {B(i) : i \in 1 .. 1}
  BY DEF Batch
<1> HIDE DEF B
<1> QED  BY <1>3, <1>4 DEF q, t

\* A timed wait empties the queue, then queues its timeout alone.
LEMMA TimeoutLinks ==
  ASSUME TypeOK, WholeQueue, wait_with_timeout
  PROVE  LinkQuiet \/ LinkTake \/ LinkTimeout
<1>0. sq \in Seq(Entry)
  BY DEF TypeOK
<1>1. CASE \E r : Refuse(r)
  BY <1>1 DEF Refuse, queues, ghosts, LinkQuiet
<1>2. ASSUME NEW k \in Purged, ring = "open", open_link' = 0, UNCHANGED ring,
             LET q == Append(Rest(sq, k), TimeoutEntry) IN
             \/ Enter(Rest(sq, k), Batch(sq, k), 0) /\ UNCHANGED pushed
             \/ /\ pushed' = pushed + 1
                /\ EnterFails(1)
                /\ Enter(q, Batch(sq, k), 0)
             \/ /\ pushed' = pushed + 1
                /\ \E j \in Awaited(q) :
                     Enter(Rest(q, j), Batch(sq, k) \cup Batch(q, j), 1)
      PROVE  LinkTake \/ LinkTimeout
  <2> DEFINE q == Append(<<>>, TimeoutEntry)
  <2>1. k = Len(sq) /\ Rest(sq, k) = <<>>
    BY <1>0, <1>2, AllConsumed DEF Purged
  <2>2. q = <<TimeoutEntry>> /\ q \in Seq(Entry) /\ Len(q) = 1
    BY TimeoutEntryType
  <2>3. CASE Enter(Rest(sq, k), Batch(sq, k), 0) /\ UNCHANGED pushed
    BY <1>2, <2>1, <2>3 DEF Enter, LinkTake
  <2>4. CASE pushed' = pushed + 1 /\ EnterFails(1) /\ Enter(q, Batch(sq, k), 0)
    BY <1>2, <2>1, <2>2, <2>4 DEF Enter, LinkTimeout, EnterFails
  <2>5. ASSUME pushed' = pushed + 1, NEW j \in Awaited(q),
               Enter(Rest(q, j), Batch(sq, k) \cup Batch(q, j), 1)
        PROVE  LinkTimeout
    <3>1. j = 1 /\ Rest(q, j) = <<>>
      <4> HIDE DEF q
      <4> QED  BY <2>2, <2>5, AllConsumed DEF Awaited
    <3>2. Batch(q, j) = {TimeoutEntry}
      BY <3>1, TimeoutBatch
    <3> HIDE DEF q
    <3>3. sq' = <<>> /\ inflight' = inflight \cup Batch(sq, Len(sq))
                                      \cup {TimeoutEntry}
      BY <2>1, <2>5, <3>1, <3>2 DEF Enter
    <3> QED  BY <1>2, <2>5, <3>3 DEF LinkTimeout
  <2> QED  BY <1>2, <2>1, <2>3, <2>4, <2>5
<1> QED  BY <1>1, <1>2 DEF wait_with_timeout

\* A step of the kernel finishes an entry, which ran only if it might.
LEMMA KernelLinks ==
  ASSUME TypeOK, NEW e \in inflight, Kernel(e)
  PROVE  LinkFinish(e)
<1>1. PICK fate \in Fates : inflight' = Without(e, fate)
  BY KernelKinds DEF Finishing
<1>2. UNCHANGED <<ring, sq, pushed, open_link>>
  BY DEF Kernel, KernelComplete, KernelCancel, Finish, ghosts
<1>3. e.fate = "run" => Runnable(e)
  BY DEF Kernel, KernelComplete, KernelCancel
<1> QED  BY <1>1, <1>2, <1>3 DEF LinkFinish

\* Every step is of one of the kinds.
LEMMA LinkKinds ==
  ASSUME TypeOK, WholeQueue, [Next]_vars
  PROVE  \/ LinkQuiet \/ LinkPush \/ LinkRetry \/ LinkTake \/ LinkTimeout
         \/ \E e \in inflight : LinkFinish(e)
<1>1. CASE prep_openat \/ prep_close \/ prep_read \/ prep_write
             \/ prep_create_socket \/ prep_connect_v4 \/ prep_connect_v6
             \/ prep_recv \/ prep_send
  BY <1>1, PrepsArePrepSteps, PrepLinks
<1>2. CASE IoUring_submit \/ IoUring_submit_and_wait
  BY <1>2, SubmitLinks DEF IoUring_submit, IoUring_submit_and_wait
<1>3. CASE IoUring_submit_and_wait_with_timeout
  BY <1>3, TimeoutLinks DEF IoUring_submit_and_wait_with_timeout
<1>4. CASE IoUring_get_completion_entries \/ IoUring_register_eventfd
             \/ ReadEventfd \/ WaitReturn
  BY <1>4 DEF IoUring_get_completion_entries, get_completion_entries,
              IoUring_register_eventfd, register_eventfd, ReadEventfd,
              WaitReturn, Refuse, queues, ghosts, LinkQuiet
<1>5. CASE make_io_ring_exit \/ Drop
  BY <1>5 DEF make_io_ring_exit, close, Drop, queues, ghosts, LinkQuiet
<1>6. CASE \E e \in inflight : Kernel(e)
  BY <1>6, KernelLinks
<1>7. CASE SqPollConsume \/ SqPollSleep
  BY <1>7 DEF SqPollConsume, SqPollSleep, WholeQueue
<1>8. CASE UNCHANGED vars
  BY <1>8 DEF vars, queues, ghosts, LinkQuiet
<1> QED
  BY <1>1, <1>2, <1>3, <1>4, <1>5, <1>6, <1>7, <1>8 DEF Next
-----------------------------------------------------------------------------
(***************************************************************************)
(* "Playing stack-frame chicken": when system calls take the whole queue   *)
(* and do not fail, a timeout is in the kernel before wait_with_timeout    *)
(* can return, so none is ever seen in the queue.                          *)
(***************************************************************************)
NoQueuedTimeout == \A e \in Entries(sq) : e.data # "timespec"

\* No timeout waits in the queue for a frame that has returned.
THEOREM TimespecOutlived ==
  ASSUME WholeQueue, "enter_error" \notin Faults
  PROVE  Spec => []TimespecLive
<1>1. Init => NoQueuedTimeout
  BY DEF Init, NoQueuedTimeout, Entries
<1>2. ASSUME TypeOK, NoQueuedTimeout, [Next]_vars
      PROVE  NoQueuedTimeout'
  <2>0. sq \in Seq(Entry)
    BY <1>2 DEF TypeOK
  <2>1. CASE sq' \in {sq, <<>>}
    BY <1>2, <2>1 DEF NoQueuedTimeout, Entries
  <2>2. CASE LinkPush
    <3>1. PICK e \in Entry : e.data # "timespec" /\ sq' = Append(sq, e)
      BY <2>2 DEF LinkPush, Numbers
    <3>2. Entries(sq)' = Entries(sq) \cup {e}
      BY <2>0, <3>1, AppendEntries DEF Entries
    <3> QED  BY <1>2, <3>1, <3>2 DEF NoQueuedTimeout
  <2>3. CASE LinkRetry
    <3>1. PICK e \in Entry : e.data # "timespec" /\ sq' = <<e>>
      BY <2>3 DEF LinkRetry, Numbers
    <3> QED  BY <3>1 DEF NoQueuedTimeout, Entries
  <2> QED
    BY <1>2, <2>1, <2>2, <2>3, LinkKinds
       DEF LinkQuiet, LinkTake, LinkTimeout, LinkFinish
<1>3. NoQueuedTimeout => TimespecLive
  BY DEF NoQueuedTimeout, TimespecLive
<1> QED  BY <1>1, <1>2, <1>3, TypeCorrect, PTL DEF Spec
-----------------------------------------------------------------------------
(***************************************************************************)
(* Links.  The invariant: numbers grow from the kernel to the end of the   *)
(* queue, an entry meant to follow another is queued right behind it, and  *)
(* so the kernel takes both in one batch and waits for the right one.      *)
(***************************************************************************)
NumberOK(e, n) == e.seq \in 1 .. n /\ e.after < e.seq

Following(q) ==
  \A i \in 1 .. Len(q) :
    q[i].after # 0 =>
      i > 1 /\ q[i - 1].seq = q[i].after /\ q[i - 1].link # "none"

Chained(fl) == \A e \in fl : e.after # 0 => e.prev = e.after

\* The chain under construction ends at the end of the queue.
OpenChain ==
  ring = "open" /\ open_link # 0 =>
    /\ Len(sq) > 0
    /\ sq[Len(sq)].seq = open_link
    /\ sq[Len(sq)].link # "none"

Ordered == \A e \in inflight : \A i \in 1 .. Len(sq) : e.seq < sq[i].seq

KInv ==
  /\ open_link <= pushed
  /\ \A e \in inflight : NumberOK(e, pushed)
  /\ \A i \in 1 .. Len(sq) : NumberOK(sq[i], pushed)
  /\ Ordered
  /\ Following(sq)
  /\ Chained(inflight)
  /\ OpenChain

\* The kernel takes a queue in which links are in place.
LEMMA BatchChained ==
  ASSUME NEW q \in Seq(Entry), Following(q)
  PROVE  /\ Chained(Batch(q, Len(q)))
         /\ \A e \in Batch(q, Len(q)) : \E i \in 1 .. Len(q) :
              e.seq = q[i].seq /\ e.after = q[i].after
<1> DEFINE P(i) == IF i > 1 /\ q[i - 1].link # "none"
                   THEN q[i - 1].seq ELSE 0
           B(i) == [q[i] EXCEPT !.prev = P(i)]
<1>0. Len(q) \in Nat
  OBVIOUS
<1>1. Batch(q, Len(q)) = {B(i) : i \in 1 .. Len(q)}
  BY DEF Batch
<1>2. ASSUME NEW i \in 1 .. Len(q)
      PROVE  /\ B(i).seq = q[i].seq /\ B(i).after = q[i].after
             /\ q[i].after # 0 => B(i).prev = q[i].after
  <2>1. q[i] \in Entry
    OBVIOUS
  <2>2. q[i].after # 0 => P(i) = q[i].after
    BY DEF Following
  <2> HIDE DEF P
  <2> QED  BY <2>1, <2>2 DEF Entry
<1> HIDE DEF B
<1> QED  BY <1>1, <1>2 DEF Chained

\* The whole queue goes to the kernel; the numbers and links stay right.
LEMMA TakeKeeps ==
  ASSUME TypeOK, KInv, NEW fl, fl = inflight \cup Batch(sq, Len(sq))
  PROVE  Chained(fl) /\ \A e \in fl : NumberOK(e, pushed)
<1>0. sq \in Seq(Entry)
  BY DEF TypeOK
<1>1. /\ Chained(Batch(sq, Len(sq)))
      /\ \A e \in Batch(sq, Len(sq)) : \E i \in 1 .. Len(sq) :
           e.seq = sq[i].seq /\ e.after = sq[i].after
  BY <1>0, BatchChained DEF KInv
<1> QED  BY <1>1 DEF KInv, Chained, NumberOK

\* Finishing an entry changes the fates of others only.
LEMMA WithoutKeeps ==
  ASSUME TypeOK, NEW e \in inflight, NEW fate \in Fates
  PROVE  /\ \A f \in Without(e, fate) : \E g \in inflight :
              f.seq = g.seq /\ f.after = g.after /\ f.prev = g.prev
         /\ \A g \in inflight \ {e} : \E f \in Without(e, fate) :
              f.seq = g.seq
<1> DEFINE W(f) == IF f.prev = e.seq THEN [f EXCEPT !.fate = fate] ELSE f
<1>1. Without(e, fate) = {W(f) : f \in inflight \ {e}}
  BY DEF Without
<1>2. ASSUME NEW f \in inflight
      PROVE  W(f).seq = f.seq /\ W(f).after = f.after /\ W(f).prev = f.prev
  <2>1. f \in Entry
    BY DEF TypeOK
  <2> QED  BY <2>1 DEF Entry
<1> HIDE DEF W
<1> QED  BY <1>1, <1>2

\* Pushing behind the chain under construction.
LEMMA LinksPush ==
  ASSUME TypeOK, KInv, LinkPush
  PROVE  KInv'
<1>1. PICK e \in Entry : Numbers(e) /\ sq' = Append(sq, e)
  BY DEF LinkPush
<1>2. sq \in Seq(Entry) /\ pushed \in Nat /\ open_link \in Nat
      /\ inflight \in SUBSET Entry /\ UNCHANGED inflight
  BY DEF TypeOK, LinkPush
<1>3. /\ Len(sq) \in Nat /\ Len(sq') = Len(sq) + 1
      /\ \A i \in 1 .. Len(sq) : sq'[i] = sq[i]
      /\ sq'[Len(sq) + 1] = e
  BY <1>1, <1>2
<1>4. /\ e.seq = pushed + 1 /\ e.after = open_link /\ pushed' = pushed + 1
      /\ ring = "open"
      /\ open_link' = IF e.link = "none" THEN 0 ELSE pushed + 1
  BY <1>1 DEF Numbers
<1>5. \A f : NumberOK(f, pushed) => NumberOK(f, pushed')
  BY <1>2, <1>4 DEF NumberOK
<1>6. e.after < e.seq /\ e.seq \in 1 .. pushed'
  BY <1>2, <1>4 DEF KInv
<1>7. \A i \in 1 .. Len(sq') : NumberOK(sq'[i], pushed') \/ i = Len(sq) + 1
  BY <1>3, <1>5 DEF KInv, NumberOK
<1>8. \A i \in 1 .. Len(sq') : NumberOK(sq'[i], pushed')
  BY <1>3, <1>6, <1>7 DEF NumberOK
<1>9. \A f \in inflight' : NumberOK(f, pushed')
  BY <1>2, <1>5 DEF KInv
<1>10. Ordered'
  BY <1>2, <1>3, <1>4 DEF KInv, Ordered, NumberOK
<1>11. Following(sq)'
  <2> SUFFICES ASSUME NEW i \in 1 .. Len(sq'), sq'[i].after # 0
               PROVE  /\ i > 1 /\ sq'[i - 1].seq = sq'[i].after
                      /\ sq'[i - 1].link # "none"
    BY DEF Following
  <2>1. CASE i \in 1 .. Len(sq)
    BY <1>3, <2>1 DEF KInv, Following
  <2>2. CASE i = Len(sq) + 1
    BY <1>3, <1>4, <2>2 DEF KInv, OpenChain
  <2> QED  BY <1>3, <2>1, <2>2
<1>12. OpenChain'
  BY <1>3, <1>4 DEF OpenChain
<1>13. open_link' <= pushed'
  BY <1>2, <1>4
<1> QED  BY <1>2, <1>8, <1>9, <1>10, <1>11, <1>12, <1>13 DEF KInv

\* A timed wait: its timeout follows nothing.
LEMMA LinksTimeout ==
  ASSUME TypeOK, KInv, LinkTimeout
  PROVE  KInv'
<1> DEFINE t == TimeoutEntry
           fl == inflight \cup Batch(sq, Len(sq))
<1>1. pushed \in Nat /\ pushed' = pushed + 1 /\ open_link' = 0
  BY DEF TypeOK, LinkTimeout
<1>2. t.seq = pushed + 1 /\ t.after = 0
  BY DEF TimeoutEntry
<1>3. Chained(fl) /\ \A e \in fl : NumberOK(e, pushed)
  BY TakeKeeps
<1> HIDE DEF t, fl
<1>4. \A f : NumberOK(f, pushed) => NumberOK(f, pushed')
  BY <1>1 DEF NumberOK
<1>5. NumberOK(t, pushed')
  BY <1>1, <1>2 DEF NumberOK
<1>6. Chained(fl \cup {t})
  BY <1>2, <1>3 DEF Chained
<1>7. CASE sq' = <<t>> /\ inflight' = fl
  <2>1. Len(sq') = 1 /\ sq'[1] = t
    BY <1>7
  <2>2. Ordered'
    BY <1>1, <1>2, <1>3, <1>7, <2>1 DEF Ordered, NumberOK
  <2>3. Following(sq)'
    BY <1>2, <2>1 DEF Following
  <2>4. \A i \in 1 .. Len(sq') : NumberOK(sq'[i], pushed')
    BY <1>5, <2>1
  <2> QED
    BY <1>1, <1>3, <1>4, <1>7, <2>2, <2>3, <2>4 DEF KInv, OpenChain
<1>8. CASE sq' = <<>> /\ inflight' = fl \cup {t}
  <2>1. Len(sq') = 0
    BY <1>8
  <2> QED
    BY <1>1, <1>3, <1>4, <1>5, <1>6, <1>8, <2>1
       DEF KInv, OpenChain, Ordered, Following
<1> QED  BY <1>7, <1>8 DEF LinkTimeout, t, fl

\* The other steps.
LEMMA LinksFinish ==
  ASSUME TypeOK, KInv, NEW e \in inflight, LinkFinish(e)
  PROVE  KInv'
<1>1. PICK fate \in Fates : inflight' = Without(e, fate)
  BY DEF LinkFinish
<1>2. \A f \in inflight' : \E g \in inflight :
        f.seq = g.seq /\ f.after = g.after /\ f.prev = g.prev
  BY <1>1, WithoutKeeps
<1>3. UNCHANGED <<ring, sq, pushed, open_link>>
  BY DEF LinkFinish
<1>4. \A f \in inflight' : NumberOK(f, pushed')
  BY <1>2, <1>3 DEF KInv, NumberOK
<1>5. Chained(inflight')
  BY <1>2 DEF KInv, Chained
<1>6. Ordered'
  BY <1>2, <1>3 DEF KInv, Ordered
<1> QED  BY <1>3, <1>4, <1>5, <1>6 DEF KInv, OpenChain, Following

\* Every step keeps the links in place, if no queue is cut by autosubmit.
LEMMA LinksStep ==
  ASSUME TypeOK, KInv, WholeQueue, ~Autosubmit, [Next]_vars
  PROVE  KInv'
<1>1. CASE LinkQuiet
  <2>1. CASE UNCHANGED <<ring, sq, open_link>>
    BY <1>1, <2>1 DEF LinkQuiet, KInv, Ordered, Following, OpenChain
  <2>2. CASE ring' # "open" /\ sq' = sq /\ UNCHANGED open_link
    BY <1>1, <2>2 DEF LinkQuiet, KInv, Ordered, Following, OpenChain
  <2>3. CASE ring' # "open" /\ sq' = <<>> /\ UNCHANGED open_link
    BY <1>1, <2>3 DEF LinkQuiet, KInv, Ordered, Following, OpenChain
  <2> QED  BY <1>1, <2>1, <2>2, <2>3 DEF LinkQuiet
<1>2. CASE LinkTake
  <2>1. pushed \in Nat
    BY DEF TypeOK
  <2>2. /\ Chained(inflight')
        /\ \A e \in inflight' : NumberOK(e, pushed)
    BY <1>2, TakeKeeps DEF LinkTake
  <2>3. Len(sq') = 0
    BY <1>2 DEF LinkTake
  <2> QED
    BY <1>2, <2>1, <2>2, <2>3
       DEF LinkTake, KInv, Ordered, Following, OpenChain
<1>3. CASE LinkPush
  BY <1>3, LinksPush
<1>4. CASE LinkTimeout
  BY <1>4, LinksTimeout
<1>5. CASE \E e \in inflight : LinkFinish(e)
  BY <1>5, LinksFinish
<1> QED  BY <1>1, <1>2, <1>3, <1>4, <1>5, LinkKinds DEF LinkRetry

\* Without autosubmit, and when a system call takes the whole queue, an
\* operation linked to another never runs before that one has finished,
\* whatever fails, is cancelled, times out or is interrupted on the way.
THEOREM LinkedInOrder ==
  ASSUME WholeQueue, ~Autosubmit
  PROVE  Spec => LinkedRunsAfter
<1> DEFINE After(e) ==
      e.fate = "run" /\ (\A f \in inflight' : f.seq # e.seq) =>
        \A f \in Pending : f.seq # e.after
<1>1. Init => KInv
  BY DEF Init, KInv, Ordered, Following, Chained, OpenChain
<1>2. ASSUME TypeOK, KInv, [Next]_vars
      PROVE  KInv'
  BY <1>2, LinksStep
<1>3. ASSUME TypeOK, KInv, [Next]_vars
      PROVE  \A e \in inflight : After(e)
  <2> SUFFICES ASSUME NEW e \in inflight, e.fate = "run",
                      \A f \in inflight' : f.seq # e.seq,
                      NEW f \in Pending
               PROVE  f.seq # e.after
    OBVIOUS
  <2>1. ~(inflight \subseteq inflight')
    OBVIOUS
  <2>2. PICK d \in inflight : LinkFinish(d)
    BY <1>3, <2>1, LinkKinds
       DEF LinkQuiet, LinkPush, LinkRetry, LinkTake, LinkTimeout
  <2>3. d = e
    BY <1>3, <2>2, WithoutKeeps DEF LinkFinish
  <2>4. Runnable(e)
    BY <2>2, <2>3 DEF LinkFinish
  <2>5. e.seq \in Nat /\ e.after \in Nat /\ e.after < e.seq
    BY <1>3 DEF TypeOK, Entry, KInv, NumberOK
  <2>6. CASE e.after = 0
    <3>1. f.seq >= 1
      BY <1>3 DEF Pending, Entries, KInv, NumberOK
    <3> QED  BY <2>6, <3>1
  <2>7. CASE e.after # 0 /\ f \in inflight
    BY <1>3, <2>4, <2>7 DEF KInv, Chained, Runnable
  <2>8. CASE f \in Entries(sq)
    <3>1. PICK i \in 1 .. Len(sq) : f = sq[i]
      BY <2>8 DEF Entries
    <3>2. e.seq < f.seq /\ f.seq \in Int
      BY <1>3, <3>1 DEF KInv, Ordered, NumberOK
    <3> QED  BY <2>5, <3>2
  <2> QED  BY <2>6, <2>7, <2>8 DEF Pending
<1>4. [](TypeOK /\ KInv) /\ [][Next]_vars => LinkedRunsAfter
  BY <1>3, PTL DEF LinkedRunsAfter
<1> QED  BY <1>1, <1>2, <1>4, TypeCorrect, PTL DEF Spec
-----------------------------------------------------------------------------
(***************************************************************************)
(* Waiting.  Without timed waits no timer is pending, completed or seen by *)
(* the call that waits, and every completion is one of an operation; and   *)
(* without short submissions no call that waits has been cut.              *)
(***************************************************************************)
Untimed == "submit_and_wait_with_timeout" \notin Calls

IsDrawn(u) == u \in 0 .. (MaxUserData - 1)
IsOperation(e) == e.data # "timespec" /\ IsDrawn(e.ud)

NoTimer ==
  /\ \A e \in Pending : IsOperation(e)
  /\ \A i \in 1 .. Len(cqes) : IsDrawn(cqes[i].ud)
  /\ ~call.timer /\ ~call.cut

\* Only a timeout that expires sets the timer of the call that waits, and only
\* a short submission cuts it.
LEMMA TimerUnset ==
  ASSUME TypeOK, NoTimer, Untimed, "short" \notin Faults, [Next]_vars
  PROVE  ~call'.timer /\ ~call'.cut
<1>1. ASSUME UNCHANGED call
      PROVE  ~call'.timer /\ ~call'.cut
  BY <1>1 DEF NoTimer
<1>2. CASE prep_openat \/ prep_close \/ prep_read \/ prep_write
             \/ prep_create_socket \/ prep_connect_v4 \/ prep_connect_v6
             \/ prep_recv \/ prep_send
  <2>1. PrepStep
    BY <1>2, PrepsArePrepSteps
  <2> QED  BY <1>1, <2>1 DEF PrepStep, Refuse, autosubmit, Accept
<1>3. CASE IoUring_submit
  BY <1>1, <1>3 DEF IoUring_submit, submit, Refuse
<1>4. CASE IoUring_submit_and_wait
  <2>1. PICK want \in Wants : wait(want)
    BY <1>4 DEF IoUring_submit_and_wait
  <2>2. CASE \E r : Refuse(r)
    BY <1>1, <2>2 DEF Refuse
  <2>3. ASSUME NEW k \in Consumed(sq), Block("wait", want, sq, k)
        PROVE  ~call'.timer /\ ~call'.cut
    <3>1. ~(~SqPoll /\ k < Len(sq))
      <4>1. Len(sq) \in Nat
        BY DEF TypeOK
      <4> QED  BY <2>3, <4>1 DEF Consumed
    <3> QED  BY <2>3, <3>1 DEF Block
  <2> QED  BY <2>1, <2>2, <2>3 DEF wait
<1>5. CASE IoUring_submit_and_wait_with_timeout
  BY <1>5 DEF IoUring_submit_and_wait_with_timeout, Client, Untimed
<1>6. CASE IoUring_get_completion_entries \/ IoUring_register_eventfd
             \/ make_io_ring_exit \/ ReadEventfd \/ Drop
  BY <1>1, <1>6 DEF IoUring_get_completion_entries, get_completion_entries,
              IoUring_register_eventfd, register_eventfd, make_io_ring_exit,
              close, ReadEventfd, Drop, Refuse
<1>7. CASE WaitReturn
  BY <1>7 DEF WaitReturn, NoCall
<1>8. ASSUME NEW e \in inflight, Kernel(e)
      PROVE  ~call'.timer /\ ~call'.cut
  <2>1. CASE KernelCancel(e)
    BY <1>1, <2>1 DEF KernelCancel
  <2>2. CASE KernelComplete(e)
    <3>1. e.data # "timespec" /\ ~call.timer /\ ~call.cut /\ call \in Call
      BY DEF NoTimer, Pending, IsOperation, TypeOK
    <3> QED  BY <2>2, <3>1 DEF KernelComplete, Call
  <2> QED  BY <1>8, <2>1, <2>2 DEF Kernel
<1>9. CASE SqPollConsume \/ SqPollSleep \/ UNCHANGED vars
  BY <1>1, <1>9 DEF SqPollConsume, SqPollSleep, vars
<1> QED
  BY <1>2, <1>3, <1>4, <1>5, <1>6, <1>7, <1>8, <1>9 DEF Next

\* No step brings a timer in.
LEMMA NoTimerStep ==
  ASSUME TypeOK, NoTimer, Untimed, "short" \notin Faults, [Next]_vars
  PROVE  NoTimer'
<1>1. ~call'.timer /\ ~call'.cut
  BY TimerUnset
<1>2. SUFFICES /\ \A e \in Pending' : IsOperation(e)
               /\ \A i \in 1 .. Len(cqes') : IsDrawn(cqes'[i].ud)
  BY <1>1 DEF NoTimer, IsOperation, IsDrawn
<1>3. CASE Carried(Pending', Pending) /\ UNCHANGED cqes
  BY <1>3 DEF NoTimer, Carried, Same, IsOperation
<1>4. CASE Quiet
  BY <1>4 DEF Quiet, NoTimer, Pending, Entries
<1>5. CASE Pushing
  <2>1. PICK data \in Data, len \in Nat, flags \in FlagSets :
          Carried(Pending', Pending
                    \cup {NewEntry(user_data_counter, data, len, flags)})
    BY <1>5 DEF Pushing
  <2>2. IsOperation(NewEntry(user_data_counter, data, len, flags))
    BY <1>5 DEF Pushing, NewEntry, IsOperation, IsDrawn, Data, OwnedKinds,
                TypeOK
  <2> DEFINE n == NewEntry(user_data_counter, data, len, flags)
  <2> HIDE DEF n
  <2>3. Carried(Pending', Pending \cup {n}) /\ IsOperation(n)
    BY <2>1, <2>2 DEF n
  <2>4. \A e \in Pending' : \E f \in Pending \cup {n} : Same(e, f)
    BY <2>3 DEF Carried
  <2>5. \A e \in Pending' : IsOperation(e)
    BY <2>3, <2>4 DEF NoTimer, Same, IsOperation
  <2> QED  BY <1>5, <2>5 DEF Pushing, NoTimer
<1>6. CASE Reaping
  <2> DEFINE c == Rest(cqes, visible)
  <2>1. /\ cqes \in Seq(Cqe) /\ visible \in 0 .. Len(cqes)
        /\ Len(cqes) \in Nat
    BY DEF TypeOK
  <2>2. /\ Len(c) = Len(cqes) - visible
        /\ \A i \in 1 .. (Len(cqes) - visible) : c[i] = cqes[i + visible]
    BY <2>1, RestLemma
  <2>3. cqes' = c
    BY <1>6 DEF Reaping, get_completion_entries
  <2> HIDE DEF c
  <2>4. \A i \in 1 .. Len(c) : IsDrawn(c[i].ud)
    BY <2>1, <2>2 DEF NoTimer
  <2>5. Pending' = Pending
    BY <1>6 DEF Reaping, Pending, Entries
  <2> QED  BY <2>3, <2>4, <2>5 DEF NoTimer
<1>7. CASE Closing
  BY <1>7 DEF Closing, NoTimer, Pending, Entries
<1>8. CASE Drop
  BY <1>8 DEF Drop, queues, NoTimer, Pending, Entries
<1>9. ASSUME NEW e \in inflight, Finishing(e)
      PROVE  /\ \A f \in Pending' : IsOperation(f)
             /\ \A i \in 1 .. Len(cqes') : IsDrawn(cqes'[i].ud)
  <2>1. PICK fate \in Fates, result \in Int :
          /\ inflight' = Without(e, fate) /\ UNCHANGED sq
          /\ \/ cqes' = Append(cqes, [ud |-> e.ud, result |-> result,
                                      data |-> e.data, len |-> e.len])
             \/ UNCHANGED cqes
    BY <1>9 DEF Finishing
  <2>2. \A f \in inflight' : IsOperation(f)
    BY <2>1, WithoutSame DEF NoTimer, Pending, Same, IsOperation
  <2>3. \A f \in Pending' : IsOperation(f)
    BY <2>1, <2>2 DEF Pending, NoTimer, Entries
  <2>4. IsDrawn(e.ud)
    BY DEF NoTimer, Pending, IsOperation
  <2>5. cqes \in Seq(Cqe)
    BY DEF TypeOK
  <2>6. \A i \in 1 .. Len(cqes') : IsDrawn(cqes'[i].ud)
    BY <2>1, <2>4, <2>5 DEF NoTimer
  <2> QED  BY <2>3, <2>6
<1>10. ~IoUring_submit_and_wait_with_timeout
  BY DEF Untimed, IoUring_submit_and_wait_with_timeout, Client
<1> QED
  BY <1>3, <1>4, <1>5, <1>6, <1>7, <1>8, <1>9, <1>10, UntimedKinds DEF Moving

\* Only WaitReturn ends a wait.
LEMMA WaitEnds ==
  ASSUME TypeOK, [Next]_vars, call.op = "wait", call' = NoCall
  PROVE  WaitReturn
<1>1. ~Idle
  BY DEF Idle
<1>2. call' # call /\ call'.op # "wait"
  BY DEF NoCall
<1>3. ASSUME NEW e \in inflight, Kernel(e)
      PROVE  FALSE
  <2>1. call'.op = call.op
    BY <1>3 DEF Kernel, KernelComplete, KernelCancel, TypeOK, Call
  <2> QED  BY <1>2, <2>1
<1>4. ~(SqPollConsume \/ SqPollSleep \/ UNCHANGED vars)
  BY <1>2 DEF SqPollConsume, SqPollSleep, vars
<1>5. ~(\/ prep_openat \/ prep_close \/ prep_read \/ prep_write
        \/ prep_create_socket \/ prep_connect_v4 \/ prep_connect_v6
        \/ prep_recv \/ prep_send)
  BY <1>1 DEF prep_openat, prep_close, prep_read, prep_write,
              prep_create_socket, prep_connect_v4, prep_connect_v6,
              prep_recv, prep_send, Prepares, Client
<1>6. ~(\/ IoUring_submit \/ IoUring_submit_and_wait
        \/ IoUring_submit_and_wait_with_timeout
        \/ IoUring_get_completion_entries \/ IoUring_register_eventfd
        \/ make_io_ring_exit \/ ReadEventfd \/ Drop)
  BY <1>1 DEF IoUring_submit, IoUring_submit_and_wait,
              IoUring_submit_and_wait_with_timeout,
              IoUring_get_completion_entries, IoUring_register_eventfd,
              make_io_ring_exit, ReadEventfd, Drop, Client
<1> QED  BY <1>3, <1>4, <1>5, <1>6 DEF Next

\* submit_and_wait returns with the completions it was asked to wait for, or a
\* full queue of them, if the client uses no timed waits, no signal interrupts
\* the call and the kernel does not run out of memory in the middle of the queue.
THEOREM WaitCounts ==
  ASSUME Untimed, "signal" \notin Faults, "short" \notin Faults
  PROVE  Spec => WaitHonoursCount
<1> DEFINE Counted == call.op = "wait" /\ call' = NoCall /\ ret' = "ok" =>
                        Cardinality(Arrived) >= Least(call.want, CqEntries)
<1>1. Init => NoTimer
  BY DEF Init, NoTimer, Pending, Entries, NoCall
<1>2. ASSUME TypeOK, NoTimer, [Next]_vars
      PROVE  NoTimer'
  BY <1>2, NoTimerStep
<1>3. ASSUME TypeOK, NoTimer, [Next]_vars
      PROVE  Counted
  <2> SUFFICES ASSUME call.op = "wait", call' = NoCall
               PROVE  Cardinality(Arrived) >= Least(call.want, CqEntries)
    OBVIOUS
  <2>1. visible >= Least(call.want, CqEntries)
    BY <1>3, WaitEnds DEF WaitReturn, WaitReady, NoTimer
  <2>2. visible \in Nat /\ visible <= Len(cqes) /\ Len(cqes) \in Nat
    BY <1>3 DEF TypeOK
  <2>3. ASSUME NEW u, IsDrawn(u)
        PROVE  ~should_be_ignored(u)
    <3>1. u \div MaxUserData = 0
      BY <2>3 DEF IsDrawn
    <3> QED  BY <3>1 DEF should_be_ignored
  <2>4. Arrived = 1 .. visible
    BY <1>3, <2>2, <2>3 DEF NoTimer, Arrived
  <2>5. Cardinality(1 .. visible) = visible
    BY <2>2, FS_Interval
  <2> QED  BY <2>1, <2>4, <2>5
<1>4. [](TypeOK /\ NoTimer) /\ [][Next]_vars => WaitHonoursCount
  BY <1>3, PTL DEF WaitHonoursCount
<1> QED  BY <1>1, <1>2, <1>4, TypeCorrect, PTL DEF Spec
=============================================================================

-------------------------- MODULE TheIoRing_proofs --------------------------
(***************************************************************************)
(* Proofs about TheIoRing, for every size of the queues, every mode, every *)
(* set of faults and every set of calls.                                   *)
(***************************************************************************)
EXTENDS TheIoRing, TLAPS

USE SizesAssumption

Data == OwnedKinds \cup {"none"}

(***************************************************************************)
(* What the nine prep_* methods have in common: the call is refused, with  *)
(* or without having drawn a user data value, or an entry with the value   *)
(* just drawn goes through autosubmit.                                     *)
(***************************************************************************)
PrepStep ==
  /\ user_data_counter < MaxUserData
  /\ \/ /\ Refuse("NotImplementedError") \/ Refuse("ValueError")
        /\ user_data_counter' \in {user_data_counter, user_data_counter + 1}
     \/ /\ user_data_counter' = user_data_counter + 1
        /\ \E data \in Data, len \in Nat, flags \in FlagSets :
             /\ ~SkipRefused(data, flags)
             /\ autosubmit(NewEntry(user_data_counter, data, len, flags))

\* A submission is refused or goes through autosubmit.
LEMMA SubmissionIsPrepStep ==
  ASSUME NEW op, NEW data \in Data, NEW len \in Nat, NEW flags \in FlagSets,
         NEW valid \in BOOLEAN, user_data_counter < MaxUserData,
         get_next_user_data,
         Submission(op, user_data_counter, data, len, flags, valid)
  PROVE  PrepStep
<1>2. CASE Refuse("NotImplementedError")
  BY <1>2 DEF PrepStep, get_next_user_data
<1>3. CASE Refuse("ValueError")
  BY <1>3 DEF PrepStep, get_next_user_data
<1>4. CASE /\ ~SkipRefused(data, flags)
           /\ autosubmit(NewEntry(user_data_counter, data, len, flags))
  BY <1>4 DEF PrepStep, get_next_user_data
<1> QED  BY <1>2, <1>3, <1>4 DEF Submission

\* Every Python method that prepares an operation is a PrepStep.
LEMMA PrepsArePrepSteps ==
  ASSUME prep_openat \/ prep_close \/ prep_read \/ prep_write
           \/ prep_create_socket \/ prep_connect_v4 \/ prep_connect_v6
           \/ prep_recv \/ prep_send
  PROVE  PrepStep
<1> USE DEF Prepares
<1>1. FlagSets \subseteq Flags /\ Sizes \subseteq Nat
  BY ArgumentsAssumption
<1>2. /\ "none" \in Data /\ "OnePath" \in Data /\ "Buffer" \in Data
      /\ "SockAddr" \in Data
  BY DEF Data, OwnedKinds
<1>3. ASSUME user_data_counter < MaxUserData,
             get_next_user_data \/ UNCHANGED user_data_counter,
             Refuse("ValueError")
      PROVE  PrepStep
  BY <1>3 DEF PrepStep, get_next_user_data
<1>4. ASSUME NEW n \in Nat, NEW size \in 0 .. n + 1, NEW offset \in 0 .. n + 1
      PROVE  LET end == check_write_buffer(n, size, offset)
             IN  (IF end = -1 THEN 0 ELSE end - offset) \in Nat
  BY DEF check_write_buffer
<1>5. CASE prep_openat
  BY <1>1, <1>2, <1>5, SubmissionIsPrepStep
     DEF prep_openat, ioring_prep_openat
<1>6. CASE prep_close
  BY <1>1, <1>2, <1>3, <1>6, SubmissionIsPrepStep
     DEF prep_close, ioring_prep_close, unwrap_file_raises
<1>7. CASE prep_read
  BY <1>1, <1>2, <1>3, <1>7, SubmissionIsPrepStep
     DEF prep_read, ioring_prep_read, unwrap_file_raises, OffsetRefused
<1>8. CASE prep_write
  <2>1. CASE OffsetRefused
    BY <1>3, <1>8, <2>1 DEF prep_write, OffsetRefused
  <2>2. CASE get_next_user_data /\ unwrap_file_raises
    BY <1>3, <1>8, <2>2 DEF prep_write, unwrap_file_raises
  <2>3. CASE /\ get_next_user_data
             /\ \E n \in Sizes, flags \in FlagSets :
                \E size \in 0 .. n + 1, offset \in 0 .. n + 1 :
                  ioring_prep_write(user_data_counter, n, size, offset, flags)
    <3>1. PICK n \in Sizes, flags \in FlagSets :
          \E size \in 0 .. n + 1, offset \in 0 .. n + 1 :
            ioring_prep_write(user_data_counter, n, size, offset, flags)
      BY <2>3
    <3>2. PICK size \in 0 .. n + 1, offset \in 0 .. n + 1 :
            ioring_prep_write(user_data_counter, n, size, offset, flags)
      BY <3>1
    <3> DEFINE end == check_write_buffer(n, size, offset)
    <3>3. (IF end = -1 THEN 0 ELSE end - offset) \in Nat
      BY <1>1, <1>4
    <3>4. Submission("write", user_data_counter, "Buffer",
                     IF end = -1 THEN 0 ELSE end - offset, flags, end # -1)
      BY <3>2 DEF ioring_prep_write
    <3> HIDE DEF end
    <3> QED  BY <1>1, <1>2, <1>8, <2>3, <3>3, <3>4, SubmissionIsPrepStep
                DEF prep_write
  <2> QED  BY <1>8, <2>1, <2>2, <2>3 DEF prep_write
<1>9. CASE prep_create_socket
  BY <1>1, <1>2, <1>9, SubmissionIsPrepStep
     DEF prep_create_socket, ioring_prep_create_socket
<1>10. CASE prep_connect_v4
  BY <1>1, <1>2, <1>3, <1>10, SubmissionIsPrepStep
     DEF prep_connect_v4, ioring_prep_connect_v4,
         do_sockaddr_submit, unwrap_file_raises
<1>11. CASE prep_connect_v6
  BY <1>1, <1>2, <1>3, <1>11, SubmissionIsPrepStep
     DEF prep_connect_v6, ioring_prep_connect_v6,
         do_sockaddr_submit, unwrap_file_raises
<1>12. CASE prep_recv
  BY <1>1, <1>2, <1>3, <1>12, SubmissionIsPrepStep
     DEF prep_recv, ioring_prep_recv, unwrap_file_raises
<1>13. CASE prep_send
  <2>1. CASE get_next_user_data /\ unwrap_file_raises
    BY <1>3, <1>13, <2>1 DEF prep_send, unwrap_file_raises
  <2>2. CASE /\ get_next_user_data
             /\ \E n \in Sizes, flags \in FlagSets :
                \E size \in 0 .. n + 1, offset \in 0 .. n + 1 :
                  ioring_prep_send(user_data_counter, n, size, offset, flags)
    <3>1. PICK n \in Sizes, flags \in FlagSets :
          \E size \in 0 .. n + 1, offset \in 0 .. n + 1 :
            ioring_prep_send(user_data_counter, n, size, offset, flags)
      BY <2>2
    <3>2. PICK size \in 0 .. n + 1, offset \in 0 .. n + 1 :
            ioring_prep_send(user_data_counter, n, size, offset, flags)
      BY <3>1
    <3> DEFINE end == check_write_buffer(n, size, offset)
    <3>3. (IF end = -1 THEN 0 ELSE end - offset) \in Nat
      BY <1>1, <1>4
    <3>4. Submission("send", user_data_counter, "Buffer",
                     IF end = -1 THEN 0 ELSE end - offset, flags, end # -1)
      BY <3>2 DEF ioring_prep_send
    <3> HIDE DEF end
    <3> QED  BY <1>1, <1>2, <1>13, <2>2, <3>3, <3>4, SubmissionIsPrepStep
                DEF prep_send
  <2> QED  BY <1>13, <2>1, <2>2 DEF prep_send
<1> QED
  BY <1>5, <1>6, <1>7, <1>8, <1>9, <1>10, <1>11, <1>12, <1>13
-----------------------------------------------------------------------------
(***************************************************************************)
(* Queues: what is left after k entries, what the kernel takes.            *)
(***************************************************************************)

\* Rest is the queue without its first k entries.
LEMMA RestLemma ==
  ASSUME NEW S, NEW q \in Seq(S), NEW k \in 0 .. Len(q)
  PROVE  /\ Rest(q, k) \in Seq(S)
         /\ Len(Rest(q, k)) = Len(q) - k
         /\ \A i \in 1 .. (Len(q) - k) : Rest(q, k)[i] = q[i + k]
  BY DEF Rest

\* The kernel takes at most what is queued.
LEMMA ConsumedLemma ==
  ASSUME NEW q \in Seq(Entry), NEW k \in Consumed(q)
  PROVE  k \in 0 .. Len(q)
<1>1. CASE SqPoll
  BY <1>1 DEF Consumed
<1>2. CASE ~SqPoll
  BY <1>2 DEF Consumed
<1> QED  BY <1>1, <1>2

\* A batch consists of entries that differ from the queued ones in prev only.
LEMMA BatchLemma ==
  ASSUME NEW q \in Seq(Entry), NEW k \in 0 .. Len(q)
  PROVE  /\ Batch(q, k) \subseteq Entry
         /\ \A e \in Batch(q, k) : \E i \in 1 .. k :
              e.ud = q[i].ud /\ e.data = q[i].data /\ e.len = q[i].len
                /\ e.skip = q[i].skip /\ e.seq = q[i].seq
                /\ e.link = q[i].link /\ e.after = q[i].after
                /\ e.fate = q[i].fate
<1> DEFINE P(i) == IF i > 1 /\ q[i - 1].link # "none"
                   THEN q[i - 1].seq ELSE 0
           B(i) == [q[i] EXCEPT !.prev = P(i)]
<1>1. Batch(q, k) = {B(i) : i \in 1 .. k}
  BY DEF Batch
<1>2. ASSUME NEW i \in 1 .. k
      PROVE  /\ B(i) \in Entry
             /\ B(i).ud = q[i].ud /\ B(i).data = q[i].data
             /\ B(i).len = q[i].len /\ B(i).skip = q[i].skip
             /\ B(i).seq = q[i].seq /\ B(i).link = q[i].link
             /\ B(i).after = q[i].after /\ B(i).fate = q[i].fate
  <2>1. q[i] \in Entry
    OBVIOUS
  <2>2. i > 1 => q[i - 1] \in Entry
    OBVIOUS
  <2>3. P(i) \in Nat
    BY <2>2 DEF Entry
  <2> HIDE DEF P
  <2> QED  BY <2>1, <2>3 DEF Entry
<1> HIDE DEF B
<1> QED  BY <1>1, <1>2
-----------------------------------------------------------------------------
(***************************************************************************)
(* Type correctness.                                                       *)
(***************************************************************************)
QueuesOK ==
  /\ sq \in Seq(Entry) /\ Len(sq) <= SqEntries
  /\ inflight \in SUBSET Entry
  /\ cqes \in Seq(Cqe)
  /\ visible \in 0 .. Len(cqes) /\ visible <= CqEntries
  /\ poller \in {"awake", "asleep"}
  /\ eventfd \in {"none", "clear", "set"}

RestOK ==
  /\ ring \in {"open", "closed", "dropped"}
  /\ user_data_counter \in 0 .. MaxUserData
  /\ owned_data \in [UserData -> OwnedData]
  /\ pushed \in Nat /\ open_link \in Nat
  /\ call \in Call
  /\ events \in SUBSET CompletionEvent
  /\ ret \in Results

\* TypeOK in two parts: the queues, and the rest.
LEMMA TypeParts == TypeOK <=> QueuesOK /\ RestOK
  BY DEF TypeOK, QueuesOK, RestOK

\* The user data of the timeouts lies above all the counter's values.
LEMMA TimeoutUserDataLemma ==
  /\ TimeoutUserData \in UserData
  /\ TimeoutUserData >= MaxUserData
  /\ \A u \in 0 .. (MaxUserData - 1) : u \in UserData
  BY DEF TimeoutUserData, UserData

\* Entering the kernel keeps the types of the queues.
LEMMA EnterType ==
  ASSUME QueuesOK, NEW rest \in Seq(Entry), Len(rest) <= SqEntries,
         NEW started \in SUBSET Entry, NEW want, Enter(rest, started, want)
  PROVE  QueuesOK'
<1>1. Flushed(want) \in 0 .. Len(cqes) /\ Flushed(want) <= CqEntries
  BY DEF Flushed, Least, QueuesOK
<1>2. Signalled(Flushed(want)) \in {"none", "clear", "set"}
  BY DEF Signalled, QueuesOK
<1> QED  BY <1>1, <1>2 DEF Enter, QueuesOK

\* A refused call changes nothing that is typed, but the result.
LEMMA RefuseType ==
  ASSUME TypeOK, NEW r \in Results, Refuse(r),
         user_data_counter' \in 0 .. MaxUserData
  PROVE  TypeOK'
  BY DEF Refuse, Return, TypeOK, queues, ghosts

\* A new entry is an entry.
LEMMA NewEntryType ==
  ASSUME TypeOK, NEW u \in UserData, NEW data \in Data, NEW len \in Nat,
         NEW flags \in Flags
  PROVE  NewEntry(u, data, len, flags) \in Entry
  BY DEF NewEntry, Entry, TypeOK, Data, Flags

\* Accepting an entry keeps the types of everything but the queues.
LEMMA AcceptType ==
  ASSUME RestOK, NEW e \in Entry, e.data \in Data, Accept(e),
         user_data_counter' \in 0 .. MaxUserData
  PROVE  RestOK'
<1>1. e.data # "none" => [data |-> e.data, len |-> e.len] \in OwnedData
  BY DEF Entry, OwnedData, Data
<1>2. e.ud \in UserData /\ e.seq \in Nat
  BY DEF Entry
<1>3. owned_data' \in [UserData -> OwnedData]
  BY <1>1, <1>2 DEF RestOK, Accept, add_owned
<1> QED  BY <1>2, <1>3 DEF RestOK, Accept, Return, Results

\* autosubmit keeps the types.
LEMMA AutosubmitType ==
  ASSUME TypeOK, NEW e \in Entry, e.data \in Data, autosubmit(e),
         user_data_counter' \in 0 .. MaxUserData
  PROVE  TypeOK'
<1>1. QueuesOK /\ RestOK
  BY TypeParts
<1>2. CASE Refuse("closed") \/ Refuse("full") \/ Refuse("OSError")
  BY <1>2, RefuseType DEF Results
<1>3. CASE /\ Room
           /\ sq' = Append(sq, e)
           /\ UNCHANGED <<inflight, cqes, visible, poller, eventfd>>
           /\ Accept(e)
  <2>1. QueuesOK'
    BY <1>1, <1>3 DEF QueuesOK, Room
  <2>2. RestOK'
    BY <1>1, <1>3, AcceptType
  <2> QED  BY <2>1, <2>2 DEF TypeOK, QueuesOK, RestOK
<1>4. ASSUME NEW k \in Consumed(sq), Enter(sq, {}, 0), Return("full"),
             UNCHANGED <<ring, owned_data, ghosts, call, events>>
      PROVE  TypeOK'
  <2>1. QueuesOK'
    BY <1>1, <1>4, EnterType DEF QueuesOK
  <2>2. RestOK'
    BY <1>1, <1>4 DEF RestOK, Return, Results, ghosts
  <2> QED  BY <2>1, <2>2 DEF TypeOK, QueuesOK, RestOK
<1>5. ASSUME NEW k \in Consumed(sq), k # 0, Accept(e),
             Enter(Append(Rest(sq, k), e), Batch(sq, k), 0)
      PROVE  TypeOK'
  <2>0. sq \in Seq(Entry) /\ Len(sq) \in Nat
    BY <1>1 DEF QueuesOK
  <2>1. k \in 0 .. Len(sq) /\ k > 0
    BY <1>5, <2>0, ConsumedLemma
  <2>2. Rest(sq, k) \in Seq(Entry) /\ Len(Rest(sq, k)) = Len(sq) - k
    BY <2>0, <2>1, RestLemma
  <2>3. /\ Append(Rest(sq, k), e) \in Seq(Entry)
        /\ Len(Append(Rest(sq, k), e)) <= SqEntries
    BY <1>1, <2>1, <2>2 DEF QueuesOK
  <2>4. Batch(sq, k) \in SUBSET Entry
    BY <1>1, <2>1, BatchLemma DEF QueuesOK
  <2>5. QueuesOK'
    BY <1>1, <1>5, <2>3, <2>4, EnterType
  <2>6. RestOK'
    BY <1>1, <1>5, AcceptType
  <2> QED  BY <2>5, <2>6 DEF TypeOK, QueuesOK, RestOK
<1> QED  BY <1>2, <1>3, <1>4, <1>5 DEF autosubmit

\* Every prep_* method keeps the types.
LEMMA PrepType ==
  ASSUME TypeOK, PrepStep
  PROVE  TypeOK'
<1>1. user_data_counter' \in 0 .. MaxUserData
  BY DEF PrepStep, TypeOK
<1>2. CASE Refuse("NotImplementedError") \/ Refuse("ValueError")
  BY <1>1, <1>2, RefuseType DEF Results
<1>3. ASSUME NEW data \in Data, NEW len \in Nat, NEW flags \in FlagSets,
             autosubmit(NewEntry(user_data_counter, data, len, flags))
      PROVE  TypeOK'
  <2> DEFINE e == NewEntry(user_data_counter, data, len, flags)
  <2>1. user_data_counter \in UserData
    BY DEF PrepStep, TypeOK, UserData
  <2>2. e \in Entry
    BY <2>1, NewEntryType, ArgumentsAssumption
  <2>3. e.data \in Data
    BY DEF NewEntry
  <2> HIDE DEF e
  <2> QED  BY <1>1, <1>3, <2>2, <2>3, AutosubmitType DEF e
<1> QED  BY <1>2, <1>3 DEF PrepStep
-----------------------------------------------------------------------------
\* Taking a prefix of the queue keeps the types of the queues.
LEMMA TakeType ==
  ASSUME QueuesOK, NEW k \in 0 .. Len(sq)
  PROVE  /\ Rest(sq, k) \in Seq(Entry)
         /\ Len(Rest(sq, k)) <= SqEntries
         /\ Batch(sq, k) \in SUBSET Entry
<1>1. sq \in Seq(Entry) /\ Len(sq) <= SqEntries
  BY DEF QueuesOK
<1>2. Rest(sq, k) \in Seq(Entry) /\ Len(Rest(sq, k)) = Len(sq) - k
  BY <1>1, RestLemma
<1>3. Batch(sq, k) \subseteq Entry
  BY <1>1, BatchLemma
<1> QED  BY <1>1, <1>2, <1>3

\* The same through Enter, as submit, wait and wait_with_timeout do it.
LEMMA SubmitType ==
  ASSUME QueuesOK, NEW k \in Consumed(sq), NEW want,
         Enter(Rest(sq, k), Batch(sq, k), want)
  PROVE  QueuesOK'
<1>1. k \in 0 .. Len(sq)
  BY ConsumedLemma DEF QueuesOK
<1> QED  BY <1>1, TakeType, EnterType

\* A call that blocks keeps the types.
LEMMA BlockType ==
  ASSUME call \in Call, ret \in Results, cqes \in Seq(Cqe),
         NEW op \in {"wait", "wait_with_timeout"}, NEW want \in Nat,
         NEW q \in Seq(Entry), NEW k, Block(op, want, q, k)
  PROVE  call' \in Call /\ ret' \in Results
<1> DEFINE cut == ~SqPoll /\ k < Len(q)
<1>1. Len(q) \in Nat /\ Len(cqes) \in Nat
  OBVIOUS
<1>2. cut \in BOOLEAN
  BY Zenon
<1>3. ret' = ret /\ call' = [op |-> op, want |-> want,
                             submitted |-> Len(q), cut |-> cut,
                             unread |-> Len(cqes), timer |-> FALSE]
  BY Zenon DEF Block
<1> HIDE DEF cut
<1>4. [op |-> op, want |-> want, submitted |-> Len(q), cut |-> cut,
       unread |-> Len(cqes), timer |-> FALSE] \in Call
  BY <1>1, <1>2 DEF Call
<1> QED  BY <1>3, <1>4

\* The timeout is an entry.
LEMMA TimeoutEntryType ==
  ASSUME TypeOK
  PROVE  TimeoutEntry \in Entry
<1>1. TimeoutUserData \in UserData
  BY TimeoutUserDataLemma
<1>2. pushed + 1 \in Nat
  BY DEF TypeOK
<1> QED  BY <1>1, <1>2 DEF TimeoutEntry, Entry, Links

\* submit keeps the types.
LEMMA submitType ==
  ASSUME TypeOK, submit, UNCHANGED user_data_counter
  PROVE  TypeOK'
<1>1. QueuesOK /\ RestOK
  BY TypeParts
<1>2. CASE Refuse("closed") \/ Refuse("OSError")
  BY <1>1, <1>2, RefuseType DEF Results, RestOK
<1>3. CASE /\ \E k \in Consumed(sq) : Enter(Rest(sq, k), Batch(sq, k), 0)
           /\ open_link' = 0
           /\ Return("ok")
           /\ UNCHANGED <<ring, owned_data, pushed, call, events>>
  <2>1. QueuesOK'
    BY <1>1, <1>3, SubmitType
  <2>2. RestOK'
    BY <1>1, <1>3 DEF RestOK, Return, Results
  <2> QED  BY <2>1, <2>2 DEF TypeOK, QueuesOK, RestOK
<1> QED  BY <1>2, <1>3 DEF submit

\* wait keeps the types.
LEMMA waitType ==
  ASSUME TypeOK, NEW want \in Nat, wait(want), UNCHANGED user_data_counter
  PROVE  TypeOK'
<1>1. QueuesOK /\ RestOK
  BY TypeParts
<1>2. CASE Refuse("closed") \/ Refuse("OSError")
  BY <1>1, <1>2, RefuseType DEF Results, RestOK
<1>3. ASSUME NEW k \in Consumed(sq),
             Enter(Rest(sq, k), Batch(sq, k), want),
             Block("wait", want, sq, k),
             open_link' = 0, UNCHANGED <<ring, owned_data, pushed, events>>
      PROVE  TypeOK'
  <2>1. QueuesOK'
    BY <1>1, <1>3, SubmitType
  <2>2. call' \in Call /\ ret' \in Results
    BY <1>1, <1>3, BlockType DEF QueuesOK, RestOK
  <2>3. RestOK'
    BY <1>1, <1>3, <2>2 DEF RestOK
  <2> QED  BY <2>1, <2>3 DEF TypeOK, QueuesOK, RestOK
<1> QED  BY <1>2, <1>3 DEF wait

\* wait_with_timeout keeps the types.
LEMMA wait_with_timeoutType ==
  ASSUME TypeOK, wait_with_timeout, UNCHANGED user_data_counter
  PROVE  TypeOK'
<1>1. QueuesOK /\ RestOK
  BY TypeParts
<1>2. CASE Refuse("closed") \/ Refuse("OSError")
  BY <1>1, <1>2, RefuseType DEF Results, RestOK
<1>3. ASSUME NEW k \in Purged, open_link' = 0,
             UNCHANGED <<ring, owned_data, events>>,
             Enter(Rest(sq, k), Batch(sq, k), 0), Return("ValueError"),
             UNCHANGED <<pushed, call>>
      PROVE  TypeOK'
  <2>1. QueuesOK'
    BY <1>1, <1>3, SubmitType DEF Purged
  <2>2. RestOK'
    BY <1>1, <1>3 DEF RestOK, Return, Results
  <2> QED  BY <2>1, <2>2 DEF TypeOK, QueuesOK, RestOK
<1>4. ASSUME NEW k \in Purged, NEW q, q = Append(Rest(sq, k), TimeoutEntry),
             Len(q) <= SqEntries, open_link' = 0,
             UNCHANGED <<ring, owned_data, events>>, pushed' = pushed + 1,
             \/ /\ Enter(q, Batch(sq, k), 0)
                /\ Return("OSError")
                /\ UNCHANGED call
             \/ \E j \in Awaited(q) :
                  /\ Enter(Rest(q, j), Batch(sq, k) \cup Batch(q, j), 1)
                  /\ Block("wait_with_timeout", 1, q, j)
      PROVE  TypeOK'
  <2>1. k \in 0 .. Len(sq)
    BY <1>1, ConsumedLemma DEF Purged, QueuesOK
  <2>2. /\ Rest(sq, k) \in Seq(Entry)
        /\ Batch(sq, k) \in SUBSET Entry
    BY <1>1, <2>1, TakeType
  <2>3. q \in Seq(Entry)
    BY <1>4, <2>2, TimeoutEntryType
  <2>4. CASE /\ Enter(q, Batch(sq, k), 0)
             /\ Return("OSError")
             /\ UNCHANGED call
    <3>1. QueuesOK'
      BY <1>1, <1>4, <2>2, <2>3, <2>4, EnterType
    <3>2. RestOK'
      BY <1>1, <1>4, <2>4 DEF RestOK, Return, Results
    <3> QED  BY <3>1, <3>2 DEF TypeOK, QueuesOK, RestOK
  <2>5. ASSUME NEW j \in Awaited(q),
               Enter(Rest(q, j), Batch(sq, k) \cup Batch(q, j), 1),
               Block("wait_with_timeout", 1, q, j)
        PROVE  TypeOK'
    <3>1. j \in 0 .. Len(q)
      BY <2>3, ConsumedLemma DEF Awaited
    <3>2. Rest(q, j) \in Seq(Entry) /\ Len(Rest(q, j)) = Len(q) - j
      BY <2>3, <3>1, RestLemma
    <3>3. Batch(q, j) \subseteq Entry
      BY <2>3, <3>1, BatchLemma
    <3>4. Len(Rest(q, j)) <= SqEntries
      BY <1>4, <2>3, <3>1, <3>2
    <3>5. Batch(sq, k) \cup Batch(q, j) \in SUBSET Entry
      BY <2>2, <3>3
    <3>6. QueuesOK'
      BY <1>1, <2>5, <3>2, <3>4, <3>5, EnterType
    <3>7. call' \in Call /\ ret' \in Results
      BY <1>1, <2>3, <2>5, BlockType DEF QueuesOK, RestOK
    <3>8. RestOK'
      BY <1>1, <1>4, <3>7 DEF RestOK
    <3> QED  BY <3>6, <3>8 DEF TypeOK, QueuesOK, RestOK
  <2> QED  BY <1>4, <2>4, <2>5
<1> QED  BY <1>2, <1>3, <1>4 DEF wait_with_timeout
-----------------------------------------------------------------------------
\* A buffer length, or none.
LEMMA EventBufferType ==
  ASSUME NEW owned \in OwnedData, NEW result \in Int
  PROVE  event_buffer(owned, result) \in Nat \cup {NoBuffer}
  BY DEF event_buffer, OwnedData, NoBuffer

\* What a reaped entry frees is an OwnedData.
LEMMA RemovedType ==
  ASSUME TypeOK, NEW i \in 1 .. visible
  PROVE  Removed(i) \in OwnedData /\ cqes[i] \in Cqe
<1>1. NoData \in OwnedData
  BY DEF NoData, OwnedData
<1>2. cqes[i] \in Cqe
  BY DEF TypeOK
<1>3. cqes[i].ud \in UserData
  BY <1>2 DEF Cqe
<1>4. owned_data[cqes[i].ud] \in OwnedData
  BY <1>3 DEF TypeOK
<1> QED  BY <1>1, <1>2, <1>4 DEF Removed

\* get_completion_entries keeps the types.
LEMMA get_completion_entriesType ==
  ASSUME TypeOK, get_completion_entries, UNCHANGED user_data_counter
  PROVE  TypeOK'
<1>1. QueuesOK /\ RestOK
  BY TypeParts
<1>2. CASE Refuse("closed")
  BY <1>1, <1>2, RefuseType DEF Results, RestOK
<1>3. CASE ring = "open"
  <2>1. \A i \in 1 .. visible : Event(i) \in CompletionEvent
    <3> TAKE i \in 1 .. visible
    <3>1. Removed(i) \in OwnedData /\ cqes[i] \in Cqe
      BY RemovedType
    <3>2. cqes[i].result \in Int
      BY <3>1 DEF Cqe
    <3>3. event_buffer(Removed(i), cqes[i].result) \in Nat \cup {NoBuffer}
      BY <3>1, <3>2, EventBufferType
    <3> QED  BY <3>1, <3>3 DEF Event, CompletionEvent, Cqe
  <2>2. events' \in SUBSET CompletionEvent
    BY <1>1, <1>3, <2>1 DEF get_completion_entries, RestOK, Refuse
  <2>3. NoData \in OwnedData
    BY DEF NoData, OwnedData
  <2>4. owned_data' \in [UserData -> OwnedData]
    BY <1>1, <1>3, <2>3 DEF get_completion_entries, RestOK, Refuse
  <2>5. cqes' \in Seq(Cqe)
    BY <1>1, <1>3, RestLemma DEF get_completion_entries, QueuesOK, Refuse
  <2>6. QueuesOK'
    BY <1>1, <1>3, <2>5 DEF get_completion_entries, QueuesOK, Refuse
  <2>7. RestOK'
    BY <1>1, <1>3, <2>2, <2>4
       DEF get_completion_entries, RestOK, Return, Results, Refuse, ghosts
  <2> QED  BY <2>6, <2>7 DEF TypeOK, QueuesOK, RestOK
<1> QED  BY <1>2, <1>3 DEF get_completion_entries

\* The members of Without are members of inflight, up to their fate.
LEMMA WithoutLemma ==
  ASSUME TypeOK, NEW e \in inflight, NEW fate \in {"run", "cancel", "mute"}
  PROVE  /\ Without(e, fate) \in SUBSET Entry
         /\ \A f \in Without(e, fate) : \E g \in inflight \ {e} :
              f.ud = g.ud /\ f.data = g.data /\ f.len = g.len
                /\ f.skip = g.skip /\ f.seq = g.seq /\ f.link = g.link
                /\ f.prev = g.prev /\ f.after = g.after
<1> DEFINE F(f) == IF f.prev = e.seq THEN [f EXCEPT !.fate = fate] ELSE f
<1>1. Without(e, fate) = {F(f) : f \in inflight \ {e}}
  BY DEF Without
<1>2. ASSUME NEW g \in inflight \ {e}
      PROVE  /\ F(g) \in Entry
             /\ F(g).ud = g.ud /\ F(g).data = g.data /\ F(g).len = g.len
             /\ F(g).skip = g.skip /\ F(g).seq = g.seq /\ F(g).link = g.link
             /\ F(g).prev = g.prev /\ F(g).after = g.after
  <2>1. g \in Entry
    BY DEF TypeOK
  <2> QED  BY <2>1 DEF Entry
<1> HIDE DEF F
<1> QED  BY <1>1, <1>2

\* Finishing an entry keeps the types.
LEMMA FinishType ==
  ASSUME TypeOK, NEW others \in SUBSET Entry, NEW posts \in Seq(Cqe),
         Len(posts) <= 1, Finish(others, posts), call' \in Call
  PROVE  TypeOK'
<1>1. QueuesOK /\ RestOK
  BY TypeParts
<1>2. CASE ring = "open" /\ posts # <<>>
  <2>1. cqes' = cqes \o posts
    BY <1>2 DEF Finish
  <2>2. cqes' \in Seq(Cqe) /\ Len(cqes') = Len(cqes) + 1
    BY <1>1, <1>2, <2>1 DEF QueuesOK
  <2>3. visible' \in 0 .. Len(cqes') /\ visible' <= CqEntries
    BY <1>1, <1>2, <2>2 DEF Finish, QueuesOK
  <2>4. eventfd' \in {"none", "clear", "set"}
    BY <1>1, <1>2 DEF Finish, Signalled, QueuesOK
  <2>5. QueuesOK'
    BY <1>1, <2>2, <2>3, <2>4 DEF Finish, QueuesOK
  <2>6. RestOK'
    BY <1>1 DEF Finish, RestOK, ghosts
  <2> QED  BY <2>5, <2>6 DEF TypeOK, QueuesOK, RestOK
<1>3. CASE ring # "open" \/ posts = <<>>
  <2>1. UNCHANGED <<cqes, visible, eventfd>>
    BY <1>3 DEF Finish
  <2>2. QueuesOK'
    BY <1>1, <2>1 DEF Finish, QueuesOK
  <2>3. RestOK'
    BY <1>1 DEF Finish, RestOK, ghosts
  <2> QED  BY <2>2, <2>3 DEF TypeOK, QueuesOK, RestOK
<1> QED  BY <1>2, <1>3
-----------------------------------------------------------------------------
\* A completion is a sequence of at most one Cqe.
LEMMA CompletionType ==
  ASSUME NEW e \in Entry, NEW result \in Int
  PROVE  /\ Completion(e, result) \in Seq(Cqe)
         /\ Len(Completion(e, result)) <= 1
<1>1. [ud |-> e.ud, result |-> result, data |-> e.data, len |-> e.len] \in Cqe
  BY DEF Entry, Cqe
<1> QED  BY <1>1 DEF Completion

\* The result of an operation is an integer.
LEMMA OpResultsType ==
  ASSUME NEW e \in Entry, NEW result \in OpResults(e)
  PROVE  result \in Int
<1>1. e.len \in Nat
  BY DEF Entry
<1>2. CASE e.data = "timespec"
  BY <1>2 DEF OpResults
<1>3. CASE e.data = "Buffer"
  BY <1>1, <1>3 DEF OpResults
<1>4. CASE e.data # "timespec" /\ e.data # "Buffer"
  BY <1>4 DEF OpResults
<1> QED  BY <1>2, <1>3, <1>4

\* What e may hand on: silence comes from a severed link on an entry that
\* asked for no completion.
HandsOn(e, fate) ==
  fate = "mute" => e.fate = "mute" \/ (e.skip /\ e.link = "soft")

\* A step of the kernel on an operation: it is one Finish.
LEMMA KernelIsFinish ==
  ASSUME TypeOK, NEW e \in inflight, Kernel(e)
  PROVE  /\ call' \in Call
         /\ \E fate \in {"run", "cancel", "mute"}, result \in Int :
              /\ HandsOn(e, fate)
              /\ \/ Finish(Without(e, fate), Completion(e, result))
                 \/ /\ Finish(Without(e, fate), <<>>)
                    /\ e.skip \/ e.fate = "mute"
<1>1. e \in Entry
  BY DEF TypeOK
<1>2. CASE KernelComplete(e)
  <2>1. PICK result \in OpResults(e) : \E severs \in Severs(e, result) :
          Finish(Without(e, SeveredFate(e, severs)),
                 IF e.skip /\ result >= 0 THEN <<>> ELSE Completion(e, result))
    BY <1>2 DEF KernelComplete
  <2>2. PICK severs \in Severs(e, result) :
          Finish(Without(e, SeveredFate(e, severs)),
                 IF e.skip /\ result >= 0 THEN <<>> ELSE Completion(e, result))
    BY <2>1
  <2>3. result \in Int
    BY <1>1, OpResultsType
  <2>4. SeveredFate(e, severs) \in {"run", "cancel", "mute"}
    BY DEF SeveredFate
  <2>5. call' \in Call
    <3>1. call \in Call /\ call' = [call EXCEPT !.timer = call.timer
             \/ (call.op # "none" /\ e.data = "timespec")]
      BY <1>2 DEF KernelComplete, TypeOK
    <3> DEFINE t == call.timer \/ (call.op # "none" /\ e.data = "timespec")
    <3>2. t \in BOOLEAN
      BY <3>1 DEF Call
    <3> HIDE DEF t
    <3>3. [call EXCEPT !.timer = t] \in Call
      BY <3>1, <3>2 DEF Call
    <3> QED  BY <3>1, <3>3 DEF t
  <2>6. HandsOn(e, SeveredFate(e, severs))
    <3>1. severs => e.link = "soft"
      BY DEF Severs
    <3> QED  BY <3>1 DEF SeveredFate, HandsOn
  <2>7. CASE e.skip /\ result >= 0
    BY <2>2, <2>3, <2>4, <2>5, <2>6, <2>7
  <2>8. CASE ~(e.skip /\ result >= 0)
    BY <2>2, <2>3, <2>4, <2>5, <2>6, <2>8
  <2> QED  BY <2>7, <2>8
<1>3. CASE KernelCancel(e)
  <2>1. e.fate \in {"run", "cancel", "mute"}
    BY <1>1 DEF Entry
  <2>2. call' \in Call
    BY <1>3 DEF KernelCancel, TypeOK
  <2>3. Finish(Without(e, e.fate),
               IF e.fate = "mute" THEN <<>> ELSE Completion(e, -1))
    BY <1>3 DEF KernelCancel
  <2>4. HandsOn(e, e.fate)
    BY DEF HandsOn
  <2>5. CASE e.fate = "mute"
    BY <2>1, <2>2, <2>3, <2>4, <2>5
  <2>6. CASE e.fate # "mute"
    BY <2>1, <2>2, <2>3, <2>4, <2>6
  <2> QED  BY <2>5, <2>6
<1> QED  BY <1>2, <1>3 DEF Kernel

\* A step of the kernel on an operation keeps the types.
LEMMA KernelType ==
  ASSUME TypeOK, NEW e \in inflight, Kernel(e)
  PROVE  TypeOK'
<1>1. e \in Entry
  BY DEF TypeOK
<1>2. ASSUME NEW fate \in {"run", "cancel", "mute"}, NEW result \in Int
      PROVE  /\ Without(e, fate) \in SUBSET Entry
             /\ Completion(e, result) \in Seq(Cqe)
             /\ Len(Completion(e, result)) <= 1
  BY <1>1, WithoutLemma, CompletionType
<1>3. PICK fate \in {"run", "cancel", "mute"}, result \in Int :
        \/ Finish(Without(e, fate), Completion(e, result))
        \/ Finish(Without(e, fate), <<>>)
  BY KernelIsFinish
<1>4. call' \in Call
  BY KernelIsFinish
<1>5. \A posts \in Seq(Cqe) :
        Len(posts) <= 1 /\ Finish(Without(e, fate), posts) => TypeOK'
  BY <1>2, <1>4, FinishType
<1>6. CASE Finish(Without(e, fate), Completion(e, result))
  <2>1. /\ Completion(e, result) \in Seq(Cqe)
        /\ Len(Completion(e, result)) <= 1
    BY <1>2, Zenon
  <2> QED  BY <1>5, <1>6, <2>1, Zenon
<1>7. CASE Finish(Without(e, fate), <<>>)
  <2>1. <<>> \in Seq(Cqe) /\ Len(<<>>) <= 1
    OBVIOUS
  <2> QED  BY <1>5, <1>7, <2>1, Zenon
<1> QED  BY <1>3, <1>6, <1>7

\* Every step keeps the types.
LEMMA TypeStep ==
  ASSUME TypeOK, [Next]_vars
  PROVE  TypeOK'
<1>1. QueuesOK /\ RestOK
  BY TypeParts
<1>2. CASE prep_openat \/ prep_close \/ prep_read \/ prep_write
             \/ prep_create_socket \/ prep_connect_v4 \/ prep_connect_v6
             \/ prep_recv \/ prep_send
  BY <1>2, PrepsArePrepSteps, PrepType
<1>3. CASE IoUring_submit
  BY <1>3, submitType DEF IoUring_submit
<1>4. CASE IoUring_submit_and_wait
  BY <1>4, waitType, ArgumentsAssumption DEF IoUring_submit_and_wait
<1>5. CASE IoUring_submit_and_wait_with_timeout
  BY <1>5, wait_with_timeoutType DEF IoUring_submit_and_wait_with_timeout
<1>6. CASE IoUring_get_completion_entries
  BY <1>6, get_completion_entriesType DEF IoUring_get_completion_entries
<1>7. CASE IoUring_register_eventfd
  <2>1. CASE Refuse("closed") \/ Refuse("OSError")
    BY <1>1, <1>7, <2>1, RefuseType
       DEF IoUring_register_eventfd, Results, RestOK
  <2>2. CASE ~(Refuse("closed") \/ Refuse("OSError"))
    BY <1>7, <2>2 DEF IoUring_register_eventfd, register_eventfd, TypeOK,
                      Return, Results, ghosts
  <2> QED  BY <2>1, <2>2
<1>8. CASE make_io_ring_exit
  <2>1. sq' \in Seq(Entry) /\ Len(sq') = 0 /\ cqes' \in Seq(Cqe)
          /\ Len(cqes') = 0
    BY <1>8 DEF make_io_ring_exit, close
  <2> QED  BY <1>8, <2>1 DEF make_io_ring_exit, close, TypeOK, Return,
                             Results, ghosts
<1>9. CASE ReadEventfd
  BY <1>9 DEF ReadEventfd, TypeOK, ghosts
<1>10. CASE Drop
  <2>1. NoData \in OwnedData
    BY DEF NoData, OwnedData
  <2> QED  BY <1>10, <2>1 DEF Drop, TypeOK, queues, ghosts
<1>11. CASE WaitReturn
  <2>1. NoCall \in Call
    BY DEF NoCall, Call
  <2>2. call' \in Call /\ ret' \in Results
    BY <1>11, <2>1 DEF WaitReturn, Return, Results
  <2> QED  BY <1>11, <2>2 DEF WaitReturn, TypeOK, queues, ghosts
<1>12. CASE \E e \in inflight : Kernel(e)
  BY <1>12, KernelType
<1>13. CASE SqPollConsume
  <2>1. PICK k \in 1 .. Len(sq) : /\ sq' = Rest(sq, k)
                                  /\ inflight' = inflight \cup Batch(sq, k)
    BY <1>13 DEF SqPollConsume
  <2>2. QueuesOK'
    BY <1>1, <1>13, <2>1, TakeType DEF SqPollConsume, QueuesOK
  <2>3. RestOK'
    BY <1>1, <1>13 DEF SqPollConsume, RestOK, ghosts
  <2> QED  BY <2>2, <2>3 DEF TypeOK, QueuesOK, RestOK
<1>14. CASE SqPollSleep
  BY <1>14 DEF SqPollSleep, TypeOK, ghosts
<1>15. CASE UNCHANGED vars
  BY <1>15 DEF vars, TypeOK, queues, ghosts
<1> QED
  BY <1>2, <1>3, <1>4, <1>5, <1>6, <1>7, <1>8, <1>9, <1>10, <1>11, <1>12,
     <1>13, <1>14, <1>15 DEF Next

\* TheIoRing is type correct: in particular the submission queue never holds
\* more than SqEntries entries and the completion queue never more than
\* CqEntries, whatever autosubmit, wait_with_timeout and the kernel do.
THEOREM TypeCorrect == Spec => []TypeOK
<1>1. Init => TypeOK
  <2> SUFFICES ASSUME Init PROVE TypeOK
    OBVIOUS
  <2>1. NoData \in OwnedData /\ NoCall \in Call
    BY DEF NoData, OwnedData, NoCall, Call
  <2>2. QueuesOK
    BY DEF Init, QueuesOK
  <2>3. RestOK
    BY <2>1 DEF Init, RestOK, Results
  <2> QED  BY <2>2, <2>3, TypeParts
<1>2. TypeOK /\ [Next]_vars => TypeOK'
  BY TypeStep
<1> QED  BY <1>1, <1>2, PTL DEF Spec
-----------------------------------------------------------------------------
(***************************************************************************)
(* Where an operation is, and what it owns.                                *)
(*                                                                         *)
(* KernelPointersOwned is not inductive: reaping a completion frees what   *)
(* is stored under its user data, so no operation that is still queued or  *)
(* running may have that value.  Placed says that each value drawn by      *)
(* get_next_user_data is in one place.  The definitions take the queues as *)
(* arguments, because one API call may move entries more than once.        *)
(***************************************************************************)
IsUser(u) == u # TimeoutUserData
Known(e, n) == IF e.data = "timespec" THEN ~IsUser(e.ud)
               ELSE e.ud < n /\ IsUser(e.ud)
Drawn(u, n) == IsUser(u) => u < n

Numbered(q, fl, c, evs, n) ==
  /\ \A i \in 1 .. Len(q) : Known(q[i], n)
  /\ \A e \in fl : Known(e, n)
  /\ \A i \in 1 .. Len(c) : Drawn(c[i].ud, n)
  /\ \A ev \in evs : Drawn(ev.ud, n)

DistinctPending(q, fl) ==
  /\ \A i, j \in 1 .. Len(q) : q[i].ud = q[j].ud /\ IsUser(q[i].ud) => i = j
  /\ \A e, f \in fl : e.ud = f.ud /\ IsUser(e.ud) => e = f
  /\ \A i \in 1 .. Len(q), e \in fl : q[i].ud = e.ud => ~IsUser(e.ud)

\* No pending entry has the user data u.
Absent(u, q, fl) ==
  /\ \A i \in 1 .. Len(q) : q[i].ud # u
  /\ \A e \in fl : e.ud # u

DistinctDone(q, fl, c, evs) ==
  /\ \A i \in 1 .. Len(c) : IsUser(c[i].ud) => Absent(c[i].ud, q, fl)
  /\ \A ev \in evs : IsUser(ev.ud) => Absent(ev.ud, q, fl)

DistinctReaped(c, evs) ==
  /\ \A i, j \in 1 .. Len(c) : c[i].ud = c[j].ud /\ IsUser(c[i].ud) => i = j
  /\ \A i \in 1 .. Len(c), ev \in evs : c[i].ud = ev.ud => ~IsUser(ev.ud)
  /\ \A ev, ew \in evs : ev.ud = ew.ud /\ IsUser(ev.ud) => ev = ew

Placed(q, fl, c, evs, n) ==
  /\ Numbered(q, fl, c, evs, n)
  /\ DistinctPending(q, fl)
  /\ DistinctDone(q, fl, c, evs)
  /\ DistinctReaped(c, evs)

Owns(q, fl, own) ==
  /\ \A i \in 1 .. Len(q) : q[i].data \in OwnedKinds =>
       own[q[i].ud] = [data |-> q[i].data, len |-> q[i].len]
  /\ \A e \in fl : e.data \in OwnedKinds =>
       own[e.ud] = [data |-> e.data, len |-> e.len]

\* A closed ring has no queues.
ClosedIsEmpty == ring # "open" => Len(sq) = 0 /\ Len(cqes) = 0

IInv ==
  /\ Placed(sq, inflight, cqes, events, user_data_counter)
  /\ Owns(sq, inflight, owned_data)
  /\ ClosedIsEmpty

\* KernelPointersOwned is Owns of the current queues.
LEMMA OwnsIsPointersOwned == KernelPointersOwned <=>
                               Owns(sq, inflight, owned_data)
  BY DEF KernelPointersOwned, Owns, Pending, Entries

\* The entries of a queue with one more entry.
LEMMA AppendLemma ==
  ASSUME NEW S, NEW q \in Seq(S), NEW e \in S
  PROVE  /\ Append(q, e) \in Seq(S)
         /\ Len(q) \in Nat /\ Len(Append(q, e)) = Len(q) + 1
         /\ \A i \in 1 .. Len(Append(q, e)) :
              \/ i \in 1 .. Len(q) /\ Append(q, e)[i] = q[i]
              \/ i = Len(q) + 1 /\ Append(q, e)[i] = e
  OBVIOUS

\* Drawing a value and pushing an entry with it keeps Placed and Owns.
LEMMA PushUser ==
  ASSUME NEW q \in Seq(Entry), NEW fl \in SUBSET Entry, NEW c \in Seq(Cqe),
         NEW evs \in SUBSET CompletionEvent, NEW n \in 0 .. (MaxUserData - 1),
         NEW e \in Entry, e.ud = n, e.data \in Data,
         NEW own \in [UserData -> OwnedData],
         Placed(q, fl, c, evs, n), Owns(q, fl, own)
  PROVE  /\ Placed(Append(q, e), fl, c, evs, n + 1)
         /\ Owns(Append(q, e), fl,
                 IF e.data = "none" THEN own
                 ELSE [own EXCEPT ![e.ud] = [data |-> e.data, len |-> e.len]])
<1> DEFINE p == Append(q, e)
<1>1. /\ Len(q) \in Nat /\ Len(p) = Len(q) + 1
      /\ \A i \in 1 .. Len(p) :
           \/ i \in 1 .. Len(q) /\ p[i] = q[i]
           \/ i = Len(q) + 1 /\ p[i] = e
  BY AppendLemma
<1>2. IsUser(n) /\ e.data # "timespec"
  BY TimeoutUserDataLemma DEF IsUser, Data, OwnedKinds, TimeoutUserData
<1>3. /\ \A i \in 1 .. Len(q) : q[i] \in Entry /\ q[i].ud \in UserData
      /\ \A f \in fl : f.ud \in UserData
      /\ \A i \in 1 .. Len(c) : c[i].ud \in UserData
      /\ \A ev \in evs : ev.ud \in UserData
  <2>1. \A i \in 1 .. Len(q) : q[i] \in Entry
    OBVIOUS
  <2>2. \A i \in 1 .. Len(c) : c[i] \in Cqe
    OBVIOUS
  <2> QED  BY <2>1, <2>2 DEF Entry, Cqe, CompletionEvent
<1>4. UserData \subseteq Int
  BY DEF UserData
<1>5. /\ \A i \in 1 .. Len(q) : q[i].ud # n
      /\ \A f \in fl : f.ud # n
      /\ \A i \in 1 .. Len(c) : c[i].ud # n
      /\ \A ev \in evs : ev.ud # n
  BY <1>2, <1>3, <1>4 DEF Placed, Numbered, Known, Drawn, IsUser
<1> HIDE DEF p
<1>6. Numbered(p, fl, c, evs, n + 1)
  <2>0. \A u \in UserData : u < n => u < n + 1
    BY <1>4
  <2>1. ASSUME NEW i \in 1 .. Len(p)
        PROVE  Known(p[i], n + 1)
    <3>1. CASE i \in 1 .. Len(q) /\ p[i] = q[i]
      BY <1>3, <2>0, <3>1 DEF Placed, Numbered, Known
    <3>2. CASE p[i] = e
      BY <1>2, <3>2 DEF Known
    <3> QED  BY <1>1, <3>1, <3>2
  <2>2. \A f \in fl : Known(f, n + 1)
    BY <1>3, <2>0 DEF Placed, Numbered, Known
  <2>3. \A i \in 1 .. Len(c) : Drawn(c[i].ud, n + 1)
    BY <1>3, <2>0 DEF Placed, Numbered, Drawn
  <2>4. \A ev \in evs : Drawn(ev.ud, n + 1)
    BY <1>3, <2>0 DEF Placed, Numbered, Drawn
  <2> QED  BY <2>1, <2>2, <2>3, <2>4 DEF Numbered
<1>7. DistinctPending(p, fl)
  BY <1>1, <1>5 DEF Placed, DistinctPending
<1>8. DistinctDone(p, fl, c, evs)
  BY <1>1, <1>5 DEF Placed, DistinctDone, Absent
<1>9. Placed(p, fl, c, evs, n + 1)
  BY <1>6, <1>7, <1>8 DEF Placed
<1>10. Owns(p, fl,
            IF e.data = "none" THEN own
            ELSE [own EXCEPT ![e.ud] = [data |-> e.data, len |-> e.len]])
  <2>1. CASE e.data = "none"
    BY <1>1, <2>1 DEF Owns, OwnedKinds
  <2>2. CASE e.data # "none"
    <3> DEFINE o == [own EXCEPT ![e.ud] = [data |-> e.data, len |-> e.len]]
    <3>1. o[n] = [data |-> e.data, len |-> e.len]
      BY <1>4 DEF UserData
    <3>2. \A u \in UserData : u # n => o[u] = own[u]
      OBVIOUS
    <3> HIDE DEF o
    <3>3. ASSUME NEW i \in 1 .. Len(p), p[i].data \in OwnedKinds
          PROVE  o[p[i].ud] = [data |-> p[i].data, len |-> p[i].len]
      <4>1. CASE i \in 1 .. Len(q) /\ p[i] = q[i]
        BY <1>3, <1>5, <3>2, <3>3, <4>1 DEF Owns
      <4>2. CASE p[i] = e
        BY <3>1, <4>2
      <4> QED  BY <1>1, <4>1, <4>2
    <3>4. \A f \in fl : f.data \in OwnedKinds =>
            o[f.ud] = [data |-> f.data, len |-> f.len]
      BY <1>3, <1>5, <3>2 DEF Owns
    <3>5. Owns(p, fl, o)
      BY <3>3, <3>4 DEF Owns
    <3> QED  BY <2>2, <3>5 DEF o
  <2> QED  BY <2>1, <2>2
<1> QED  BY <1>9, <1>10 DEF p

\* Pushing the timeout keeps Placed and Owns.
LEMMA PushTimeout ==
  ASSUME NEW q \in Seq(Entry), NEW fl \in SUBSET Entry, NEW c, NEW evs, NEW n,
         NEW own, NEW e \in Entry, e.ud = TimeoutUserData,
         e.data = "timespec", Placed(q, fl, c, evs, n), Owns(q, fl, own)
  PROVE  /\ Placed(Append(q, e), fl, c, evs, n)
         /\ Owns(Append(q, e), fl, own)
<1> DEFINE p == Append(q, e)
<1>1. /\ Len(q) \in Nat /\ Len(p) = Len(q) + 1
      /\ \A i \in 1 .. Len(p) :
           \/ i \in 1 .. Len(q) /\ p[i] = q[i]
           \/ i = Len(q) + 1 /\ p[i] = e
  BY AppendLemma
<1> HIDE DEF p
<1>2. ~IsUser(e.ud)
  BY DEF IsUser
<1>3. Numbered(p, fl, c, evs, n)
  BY <1>1, <1>2 DEF Placed, Numbered, Known
<1>4. DistinctPending(p, fl)
  BY <1>1, <1>2 DEF Placed, DistinctPending
<1>5. DistinctDone(p, fl, c, evs)
  BY <1>1, <1>2 DEF Placed, DistinctDone, Absent
<1>6. Owns(p, fl, own)
  BY <1>1 DEF Owns, OwnedKinds
<1> QED  BY <1>3, <1>4, <1>5, <1>6 DEF p, Placed

\* The kernel taking the first k entries keeps Placed and Owns.
LEMMA Take ==
  ASSUME NEW q \in Seq(Entry), NEW fl \in SUBSET Entry, NEW c, NEW evs, NEW n,
         NEW own, NEW k \in 0 .. Len(q),
         Placed(q, fl, c, evs, n), Owns(q, fl, own)
  PROVE  /\ Placed(Rest(q, k), fl \cup Batch(q, k), c, evs, n)
         /\ Owns(Rest(q, k), fl \cup Batch(q, k), own)
<1> DEFINE r == Rest(q, k)
           b == Batch(q, k)
           g == fl \cup b
<1>1. /\ Len(r) = Len(q) - k /\ Len(q) \in Nat
      /\ \A i \in 1 .. Len(r) :
           i + k \in (k + 1) .. Len(q) /\ r[i] = q[i + k]
  BY RestLemma
<1>2. \A e \in b : \E i \in 1 .. k :
        e.ud = q[i].ud /\ e.data = q[i].data /\ e.len = q[i].len
  BY BatchLemma
<1>3. \A e, f \in b : e.ud = f.ud /\ IsUser(e.ud) => e = f
  <2> DEFINE P(i) == IF i > 1 /\ q[i - 1].link # "none"
                     THEN q[i - 1].seq ELSE 0
             B(i) == [q[i] EXCEPT !.prev = P(i)]
  <2>1. b = {B(i) : i \in 1 .. k}
    BY DEF Batch
  <2>2. ASSUME NEW i \in 1 .. k
        PROVE  B(i).ud = q[i].ud
    <3>1. q[i] \in Entry
      OBVIOUS
    <3> QED  BY <3>1 DEF Entry
  <2> HIDE DEF B, b
  <2>3. \A i, j \in 1 .. k : B(i).ud = B(j).ud /\ IsUser(B(i).ud) => i = j
    BY <2>2 DEF Placed, DistinctPending
  <2> QED  BY <2>1, <2>3
<1> HIDE DEF r, b
<1>4. Numbered(r, g, c, evs, n)
  <2>1. ASSUME NEW i \in 1 .. Len(r)
        PROVE  Known(r[i], n)
    <3>1. i + k \in 1 .. Len(q) /\ r[i] = q[i + k]
      BY <1>1
    <3> QED  BY <3>1 DEF Placed, Numbered
  <2>2. ASSUME NEW e \in b
        PROVE  Known(e, n)
    <3>1. PICK i \in 1 .. k :
            e.ud = q[i].ud /\ e.data = q[i].data /\ e.len = q[i].len
      BY <1>2
    <3>2. Known(q[i], n)
      BY <1>1, <3>1 DEF Placed, Numbered
    <3> QED  BY <3>1, <3>2 DEF Known
  <2>3. \A e \in fl : Known(e, n)
    BY DEF Placed, Numbered
  <2> QED  BY <2>1, <2>2, <2>3 DEF Placed, Numbered
<1>5. DistinctPending(r, g)
  <2>1. ASSUME NEW i \in 1 .. Len(r), NEW j \in 1 .. Len(r),
               r[i].ud = r[j].ud, IsUser(r[i].ud)
        PROVE  i = j
    <3>1. /\ i + k \in 1 .. Len(q) /\ r[i] = q[i + k]
          /\ j + k \in 1 .. Len(q) /\ r[j] = q[j + k]
      BY <1>1
    <3>2. i + k = j + k
      BY <2>1, <3>1 DEF Placed, DistinctPending
    <3> QED  BY <3>2
  <2>2. \A e, f \in g : e.ud = f.ud /\ IsUser(e.ud) => e = f
    BY <1>2, <1>3 DEF Placed, DistinctPending
  <2>3. \A i \in 1 .. Len(r), e \in g : r[i].ud = e.ud => ~IsUser(e.ud)
    BY <1>1, <1>2 DEF Placed, DistinctPending
  <2> QED  BY <2>1, <2>2, <2>3 DEF DistinctPending
<1>6. DistinctDone(r, g, c, evs)
  <2>1. ASSUME NEW u, Absent(u, q, fl)
        PROVE  Absent(u, r, g)
    BY <1>1, <1>2, <2>1 DEF Absent
  <2> QED  BY <2>1 DEF Placed, DistinctDone
<1>7. Owns(r, g, own)
  <2>1. \A i \in 1 .. Len(r) : r[i].data \in OwnedKinds =>
          own[r[i].ud] = [data |-> r[i].data, len |-> r[i].len]
    BY <1>1 DEF Owns
  <2>2. ASSUME NEW e \in b, e.data \in OwnedKinds
        PROVE  own[e.ud] = [data |-> e.data, len |-> e.len]
    <3>1. PICK i \in 1 .. k :
            e.ud = q[i].ud /\ e.data = q[i].data /\ e.len = q[i].len
      BY <1>2
    <3> QED  BY <1>1, <2>2, <3>1 DEF Owns
  <2> QED  BY <2>1, <2>2 DEF Owns
<1> QED  BY <1>4, <1>5, <1>6, <1>7 DEF Placed, r, b

\* A value drawn and not used keeps Placed.
LEMMA Draw ==
  ASSUME NEW q \in Seq(Entry), NEW fl \in SUBSET Entry, NEW c \in Seq(Cqe),
         NEW evs \in SUBSET CompletionEvent, NEW n \in Nat,
         Placed(q, fl, c, evs, n)
  PROVE  Placed(q, fl, c, evs, n + 1)
<1>1. \A i \in 1 .. Len(q) : q[i] \in Entry
  OBVIOUS
<1>2. \A i \in 1 .. Len(c) : c[i] \in Cqe
  OBVIOUS
<1>3. /\ \A i \in 1 .. Len(q) : q[i].ud \in UserData
      /\ \A f \in fl : f.ud \in UserData
      /\ \A i \in 1 .. Len(c) : c[i].ud \in UserData
      /\ \A ev \in evs : ev.ud \in UserData
  BY <1>1, <1>2 DEF Entry, Cqe, CompletionEvent
<1>4. \A u \in UserData : u < n => u < n + 1
  BY DEF UserData
<1>5. /\ \A i \in 1 .. Len(q) : Known(q[i], n + 1)
      /\ \A e \in fl : Known(e, n + 1)
  BY <1>3, <1>4 DEF Placed, Numbered, Known
<1>6. /\ \A i \in 1 .. Len(c) : Drawn(c[i].ud, n + 1)
      /\ \A ev \in evs : Drawn(ev.ud, n + 1)
  BY <1>3, <1>4 DEF Placed, Numbered, Drawn
<1> QED  BY <1>5, <1>6 DEF Placed, Numbered

\* Steps that touch neither the operations nor what they own.
LEMMA InvStutter ==
  ASSUME IInv,
         UNCHANGED <<ring, sq, inflight, cqes, events, user_data_counter,
                     owned_data>>
  PROVE  IInv'
  BY DEF IInv, ClosedIsEmpty

\* A refused call keeps the invariant.
LEMMA InvRefuse ==
  ASSUME TypeOK, IInv, NEW r, Refuse(r),
         user_data_counter' \in {user_data_counter, user_data_counter + 1}
  PROVE  IInv'
<1>1. UNCHANGED <<ring, sq, inflight, cqes, events, owned_data>>
  BY DEF Refuse, queues
<1>2. Placed(sq, inflight, cqes, events, user_data_counter + 1)
  <2>1. user_data_counter \in Nat
    BY DEF TypeOK
  <2> QED  BY <2>1, Draw DEF TypeOK, IInv
<1>3. Placed(sq', inflight', cqes', events', user_data_counter')
  BY <1>1, <1>2 DEF IInv
<1>4. Owns(sq', inflight', owned_data') /\ ClosedIsEmpty'
  BY <1>1 DEF IInv, ClosedIsEmpty
<1> QED  BY <1>3, <1>4 DEF IInv

\* Taking entries, as submit, wait and the poller do, keeps the invariant.
LEMMA InvTake ==
  ASSUME TypeOK, IInv, NEW k \in 0 .. Len(sq),
         sq' = Rest(sq, k), inflight' = inflight \cup Batch(sq, k),
         UNCHANGED <<ring, cqes, events, user_data_counter, owned_data>>
  PROVE  IInv'
<1>1. /\ Placed(Rest(sq, k), inflight \cup Batch(sq, k), cqes, events,
                user_data_counter)
      /\ Owns(Rest(sq, k), inflight \cup Batch(sq, k), owned_data)
  BY Take DEF TypeOK, IInv
<1>2. /\ Placed(sq', inflight', cqes', events', user_data_counter')
      /\ Owns(sq', inflight', owned_data')
  BY <1>1
<1>3. ClosedIsEmpty'
  <2>1. Len(Rest(sq, k)) = Len(sq) - k
    BY RestLemma DEF TypeOK
  <2>2. Len(sq) \in Nat
    BY DEF TypeOK
  <2> QED  BY <2>1, <2>2 DEF IInv, ClosedIsEmpty
<1> QED  BY <1>2, <1>3 DEF IInv

\* autosubmit keeps the invariant.
LEMMA InvAutosubmit ==
  ASSUME TypeOK, IInv, NEW e \in Entry, e.data \in Data,
         e.ud = user_data_counter, user_data_counter < MaxUserData,
         user_data_counter' = user_data_counter + 1, autosubmit(e)
  PROVE  IInv'
<1> DEFINE own == IF e.data = "none" THEN owned_data
                  ELSE [owned_data EXCEPT ![e.ud] = [data |-> e.data,
                                                     len |-> e.len]]
<1>1. user_data_counter \in 0 .. (MaxUserData - 1)
  BY DEF TypeOK
<1>2. CASE Refuse("closed") \/ Refuse("full") \/ Refuse("OSError")
  BY <1>2, InvRefuse
<1>3. ASSUME NEW r, NEW fl \in SUBSET Entry, r \in Seq(Entry),
             Placed(r, fl, cqes, events, user_data_counter),
             Owns(r, fl, owned_data),
             sq' = Append(r, e), inflight' = fl, UNCHANGED cqes,
             ring = "open", Accept(e)
      PROVE  IInv'
  <2>1. /\ Placed(Append(r, e), fl, cqes, events, user_data_counter + 1)
        /\ Owns(Append(r, e), fl, own)
    BY <1>1, <1>3, PushUser DEF TypeOK
  <2>2. owned_data' = own /\ UNCHANGED <<ring, events>>
    BY <1>3 DEF Accept, add_owned
  <2> HIDE DEF own
  <2>3. /\ Placed(sq', inflight', cqes', events', user_data_counter')
        /\ Owns(sq', inflight', owned_data')
    BY <1>3, <2>1, <2>2
  <2>4. ClosedIsEmpty'
    BY <1>3, <2>2 DEF ClosedIsEmpty
  <2> QED  BY <2>3, <2>4 DEF IInv
<1>4. CASE /\ ring = "open"
           /\ sq' = Append(sq, e)
           /\ UNCHANGED <<inflight, cqes, visible, poller, eventfd>>
           /\ Accept(e)
  BY <1>3, <1>4 DEF TypeOK, IInv
<1>5. ASSUME NEW k \in Consumed(sq), ring = "open", Enter(sq, {}, 0),
             UNCHANGED <<ring, owned_data, ghosts, call, events>>
      PROVE  IInv'
  <2>1. UNCHANGED <<ring, sq, inflight, cqes, events, owned_data>>
    BY <1>5 DEF Enter
  <2>2. Placed(sq, inflight, cqes, events, user_data_counter + 1)
    BY <1>1, Draw DEF TypeOK, IInv
  <2>3. /\ Placed(sq', inflight', cqes', events', user_data_counter')
        /\ Owns(sq', inflight', owned_data')
    BY <2>1, <2>2 DEF IInv
  <2> QED  BY <2>1, <2>3 DEF IInv, ClosedIsEmpty
<1>6. ASSUME NEW k \in Consumed(sq), ring = "open", Accept(e),
             Enter(Append(Rest(sq, k), e), Batch(sq, k), 0)
      PROVE  IInv'
  <2>1. sq \in Seq(Entry) /\ inflight \in SUBSET Entry
    BY DEF TypeOK
  <2>2. k \in 0 .. Len(sq)
    BY <2>1, ConsumedLemma
  <2>3. /\ Placed(Rest(sq, k), inflight \cup Batch(sq, k), cqes, events,
                  user_data_counter)
        /\ Owns(Rest(sq, k), inflight \cup Batch(sq, k), owned_data)
    BY <2>1, <2>2, Take DEF IInv
  <2>4. Rest(sq, k) \in Seq(Entry)
    BY <2>1, <2>2, RestLemma
  <2>5. inflight \cup Batch(sq, k) \in SUBSET Entry
    BY <2>1, <2>2, BatchLemma
  <2>6. /\ sq' = Append(Rest(sq, k), e)
        /\ inflight' = inflight \cup Batch(sq, k)
        /\ UNCHANGED cqes
    BY <1>6 DEF Enter
  <2> QED  BY <1>3, <1>6, <2>3, <2>4, <2>5, <2>6
<1> QED  BY <1>2, <1>4, <1>5, <1>6 DEF autosubmit

\* Every prep_* method keeps the invariant.
LEMMA InvPrep ==
  ASSUME TypeOK, IInv, PrepStep
  PROVE  IInv'
<1>1. CASE /\ Refuse("NotImplementedError") \/ Refuse("ValueError")
           /\ user_data_counter' \in {user_data_counter, user_data_counter + 1}
  BY <1>1, InvRefuse
<1>2. ASSUME NEW data \in Data, NEW len \in Nat, NEW flags \in FlagSets,
             user_data_counter' = user_data_counter + 1,
             autosubmit(NewEntry(user_data_counter, data, len, flags))
      PROVE  IInv'
  <2> DEFINE e == NewEntry(user_data_counter, data, len, flags)
  <2>1. user_data_counter \in UserData /\ user_data_counter < MaxUserData
    BY DEF PrepStep, TypeOK, UserData
  <2>2. e \in Entry
    BY <2>1, NewEntryType, ArgumentsAssumption
  <2>3. e.data \in Data /\ e.ud = user_data_counter
    BY DEF NewEntry
  <2> HIDE DEF e
  <2> QED  BY <1>2, <2>1, <2>2, <2>3, InvAutosubmit DEF e
<1> QED  BY <1>1, <1>2 DEF PrepStep

\* submit and wait keep the invariant.
LEMMA InvSubmit ==
  ASSUME TypeOK, IInv, UNCHANGED user_data_counter,
         submit \/ \E want \in Wants : wait(want)
  PROVE  IInv'
<1>1. CASE \E r : Refuse(r)
  BY <1>1, InvRefuse
<1>2. ASSUME NEW k \in Consumed(sq), NEW want,
             Enter(Rest(sq, k), Batch(sq, k), want),
             UNCHANGED <<ring, owned_data, events>>
      PROVE  IInv'
  <2>1. k \in 0 .. Len(sq)
    BY ConsumedLemma DEF TypeOK
  <2> QED  BY <1>2, <2>1, InvTake DEF Enter
<1> QED  BY <1>1, <1>2 DEF submit, wait

\* wait_with_timeout keeps the invariant: a purge, a push and a second batch.
LEMMA InvTimeout ==
  ASSUME TypeOK, IInv, UNCHANGED user_data_counter, wait_with_timeout
  PROVE  IInv'
<1>1. CASE \E r : Refuse(r)
  BY <1>1, InvRefuse
<1>2. ASSUME NEW k \in Purged, UNCHANGED <<ring, owned_data, events>>,
             Enter(Rest(sq, k), Batch(sq, k), 0)
      PROVE  IInv'
  <2>1. k \in 0 .. Len(sq)
    BY ConsumedLemma DEF TypeOK, Purged
  <2> QED  BY <1>2, <2>1, InvTake DEF Enter
<1>3. ASSUME NEW k \in Purged, NEW q, q = Append(Rest(sq, k), TimeoutEntry),
             ring = "open", UNCHANGED <<ring, owned_data, events>>,
             \/ Enter(q, Batch(sq, k), 0)
             \/ \E j \in Awaited(q) :
                  Enter(Rest(q, j), Batch(sq, k) \cup Batch(q, j), 1)
      PROVE  IInv'
  <2> DEFINE fl == inflight \cup Batch(sq, k)
  <2>1. sq \in Seq(Entry) /\ inflight \in SUBSET Entry
    BY DEF TypeOK
  <2>2. k \in 0 .. Len(sq)
    BY <2>1, ConsumedLemma DEF Purged
  <2>3. Rest(sq, k) \in Seq(Entry) /\ fl \in SUBSET Entry
    BY <2>1, <2>2, RestLemma, BatchLemma
  <2>4. /\ Placed(Rest(sq, k), fl, cqes, events, user_data_counter)
        /\ Owns(Rest(sq, k), fl, owned_data)
    BY <2>1, <2>2, Take DEF IInv
  <2>5. /\ TimeoutEntry \in Entry
        /\ TimeoutEntry.ud = TimeoutUserData
        /\ TimeoutEntry.data = "timespec"
    BY TimeoutEntryType DEF TimeoutEntry
  <2> HIDE DEF fl
  <2>6. q \in Seq(Entry)
    BY <1>3, <2>3, <2>5
  <2>7. /\ Placed(q, fl, cqes, events, user_data_counter)
        /\ Owns(q, fl, owned_data)
    BY <1>3, <2>3, <2>4, <2>5, PushTimeout
  <2>8. ClosedIsEmpty'
    BY <1>3 DEF ClosedIsEmpty
  <2>9. CASE Enter(q, Batch(sq, k), 0)
    <3>1. sq' = q /\ inflight' = fl /\ UNCHANGED cqes
      BY <2>9 DEF Enter, fl
    <3>2. /\ Placed(sq', inflight', cqes', events', user_data_counter')
          /\ Owns(sq', inflight', owned_data')
      BY <1>3, <2>7, <3>1
    <3> QED  BY <2>8, <3>2 DEF IInv
  <2>10. ASSUME NEW j \in Awaited(q),
                Enter(Rest(q, j), Batch(sq, k) \cup Batch(q, j), 1)
         PROVE  IInv'
    <3>1. /\ sq' = Rest(q, j) /\ inflight' = fl \cup Batch(q, j)
          /\ UNCHANGED cqes
      BY <2>10 DEF Enter, fl
    <3>2. j \in 0 .. Len(q)
      BY <2>6, ConsumedLemma DEF Awaited
    <3>3. /\ Placed(Rest(q, j), fl \cup Batch(q, j), cqes, events,
                    user_data_counter)
          /\ Owns(Rest(q, j), fl \cup Batch(q, j), owned_data)
      BY <2>3, <2>6, <2>7, <3>2, Take
    <3>4. /\ Placed(sq', inflight', cqes', events', user_data_counter')
          /\ Owns(sq', inflight', owned_data')
      BY <1>3, <3>1, <3>3
    <3> QED  BY <2>8, <3>4 DEF IInv
  <2> QED  BY <1>3, <2>9, <2>10
<1> QED  BY <1>1, <1>2, <1>3 DEF wait_with_timeout

\* After an operation finishes, distinct operations in flight still have
\* distinct user data, and none has the finished one's.
LEMMA WithoutDistinct ==
  ASSUME TypeOK, IInv, NEW e \in inflight,
         NEW fate \in {"run", "cancel", "mute"}
  PROVE  /\ \A f, g \in Without(e, fate) :
              f.ud = g.ud /\ IsUser(f.ud) => f = g
         /\ IsUser(e.ud) => Absent(e.ud, sq, Without(e, fate))
<1> DEFINE F(f) == IF f.prev = e.seq THEN [f EXCEPT !.fate = fate] ELSE f
<1>1. Without(e, fate) = {F(f) : f \in inflight \ {e}}
  BY DEF Without
<1>2. ASSUME NEW g \in inflight
      PROVE  F(g).ud = g.ud
  <2>1. g \in Entry
    BY DEF TypeOK
  <2> QED  BY <2>1 DEF Entry
<1> HIDE DEF F
<1>3. DistinctPending(sq, inflight)
  BY DEF IInv, Placed
<1> QED  BY <1>1, <1>2, <1>3 DEF DistinctPending, Absent

\* A step of the kernel on an operation keeps the invariant.
LEMMA InvKernel ==
  ASSUME TypeOK, IInv, NEW e \in inflight, Kernel(e)
  PROVE  IInv'
<1>1. PICK fate \in {"run", "cancel", "mute"}, result \in Int :
        \/ Finish(Without(e, fate), Completion(e, result))
        \/ Finish(Without(e, fate), <<>>)
  BY KernelIsFinish
<1> DEFINE fl == Without(e, fate)
<1>2. /\ inflight' = fl
      /\ UNCHANGED <<ring, sq, owned_data, events, user_data_counter>>
  BY <1>1 DEF Finish
<1>3. /\ \A f \in fl : \E g \in inflight \ {e} :
           f.ud = g.ud /\ f.data = g.data /\ f.len = g.len
      /\ \A f, g \in fl : f.ud = g.ud /\ IsUser(f.ud) => f = g
      /\ IsUser(e.ud) => Absent(e.ud, sq, fl)
  BY WithoutLemma, WithoutDistinct
<1> HIDE DEF fl
<1>4. Owns(sq, fl, owned_data)
  BY <1>3 DEF IInv, Owns
<1>5. DistinctPending(sq, fl)
  BY <1>3 DEF IInv, Placed, DistinctPending
<1>6. \A f \in fl : Known(f, user_data_counter)
  BY <1>3 DEF IInv, Placed, Numbered, Known
<1>7. ASSUME NEW u, Absent(u, sq, inflight)
      PROVE  Absent(u, sq, fl)
  BY <1>3, <1>7 DEF Absent
<1>8. Placed(sq, fl, cqes, events, user_data_counter)
  <2>1. Numbered(sq, fl, cqes, events, user_data_counter)
    BY <1>6 DEF IInv, Placed, Numbered
  <2>2. DistinctDone(sq, fl, cqes, events)
    BY <1>7 DEF IInv, Placed, DistinctDone
  <2> QED  BY <1>5, <2>1, <2>2 DEF IInv, Placed
<1>9. CASE UNCHANGED cqes
  <2>1. /\ Placed(sq', inflight', cqes', events', user_data_counter')
        /\ Owns(sq', inflight', owned_data')
    BY <1>2, <1>4, <1>8, <1>9
  <2> QED  BY <1>2, <1>9, <2>1 DEF IInv, ClosedIsEmpty
<1>10. CASE cqes' = cqes \o Completion(e, result) /\ ring = "open"
  <2> DEFINE x == [ud |-> e.ud, result |-> result, data |-> e.data,
                   len |-> e.len]
  <2>1. e \in Entry /\ cqes \in Seq(Cqe)
    BY DEF TypeOK
  <2>2. x \in Cqe /\ x.ud = e.ud
    BY <2>1 DEF Entry, Cqe
  <2>3. cqes' = Append(cqes, x)
    BY <1>10, <2>1, <2>2 DEF Completion
  <2> HIDE DEF x
  <2> DEFINE c == Append(cqes, x)
  <2>4. /\ Len(cqes) \in Nat /\ Len(c) = Len(cqes) + 1
        /\ \A i \in 1 .. Len(c) :
             \/ i \in 1 .. Len(cqes) /\ c[i] = cqes[i]
             \/ i = Len(cqes) + 1 /\ c[i] = x
    BY <2>1, <2>2, AppendLemma
  <2> HIDE DEF c
  <2>5. Drawn(x.ud, user_data_counter)
    BY <2>2 DEF IInv, Placed, Numbered, Known, Drawn
  <2>6. Numbered(sq, fl, c, events, user_data_counter)
    BY <1>8, <2>4, <2>5 DEF Placed, Numbered
  <2>7. DistinctDone(sq, fl, c, events)
    BY <1>3, <1>8, <2>2, <2>4 DEF Placed, DistinctDone
  <2>8. /\ \A i \in 1 .. Len(cqes) : cqes[i].ud = x.ud => ~IsUser(x.ud)
        /\ \A ev \in events : ev.ud = x.ud => ~IsUser(x.ud)
    BY <2>2 DEF IInv, Placed, DistinctDone, Absent
  <2>9. DistinctReaped(c, events)
    BY <1>8, <2>4, <2>8 DEF Placed, DistinctReaped
  <2>10. /\ Placed(sq', inflight', cqes', events', user_data_counter')
         /\ Owns(sq', inflight', owned_data')
    BY <1>2, <1>4, <1>5, <2>3, <2>6, <2>7, <2>9 DEF Placed, c
  <2> QED  BY <1>2, <1>10, <2>10 DEF IInv, ClosedIsEmpty
<1> QED  BY <1>1, <1>9, <1>10 DEF Finish

\* get_completion_entries keeps the invariant: what it frees belongs to
\* operations that are no longer pending.
LEMMA InvReap ==
  ASSUME TypeOK, IInv, UNCHANGED user_data_counter, get_completion_entries
  PROVE  IInv'
<1>1. CASE Refuse("closed")
  BY <1>1, InvRefuse
<1>2. CASE ~Refuse("closed")
  <2> DEFINE c == Rest(cqes, visible)
             new == {Event(i) : i \in 1 .. visible}
             own == [u \in UserData |->
                       IF \E i \in 1 .. visible : cqes[i].ud = u THEN NoData
                       ELSE owned_data[u]]
  <2>1. /\ ring = "open" /\ UNCHANGED <<ring, sq, inflight>>
        /\ events' = events \cup new /\ owned_data' = own /\ cqes' = c
    BY <1>2 DEF get_completion_entries
  <2>2. /\ cqes \in Seq(Cqe) /\ visible \in 0 .. Len(cqes)
        /\ Len(cqes) \in Nat
    BY DEF TypeOK
  <2>3. /\ Len(c) = Len(cqes) - visible
        /\ \A i \in 1 .. Len(c) :
             /\ i + visible \in (visible + 1) .. Len(cqes)
             /\ c[i] = cqes[i + visible]
    <3>1. /\ Len(c) = Len(cqes) - visible
          /\ \A i \in 1 .. (Len(cqes) - visible) : c[i] = cqes[i + visible]
      BY <2>2, RestLemma
    <3> HIDE DEF c
    <3> QED  BY <2>2, <3>1
  <2>4. \A i \in 1 .. visible : i \in 1 .. Len(cqes) /\ Event(i).ud = cqes[i].ud
    BY <2>2 DEF Event
  <2>5. \A ev \in new : \E i \in 1 .. visible : ev = Event(i)
    OBVIOUS
  <2>6. /\ \A i \in 1 .. Len(sq) : sq[i] \in Entry
        /\ \A e \in inflight : e \in Entry
    BY DEF TypeOK
  <2>7. ASSUME NEW e \in Entry, e.data \in OwnedKinds,
               Known(e, user_data_counter),
               \A i \in 1 .. Len(cqes) : IsUser(cqes[i].ud) => cqes[i].ud # e.ud
        PROVE  own[e.ud] = owned_data[e.ud]
    <3>1. IsUser(e.ud) /\ e.ud \in UserData
      BY <2>7 DEF Known, OwnedKinds, Entry
    <3>2. ~\E i \in 1 .. visible : cqes[i].ud = e.ud
      BY <2>4, <2>7, <3>1
    <3> QED  BY <3>1, <3>2
  <2> HIDE DEF c, new, own
  <2>8. Owns(sq, inflight, own)
    <3>1. ASSUME NEW i \in 1 .. Len(sq), sq[i].data \in OwnedKinds
          PROVE  own[sq[i].ud] = [data |-> sq[i].data, len |-> sq[i].len]
      <4>1. Known(sq[i], user_data_counter)
        BY DEF IInv, Placed, Numbered
      <4>2. \A j \in 1 .. Len(cqes) :
              IsUser(cqes[j].ud) => cqes[j].ud # sq[i].ud
        BY DEF IInv, Placed, DistinctDone, Absent
      <4>3. own[sq[i].ud] = owned_data[sq[i].ud]
        BY <2>6, <2>7, <3>1, <4>1, <4>2
      <4> QED  BY <3>1, <4>3 DEF IInv, Owns
    <3>2. ASSUME NEW e \in inflight, e.data \in OwnedKinds
          PROVE  own[e.ud] = [data |-> e.data, len |-> e.len]
      <4>1. Known(e, user_data_counter)
        BY DEF IInv, Placed, Numbered
      <4>2. \A j \in 1 .. Len(cqes) : IsUser(cqes[j].ud) => cqes[j].ud # e.ud
        BY DEF IInv, Placed, DistinctDone, Absent
      <4>3. own[e.ud] = owned_data[e.ud]
        BY <2>6, <2>7, <3>2, <4>1, <4>2
      <4> QED  BY <3>2, <4>3 DEF IInv, Owns
    <3> QED  BY <3>1, <3>2 DEF Owns
  <2>9. Numbered(sq, inflight, c, events \cup new, user_data_counter)
    BY <2>2, <2>3, <2>4, <2>5 DEF IInv, Placed, Numbered
  <2>10. DistinctDone(sq, inflight, c, events \cup new)
    BY <2>2, <2>3, <2>4, <2>5 DEF IInv, Placed, DistinctDone
  <2>11. DistinctReaped(c, events \cup new)
    <3>1. DistinctReaped(cqes, events)
      BY DEF IInv, Placed
    <3>2. \A i, j \in 1 .. Len(c) :
            c[i].ud = c[j].ud /\ IsUser(c[i].ud) => i = j
      BY <2>2, <2>3, <3>1 DEF DistinctReaped
    <3>3. ASSUME NEW i \in 1 .. Len(c), NEW ev \in events \cup new,
                 c[i].ud = ev.ud
          PROVE  ~IsUser(ev.ud)
      <4>1. CASE ev \in events
        BY <2>2, <2>3, <3>1, <3>3, <4>1 DEF DistinctReaped
      <4>2. CASE ev \in new
        <5>1. PICK j \in 1 .. visible : ev = Event(j)
          BY <2>5, <4>2
        <5>2. cqes[i + visible].ud = cqes[j].ud /\ i + visible # j
          BY <2>2, <2>3, <2>4, <3>3, <5>1
        <5>3. i + visible \in 1 .. Len(cqes) /\ j \in 1 .. Len(cqes)
          BY <2>2, <2>3, <2>4
        <5> QED  BY <2>4, <3>1, <5>1, <5>2, <5>3 DEF DistinctReaped
      <4> QED  BY <4>1, <4>2
    <3>4. ASSUME NEW ev \in events \cup new, NEW ew \in events \cup new,
                 ev.ud = ew.ud, IsUser(ev.ud)
          PROVE  ev = ew
      <4>1. CASE ev \in events /\ ew \in events
        BY <3>1, <3>4, <4>1 DEF DistinctReaped
      <4>2. CASE ev \in new /\ ew \in new
        BY <2>4, <2>5, <3>1, <3>4, <4>2 DEF DistinctReaped
      <4>3. CASE ev \in events /\ ew \in new
        BY <2>4, <2>5, <3>1, <3>4, <4>3 DEF DistinctReaped
      <4>4. CASE ev \in new /\ ew \in events
        BY <2>4, <2>5, <3>1, <3>4, <4>4 DEF DistinctReaped
      <4> QED  BY <4>1, <4>2, <4>3, <4>4
    <3> QED  BY <3>2, <3>3, <3>4 DEF DistinctReaped
  <2>12. Placed(sq, inflight, c, events \cup new, user_data_counter)
    BY <2>9, <2>10, <2>11 DEF IInv, Placed
  <2>13. /\ Placed(sq', inflight', cqes', events', user_data_counter')
         /\ Owns(sq', inflight', owned_data')
    BY <2>1, <2>8, <2>12
  <2> QED  BY <2>1, <2>13 DEF IInv, ClosedIsEmpty
<1> QED  BY <1>1, <1>2

\* Closing the ring empties its queues and keeps the map of owned data.
LEMMA InvClose ==
  ASSUME TypeOK, IInv, make_io_ring_exit
  PROVE  IInv'
<1>1. /\ sq' = <<>> /\ cqes' = <<>>
      /\ UNCHANGED <<inflight, events, user_data_counter, owned_data>>
  BY DEF make_io_ring_exit, close
<1>2. Placed(<<>>, inflight, <<>>, events, user_data_counter)
  BY DEF IInv, Placed, Numbered, DistinctPending, DistinctDone, Absent,
         DistinctReaped
<1>3. Owns(<<>>, inflight, owned_data)
  BY DEF IInv, Owns
<1>4. /\ Placed(sq', inflight', cqes', events', user_data_counter')
      /\ Owns(sq', inflight', owned_data')
  BY <1>1, <1>2, <1>3
<1> QED  BY <1>1, <1>4 DEF IInv, ClosedIsEmpty

\* The object may go once nothing is in flight.
LEMMA InvDrop ==
  ASSUME TypeOK, IInv, Drop, ~DropBusy
  PROVE  IInv'
<1>1. /\ inflight = {} /\ ring # "open"
      /\ UNCHANGED <<sq, inflight, cqes, events, user_data_counter>>
  BY DEF Drop, queues
<1>2. Len(sq) = 0 /\ Len(cqes) = 0
  BY <1>1 DEF IInv, ClosedIsEmpty
<1>3. \A own : Owns(sq, inflight, own)
  BY <1>1, <1>2 DEF Owns
<1>4. /\ Placed(sq', inflight', cqes', events', user_data_counter')
      /\ Owns(sq', inflight', owned_data')
  BY <1>1, <1>3 DEF IInv
<1> QED  BY <1>1, <1>2, <1>4 DEF IInv, ClosedIsEmpty

\* Every step keeps the invariant.
LEMMA InvStep ==
  ASSUME TypeOK, IInv, [Next]_vars, ~DropBusy
  PROVE  IInv'
<1>1. CASE prep_openat \/ prep_close \/ prep_read \/ prep_write
             \/ prep_create_socket \/ prep_connect_v4 \/ prep_connect_v6
             \/ prep_recv \/ prep_send
  BY <1>1, PrepsArePrepSteps, InvPrep
<1>2. CASE IoUring_submit
  BY <1>2, InvSubmit DEF IoUring_submit
<1>3. CASE IoUring_submit_and_wait
  BY <1>3, InvSubmit DEF IoUring_submit_and_wait
<1>4. CASE IoUring_submit_and_wait_with_timeout
  BY <1>4, InvTimeout DEF IoUring_submit_and_wait_with_timeout
<1>5. CASE IoUring_get_completion_entries
  BY <1>5, InvReap DEF IoUring_get_completion_entries
<1>6. CASE IoUring_register_eventfd
  <2>1. UNCHANGED <<ring, sq, inflight, cqes, events, user_data_counter,
                    owned_data>>
    BY <1>6 DEF IoUring_register_eventfd, register_eventfd, Refuse, queues
  <2> QED  BY <2>1, InvStutter
<1>7. CASE make_io_ring_exit
  BY <1>7, InvClose
<1>8. CASE ReadEventfd
  BY <1>8, InvStutter DEF ReadEventfd
<1>9. CASE Drop
  BY <1>9, InvDrop
<1>10. CASE WaitReturn
  BY <1>10, InvStutter DEF WaitReturn, queues
<1>11. CASE \E e \in inflight : Kernel(e)
  BY <1>11, InvKernel
<1>12. CASE SqPollConsume
  <2>1. PICK k \in 1 .. Len(sq) : /\ sq' = Rest(sq, k)
                                  /\ inflight' = inflight \cup Batch(sq, k)
    BY <1>12 DEF SqPollConsume
  <2>2. k \in 0 .. Len(sq)
    BY DEF TypeOK
  <2> QED  BY <1>12, <2>1, <2>2, InvTake DEF SqPollConsume
<1>13. CASE SqPollSleep
  BY <1>13, InvStutter DEF SqPollSleep
<1>14. CASE UNCHANGED vars
  BY <1>14, InvStutter DEF vars, queues
<1> QED
  BY <1>1, <1>2, <1>3, <1>4, <1>5, <1>6, <1>7, <1>8, <1>9, <1>10, <1>11,
     <1>12, <1>13, <1>14 DEF Next

\* IInv holds of every reachable state of a ring that is not dropped while
\* operations run.
LEMMA Invariance ==
  ASSUME ~DropBusy
  PROVE  Spec => [](TypeOK /\ IInv)
<1>1. Init => IInv
  BY DEF Init, IInv, Placed, Numbered, DistinctPending, DistinctDone, Absent,
         DistinctReaped, Owns, ClosedIsEmpty
<1>2. TypeOK /\ IInv /\ [Next]_vars => IInv'
  BY InvStep
<1> QED  BY <1>1, <1>2, TypeCorrect, PTL DEF Spec

\* Memory safety: as long as the object is not dropped while operations run,
\* every buffer, path or address that a queued or running operation points at
\* is the one TheIoRing owns for it, for queues of any size, with or without
\* autosubmit and SQPOLL, with links, timeouts, overflow, failing and cut
\* short system calls, and after close.
THEOREM PointersOwned ==
  ASSUME ~DropBusy
  PROVE  Spec => []KernelPointersOwned
<1>1. IInv => KernelPointersOwned
  BY OwnsIsPointersOwned DEF IInv
<1> QED  BY <1>1, Invariance, PTL

\* Exactly-once delivery: an operation is queued, running, completed or
\* reaped, in one of these places and there once, so each value of
\* get_next_user_data is answered by at most one CompletionEvent.
THEOREM EachInOnePlace ==
  ASSUME ~DropBusy
  PROVE  Spec => []OnePlace
<1>1. TypeOK /\ IInv => OnePlace
  <2> SUFFICES ASSUME IInv, NEW u \in UserData \ {TimeoutUserData},
                      NEW p \in Whereabouts(u), NEW q \in Whereabouts(u)
               PROVE  p = q
    BY DEF OnePlace
  <2>1. IsUser(u)
    BY DEF IsUser
  <2>2. /\ DistinctPending(sq, inflight)
        /\ DistinctDone(sq, inflight, cqes, events)
        /\ DistinctReaped(cqes, events)
    BY DEF IInv, Placed
  <2> QED  BY <2>1, <2>2 DEF Whereabouts, DistinctPending, DistinctDone,
                             DistinctReaped, Absent
<1> QED  BY <1>1, Invariance, PTL
-----------------------------------------------------------------------------
=============================================================================

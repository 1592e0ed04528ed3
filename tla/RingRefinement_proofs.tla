----------------------- MODULE RingRefinement_proofs -----------------------
(***************************************************************************)
(* TheIoRing implements RingContract: initial states map to initial        *)
(* states, and every kind of step of RingSteps_proofs maps to a step of    *)
(* the contract or to none.                                                *)
(***************************************************************************)
EXTENDS RingRefinement, RingSteps_proofs

USE SizesAssumption

Inv == TypeOK /\ IInv /\ HInv /\ LInv

Simulates == [Contract!Next]_(Contract!vars)

\* Client values are the numbers of the contract, and no timeout has one.
LEMMA ClientDataLemma ==
  /\ ClientData = Contract!Number
  /\ ClientData \subseteq UserData
  /\ \A u \in ClientData : IsUser(u)
  BY DEF ClientData, Contract!Number, UserData, IsUser, TimeoutUserData

\* A step without effect on the operations: at most a number is used up.
LEMMA QuietSimulates ==
  ASSUME Inv, Inv', Quiet
  PROVE  Simulates
<1>1. Outstanding' = Outstanding
  BY DEF Quiet, Outstanding, Pending, Entries
<1>2. CASE user_data_counter' = user_data_counter
  BY <1>1, <1>2 DEF Quiet, Simulates, Contract!vars
<1>3. CASE user_data_counter' = user_data_counter + 1
  <2>1. user_data_counter < MaxUserData
    BY <1>3 DEF Inv, TypeOK
  <2>2. Contract!Refuse
    BY <1>1, <1>3, <2>1 DEF Quiet, Contract!Refuse
  <2> QED  BY <2>2 DEF Simulates, Contract!Next
<1> QED  BY <1>2, <1>3 DEF Quiet

\* Moving entries, a timeout among them, is invisible.
LEMMA MovingSimulates ==
  ASSUME Inv, Moving
  PROVE  Simulates
<1>1. TimeoutEntry.ud \notin ClientData
  BY ClientDataLemma DEF TimeoutEntry, IsUser
<1>2. \A u \in ClientData : (\E x \in Pending' : x.ud = u)
                               <=> (\E y \in Pending : y.ud = u)
  BY <1>1 DEF Moving, Carried, Same
<1>3. Outstanding' = Outstanding
  BY <1>2 DEF Outstanding, Moving, Entries
<1> QED  BY <1>3 DEF Moving, Simulates, Contract!vars

\* A push is an acceptance.
LEMMA PushingSimulates ==
  ASSUME Inv, Pushing
  PROVE  Simulates
<1>1. PICK data \in Data, len \in Nat, flags \in FlagSets :
        /\ add_owned(NewEntry(user_data_counter, data, len, flags))
        /\ Carried(Pending', Pending
                     \cup {NewEntry(user_data_counter, data, len, flags)})
  BY DEF Pushing
<1> DEFINE e == NewEntry(user_data_counter, data, len, flags)
           n == user_data_counter
<1>2. e.ud = n
  BY DEF NewEntry
<1> HIDE DEF e
<1>3. n \in ClientData /\ n < MaxUserData
  BY DEF Pushing, Inv, TypeOK, ClientData
<1>4. \A u \in ClientData : (\E x \in Pending' : x.ud = u)
                               <=> (u = n \/ \E y \in Pending : y.ud = u)
  BY <1>1, <1>2 DEF Carried, Same, e
<1>5. Outstanding' = Outstanding \cup {n}
  BY <1>3, <1>4 DEF Outstanding, Pushing, Entries
<1>6. \A u \in ClientData : u # n => owned_data'[u] = owned_data[u]
  BY <1>1, <1>2, ClientDataLemma DEF add_owned, e, Inv, TypeOK
<1>7. /\ (ring = "open") = TRUE /\ (ring' = "open") = TRUE
      /\ user_data_counter' = n + 1 /\ events' = events
  BY DEF Pushing
<1> DEFINE held == [u \in ClientData |-> owned_data[u]]
           heldP == [u \in ClientData |-> owned_data'[u]]
<1>8. heldP = [held EXCEPT ![n] = heldP[n]]
  BY <1>3, <1>6
<1>9. Contract!Accept(heldP[n])
  BY <1>3, <1>5, <1>7, <1>8 DEF Contract!Accept
<1> QED  BY <1>9 DEF Simulates, Contract!Next

\* The end of an operation is invisible when it posts a completion; without
\* one the operation vanishes, and it held nothing.
LEMMA FinishingSimulates ==
  ASSUME Inv, NEW e \in inflight, Finishing(e)
  PROVE  Simulates
<1>1. PICK fate \in Fates, result \in Int :
        /\ inflight' = Without(e, fate)
        /\ \/ cqes' = Append(cqes, [ud |-> e.ud, result |-> result,
                                    data |-> e.data, len |-> e.len])
           \/ /\ ring = "open" => e.skip \/ e.fate = "mute"
              /\ UNCHANGED cqes
  BY DEF Finishing
<1>2. UNCHANGED <<ring, sq, events, owned_data, user_data_counter>>
  BY DEF Finishing
<1>3. /\ \A y \in Pending : y = e \/ \E x \in Pending' : x.ud = y.ud
      /\ \A x \in Pending' : \E y \in Pending : x.ud = y.ud
  BY <1>1, <1>2, WithoutSame DEF Pending, Entries, Same, Inv
<1>4. cqes \in Seq(Cqe) /\ e \in Entry /\ e \in Pending
  BY DEF Inv, TypeOK, Pending
<1>5. CASE ring # "open"
  BY <1>2, <1>5 DEF Simulates, Contract!vars
<1>6. CASE cqes' = Append(cqes, [ud |-> e.ud, result |-> result,
                                 data |-> e.data, len |-> e.len])
  <2> DEFINE x == [ud |-> e.ud, result |-> result, data |-> e.data,
                   len |-> e.len]
  <2>1. x \in Cqe /\ x.ud = e.ud
    BY <1>4 DEF Cqe, Entry
  <2> HIDE DEF x
  <2>2. /\ Len(cqes') = Len(cqes) + 1 /\ Len(cqes) \in Nat
        /\ \A i \in 1 .. Len(cqes) : cqes'[i] = cqes[i]
        /\ cqes'[Len(cqes) + 1] = x
    BY <1>4, <1>6, <2>1 DEF x
  <2>3. Entries(cqes') = Entries(cqes) \cup {x}
    BY <2>2 DEF Entries
  <2>4. Outstanding' = Outstanding
    BY <1>3, <1>4, <2>1, <2>3 DEF Outstanding
  <2> QED  BY <1>2, <2>4 DEF Simulates, Contract!vars
<1>7. CASE ring = "open" /\ (e.skip \/ e.fate = "mute") /\ UNCHANGED cqes
  <2>1. owned_data[e.ud] = NoData
    <3>1. Answered(e) /\ Describes(e, owned_data)
      BY <1>4 DEF Inv, LInv, HInv
    <3> QED  BY <1>7, <3>1 DEF Answered, Describes
  <2>2. CASE e.ud \notin ClientData
    <3>1. Outstanding' = Outstanding
      BY <1>3, <1>7, <2>2 DEF Outstanding, Entries
    <3> QED  BY <1>2, <3>1 DEF Simulates, Contract!vars
  <2>3. CASE e.ud \in ClientData
    <3>1. IsUser(e.ud) /\ e.ud \in UserData
      BY <2>3, ClientDataLemma
    <3>2. /\ Absent(e.ud, sq, Without(e, fate))
          /\ \A i \in 1 .. Len(cqes) : cqes[i].ud # e.ud
      BY <3>1, <1>4, WithoutDistinct, PlacedSets DEF Inv, Fates
    <3>3. \A x \in Pending' : x.ud # e.ud
      BY <1>1, <1>2, <3>2 DEF Absent, Pending, Entries
    <3>4. \A c \in Entries(cqes) : c.ud # e.ud
      BY <3>2 DEF Entries
    <3>5. Outstanding' = Outstanding \ {e.ud} /\ e.ud \in Outstanding
      BY <1>3, <1>4, <1>7, <2>3, <3>3, <3>4 DEF Outstanding, Entries
    <3>6. Contract!Vanish(e.ud)
      BY <1>2, <1>7, <2>1, <2>3, <3>5 DEF Contract!Vanish
    <3> QED  BY <1>7, <3>5, <3>6 DEF Simulates, Contract!Next
  <2> QED  BY <2>2, <2>3
<1> QED  BY <1>1, <1>5, <1>6, <1>7

\* Closing is Close, and dropping the object is Free.
LEMMA EndSimulates ==
  ASSUME Inv, Closing \/ (Drop /\ ~DropBusy)
  PROVE  Simulates
<1>1. CASE Closing
  <2>1. Contract!Close
    BY <1>1 DEF Closing, Contract!Close
  <2> QED  BY <2>1 DEF Simulates, Contract!Next
<1>2. CASE Drop
  <2>1. \A u \in ClientData : owned_data'[u] = NoData
    BY <1>2, ClientDataLemma DEF Drop
  <2>2. Contract!Free
    BY <1>2, <2>1, ClientDataLemma DEF Drop, Contract!Free
  <2> QED  BY <2>2 DEF Simulates, Contract!Next
<1> QED  BY <1>1, <1>2

\* What the client sees of an event.
View(ev) == [ud |-> ev.ud, result |-> ev.result, buffer |-> ev.buffer]
Views(evs) == {View(ev) : ev \in {ev \in evs : ev.ud \in ClientData}}

\* Reaping answers the operations whose completions were visible.
LEMMA ReapingSimulates ==
  ASSUME Inv, Reaping
  PROVE  Simulates
<1> DEFINE R == {i \in 1 .. visible : cqes[i].ud \in ClientData}
           new == {View(Event(i)) : i \in R}
           done == {u \in ClientData : \E i \in 1 .. visible : cqes[i].ud = u}
           c == Rest(cqes, visible)
<1>1. /\ events' = events \cup {Event(i) : i \in 1 .. visible}
      /\ owned_data' = [u \in UserData |->
                          IF \E i \in 1 .. visible : cqes[i].ud = u THEN NoData
                          ELSE owned_data[u]]
      /\ cqes' = c /\ ring = "open"
      /\ UNCHANGED <<ring, sq, inflight, user_data_counter>>
  BY DEF Reaping, get_completion_entries
<1>2. /\ cqes \in Seq(Cqe) /\ visible \in 0 .. Len(cqes)
      /\ Len(cqes) \in Nat
  BY DEF Inv, TypeOK
<1>3. /\ Len(c) = Len(cqes) - visible
      /\ \A i \in 1 .. (Len(cqes) - visible) : c[i] = cqes[i + visible]
  BY <1>2, RestLemma
<1> HIDE DEF c
<1>4. \A u \in ClientData : IsUser(u) /\ u \in UserData
  BY ClientDataLemma
<1>5. DistinctReaped(cqes, events)
  BY DEF Inv, IInv, Placed
<1>6. \A i \in 1 .. visible :
        i \in 1 .. Len(cqes) /\ Event(i).ud = cqes[i].ud
          /\ Event(i).result = cqes[i].result
          /\ Event(i).buffer = event_buffer(Removed(i), cqes[i].result)
  BY <1>2 DEF Event
<1>7. Views(events') \ Views(events) = new /\ Views(events') = Views(events) \cup new
  <2>1. Views(events') = Views(events) \cup new
    BY <1>1, <1>6 DEF Views
  <2>2. ASSUME NEW v \in new, v \in Views(events)
        PROVE  FALSE
    <3>1. PICK i \in R : v = View(Event(i))
      OBVIOUS
    <3>2. PICK ev \in events : v = View(ev)
      BY <2>2 DEF Views
    <3>3. cqes[i].ud = ev.ud /\ IsUser(ev.ud)
      BY <1>4, <1>6, <3>1, <3>2 DEF View
    <3> QED  BY <1>5, <1>6, <3>3 DEF DistinctReaped
  <2> QED  BY <2>1, <2>2
<1>8. {v.ud : v \in new} = done
  <2>1. ASSUME NEW v \in new
        PROVE  v.ud \in done
    BY <1>6 DEF View
  <2>2. ASSUME NEW u \in done
        PROVE  \E v \in new : v.ud = u
    <3>1. PICK i \in 1 .. visible : cqes[i].ud = u
      OBVIOUS
    <3>2. View(Event(i)) \in new /\ View(Event(i)).ud = u
      BY <1>6, <3>1 DEF View
    <3> QED  BY <3>2
  <2> HIDE DEF new, done
  <2> QED  BY <2>1, <2>2
<1>9. \A v, w \in new : v.ud = w.ud => v = w
  <2> SUFFICES ASSUME NEW v \in new, NEW w \in new, v.ud = w.ud
               PROVE  v = w
    OBVIOUS
  <2>1. PICK i \in R, j \in R : v = View(Event(i)) /\ w = View(Event(j))
    OBVIOUS
  <2>2. i = j
    BY <1>4, <1>5, <1>6, <2>1 DEF View, DistinctReaped
  <2> QED  BY <2>1, <2>2
<1>10. ASSUME NEW v \in new
       PROVE  /\ v.ud \in ClientData
              /\ v.buffer = Contract!Buffer(owned_data[v.ud], v.result)
  <2>1. PICK i \in R : v = View(Event(i))
    OBVIOUS
  <2>2. /\ v.ud = cqes[i].ud /\ v.result = cqes[i].result
        /\ v.buffer = event_buffer(owned_data[v.ud], cqes[i].result)
    BY <1>6, <2>1, RemovedOwn DEF View, Inv
  <2>3. owned_data[v.ud] \in OwnedData /\ v.result \in Int
    <3>1. cqes[i] \in Cqe
      BY <1>6, PlacedSets DEF Inv
    <3>2. owned_data \in [UserData -> OwnedData]
      BY DEF Inv, TypeOK
    <3> QED  BY <1>4, <2>2, <3>1, <3>2 DEF Cqe
  <2> QED  BY <2>2, <2>3 DEF event_buffer, Contract!Buffer, NoBuffer,
                             Contract!NoBuffer, OwnedData
<1>11. done \subseteq Outstanding /\ Outstanding' = Outstanding \ done
  <2>1. Pending' = Pending /\ Entries(cqes') = Entries(c)
    BY <1>1 DEF Pending, Entries
  <2>2. ASSUME NEW u \in done
        PROVE  /\ u \in Outstanding
               /\ \A e \in Pending : e.ud # u
               /\ \A x \in Entries(c) : x.ud # u
    <3>1. PICK i \in 1 .. visible : cqes[i].ud = u
      OBVIOUS
    <3>2. i \in 1 .. Len(cqes) /\ IsUser(u)
      BY <1>4, <1>6
    <3>3. u \in Outstanding
      BY <3>1, <3>2 DEF Outstanding, Entries
    <3>4. \A e \in Pending : e.ud # u
      BY <3>1, <3>2, PlacedSets DEF Inv
    <3>5. ASSUME NEW j \in 1 .. Len(c)
          PROVE  c[j].ud # u
      <4>1. /\ j + visible \in 1 .. Len(cqes) /\ j + visible # i
            /\ c[j] = cqes[j + visible]
        BY <1>2, <1>3
      <4> QED  BY <1>5, <3>1, <3>2, <4>1 DEF DistinctReaped
    <3> QED  BY <3>3, <3>4, <3>5 DEF Entries
  <2>3. \A x \in Entries(c) : x \in Entries(cqes)
    BY <1>2, <1>3 DEF Entries
  <2>4. ASSUME NEW x \in Entries(cqes), x.ud \in ClientData, x.ud \notin done
        PROVE  x \in Entries(c)
    <3>1. PICK i \in 1 .. Len(cqes) : x = cqes[i]
      BY DEF Entries
    <3>2. i \notin 1 .. visible
      BY <2>4, <3>1
    <3>3. i - visible \in 1 .. Len(c) /\ c[i - visible] = cqes[i]
      BY <1>2, <1>3, <3>2
    <3> QED  BY <3>1, <3>3 DEF Entries
  <2> HIDE DEF done
  <2> QED  BY <2>1, <2>2, <2>3, <2>4 DEF Outstanding
<1>12. \A u \in ClientData : owned_data'[u] = IF u \in done THEN NoData
                                              ELSE owned_data[u]
  BY <1>1, <1>4
<1> HIDE DEF done, new, R
<1>13. /\ (ring = "open") = TRUE /\ (ring' = "open") = TRUE
       /\ user_data_counter' = user_data_counter
  BY <1>1
<1> DEFINE W == Views(events') \ Views(events)
<1>14. Contract!Answer(W)
  <2>1. W = new
    BY <1>7
  <2> HIDE DEF W
  <2> QED  BY <1>7, <1>8, <1>9, <1>10, <1>11, <1>12, <1>13, <2>1,
              ClientDataLemma
           DEF Contract!Answer, Views, View
<1> QED  BY <1>14 DEF Simulates, Contract!Next, Views, View

\* TheIoRing implements RingContract, for queues of every size, in every mode
\* and under every fault: an operation is answered at most once, with its own
\* memory, which is held until then, and one that holds memory is not
\* forgotten while the ring is open.  The client does not drop the object
\* while operations run and puts no soft link on a SKIP_SUCCESS entry.
THEOREM Implementation ==
  ASSUME ~DropBusy, NoSilentChains
  PROVE  Spec => ImplementsContract
<1>1. Init => Contract!Init
  <2> SUFFICES ASSUME Init PROVE Contract!Init
    OBVIOUS
  <2>1. \A u \in ClientData : owned_data[u] = NoData
    BY ClientDataLemma DEF Init
  <2>2. Outstanding = {}
    BY DEF Init, Outstanding, Pending, Entries
  <2> QED  BY <2>1, <2>2, ClientDataLemma DEF Init, Contract!Init
<1>2. Inv /\ Inv' /\ [Next]_vars => [Contract!Next]_(Contract!vars)
  <2> SUFFICES ASSUME Inv, Inv', [Next]_vars PROVE Simulates
    BY DEF Simulates
  <2> QED  BY StepKinds, QuietSimulates, MovingSimulates, PushingSimulates,
              FinishingSimulates, ReapingSimulates, EndSimulates DEF Inv
<1>3. Spec => []Inv
  BY ReapableInvariance, PTL DEF Inv
<1> QED  BY <1>1, <1>2, <1>3, PTL DEF Spec, ImplementsContract, Contract!Spec
=============================================================================

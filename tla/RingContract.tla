---------------------------- MODULE RingContract ----------------------------
(***************************************************************************)
(* What the ring promises its client, without queues, batches or a kernel: *)
(* an operation gets a number of its own; it is answered at most once, and *)
(* then with its own memory, resized to the result; it is held until       *)
(* then and no longer; an operation that holds memory never disappears     *)
(* without an answer while the ring is open.                               *)
(***************************************************************************)
EXTENDS Integers

CONSTANTS
  Limit,      \* how many numbers there are
  NoMemory    \* what an operation without memory holds

VARIABLES
  open,       \* the ring can be used
  drawn,      \* the next number
  live,       \* the operations that may still be answered
  held,       \* the memory of each operation
  answers     \* the events the client has been given

vars == <<open, drawn, live, held, answers>>

Number == 0 .. (Limit - 1)
NoBuffer == -1

Init ==
  /\ open = TRUE
  /\ drawn = 0
  /\ live = {}
  /\ held = [u \in Number |-> NoMemory]
  /\ answers = {}

\* A refused call may have used up a number.
Refuse ==
  /\ drawn < Limit
  /\ drawn' = drawn + 1
  /\ UNCHANGED <<open, live, held, answers>>

\* The operation is given the next number and the memory m.
Accept(m) ==
  /\ open
  /\ drawn < Limit
  /\ drawn' = drawn + 1
  /\ live' = live \cup {drawn}
  /\ held' = [held EXCEPT ![drawn] = m]
  /\ UNCHANGED <<open, answers>>

Buffer(m, result) ==
  IF m.data # "Buffer" THEN NoBuffer
  ELSE IF result < 0 THEN m.len ELSE result

\* The client is given the events in new, one for each of some operations.
Answer(new) ==
  LET done == {ev.ud : ev \in new} IN
  /\ open
  /\ done \subseteq live
  /\ \A ev \in new : ev.buffer = Buffer(held[ev.ud], ev.result)
  /\ \A ev, ew \in new : ev.ud = ew.ud => ev = ew
  /\ answers' = answers \cup new
  /\ live' = live \ done
  /\ held' = [u \in Number |-> IF u \in done THEN NoMemory ELSE held[u]]
  /\ UNCHANGED <<open, drawn>>

\* An operation that asked for no answer on success is over.
Vanish(u) ==
  /\ held[u] = NoMemory
  /\ live' = live \ {u}
  /\ UNCHANGED <<open, drawn, held, answers>>

Close ==
  /\ open
  /\ open' = FALSE
  /\ live' = {}
  /\ UNCHANGED <<drawn, held, answers>>

\* The memory goes with the object.
Free ==
  /\ ~open
  /\ held' = [u \in Number |-> NoMemory]
  /\ UNCHANGED <<open, drawn, live, answers>>

Next ==
  \/ Refuse
  \/ Accept(held'[drawn])
  \/ Answer(answers' \ answers)
  \/ \E u \in live : Vanish(u)
  \/ Close
  \/ Free

Spec == Init /\ [][Next]_vars
=============================================================================

--------------------------- MODULE RingRefinement ---------------------------
(***************************************************************************)
(* TheIoRing implements RingContract: an operation is live while it is in  *)
(* one of the queues or in the kernel, and its memory is what owned_data   *)
(* holds under its user data.                                              *)
(***************************************************************************)
EXTENDS TheIoRing

ClientData == 0 .. (MaxUserData - 1)

Outstanding ==
  {u \in ClientData : (\E e \in Pending : e.ud = u)
                        \/ \E c \in Entries(cqes) : c.ud = u}

Contract == INSTANCE RingContract WITH
  Limit <- MaxUserData,
  NoMemory <- NoData,
  open <- ring = "open",
  drawn <- user_data_counter,
  live <- IF ring = "open" THEN Outstanding ELSE {},
  held <- [u \in ClientData |-> owned_data[u]],
  answers <- {[ud |-> ev.ud, result |-> ev.result, buffer |-> ev.buffer] :
                ev \in {ev \in events : ev.ud \in ClientData}}

\* Every behaviour of the ring, with its queues, batches, links, overflow,
\* faults and timeouts, is one the contract allows.
ImplementsContract == Contract!Spec
=============================================================================

---------------------------- MODULE MCTheIoRing ----------------------------
(***************************************************************************)
(* Instances of TheIoRing for TLC: the flag sets and call sets the .cfg    *)
(* files pick from.                                                        *)
(***************************************************************************)
EXTENDS RingRefinement

PlainFlags == {[link |-> "none", skip |-> FALSE]}
SkipFlags == PlainFlags \cup {[link |-> "none", skip |-> TRUE]}
LinkFlags == {[link |-> l, skip |-> FALSE] : l \in Links}
               \cup {[link |-> l, skip |-> TRUE] : l \in {"none", "hard"}}
LinkSkipFlags == SkipFlags \cup {[link |-> "soft", skip |-> TRUE]}

=============================================================================

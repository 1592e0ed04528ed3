----------------------------- MODULE MCFdHandle -----------------------------
(***************************************************************************)
(* Instances of FdHandle for TLC.                                          *)
(***************************************************************************)
EXTENDS FdHandle

PlainFlags == {[link |-> "none", skip |-> FALSE]}
LinkFlags == PlainFlags \cup {[link |-> "soft", skip |-> FALSE]}
=============================================================================

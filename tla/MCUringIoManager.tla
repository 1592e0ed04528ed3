-------------------------- MODULE MCUringIoManager --------------------------
(***************************************************************************)
(* Instances of UringIoManager for TLC.                                    *)
(***************************************************************************)
EXTENDS UringIoManager

PlainFlags == {[link |-> "none", skip |-> FALSE]}
=============================================================================

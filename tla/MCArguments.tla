---------------------------- MODULE MCArguments ----------------------------
(***************************************************************************)
(* An instance of Arguments for TLC.                                       *)
(***************************************************************************)
EXTENDS Arguments

SmallSizes == -1 .. 9
KernelVersions == {<<4, 19>>, <<5, 17>>, <<5, 18>>, <<5, 19>>, <<6, 0>>,
                   <<6, 18>>}
=============================================================================

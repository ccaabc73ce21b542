---------------------------- MODULE MCRunEngine ----------------------------
(***************************************************************************)
(* RunEngine for TLC: every workflow in both modes, answers that cost 0, 1 *)
(* or 2, and limits of 1 and 2, which one or two answers exceed.           *)
(***************************************************************************)
EXTENDS RunEngine

AllWorkflows == DOMAIN Program
PrototypeOnly == {"prototype_build"}
TwoLimits == {1, 2}
=============================================================================

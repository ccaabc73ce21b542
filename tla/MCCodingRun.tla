---------------------------- MODULE MCCodingRun ----------------------------
(* Model values and bounds for CodingRun. *)
EXTENDS CodingRunInvariant, TLC

CONSTANTS r1, r2, f1, f2

\* r1 has a file of its own and one that both prompts name.
SharedScopes == (r1 :> {f1, f2}) @@ (r2 :> {f2})

\* One file each, no file in common.
ScopesApart == (r1 :> {f1}) @@ (r2 :> {f2})

\* r1 takes every kind of request, r2 is a live run with repair.
LiveRepair == [live |-> TRUE, dry |-> FALSE, repair |-> TRUE, cmds |-> TRUE]
AllRequests == (r1 :> Request) @@ (r2 :> {LiveRepair})

\* ... or one that repairs nothing.
LivePatch == [LiveRepair EXCEPT !.repair = FALSE]
PatchRequests == (r1 :> Request) @@ (r2 :> {LivePatch})

\* r1 alone.
OneScope == r1 :> {f1, f2}
OneRequests == r1 :> Request
=============================================================================

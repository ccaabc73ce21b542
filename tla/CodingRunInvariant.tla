------------------------- MODULE CodingRunInvariant -------------------------
(***************************************************************************)
(* Why the coding runs of a project keep their promises: the inductive     *)
(* invariants behind the safety properties of CodingRun.  TLC checks them  *)
(* on the small instances, CodingRunProofs proves them.                    *)
(***************************************************************************)
EXTENDS CodingRun

\* What a run may still write or restore: its patches are validated against
\* its scope before apply, its snapshot holds the files of its first patch,
\* and a rollback works through the snapshot.
TodoWithin(r) ==
    /\ SnapPaths(r) \subseteq ScopeOf[r]
    /\ pc[r] \in {"apply", "repair_apply"} => todo[r] \subseteq ScopeOf[r]
    /\ pc[r] = "restore" => todo[r] \subseteq SnapPaths(r)

\* The books of the patch: what applied_entries, the snapshot and the outcome
\* say of one another.
PatchBooks(r) ==
    /\ pc[r] \in {"idle", "call", "fallback", "reply"} =>
           SnapPaths(r) = {} /\ entries[r] = {} /\ failed[r] = {}
    /\ request[r].dry => SnapPaths(r) = {}
    /\ pc[r] = "apply" => patch[r] = SnapPaths(r) /\ entries[r] = {}
    /\ pc[r] = "apply" => todo[r] \subseteq SnapPaths(r)
    /\ pc[r] = "commands" => entries[r] = SnapPaths(r)
    /\ pc[r] \in InFlightPlaces \cup {"idle"} => final[r] = "none"
    /\ pc[r] \in Returned => final[r] # "none"
    /\ final[r] = "patch_rejected" => SnapPaths(r) = {}
    /\ final[r] \in Skipped => entries[r] = SnapPaths(r)
    /\ final[r] = "failed_safely_original_files_restored" => failed[r] = {}

\* The repair patch has been accepted, or the run has come further.
RepairPossible(r) ==
    \/ pc[r] \in {"repair_apply", "repair_commands", "restore", "restore_manifest"}
    \/ final[r] \in RolledBack \cup {"repaired_successfully"}

\* What a run's own files hold, compared with what the run saw.
ScopeFiles(r) ==
    /\ pc[r] \notin {"idle", "raised"} =>
           \A p \in OwnFiles(r) :
               IF p \in SnapPaths(r) THEN snap[r].files[p] = seen[r][p]
               ELSE files[p] = seen[r][p]
                        \/ (RepairPossible(r) /\ files[p] = WrittenBy(r, "repair"))
    /\ pc[r] = "restore" =>
           \A p \in (OwnFiles(r) \cap SnapPaths(r)) \ (todo[r] \cup failed[r]) :
               files[p] = seen[r][p]
    /\ pc[r] = "restore_manifest" =>
           \A p \in (OwnFiles(r) \cap SnapPaths(r)) \ failed[r] : files[p] = seen[r][p]
    /\ final[r] \in RolledBack =>
           \A p \in OwnFiles(r) \ failed[r] : AsFoundOrLeftByRepair(r, p)

\* Both hold whatever the runs' scopes and repairs are.
WriteInvariant == \A r \in Run : TodoWithin(r)
PatchInvariant == \A r \in Run : TodoWithin(r) /\ PatchBooks(r) /\ ScopeFiles(r)

\* A content of path p that a run wrote, unless that run has raised, is in
\* the run's change log.
Logged(content, p) ==
    \A r \in Run :
        content.by = r /\ content.role # "torn" /\ pc[r] # "raised" => p \in changes[r]

\* So it is with the files, and with what a rollback may still bring back.
LogInvariant ==
    \A p \in Path :
        /\ Logged(files[p], p)
        /\ \A s \in Run : Logged(snap[s].files[p], p)
=============================================================================

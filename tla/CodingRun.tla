------------------------------ MODULE CodingRun ------------------------------
(***************************************************************************)
(* RealCodingAgentRunner inside website_update runs of one project: ask a  *)
(* coding model for a patch, validate it, apply it, run the validation     *)
(* commands, ask once for a repair when one failed, and roll back when the *)
(* repair does not help; then the QA step and the registration of the run. *)
(*                                                                         *)
(* The backend is one asyncio event loop.  A run owns the loop from one    *)
(* await of a provider to the next, so the runs of a project interleave at *)
(* those awaits only; a mock run awaits nothing and runs through.  `loop'  *)
(* is the run that owns the event loop.                                    *)
(***************************************************************************)
EXTENDS ProjectWorkspace

CONSTANTS
    ScopeOf,          \* Run -> the paths its prompt and task type allow
    RequestsOf,       \* Run -> the requests it may be started with
    MaxFiles,         \* effective_max_files, the limit on a patch's files
    ProviderFaults,   \* TRUE: provider calls may fail
    IOFaults          \* TRUE: writes to project files may raise

Request == [live : BOOLEAN, dry : BOOLEAN, repair : BOOLEAN, cmds : BOOLEAN]

ASSUME CodingAssumption ==
    /\ ScopeOf \in [Run -> SUBSET (Path \ {StateFile})]
    /\ RequestsOf \in [Run -> SUBSET Request]
    /\ MaxFiles \in Nat
    /\ ProviderFaults \in BOOLEAN
    /\ IOFaults \in BOOLEAN

VARIABLES
    loop,      \* the run that owns the event loop, or NoRun
    pc,        \* where each run stands
    request,   \* what it was started with
    seen,      \* the scope's files as the coding context showed them
    snap,      \* the snapshot taken before the first patch was applied
    patch,     \* paths of the patch in hand: the first one, then the repair
    todo,      \* paths still to be written or restored
    entries,   \* paths of applied_entries
    failed,    \* rollback_failed_files
    final,     \* the outcome of the patch and of the repair loop
    record     \* status of the stored run record

runVars == <<request, seen, snap, patch, todo, entries, failed, final, record>>
vars == <<workspaceVars, loop, pc, runVars>>

----------------------------------------------------------------------------
(* Places. *)

Awaiting == {"call", "fallback", "repair_call", "repair_fallback", "qa"}
OnLoop == {"reply", "apply", "commands", "repair_reply", "repair_apply",
           "repair_commands", "restore", "restore_manifest", "report", "finish"}
Ended == {"done", "raised"}
Place == {"idle"} \cup Awaiting \cup OnLoop \cup Ended

\* The coding agent has returned its result to the engine.
Returned == {"report", "qa", "finish", "done"}

\* Between the start of the coding agent and the outcome of its patch.
InFlightPlaces == Place \ ({"idle", "raised"} \cup Returned)

Skipped == {"not_attempted_disabled", "not_attempted_dry_run",
            "not_attempted_no_initial_apply",
            "not_attempted_no_failed_validation", "not_attempted_cost_cap"}
RolledBack == {"failed_safely_original_files_restored", "failed_rollback_error"}
Outcome == {"none", "patch_rejected", "repaired_successfully"}
               \cup Skipped \cup RolledBack

----------------------------------------------------------------------------
(* Pictures of the files: the coding context and the rollback snapshot. *)

\* Marks a file that a picture does not hold.
Unsaved == [by |-> NoRun, role |-> "unsaved"]

PictureOf(S) == [p \in Path |-> IF p \in S THEN files[p] ELSE Unsaved]
NoPicture == [p \in Path |-> Unsaved]
Pictures == [Path -> Content \cup {Unsaved}]

NoSnapshot == [files |-> NoPicture,
               manifest |-> [entry |-> [p \in Path |-> NoRun], runs |-> {}]]
\* Paths of the patch the snapshot was taken for.
SnapPaths(r) == {p \in Path : snap[r].files[p] # Unsaved}

----------------------------------------------------------------------------
TypeOK ==
    /\ WorkspaceTypeOK
    /\ loop \in Run \cup {NoRun}
    /\ pc \in [Run -> Place]
    /\ request \in [Run -> Request]
    /\ seen \in [Run -> Pictures]
    /\ snap \in [Run -> [files : Pictures, manifest : Manifest]]
    /\ patch \in [Run -> SUBSET Path]
    /\ todo \in [Run -> SUBSET Path]
    /\ entries \in [Run -> SUBSET Path]
    /\ failed \in [Run -> SUBSET (Path \cup {"manifest.json"})]
    /\ final \in [Run -> Outcome]
    /\ record \in [Run -> {"none", "completed", "failed"}]

IdleRequest == [live |-> FALSE, dry |-> FALSE, repair |-> FALSE, cmds |-> FALSE]

Init ==
    /\ WorkspaceInit
    /\ loop = NoRun
    /\ pc = [r \in Run |-> "idle"]
    /\ request = [r \in Run |-> IdleRequest]
    /\ seen = [r \in Run |-> NoPicture]
    /\ snap = [r \in Run |-> NoSnapshot]
    /\ patch = [r \in Run |-> {}]
    /\ todo = [r \in Run |-> {}]
    /\ entries = [r \in Run |-> {}]
    /\ failed = [r \in Run |-> {}]
    /\ final = [r \in Run |-> "none"]
    /\ record = [r \in Run |-> "none"]

----------------------------------------------------------------------------
(* The event loop. *)

Owner(r, place) == IF place \in OnLoop THEN r ELSE NoRun

\* r moves on: it owns the loop, or the loop is free and resumes it; it
\* keeps the loop unless it awaits or ends.
Moves(r, from, to) ==
    /\ pc[r] = from
    /\ loop = Owner(r, from)
    /\ pc' = [pc EXCEPT ![r] = to]
    /\ loop' = Owner(r, to)

----------------------------------------------------------------------------
(* The request and the model's answer. *)

\* The run starts and its coding context is built.  Mock mode has its patch
\* at once; a live run may be refused by _assert_live_coding_allowed, else it
\* awaits the coding model.
Start(r) ==
    \E req \in RequestsOf[r] :
        /\ \/ ~req.live /\ Moves(r, "idle", "reply")
           \/ req.live /\ Moves(r, "idle", "call")
           \/ req.live /\ Moves(r, "idle", "raised")
        /\ request' = [request EXCEPT ![r] = req]
        /\ seen' = [seen EXCEPT ![r] = PictureOf(ScopeOf[r])]
        /\ UNCHANGED <<workspaceVars, snap, patch, todo, entries, failed, final, record>>

\* _call_openrouter: the primary model, on an HTTPException the fallback
\* model, and when that fails too the exception leaves the run.
ProviderAnswers(r) ==
    /\ \/ \E from \in {"call", "fallback"} : Moves(r, from, "reply")
       \/ \E from \in {"repair_call", "repair_fallback"} : Moves(r, from, "repair_reply")
    /\ UNCHANGED <<workspaceVars, runVars>>

\* Mutant: a repair whose fallback model fails starts over.
ProviderFailsRetrying(r) ==
    /\ ProviderFaults
    /\ \/ Moves(r, "call", "fallback")
       \/ Moves(r, "repair_call", "repair_fallback")
       \/ Moves(r, "fallback", "raised")
       \/ Moves(r, "repair_fallback", "repair_call")
    /\ UNCHANGED <<workspaceVars, runVars>>

ProviderFails(r) ==
    /\ ProviderFaults
    /\ \/ Moves(r, "call", "fallback")
       \/ Moves(r, "repair_call", "repair_fallback")
       \/ Moves(r, "fallback", "raised")
       \/ Moves(r, "repair_fallback", "raised")
    /\ UNCHANGED <<workspaceVars, runVars>>

\* Mutant: the paths are not compared with the prompt's scope.
ValidatesUnscoped(r, S) == Cardinality(S) <= MaxFiles /\ StateFile \notin S

\* The part of PatchApplier.validate that depends on the paths: the file
\* limit, protected paths, task policy and prompt scope.
Validates(r, S) ==
    /\ S \subseteq ScopeOf[r]
    /\ Cardinality(S) <= MaxFiles

\* The reply is no patch, or validate finds a violation in it; it may find
\* one in any patch (secret text, ambiguous or missing old_text, a delete).
RejectPatch(r) ==
    /\ Moves(r, "reply", "report")
    /\ final' = [final EXCEPT ![r] = "patch_rejected"]
    /\ UNCHANGED <<workspaceVars, request, seen, snap, patch, todo, entries, failed, record>>

\* validate raises instead of noting a violation when an exact edit names a
\* path outside the project (resolve refuses it): no rollback follows.
ValidateRaises(r) ==
    /\ request[r].live
    /\ \E from \in {"reply", "repair_reply"} : Moves(r, from, "raised")
    /\ UNCHANGED <<workspaceVars, runVars>>

\* An accepted patch of a dry run: diffs are computed, nothing is written.
PreviewPatch(r) ==
    /\ request[r].dry
    /\ Moves(r, "reply", "commands")
    /\ \E S \in SUBSET Path :
        /\ Validates(r, S)
        /\ patch' = [patch EXCEPT ![r] = S]
    /\ UNCHANGED <<workspaceVars, request, seen, snap, todo, entries, failed, final, record>>

\* Mutant: a dry run applies its patch.
AcceptPatchDry(r) ==
    /\ \E S \in SUBSET Path :
        /\ Validates(r, S)
        /\ Moves(r, "reply", IF S = {} THEN "commands" ELSE "apply")
        /\ snap' = [snap EXCEPT ![r] = [files |-> PictureOf(S), manifest |-> manifest]]
        /\ patch' = [patch EXCEPT ![r] = S]
        /\ todo' = [todo EXCEPT ![r] = S]
    /\ UNCHANGED <<workspaceVars, request, seen, entries, failed, final, record>>

\* An accepted patch: the snapshot of its files and of the manifest is taken.
AcceptPatch(r) ==
    /\ ~request[r].dry
    /\ \E S \in SUBSET Path :
        /\ Validates(r, S)
        /\ Moves(r, "reply", IF S = {} THEN "commands" ELSE "apply")
        /\ snap' = [snap EXCEPT ![r] = [files |-> PictureOf(S), manifest |-> manifest]]
        /\ patch' = [patch EXCEPT ![r] = S]
        /\ todo' = [todo EXCEPT ![r] = S]
    /\ UNCHANGED <<workspaceVars, request, seen, entries, failed, final, record>>

----------------------------------------------------------------------------
(* PatchApplier.apply, for the first patch and for the repair. *)

\* One file of the patch; after the last one apply returns its entries.
ApplyTo(r, here, role, next) ==
    \E p \in todo[r] :
        /\ Moves(r, here, IF todo[r] = {p} THEN next ELSE here)
        /\ WriteProjectFile(r, p, WrittenBy(r, role))
        /\ todo' = [todo EXCEPT ![r] = @ \ {p}]
        /\ entries' = IF todo[r] = {p} THEN [entries EXCEPT ![r] = patch[r]] ELSE entries
        /\ UNCHANGED <<request, seen, snap, patch, failed, final, record>>

\* A write of apply raises: the exception leaves apply and the run.
ApplyRaises(r, here, role) ==
    /\ IOFaults
    /\ \E p \in todo[r] :
        /\ Moves(r, here, "raised")
        /\ WriteProjectFileRaises(r, p, WrittenBy(r, role))
    /\ UNCHANGED runVars

ApplyPatch(r) ==
    \/ ApplyTo(r, "apply", "patch", "commands")
    \/ ApplyRaises(r, "apply", "patch")

ApplyRepair(r) ==
    \/ ApplyTo(r, "repair_apply", "repair", "repair_commands")
    \/ ApplyRaises(r, "repair_apply", "repair")

----------------------------------------------------------------------------
(* Validation commands, repair and rollback. *)

\* The early returns of _maybe_repair, in their order.  Commands run only
\* when the request allows them, and a blocked command does not count as
\* failed.
SkipRepair(r) ==
    LET req == request[r]
        Ends(result) == final' = [final EXCEPT ![r] = result]
    IN
    /\ Moves(r, "commands", "report")
    /\ \/ ~req.repair /\ Ends("not_attempted_disabled")
       \/ req.repair /\ req.dry /\ Ends("not_attempted_dry_run")
       \/ /\ req.repair /\ ~req.dry
          /\ \/ entries[r] = {} /\ Ends("not_attempted_no_initial_apply")
             \/ entries[r] # {} /\ Ends("not_attempted_no_failed_validation")
             \/ entries[r] # {} /\ req.cmds /\ req.live /\ Ends("not_attempted_cost_cap")
    /\ UNCHANGED <<workspaceVars, request, seen, snap, patch, todo, entries, failed, record>>

\* An allowed validation command failed: the one repair attempt begins.
StartRepair(r) ==
    /\ request[r].repair /\ ~request[r].dry /\ request[r].cmds
    /\ entries[r] # {}
    /\ Moves(r, "commands", IF request[r].live THEN "repair_call" ELSE "repair_reply")
    /\ UNCHANGED <<workspaceVars, runVars>>

\* No usable repair patch: roll back to the snapshot.
RejectRepair(r) ==
    /\ Moves(r, "repair_reply", "restore")
    /\ todo' = [todo EXCEPT ![r] = SnapPaths(r)]
    /\ UNCHANGED <<workspaceVars, request, seen, snap, patch, entries, failed, final, record>>

\* Mutant: the repair takes a snapshot of its own.
AcceptRepairSnapshot(r) ==
    /\ \E S \in SUBSET Path :
        /\ Validates(r, S)
        /\ ~request[r].live => S = SnapPaths(r)
        /\ Moves(r, "repair_reply", IF S = {} THEN "repair_commands" ELSE "repair_apply")
        /\ snap' = [snap EXCEPT ![r] = [files |-> PictureOf(SnapPaths(r)), manifest |-> manifest]]
        /\ patch' = [patch EXCEPT ![r] = S]
        /\ todo' = [todo EXCEPT ![r] = S]
        /\ entries' = IF S = {} THEN [entries EXCEPT ![r] = {}] ELSE entries
    /\ UNCHANGED <<workspaceVars, request, seen, failed, final, record>>

\* The repair patch is validated like the first one, against the run's scope
\* and not against the snapshot: a live repair may name files that the first
\* patch did not.  A mock repair patches exactly the files of the first patch.
AcceptRepair(r) ==
    /\ \E S \in SUBSET Path :
        /\ Validates(r, S)
        /\ ~request[r].live => S = SnapPaths(r)
        /\ Moves(r, "repair_reply", IF S = {} THEN "repair_commands" ELSE "repair_apply")
        /\ patch' = [patch EXCEPT ![r] = S]
        /\ todo' = [todo EXCEPT ![r] = S]
        /\ entries' = IF S = {} THEN [entries EXCEPT ![r] = {}] ELSE entries
    /\ UNCHANGED <<workspaceVars, request, seen, snap, failed, final, record>>

\* The failed command is run again and passes, or it does not: then the
\* files are rolled back to the snapshot.
RepairPasses(r) ==
    /\ Moves(r, "repair_commands", "report")
    /\ final' = [final EXCEPT ![r] = "repaired_successfully"]
    /\ UNCHANGED <<workspaceVars, request, seen, snap, patch, todo, entries, failed, record>>

\* Mutant: the rollback goes through the scope, not through the snapshot.
RepairFailsWide(r) ==
    /\ Moves(r, "repair_commands", "restore")
    /\ todo' = [todo EXCEPT ![r] = ScopeOf[r]]
    /\ UNCHANGED <<workspaceVars, request, seen, snap, patch, entries, failed, final, record>>

RepairFails(r) ==
    /\ Moves(r, "repair_commands", "restore")
    /\ todo' = [todo EXCEPT ![r] = SnapPaths(r)]
    /\ UNCHANGED <<workspaceVars, request, seen, snap, patch, entries, failed, final, record>>

\* Mutant: an error of a restore is swallowed.
RollbackFileSilent(r) ==
    \E p \in todo[r] :
        /\ Moves(r, "restore", IF todo[r] = {p} THEN "restore_manifest" ELSE "restore")
        /\ \/ RestoreFile(p, snap[r].files[p])
           \/ /\ IOFaults
              /\ \E c \in {files[p], WrittenBy(r, "torn")} : RestoreFile(p, c)
        /\ todo' = [todo EXCEPT ![r] = @ \ {p}]
        /\ UNCHANGED <<request, seen, snap, patch, entries, failed, final, record>>

\* _restore_snapshot takes the snapshot's files one by one; a file it cannot
\* restore (or tears) is noted and the rollback goes on.
RollbackFile(r) ==
    \E p \in todo[r] :
        /\ Moves(r, "restore", IF todo[r] = {p} THEN "restore_manifest" ELSE "restore")
        /\ \/ /\ RestoreFile(p, snap[r].files[p])
              /\ UNCHANGED failed
           \/ /\ IOFaults
              /\ \E c \in {files[p], WrittenBy(r, "torn")} : RestoreFile(p, c)
              /\ failed' = [failed EXCEPT ![r] = @ \cup {p}]
        /\ todo' = [todo EXCEPT ![r] = @ \ {p}]
        /\ UNCHANGED <<request, seen, snap, patch, entries, final, record>>

RollbackResult(failures) ==
    IF failures = {} THEN "failed_safely_original_files_restored"
                     ELSE "failed_rollback_error"

\* Last, the manifest; the repair loop then returns no entries.
RollbackManifest(r) ==
    /\ Moves(r, "restore_manifest", "report")
    /\ \/ /\ RestoreManifest(snap[r].manifest)
          /\ UNCHANGED failed
       \/ /\ IOFaults
          /\ failed' = [failed EXCEPT ![r] = @ \cup {"manifest.json"}]
          /\ UNCHANGED workspaceVars
    /\ final' = [final EXCEPT ![r] = RollbackResult(failed'[r])]
    /\ entries' = [entries EXCEPT ![r] = {}]
    /\ UNCHANGED <<request, seen, snap, patch, todo, record>>

----------------------------------------------------------------------------
(* The rest of the website_update run. *)

\* Mutant: files_changed lists the files of the patch after a rollback too.
FilesChangedAlways(r) ==
    IF final[r] = "patch_rejected" \/ request[r].dry THEN {} ELSE SnapPaths(r)

\* files_changed of the result.
FilesChanged(r) ==
    IF final[r] = "patch_rejected" \/ final[r] \in RolledBack \/ request[r].dry
    THEN {} ELSE entries[r]

\* The QA step: a live run awaits its provider.
AskQA(r) ==
    /\ Moves(r, "report", IF request[r].live THEN "qa" ELSE "finish")
    /\ UNCHANGED <<workspaceVars, runVars>>

QAAnswers(r) ==
    /\ Moves(r, "qa", "finish")
    /\ UNCHANGED <<workspaceVars, runVars>>

QAFails(r) ==
    /\ ProviderFaults
    /\ Moves(r, "qa", "raised")
    /\ UNCHANGED <<workspaceVars, runVars>>

\* The run's estimated cost turns out to be over its limit: the run is
\* refused after its files were written.
OverBudget(r) ==
    /\ Moves(r, "finish", "raised")
    /\ UNCHANGED <<workspaceVars, runVars>>

RunStatus(r) ==
    IF (request[r].live /\ final[r] = "patch_rejected") \/ final[r] \in RolledBack
    THEN "failed" ELSE "completed"

\* project_state.md, the project's run list and the run record.
Finish(r) ==
    /\ Moves(r, "finish", "done")
    /\ RegisterRun(r)
    /\ record' = [record EXCEPT ![r] = RunStatus(r)]
    /\ UNCHANGED <<request, seen, snap, patch, todo, entries, failed, final>>

\* One of the writes of the end raises: the exception leaves the run, which
\* then has no record of a result.
FinishRaises(r) ==
    /\ IOFaults
    /\ Moves(r, "finish", "raised")
    /\ RegisterRunRaises(r)
    /\ UNCHANGED runVars

----------------------------------------------------------------------------
Step(r) ==
    \/ Start(r) \/ ProviderAnswers(r) \/ ProviderFails(r)
    \/ RejectPatch(r) \/ ValidateRaises(r) \/ PreviewPatch(r) \/ AcceptPatch(r) \/ ApplyPatch(r)
    \/ SkipRepair(r) \/ StartRepair(r)
    \/ RejectRepair(r) \/ AcceptRepair(r) \/ ApplyRepair(r)
    \/ RepairPasses(r) \/ RepairFails(r)
    \/ RollbackFile(r) \/ RollbackManifest(r)
    \/ AskQA(r) \/ QAAnswers(r) \/ QAFails(r) \/ OverBudget(r)
    \/ Finish(r) \/ FinishRaises(r)

\* Every run is over: the loop waits for requests that this model does not have.
AllEnded ==
    /\ \A r \in Run : pc[r] \in Ended
    /\ UNCHANGED vars

Next == (\E r \in Run : Step(r)) \/ AllEnded

Spec == Init /\ [][Next]_vars

\* asyncio resumes every coroutine that can go on, and a provider call
\* answers or fails within its HTTP timeout (30 s for OpenRouter, which serves
\* the coding models; the QA step's provider may be one without a timeout of
\* its own, and is then assumed to answer or fail).
FairSpec == Spec /\ \A r \in Run : WF_vars(Step(r) /\ pc[r] # "idle")

----------------------------------------------------------------------------
(* Properties. *)

\* The files only r's prompt names.  What two runs may both write belongs to
\* whoever wrote last, and no promise to one of them covers it.
OwnFiles(r) == {p \in ScopeOf[r] : \A s \in Run \ {r} : p \notin ScopeOf[s]}

\* A file of r's scope is as r found it; or the rollback did not know it: it
\* is a file of the repair patch that the first patch did not name.
AsFoundOrLeftByRepair(r, p) ==
    \/ files[p] = seen[r][p]
    \/ p \notin SnapPaths(r) /\ files[p] = WrittenBy(r, "repair")

\* A run whose result lists no changed file has left its own files as it
\* found them: rejected patches, dry runs and first patches whose rollback
\* reported no error (coding_agent_runner.run, files_changed and
\* no_change_reason).  After a rollback the files that only the repair patch
\* named may hold the repair, and nothing else.  A repair that passes is
\* another matter: files_changed lists its files only.
NothingClaimedNothingChanged ==
    \A r \in Run :
        /\ pc[r] \in Returned
        /\ FilesChanged(r) = {}
        /\ final[r] \notin {"failed_rollback_error", "repaired_successfully"}
        => \A p \in OwnFiles(r) :
               IF final[r] \in RolledBack THEN AsFoundOrLeftByRepair(r, p)
                                         ELSE files[p] = seen[r][p]

\* Until an exception ends the run, whatever it wrote into the project and is
\* still there is in its file_changes.json (track_file_change).
ChangeLogComplete ==
    \A r \in Run, p \in Path :
        pc[r] # "raised" /\ files[p].by = r /\ files[p].role # "torn" => p \in changes[r]

\* The files of its own that a returned run lists as changed hold what that
\* run wrote, whatever the other runs do to the files they share with it.
ReportedFilesPresent ==
    \A r \in Run :
        pc[r] \in Returned => \A p \in FilesChanged(r) \cap OwnFiles(r) : files[p].by = r

\* A run alone on its project leaves the manifest and the files in step,
\* after a rollback too, with one exception that is exact: the manifest does
\* not know the files a rolled back repair has left behind.
SoloRunKeepsManifest ==
    \A r \in Run :
        /\ \A s \in Run \ {r} : pc[s] = "idle"
        /\ pc[r] \in Returned
        /\ final[r] # "failed_rollback_error"
        => \A p \in Path :
               ManifestMatches(p) <=>
                   ~ /\ final[r] \in RolledBack
                     /\ p \notin SnapPaths(r)
                     /\ files[p] = WrittenBy(r, "repair")

\* A rollback, also one in which some files could not be restored, brings
\* every file of the first patch that it does not list as failed back to what
\* the run found, and the rest of the run's own files were never touched but
\* by its repair patch (_restore_snapshot, rollback_failed_files).
RollbackRestoresSnapshot ==
    \A r \in Run :
        final[r] \in RolledBack
            => \A p \in OwnFiles(r) \ failed[r] : AsFoundOrLeftByRepair(r, p)

\* What a rollback without failed files says: "original pre-run file contents
\* were restored", in the run's whole scope.
RollbackRestoresOriginals ==
    \A r \in Run :
        final[r] = "failed_safely_original_files_restored"
            => \A p \in ScopeOf[r] : files[p] = seen[r][p]

\* With no run in flight and none that raised, the manifest names for every
\* file the run that touched it last, and the runs that touched the project.
ManifestRecordsEveryRun ==
    (\A r \in Run : pc[r] \in {"idle", "done"})
        => /\ \A p \in Path : ManifestMatches(p)
           /\ manifest.runs = {r \in Run : pc[r] = "done"}

\* A file changes only in the hands of the run that owns the event loop, and
\* only inside that run's scope or in project_state.md.
ScopeConfined ==
    [][\A p \in Path : files'[p] # files[p] =>
           \E r \in Run : loop = r /\ p \in ScopeOf[r] \cup {StateFile}]_vars

\* Every run that starts comes to an end.
RunsEnd == \A r \in Run : pc[r] # "idle" ~> pc[r] \in Ended

----------------------------------------------------------------------------
(* The coding runs of a project implement transactions on their own files: *)
(* while a run is between its first write and its outcome, the             *)
(* transaction's store still shows what the run saw.                       *)

InFlight(r) == pc[r] \in InFlightPlaces

\* The files that one run may write and no other.
OwnedFiles == UNION {OwnFiles(r) : r \in Run}

CommittedFiles ==
    [p \in OwnedFiles |->
        IF \E r \in Run : InFlight(r) /\ p \in OwnFiles(r)
        THEN LET r == CHOOSE r \in Run : InFlight(r) /\ p \in OwnFiles(r)
             IN seen[r][p]
        ELSE files[p]]

\* A write raised inside apply of the first patch, or the rollback could not
\* restore everything.
Broken(r) ==
    \/ pc[r] = "raised" /\ todo[r] # {} /\ entries[r] = {}
    \/ final[r] = "failed_rollback_error"

\* Its first patch, or what the repair made of it, stays.
Landed(r) == SnapPaths(r) # {} /\ final[r] \notin RolledBack

\* Its patch was accepted and its snapshot taken.
Planned(r) == pc[r] \notin {"call", "fallback", "reply"} /\ ~request[r].dry

StageOf(r) ==
    IF pc[r] = "idle" THEN "idle"
    ELSE IF InFlight(r) THEN IF Planned(r) THEN "planned" ELSE "open"
    ELSE IF Broken(r) THEN "broken"
    ELSE IF Landed(r) THEN "committed" ELSE "cancelled"

\* The files of the repair patch that the snapshot does not have.
RepairOnly(r) == IF request[r].dry THEN {} ELSE patch[r] \ SnapPaths(r)

Transaction ==
    INSTANCE PatchTransaction WITH
        Item <- OwnedFiles,
        Value <- Content,
        ScopeOf <- [r \in Run |-> OwnFiles(r)],
        store <- CommittedFiles,
        stage <- [r \in Run |-> StageOf(r)],
        plan <- [r \in Run |-> SnapPaths(r) \cap OwnFiles(r)],
        extra <- [r \in Run |-> RepairOnly(r) \cap OwnFiles(r)]

\* In one step that no other run can see the middle of, a run changes every
\* file of the patch it planned, or none of them, unless a write of the patch
\* or of its rollback raised; beyond the plan only the files its repair
\* adopted change, and they are kept when the plan is not (PatchTransaction).
PatchesAreTransactions == Transaction!Spec
=============================================================================

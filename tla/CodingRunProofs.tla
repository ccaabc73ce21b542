--------------------------- MODULE CodingRunProofs ---------------------------
(***************************************************************************)
(* Proofs about CodingRun for any set of runs, paths and scopes.           *)
(***************************************************************************)
EXTENDS CodingRunInvariant, TLAPS

----------------------------------------------------------------------------
(* What files and pictures of files can hold. *)

\* Every content the actions write is a content, and none is Unsaved.
LEMMA ContentFacts ==
    /\ Absent \in Content /\ Original \in Content
    /\ \A r \in Run, role \in Roles : WrittenBy(r, role) \in Content
    /\ Unsaved \notin Content
BY DEF Content, Absent, Original, WrittenBy, Roles, Unsaved

\* A picture of some paths is a picture, and it holds exactly these paths.
LEMMA PictureFacts ==
    ASSUME TypeOK, NEW S \in SUBSET Path
    PROVE  /\ PictureOf(S) \in Pictures
           /\ {p \in Path : PictureOf(S)[p] # Unsaved} = S
           /\ \A p \in S : PictureOf(S)[p] = files[p]
<1>1. \A p \in Path : files[p] \in Content
  BY DEF TypeOK, WorkspaceTypeOK
<1> QED
  BY <1>1, ContentFacts DEF PictureOf, Pictures

\* Moving on keeps the types of the places and of the loop, and touches the
\* place of no other run.
LEMMA MovesFacts ==
    ASSUME TypeOK, NEW r \in Run, NEW from \in Place, NEW to \in Place,
           Moves(r, from, to)
    PROVE  /\ pc[r] = from /\ pc'[r] = to
           /\ pc' \in [Run -> Place]
           /\ loop' \in Run \cup {NoRun}
           /\ \A s \in Run \ {r} : pc'[s] = pc[s]
           /\ from \in OnLoop => loop = r
BY DEF TypeOK, Moves, Owner

----------------------------------------------------------------------------
(* Type correctness.  A rollback copies the snapshot into the files, so    *)
(* that it stays in the snapshot's paths is part of the induction.         *)

LEMMA TypeInit == Init => TypeOK /\ WriteInvariant
<1> SUFFICES ASSUME Init PROVE TypeOK /\ WriteInvariant
  OBVIOUS
<1>1. WorkspaceTypeOK
  <2>1. files \in [Path -> Content]
    BY ContentFacts DEF Init, WorkspaceInit
  <2>2. manifest \in Manifest
    BY DEF Init, WorkspaceInit, Manifest, Absent, Original
  <2>3. changes \in [Run -> SUBSET Path]
    BY DEF Init, WorkspaceInit
  <2> QED
    BY <2>1, <2>2, <2>3 DEF WorkspaceTypeOK
<1>2. NoPicture \in Pictures
  BY DEF NoPicture, Pictures
<1>3. NoSnapshot \in [files : Pictures, manifest : Manifest]
  BY <1>2 DEF NoSnapshot, Manifest
<1>4. TypeOK
  BY <1>1, <1>2, <1>3 DEF Init, TypeOK, Place, Request, IdleRequest, Outcome
<1>5. WriteInvariant
  BY DEF Init, WriteInvariant, TodoWithin, SnapPaths, NoSnapshot, NoPicture
<1> QED
  BY <1>4, <1>5

\* One write to a project file, whole or torn, keeps the workspace's types.
LEMMA WriteFacts ==
    ASSUME TypeOK, NEW r \in Run, NEW p \in Path, NEW role \in Roles,
           \/ WriteProjectFile(r, p, WrittenBy(r, role))
           \/ WriteProjectFileRaises(r, p, WrittenBy(r, role))
    PROVE  /\ WorkspaceTypeOK'
           /\ \A q \in Path \ {p} : files'[q] = files[q]
<1>1. WrittenBy(r, role) \in Content /\ WrittenBy(r, "torn") \in Content
  BY ContentFacts DEF Roles
<1>2. files[p] \in Content
  BY DEF TypeOK, WorkspaceTypeOK
<1>3. /\ files' \in [Path -> Content]
      /\ \A q \in Path \ {p} : files'[q] = files[q]
  BY <1>1, <1>2 DEF TypeOK, WorkspaceTypeOK, WriteProjectFile, WriteProjectFileRaises
<1>4. ManifestEntryBy(r, p) \in Manifest
  BY DEF TypeOK, WorkspaceTypeOK, ManifestEntryBy, Manifest
<1>5. manifest' \in Manifest /\ changes' \in [Run -> SUBSET Path]
  BY <1>4 DEF TypeOK, WorkspaceTypeOK, WriteProjectFile, WriteProjectFileRaises
<1> QED
  BY <1>3, <1>5 DEF WorkspaceTypeOK

\* So does the registration of a run.
LEMMA RegisterFacts ==
    ASSUME TypeOK, NEW r \in Run, RegisterRun(r)
    PROVE  /\ WorkspaceTypeOK'
           /\ \A q \in Path \ {StateFile} : files'[q] = files[q]
<1>1. WrittenBy(r, "state") \in Content /\ StateFile \in Path
  BY ContentFacts, WorkspaceAssumption DEF Roles
<1>2. /\ files' \in [Path -> Content]
      /\ changes' \in [Run -> SUBSET Path]
      /\ \A q \in Path \ {StateFile} : files'[q] = files[q]
  BY <1>1 DEF RegisterRun, TypeOK, WorkspaceTypeOK
<1>3. ManifestEntryBy(r, StateFile) \in Manifest
  BY <1>1 DEF ManifestEntryBy, Manifest, TypeOK, WorkspaceTypeOK
<1>4. manifest' \in Manifest
  BY <1>3 DEF RegisterRun, Manifest
<1> QED
  BY <1>2, <1>4 DEF WorkspaceTypeOK

\* The run's own variables keep their types when their cells of run r change
\* to values of the right kind.
OwnTypeOK ==
    /\ request \in [Run -> Request]
    /\ seen \in [Run -> Pictures]
    /\ snap \in [Run -> [files : Pictures, manifest : Manifest]]
    /\ patch \in [Run -> SUBSET Path]
    /\ todo \in [Run -> SUBSET Path]
    /\ entries \in [Run -> SUBSET Path]
    /\ failed \in [Run -> SUBSET (Path \cup {"manifest.json"})]
    /\ final \in [Run -> Outcome]
    /\ record \in [Run -> {"none", "completed", "failed"}]

\* A run changes nothing that belongs to another run.
Untouched(s) ==
    /\ pc'[s] = pc[s] /\ request'[s] = request[s]
    /\ seen'[s] = seen[s] /\ snap'[s] = snap[s]
    /\ patch'[s] = patch[s] /\ todo'[s] = todo[s] /\ entries'[s] = entries[s]
    /\ failed'[s] = failed[s] /\ final'[s] = final[s]

\* The steps that do not touch the workspace.
QuietStep(r) ==
    \/ Start(r) \/ ProviderAnswers(r) \/ ProviderFails(r)
    \/ RejectPatch(r) \/ ValidateRaises(r) \/ PreviewPatch(r) \/ AcceptPatch(r)
    \/ SkipRepair(r) \/ StartRepair(r)
    \/ RejectRepair(r) \/ AcceptRepair(r) \/ RepairPasses(r) \/ RepairFails(r)
    \/ AskQA(r) \/ QAAnswers(r) \/ QAFails(r) \/ OverBudget(r)

LEMMA QuietType ==
    ASSUME TypeOK, NEW r \in Run, QuietStep(r)
    PROVE  /\ UNCHANGED workspaceVars
           /\ TypeOK'
           /\ \A s \in Run \ {r} : Untouched(s)
<1> DEFINE Good == /\ UNCHANGED workspaceVars
                   /\ pc' \in [Run -> Place]
                   /\ loop' \in Run \cup {NoRun}
                   /\ OwnTypeOK'
                   /\ \A s \in Run \ {r} : Untouched(s)
<1> SUFFICES Good
  BY DEF workspaceVars, WorkspaceTypeOK, OwnTypeOK, TypeOK
<1> USE DEF TypeOK
<1>a. OwnTypeOK
  BY DEF OwnTypeOK
<1>b. \A from, to \in Place : Moves(r, from, to) =>
          /\ pc' \in [Run -> Place]
          /\ loop' \in Run \cup {NoRun}
          /\ \A s \in Run \ {r} : pc'[s] = pc[s]
  BY MovesFacts
<1>c. SnapPaths(r) \in SUBSET Path
  BY DEF SnapPaths
<1>1. CASE Start(r)
  <2>1. PICK req \in RequestsOf[r] : Start(r)!(req)
    BY <1>1 DEF Start
  <2>2. req \in Request
    BY CodingAssumption
  <2>3. PictureOf(ScopeOf[r]) \in Pictures
    BY PictureFacts, CodingAssumption
  <2> QED
    BY <2>1, <2>2, <2>3, <1>a, <1>b DEF OwnTypeOK, Untouched, Place, Awaiting, OnLoop, Ended
<1>2. CASE ProviderAnswers(r) \/ ProviderFails(r) \/ ValidateRaises(r)
  BY <1>2, <1>a, <1>b DEF ProviderAnswers, ProviderFails, ValidateRaises, OwnTypeOK,
         Untouched, runVars, Place, Awaiting, OnLoop, Ended
<1>3. CASE RejectPatch(r) \/ RepairPasses(r)
  BY <1>3, <1>a, <1>b DEF RejectPatch, RepairPasses, OwnTypeOK, Untouched, Outcome,
         Place, Awaiting, OnLoop, Ended
<1>4. CASE PreviewPatch(r)
  BY <1>4, <1>a, <1>b DEF PreviewPatch, OwnTypeOK, Untouched, Place, Awaiting, OnLoop, Ended
<1>5. CASE AcceptPatch(r)
  <2>1. PICK S \in SUBSET Path : AcceptPatch(r)!2!(S)
    BY <1>5 DEF AcceptPatch
  <2>2. [files |-> PictureOf(S), manifest |-> manifest]
            \in [files : Pictures, manifest : Manifest]
    BY PictureFacts DEF WorkspaceTypeOK
  <2> QED
    BY <1>5, <2>1, <2>2, <1>a, <1>b DEF AcceptPatch, OwnTypeOK, Untouched, Place, Awaiting, OnLoop, Ended
<1>6. CASE SkipRepair(r)
  <2>1. \E result \in Skipped : final' = [final EXCEPT ![r] = result]
    BY <1>6 DEF SkipRepair, Skipped
  <2> QED
    BY <1>6, <2>1, <1>a, <1>b DEF SkipRepair, OwnTypeOK, Untouched, Outcome,
           Place, Awaiting, OnLoop, Ended
<1>7. CASE StartRepair(r)
  BY <1>7, <1>a, <1>b DEF StartRepair, OwnTypeOK, Untouched, runVars, Place, Awaiting, OnLoop, Ended
<1>8. CASE RejectRepair(r) \/ RepairFails(r)
  BY <1>8, <1>a, <1>b, <1>c DEF RejectRepair, RepairFails, OwnTypeOK, Untouched,
         Place, Awaiting, OnLoop, Ended
<1>9. CASE AcceptRepair(r)
  <2>1. PICK S \in SUBSET Path : AcceptRepair(r)!1!(S)
    BY <1>9 DEF AcceptRepair
  <2> QED
    BY <1>9, <2>1, <1>a, <1>b DEF AcceptRepair, OwnTypeOK, Untouched, Place, Awaiting, OnLoop, Ended
<1>10. CASE AskQA(r) \/ QAAnswers(r) \/ QAFails(r) \/ OverBudget(r)
  BY <1>10, <1>a, <1>b DEF AskQA, QAAnswers, QAFails, OverBudget, OwnTypeOK, Untouched,
         runVars, Place, Awaiting, OnLoop, Ended
<1> QED
  BY <1>1, <1>2, <1>3, <1>4, <1>5, <1>6, <1>7, <1>8, <1>9, <1>10 DEF QuietStep

\* The steps that write or restore files.
WritingStep(r) ==
    ApplyPatch(r) \/ ApplyRepair(r) \/ RollbackFile(r) \/ RollbackManifest(r)
        \/ Finish(r) \/ FinishRaises(r)

LEMMA WritingType ==
    ASSUME TypeOK, WriteInvariant, NEW r \in Run, WritingStep(r)
    PROVE  /\ TypeOK'
           /\ \A s \in Run \ {r} : Untouched(s)
           /\ \A p \in Path \ (ScopeOf[r] \cup {StateFile}) : files'[p] = files[p]
           /\ (\E p \in Path : files'[p] # files[p]) => loop = r
<1> DEFINE Good == /\ WorkspaceTypeOK'
                   /\ pc' \in [Run -> Place]
                   /\ loop' \in Run \cup {NoRun}
                   /\ OwnTypeOK'
                   /\ \A s \in Run \ {r} : Untouched(s)
                   /\ \A p \in Path \ (ScopeOf[r] \cup {StateFile}) : files'[p] = files[p]
                   /\ (\E p \in Path : files'[p] # files[p]) => loop = r
<1> SUFFICES Good
  BY DEF OwnTypeOK, TypeOK
<1> USE DEF TypeOK
<1>a. OwnTypeOK
  BY DEF OwnTypeOK
<1>b. \A from, to \in Place : Moves(r, from, to) =>
          /\ pc[r] = from
          /\ pc' \in [Run -> Place]
          /\ loop' \in Run \cup {NoRun}
          /\ \A s \in Run \ {r} : pc'[s] = pc[s]
          /\ from \in OnLoop => loop = r
  BY MovesFacts
<1>c. TodoWithin(r)
  BY DEF WriteInvariant
<1>d. \A p \in SnapPaths(r) : p \in Path /\ snap[r].files[p] \in Content
  BY DEF SnapPaths, Pictures
<1>1. ASSUME NEW here \in {"apply", "repair_apply"}, NEW role \in {"patch", "repair"},
             NEW next \in {"commands", "repair_commands"},
             ApplyTo(r, here, role, next) \/ ApplyRaises(r, here, role)
      PROVE  Good
  <2>1. role \in Roles
    BY DEF Roles
  <2>2. PICK p \in todo[r] :
            \/ WriteProjectFile(r, p, WrittenBy(r, role))
            \/ WriteProjectFileRaises(r, p, WrittenBy(r, role))
    BY <1>1 DEF ApplyTo, ApplyRaises
  <2>3. p \in Path
    BY <2>2
  <2>4. WorkspaceTypeOK' /\ \A q \in Path \ {p} : files'[q] = files[q]
    BY <2>1, <2>2, <2>3, WriteFacts
  <2>5. \E to \in {here, next, "raised"} : Moves(r, here, to)
    BY <1>1 DEF ApplyTo, ApplyRaises
  <2>6. /\ pc[r] = here /\ loop = r
        /\ pc' \in [Run -> Place] /\ loop' \in Run \cup {NoRun}
        /\ \A s \in Run \ {r} : pc'[s] = pc[s]
    BY <2>5, <1>b DEF Place, OnLoop, Ended
  <2>7. p \in ScopeOf[r]
    BY <2>2, <2>6, <1>c DEF TodoWithin
  <2>8. OwnTypeOK' /\ \A s \in Run \ {r} : Untouched(s)
    BY <1>1, <1>a, <2>6 DEF ApplyTo, ApplyRaises, OwnTypeOK, Untouched, runVars
  <2> QED
    BY <2>4, <2>6, <2>7, <2>8
<1>2. CASE ApplyPatch(r) \/ ApplyRepair(r)
  BY <1>1, <1>2 DEF ApplyPatch, ApplyRepair
<1>3. CASE RollbackFile(r)
  <2>1. PICK p \in todo[r] : RollbackFile(r)!(p)
    BY <1>3 DEF RollbackFile
  <2>2. /\ pc[r] = "restore" /\ loop = r
        /\ pc' \in [Run -> Place] /\ loop' \in Run \cup {NoRun}
        /\ \A s \in Run \ {r} : pc'[s] = pc[s]
    BY <2>1, <1>b DEF Place, OnLoop
  <2>3. p \in SnapPaths(r) /\ p \in ScopeOf[r] /\ p \in Path
    BY <2>1, <2>2, <1>c DEF TodoWithin, SnapPaths
  <2>4. PICK c \in Content : RestoreFile(p, c)
    BY <2>1, <2>3, <1>d, ContentFacts DEF WorkspaceTypeOK, Roles
  <2>5. WorkspaceTypeOK' /\ \A q \in Path \ {p} : files'[q] = files[q]
    BY <2>4, <2>3 DEF RestoreFile, WorkspaceTypeOK
  <2>6. OwnTypeOK' /\ \A s \in Run \ {r} : Untouched(s)
    BY <2>1, <2>2, <2>3, <1>a DEF OwnTypeOK, Untouched
  <2> QED
    BY <2>2, <2>3, <2>5, <2>6
<1>4. CASE RollbackManifest(r)
  <2>1. WorkspaceTypeOK' /\ files' = files
    BY <1>4 DEF RollbackManifest, RestoreManifest, WorkspaceTypeOK, workspaceVars
  <2>2. \E failures \in SUBSET (Path \cup {"manifest.json"}) :
            /\ failed' = [failed EXCEPT ![r] = failures]
            /\ final' = [final EXCEPT ![r] = RollbackResult(failures)]
    BY <1>4 DEF RollbackManifest
  <2>3. \A failures : RollbackResult(failures) \in Outcome
    BY DEF RollbackResult, Outcome, RolledBack
  <2> QED
    BY <1>4, <2>1, <2>2, <2>3, <1>a, <1>b
       DEF RollbackManifest, OwnTypeOK, Untouched, Place, OnLoop
<1>5. CASE Finish(r)
  <2>1. WorkspaceTypeOK' /\ \A q \in Path \ {StateFile} : files'[q] = files[q]
    BY <1>5, RegisterFacts DEF Finish
  <2>2. RunStatus(r) \in {"none", "completed", "failed"}
    BY DEF RunStatus
  <2> QED
    BY <1>5, <2>1, <2>2, <1>a, <1>b DEF Finish, OwnTypeOK, Untouched, Place, OnLoop, Ended
<1>6. CASE FinishRaises(r)
  <2>1. StateFile \in Path /\ "state" \in Roles
    BY WorkspaceAssumption DEF Roles
  <2>2. \/ WriteProjectFileRaises(r, StateFile, WrittenBy(r, "state"))
        \/ WriteProjectFile(r, StateFile, WrittenBy(r, "state"))
        \/ RegisterRun(r)
    BY <1>6 DEF FinishRaises, RegisterRunRaises
  <2>3. WorkspaceTypeOK' /\ \A q \in Path \ {StateFile} : files'[q] = files[q]
    BY <2>1, <2>2, WriteFacts, RegisterFacts
  <2> QED
    BY <1>6, <2>3, <1>a, <1>b
       DEF FinishRaises, runVars, OwnTypeOK, Untouched, Place, OnLoop, Ended
<1> QED
  BY <1>2, <1>3, <1>4, <1>5, <1>6 DEF WritingStep

LEMMA StepIsQuietOrWriting ==
    \A r \in Run : Step(r) <=> QuietStep(r) \/ WritingStep(r)
BY DEF Step, QuietStep, WritingStep

LEMMA SnapshotFacts ==
    ASSUME TypeOK, NEW r \in Run, NEW S \in SUBSET Path,
           snap' = [snap EXCEPT ![r] = [files |-> PictureOf(S), manifest |-> manifest]]
    PROVE  SnapPaths(r)' = S
<1>1. snap'[r].files = PictureOf(S)
  BY DEF TypeOK
<1>2. {p \in Path : PictureOf(S)[p] # Unsaved} = S
  BY PictureFacts
<1> QED
  BY <1>1, <1>2 DEF SnapPaths

LEMMA TodoStep ==
    ASSUME TypeOK, TypeOK', NEW r \in Run, TodoWithin(r), Step(r)
    PROVE  TodoWithin(r)'
<1> USE DEF TypeOK
<1>a. \A from, to \in Place : Moves(r, from, to) => pc[r] = from /\ pc'[r] = to
  BY MovesFacts
<1>b. ASSUME UNCHANGED <<snap, todo>>, pc'[r] \notin {"apply", "repair_apply", "restore"}
      PROVE  TodoWithin(r)'
  BY <1>b DEF TodoWithin, SnapPaths
<1>c. ASSUME UNCHANGED snap, pc'[r] \notin {"apply", "repair_apply"},
             todo'[r] \subseteq SnapPaths(r)
      PROVE  TodoWithin(r)'
  BY <1>c DEF TodoWithin, SnapPaths
<1>1. CASE Start(r) \/ ProviderAnswers(r) \/ ProviderFails(r) \/ ValidateRaises(r)
  BY <1>1, <1>a, <1>b DEF Start, ProviderAnswers, ProviderFails, ValidateRaises, runVars,
         Place, Awaiting, OnLoop, Ended
<1>2. CASE RejectPatch(r) \/ PreviewPatch(r) \/ SkipRepair(r) \/ StartRepair(r) \/ RepairPasses(r)
  BY <1>2, <1>a, <1>b DEF RejectPatch, PreviewPatch, SkipRepair, StartRepair, RepairPasses, runVars,
         Place, Awaiting, OnLoop
<1>3. CASE AskQA(r) \/ QAAnswers(r) \/ QAFails(r) \/ OverBudget(r) \/ Finish(r) \/ FinishRaises(r)
  BY <1>3, <1>a, <1>b DEF AskQA, QAAnswers, QAFails, OverBudget, Finish, FinishRaises, runVars,
         Place, Awaiting, OnLoop, Ended
<1>4. CASE AcceptPatch(r)
  <2>1. PICK S \in SUBSET Path : AcceptPatch(r)!2!(S)
    BY <1>4 DEF AcceptPatch
  <2>2. SnapPaths(r)' = S /\ S \subseteq ScopeOf[r]
    BY <2>1, SnapshotFacts DEF Validates
  <2>3. todo'[r] = S /\ pc'[r] # "restore"
    BY <2>1, <1>a DEF Place, OnLoop
  <2> QED
    BY <2>2, <2>3 DEF TodoWithin
<1>5. CASE AcceptRepair(r)
  <2>1. PICK S \in SUBSET Path : AcceptRepair(r)!1!(S)
    BY <1>5 DEF AcceptRepair
  <2>2. todo'[r] = S /\ S \subseteq ScopeOf[r] /\ pc'[r] # "restore"
    BY <2>1, <1>a DEF Validates, Place, OnLoop
  <2> QED
    BY <1>5, <2>2 DEF AcceptRepair, TodoWithin, SnapPaths
<1>6. CASE RejectRepair(r) \/ RepairFails(r)
  BY <1>6, <1>a, <1>c DEF RejectRepair, RepairFails, Place, OnLoop
<1>7. ASSUME NEW here \in {"apply", "repair_apply"}, NEW role,
             NEW next \in {"commands", "repair_commands"},
             ApplyTo(r, here, role, next) \/ ApplyRaises(r, here, role)
      PROVE  TodoWithin(r)'
  <2>1. pc[r] = here /\ pc'[r] # "restore"
    BY <1>7, <1>a DEF ApplyTo, ApplyRaises, Place, OnLoop, Ended
  <2>2. todo'[r] \subseteq todo[r] /\ UNCHANGED snap
    BY <1>7 DEF ApplyTo, ApplyRaises, runVars
  <2> QED
    BY <2>1, <2>2 DEF TodoWithin, SnapPaths
<1>8. CASE ApplyPatch(r) \/ ApplyRepair(r)
  BY <1>7, <1>8 DEF ApplyPatch, ApplyRepair
<1>9. CASE RollbackFile(r)
  <2>1. PICK p \in todo[r] : RollbackFile(r)!(p)
    BY <1>9 DEF RollbackFile
  <2>2. pc[r] = "restore" /\ pc'[r] \notin {"apply", "repair_apply"}
    BY <2>1, <1>a DEF Place, OnLoop
  <2> QED
    BY <2>1, <2>2, <1>c DEF TodoWithin
<1>10. CASE RollbackManifest(r)
  <2>1. Moves(r, "restore_manifest", "report") /\ UNCHANGED <<snap, todo>>
    BY <1>10 DEF RollbackManifest
  <2> QED
    BY <2>1, <1>a, <1>b DEF Place, OnLoop
<1> QED
  BY <1>1, <1>2, <1>3, <1>4, <1>5, <1>6, <1>8, <1>9, <1>10 DEF Step

\* A step of one run leaves the workspace alone outside the run's scope and
\* project_state.md, and touches it only while the run owns the event loop.
LEMMA StepConfined ==
    ASSUME TypeOK, WriteInvariant, NEW r \in Run, Step(r)
    PROVE  /\ TypeOK'
           /\ \A s \in Run \ {r} : Untouched(s)
           /\ \A p \in Path \ (ScopeOf[r] \cup {StateFile}) : files'[p] = files[p]
           /\ (\E p \in Path : files'[p] # files[p]) => loop = r
<1>1. CASE QuietStep(r)
  BY <1>1, QuietType DEF workspaceVars
<1>2. CASE WritingStep(r)
  BY <1>2, WritingType
<1> QED
  BY <1>1, <1>2, StepIsQuietOrWriting

LEMMA TypeStep ==
    TypeOK /\ WriteInvariant /\ [Next]_vars => TypeOK' /\ WriteInvariant'
<1> SUFFICES ASSUME TypeOK, WriteInvariant, [Next]_vars
             PROVE  TypeOK' /\ WriteInvariant'
  OBVIOUS
<1>1. CASE UNCHANGED vars
  BY <1>1 DEF vars, workspaceVars, runVars, TypeOK, WorkspaceTypeOK, WriteInvariant,
         TodoWithin, SnapPaths
<1>2. ASSUME NEW r \in Run, Step(r) PROVE TypeOK' /\ WriteInvariant'
  <2>1. TypeOK' /\ \A s \in Run \ {r} : Untouched(s)
    BY <1>2, StepConfined
  <2>2. TodoWithin(r)'
    BY <1>2, <2>1, TodoStep DEF WriteInvariant
  <2>3. ASSUME NEW s \in Run \ {r} PROVE TodoWithin(s)'
    BY <2>1 DEF WriteInvariant, TodoWithin, SnapPaths, Untouched
  <2> QED
    BY <2>1, <2>2, <2>3 DEF WriteInvariant
<1> QED
  BY <1>1, <1>2 DEF Next, AllEnded

\* Every state of every run of the system has the types of TypeOK, and what a
\* run has still to write lies in its scope (PatchApplier.validate).
THEOREM TypeCorrect == Spec => [](TypeOK /\ WriteInvariant)
<1>1. Init => TypeOK /\ WriteInvariant
  BY TypeInit
<1>2. TypeOK /\ WriteInvariant /\ [Next]_vars => (TypeOK /\ WriteInvariant)'
  BY TypeStep
<1> QED
  BY <1>1, <1>2, PTL DEF Spec

\* However the runs interleave and fail, a file changes only in the hands of
\* the run that owns the event loop and inside its scope or project_state.md.
THEOREM FilesConfined == Spec => ScopeConfined
<1>1. TypeOK /\ WriteInvariant /\ [Next]_vars =>
          [\A p \in Path : files'[p] # files[p] =>
               \E r \in Run : loop = r /\ p \in ScopeOf[r] \cup {StateFile}]_vars
  <2> SUFFICES ASSUME TypeOK, WriteInvariant, NEW r \in Run, Step(r),
                      NEW p \in Path, files'[p] # files[p]
               PROVE  loop = r /\ p \in ScopeOf[r] \cup {StateFile}
    BY DEF Next, AllEnded
  <2> QED
    BY StepConfined
<1> QED
  BY <1>1, TypeCorrect, PTL DEF Spec, ScopeConfined

----------------------------------------------------------------------------
(* The change log.                                                         *)

\* Where the content of a file or of a snapshot comes from, and that neither
\* the change log nor the end of a run is taken back.
LEMMA ContentSources ==
    ASSUME TypeOK, WriteInvariant, NEW t \in Run, Step(t)
    PROVE  /\ \A p \in Path :
                  \/ files'[p] = files[p]
                  \/ files'[p] = snap[t].files[p]
                  \/ files'[p].role = "torn"
                  \/ files'[p].by = t /\ (p \in changes'[t] \/ pc'[t] = "raised")
           /\ \A s \in Run, p \in Path :
                  snap'[s].files[p] \in {snap[s].files[p], files[p], Unsaved}
           /\ \A r \in Run : changes[r] \subseteq changes'[r]
           /\ \A r \in Run : pc[r] = "raised" => pc'[r] = "raised"
<1> USE DEF TypeOK, WorkspaceTypeOK
<1>a. \A from, to \in Place : Moves(t, from, to) => pc[t] = from /\ pc'[t] = to
  BY MovesFacts
<1>b. \A s \in Run \ {t} : Untouched(s)
  BY StepConfined
<1>c. pc[t] # "raised"
  <2>1. \E from \in Place \ {"raised"}, to \in Place : Moves(t, from, to)
    <3>1. CASE Start(t) \/ ProviderAnswers(t) \/ ProviderFails(t) \/ ValidateRaises(t)
      BY <3>1 DEF Start, ProviderAnswers, ProviderFails, ValidateRaises, Place, Awaiting, OnLoop, Ended
    <3>2. CASE RejectPatch(t) \/ PreviewPatch(t) \/ SkipRepair(t) \/ StartRepair(t) \/ RepairPasses(t)
      BY <3>2 DEF RejectPatch, PreviewPatch, SkipRepair, StartRepair, RepairPasses, Place, Awaiting, OnLoop
    <3>3. CASE AcceptPatch(t) \/ AcceptRepair(t)
      BY <3>3 DEF AcceptPatch, AcceptRepair, Place, OnLoop
    <3>4. CASE ApplyPatch(t) \/ ApplyRepair(t)
      BY <3>4 DEF ApplyPatch, ApplyRepair, ApplyTo, ApplyRaises, Place, OnLoop, Ended
    <3>5. CASE RejectRepair(t) \/ RepairFails(t) \/ RollbackFile(t)
      BY <3>5 DEF RejectRepair, RepairFails, RollbackFile, Place, OnLoop
    <3>6. CASE RollbackManifest(t)
      <4>1. Moves(t, "restore_manifest", "report")
        BY <3>6 DEF RollbackManifest
      <4> QED
        BY <4>1 DEF Place, OnLoop
    <3>7. CASE AskQA(t) \/ QAAnswers(t) \/ QAFails(t) \/ OverBudget(t) \/ Finish(t) \/ FinishRaises(t)
      BY <3>7 DEF AskQA, QAAnswers, QAFails, OverBudget, Finish, FinishRaises, Place, Awaiting, OnLoop, Ended
    <3> QED
      BY <3>1, <3>2, <3>3, <3>4, <3>5, <3>6, <3>7 DEF Step
  <2> QED
    BY <2>1, <1>a
<1>1. \A r \in Run : pc[r] = "raised" => pc'[r] = "raised"
  BY <1>b, <1>c DEF Untouched
<1>2. \A s \in Run, p \in Path : snap'[s].files[p] \in {snap[s].files[p], files[p], Unsaved}
  <2>1. CASE UNCHANGED snap
    BY <2>1
  <2>2. CASE AcceptPatch(t)
    <3>1. PICK S \in SUBSET Path :
              snap' = [snap EXCEPT ![t] = [files |-> PictureOf(S), manifest |-> manifest]]
      BY <2>2 DEF AcceptPatch
    <3>2. snap'[t].files = PictureOf(S)
      BY <3>1
    <3> QED
      BY <3>1, <3>2 DEF PictureOf
  <2>3. CASE RollbackManifest(t)
    BY <2>3, <2>1 DEF RollbackManifest
  <2> QED
    BY <2>1, <2>2, <2>3 DEF Step, Start, ProviderAnswers, ProviderFails, ValidateRaises, RejectPatch,
         PreviewPatch, SkipRepair, StartRepair, RepairPasses, ApplyPatch, ApplyRepair, ApplyTo,
         ApplyRaises, RejectRepair, RepairFails, AcceptRepair, RollbackFile, AskQA, QAAnswers,
         QAFails, OverBudget, Finish, FinishRaises, runVars
<1>3. ASSUME UNCHANGED workspaceVars
      PROVE  /\ \A p \in Path : files'[p] = files[p]
             /\ \A r \in Run : changes[r] \subseteq changes'[r]
  BY <1>3 DEF workspaceVars
<1>4. ASSUME NEW role, NEW p \in todo[t], WriteProjectFile(t, p, WrittenBy(t, role))
      PROVE  /\ \A q \in Path : files'[q] = files[q] \/ (files'[q].by = t /\ q \in changes'[t])
             /\ \A r \in Run : changes[r] \subseteq changes'[r]
  BY <1>4 DEF WriteProjectFile, WrittenBy
<1>5. ASSUME NEW role, NEW p \in todo[t], WriteProjectFileRaises(t, p, WrittenBy(t, role))
      PROVE  /\ \A q \in Path : \/ files'[q] = files[q]
                               \/ files'[q].role = "torn"
                               \/ files'[q].by = t
             /\ \A r \in Run : changes[r] \subseteq changes'[r]
  BY <1>5 DEF WriteProjectFileRaises, WrittenBy
<1>6. CASE ApplyPatch(t) \/ ApplyRepair(t)
  <2>1. PICK role \in Roles, p \in todo[t] :
            \/ WriteProjectFile(t, p, WrittenBy(t, role))
            \/ /\ WriteProjectFileRaises(t, p, WrittenBy(t, role))
               /\ pc'[t] = "raised"
    BY <1>6, <1>a DEF ApplyPatch, ApplyRepair, ApplyTo, ApplyRaises, Roles, Place, OnLoop, Ended
  <2> QED
    BY <2>1, <1>1, <1>2, <1>4, <1>5
<1>7. CASE RollbackFile(t)
  <2>1. PICK p \in todo[t] : RollbackFile(t)!(p)
    BY <1>7 DEF RollbackFile
  <2>2. PICK c \in {snap[t].files[p], files[p], WrittenBy(t, "torn")} : RestoreFile(p, c)
    BY <2>1
  <2>3. \A q \in Path : \/ files'[q] = files[q]
                        \/ files'[q] = snap[t].files[q]
                        \/ files'[q].role = "torn"
    BY <2>2 DEF RestoreFile, WrittenBy
  <2> QED
    BY <2>2, <2>3, <1>1, <1>2 DEF RestoreFile
<1>8. CASE RollbackManifest(t)
  <2>1. UNCHANGED <<files, changes>>
    BY <1>8 DEF RollbackManifest, RestoreManifest, workspaceVars
  <2> QED
    BY <2>1, <1>1, <1>2
<1>9. CASE Finish(t)
  BY <1>9, <1>1, <1>2 DEF Finish, RegisterRun, WrittenBy
<1>10. CASE FinishRaises(t)
  <2>1. pc'[t] = "raised"
    BY <1>10, <1>a DEF FinishRaises, Place, OnLoop, Ended
  <2>2. \A q \in Path : \/ files'[q] = files[q]
                        \/ files'[q].role = "torn"
                        \/ files'[q].by = t
    BY <1>10 DEF FinishRaises, RegisterRunRaises, RegisterRun, WriteProjectFile,
         WriteProjectFileRaises, WrittenBy
  <2>3. \A r \in Run : changes[r] \subseteq changes'[r]
    BY <1>10 DEF FinishRaises, RegisterRunRaises, RegisterRun, WriteProjectFile,
         WriteProjectFileRaises
  <2> QED
    BY <2>1, <2>2, <2>3, <1>1, <1>2
<1>11. CASE QuietStep(t)
  BY <1>11, <1>1, <1>2, <1>3, QuietType
<1> QED
  BY <1>6, <1>7, <1>8, <1>9, <1>10, <1>11, StepIsQuietOrWriting DEF WritingStep

LEMMA LogStep ==
    TypeOK /\ WriteInvariant /\ LogInvariant /\ [Next]_vars => LogInvariant'
<1> SUFFICES ASSUME TypeOK, WriteInvariant, LogInvariant, [Next]_vars
             PROVE  LogInvariant'
  OBVIOUS
<1>1. CASE UNCHANGED vars
  BY <1>1 DEF vars, workspaceVars, runVars, LogInvariant, Logged
<1>2. ASSUME NEW t \in Run, Step(t) PROVE LogInvariant'
  <2>1. ASSUME NEW c, NEW p \in Path, Logged(c, p)
        PROVE  \A r \in Run :
                   c.by = r /\ c.role # "torn" /\ pc'[r] # "raised" => p \in changes'[r]
    BY <2>1, <1>2, ContentSources DEF Logged
  <2>2. ASSUME NEW p \in Path PROVE Logged(files[p], p)'
    BY <2>1, <1>2, ContentSources DEF Logged, LogInvariant
  <2>3. ASSUME NEW s \in Run, NEW p \in Path PROVE Logged(snap[s].files[p], p)'
    <3>1. Unsaved.by \notin Run
      BY WorkspaceAssumption DEF Unsaved
    <3> QED
      BY <2>1, <3>1, <1>2, ContentSources DEF Logged, LogInvariant
  <2> QED
    BY <2>2, <2>3 DEF LogInvariant
<1> QED
  BY <1>1, <1>2 DEF Next, AllEnded

\* Until an exception ends a run, its file_changes.json lists every file that
\* holds something the run wrote, whatever other runs and rollbacks do.
THEOREM ChangeLogIsComplete == Spec => []ChangeLogComplete
<1>1. Init => LogInvariant
  BY WorkspaceAssumption DEF Init, WorkspaceInit, LogInvariant, Logged, Absent, Original,
       NoSnapshot, NoPicture, Unsaved
<1>2. LogInvariant => ChangeLogComplete
  BY DEF LogInvariant, Logged, ChangeLogComplete
<1> QED
  BY <1>1, <1>2, LogStep, TypeCorrect, PTL DEF Spec

----------------------------------------------------------------------------
(* The patch and its rollback.                                             *)

\* The steps of a run that leave its books and its scope's files alone.
LEMMA PatchKeptByWaiting ==
    ASSUME TypeOK, NEW r \in Run, TodoWithin(r), PatchBooks(r), ScopeFiles(r),
           ProviderAnswers(r) \/ ProviderFails(r) \/ ValidateRaises(r) \/ StartRepair(r)
               \/ AskQA(r) \/ QAAnswers(r) \/ QAFails(r) \/ OverBudget(r)
    PROVE  PatchBooks(r)' /\ ScopeFiles(r)'
<1>1. UNCHANGED <<files, runVars>>
  BY DEF ProviderAnswers, ProviderFails, ValidateRaises, StartRepair, AskQA, QAAnswers,
     QAFails, OverBudget, workspaceVars
<1>2. \A from, to \in Place : Moves(r, from, to) => pc[r] = from /\ pc'[r] = to
  BY MovesFacts
<1>3. \/ pc[r] \in {"call", "fallback"} /\ pc'[r] \in {"fallback", "reply", "raised"}
      \/ pc[r] = "reply" /\ pc'[r] = "raised"
      \/ /\ pc[r] \in {"commands", "repair_call", "repair_fallback", "repair_reply"}
         /\ pc'[r] \in {"repair_call", "repair_fallback", "repair_reply", "raised"}
      \/ pc[r] \in {"report", "qa", "finish"} /\ pc'[r] \in {"qa", "finish", "raised"}
  BY <1>2 DEF ProviderAnswers, ProviderFails, ValidateRaises, StartRepair, AskQA, QAAnswers,
     QAFails, OverBudget, Place, Awaiting, OnLoop, Ended
<1>4. PatchBooks(r)'
  BY <1>1, <1>3 DEF PatchBooks, SnapPaths, InFlightPlaces, Place, Awaiting, OnLoop, Ended,
     Returned, runVars
<1>5. ScopeFiles(r)'
  BY <1>1, <1>3 DEF ScopeFiles, SnapPaths, RepairPossible, AsFoundOrLeftByRepair, runVars
<1> QED
  BY <1>4, <1>5

LEMMA PatchKeptByStart ==
    ASSUME TypeOK, NEW r \in Run, TodoWithin(r), PatchBooks(r), ScopeFiles(r), Start(r)
    PROVE  PatchBooks(r)' /\ ScopeFiles(r)'
<1>1. pc[r] = "idle" /\ pc'[r] \in {"reply", "call", "raised"}
  BY MovesFacts DEF Start, Place, Awaiting, OnLoop, Ended
<1>2. UNCHANGED <<files, snap, patch, todo, entries, failed, final>>
  BY DEF Start, workspaceVars
<1>3. SnapPaths(r) = {} /\ SnapPaths(r)' = {} /\ final[r] = "none"
  BY <1>1, <1>2 DEF PatchBooks, SnapPaths
<1>4. PatchBooks(r)'
  BY <1>1, <1>2, <1>3 DEF PatchBooks, InFlightPlaces, Returned, Skipped, Place, Awaiting, OnLoop, Ended
<1>5. \A p \in ScopeOf[r] : seen'[r][p] = files[p]
  <2>1. seen'[r] = PictureOf(ScopeOf[r])
    BY DEF Start, TypeOK
  <2> QED
    BY <2>1, PictureFacts, CodingAssumption
<1>6. ScopeFiles(r)'
  BY <1>1, <1>2, <1>3, <1>5 DEF ScopeFiles, OwnFiles, RolledBack
<1> QED
  BY <1>4, <1>6

LEMMA PatchKeptByValidation ==
    ASSUME TypeOK, NEW r \in Run, TodoWithin(r), PatchBooks(r), ScopeFiles(r),
           RejectPatch(r) \/ PreviewPatch(r) \/ AcceptPatch(r) \/ SkipRepair(r)
               \/ RejectRepair(r) \/ AcceptRepair(r) \/ RepairPasses(r) \/ RepairFails(r)
    PROVE  PatchBooks(r)' /\ ScopeFiles(r)'
<1> USE DEF TypeOK
<1>a. \A from, to \in Place : Moves(r, from, to) => pc[r] = from /\ pc'[r] = to
  BY MovesFacts
<1>b. files' = files
  BY DEF RejectPatch, PreviewPatch, AcceptPatch, SkipRepair, RejectRepair, AcceptRepair,
     RepairPasses, RepairFails, workspaceVars
<1>1. CASE RejectPatch(r)
  <2>1. /\ pc[r] = "reply" /\ pc'[r] = "report" /\ final'[r] = "patch_rejected"
        /\ UNCHANGED <<request, seen, snap, todo, patch, entries, failed>>
    BY <1>1, <1>a DEF RejectPatch, Place, OnLoop
  <2> QED
    BY <2>1, <1>b DEF PatchBooks, ScopeFiles, SnapPaths, InFlightPlaces, Returned, Skipped,
         RepairPossible, RolledBack
<1>2. CASE PreviewPatch(r)
  <2>1. /\ pc[r] = "reply" /\ pc'[r] = "commands"
        /\ UNCHANGED <<request, seen, snap, todo, entries, failed, final>>
    BY <1>2, <1>a DEF PreviewPatch, Place, OnLoop
  <2> QED
    BY <2>1, <1>b DEF PatchBooks, ScopeFiles, SnapPaths, InFlightPlaces, Place, Returned,
         Awaiting, OnLoop, Ended, RepairPossible, RolledBack
<1>3. CASE AcceptPatch(r)
  <2>1. PICK S \in SUBSET Path : AcceptPatch(r)!2!(S)
    BY <1>3 DEF AcceptPatch
  <2>2. /\ pc[r] = "reply" /\ pc'[r] \in {"commands", "apply"}
        /\ pc'[r] = "commands" => S = {}
        /\ patch'[r] = S /\ todo'[r] = S /\ SnapPaths(r)' = S /\ ~request[r].dry
        /\ UNCHANGED <<request, seen, entries, failed, final>>
    <3>1. Moves(r, "reply", IF S = {} THEN "commands" ELSE "apply")
      BY <2>1
    <3>2. pc[r] = "reply" /\ pc'[r] = IF S = {} THEN "commands" ELSE "apply"
      BY <3>1, <1>a DEF Place, OnLoop
    <3>3. /\ snap' = [snap EXCEPT ![r] = [files |-> PictureOf(S), manifest |-> manifest]]
          /\ patch'[r] = S /\ todo'[r] = S
      BY <2>1
    <3>4. SnapPaths(r)' = S
      BY <3>3, SnapshotFacts
    <3>5. ~request[r].dry /\ UNCHANGED <<request, seen, entries, failed, final>>
      BY <1>3 DEF AcceptPatch
    <3> QED
      BY <3>2, <3>3, <3>4, <3>5
  <2>3. \A p \in S : snap'[r].files[p] = files[p]
    <3>1. snap'[r].files = PictureOf(S)
      BY <2>1
    <3> QED
      BY <3>1, PictureFacts
  <2>4. SnapPaths(r) = {} /\ entries[r] = {} /\ failed[r] = {} /\ final[r] = "none"
    BY <2>2 DEF PatchBooks, InFlightPlaces, Place, OnLoop, Returned
  <2>5. PatchBooks(r)'
    BY <2>2, <2>4 DEF PatchBooks, Returned, Skipped
  <2>6. ScopeFiles(r)'
    BY <2>2, <2>3, <2>4, <1>b, CodingAssumption DEF ScopeFiles, OwnFiles, RepairPossible, RolledBack
  <2> QED
    BY <2>5, <2>6
<1>4. CASE SkipRepair(r)
  <2>1. /\ pc[r] = "commands" /\ pc'[r] = "report" /\ final'[r] \in Skipped
        /\ UNCHANGED <<request, seen, snap, todo, patch, entries, failed>>
    BY <1>4, <1>a DEF SkipRepair, Skipped, Place, OnLoop
  <2> QED
    BY <2>1, <1>b DEF PatchBooks, ScopeFiles, SnapPaths, InFlightPlaces, Returned, Skipped,
         RepairPossible, RolledBack
<1>5. CASE RejectRepair(r) \/ RepairFails(r)
  <2>1. /\ pc[r] \in {"repair_reply", "repair_commands"} /\ pc'[r] = "restore"
        /\ todo'[r] = SnapPaths(r)
        /\ UNCHANGED <<request, seen, snap, patch, entries, failed, final>>
    BY <1>5, <1>a DEF RejectRepair, RepairFails, Place, OnLoop
  <2>2. final[r] = "none"
    BY <2>1 DEF PatchBooks, InFlightPlaces, Place, OnLoop, Returned
  <2>3. PatchBooks(r)'
    BY <2>1, <2>2 DEF PatchBooks, SnapPaths, Returned, Skipped
  <2>4. ScopeFiles(r)'
    BY <2>1, <2>2, <1>b DEF ScopeFiles, SnapPaths, OwnFiles, RepairPossible, RolledBack
  <2> QED
    BY <2>3, <2>4
<1>6. CASE AcceptRepair(r)
  <2>1. PICK S \in SUBSET Path : AcceptRepair(r)!1!(S)
    BY <1>6 DEF AcceptRepair
  <2>2. /\ pc[r] = "repair_reply" /\ pc'[r] \in {"repair_apply", "repair_commands"}
        /\ UNCHANGED <<request, seen, snap, failed, final>>
    BY <1>6, <2>1, <1>a DEF AcceptRepair, Place, OnLoop
  <2>3. final[r] = "none"
    BY <2>2 DEF PatchBooks, InFlightPlaces, Place, OnLoop, Returned
  <2>4. PatchBooks(r)'
    BY <2>2, <2>3 DEF PatchBooks, SnapPaths, Returned, Skipped
  <2>5. ScopeFiles(r)'
    BY <2>2, <2>3, <1>b DEF ScopeFiles, SnapPaths, RepairPossible, RolledBack
  <2> QED
    BY <2>4, <2>5
<1>7. CASE RepairPasses(r)
  <2>1. /\ pc[r] = "repair_commands" /\ pc'[r] = "report"
        /\ final'[r] = "repaired_successfully"
        /\ UNCHANGED <<request, seen, snap, patch, todo, entries, failed>>
    BY <1>7, <1>a DEF RepairPasses, Place, OnLoop
  <2>2. PatchBooks(r)'
    BY <2>1 DEF PatchBooks, SnapPaths, InFlightPlaces, Returned, Skipped
  <2>3. ScopeFiles(r)'
    BY <2>1, <1>b DEF ScopeFiles, SnapPaths, RepairPossible, RolledBack
  <2> QED
    BY <2>2, <2>3
<1> QED
  BY <1>1, <1>2, <1>3, <1>4, <1>5, <1>6, <1>7

\* Writing a file of a patch: it is a file of the first patch, or a repair.
LEMMA PatchKeptByApply ==
    ASSUME TypeOK, NEW r \in Run, TodoWithin(r), PatchBooks(r), ScopeFiles(r),
           ApplyPatch(r) \/ ApplyRepair(r)
    PROVE  PatchBooks(r)' /\ ScopeFiles(r)'
<1> USE DEF TypeOK
<1>a. \A from, to \in Place : Moves(r, from, to) => pc[r] = from /\ pc'[r] = to
  BY MovesFacts
<1>1. PICK p \in todo[r], role \in Roles :
          /\ \/ WriteProjectFile(r, p, WrittenBy(r, role))
             \/ WriteProjectFileRaises(r, p, WrittenBy(r, role))
          /\ pc[r] = "repair_apply" => role = "repair"
          /\ pc'[r] # "raised" => WriteProjectFile(r, p, WrittenBy(r, role))
          /\ todo'[r] \subseteq todo[r]
          /\ UNCHANGED <<request, seen, snap, patch, failed, final>>
          /\ pc[r] = "apply" =>
                 \/ pc'[r] = "apply" /\ UNCHANGED entries
                 \/ pc'[r] = "commands" /\ entries'[r] = patch[r]
                 \/ pc'[r] = "raised" /\ UNCHANGED entries
          /\ pc[r] # "apply" =>
                 pc'[r] \in {"repair_apply", "repair_commands", "raised"}
          /\ pc[r] \in {"apply", "repair_apply"}
  <2>1. CASE ApplyPatch(r)
    <3>1. CASE ApplyTo(r, "apply", "patch", "commands")
      BY <3>1, <1>a DEF ApplyTo, Roles, Place, OnLoop
    <3>2. CASE ApplyRaises(r, "apply", "patch")
      BY <3>2, <1>a DEF ApplyRaises, runVars, Roles, Place, OnLoop, Ended
    <3> QED
      BY <2>1, <3>1, <3>2 DEF ApplyPatch
  <2>2. CASE ApplyRepair(r)
    <3>1. CASE ApplyTo(r, "repair_apply", "repair", "repair_commands")
      BY <3>1, <1>a DEF ApplyTo, Roles, Place, OnLoop
    <3>2. CASE ApplyRaises(r, "repair_apply", "repair")
      BY <3>2, <1>a DEF ApplyRaises, runVars, Roles, Place, OnLoop, Ended
    <3> QED
      BY <2>2, <3>1, <3>2 DEF ApplyRepair
  <2> QED
    BY <2>1, <2>2
<1>2. \/ p \in SnapPaths(r)
      \/ /\ pc[r] = "repair_apply"
         /\ pc'[r] # "raised" => files'[p] = WrittenBy(r, "repair")
  <2>1. CASE pc[r] = "apply"
    BY <2>1, <1>1 DEF PatchBooks
  <2>2. CASE pc[r] = "repair_apply"
    BY <2>2, <1>1 DEF WriteProjectFile, WorkspaceTypeOK
  <2> QED
    BY <2>1, <2>2, <1>1
<1>3. \A q \in Path \ {p} : files'[q] = files[q]
  BY <1>1, WriteFacts
<1>4. final[r] = "none"
  BY <1>1 DEF PatchBooks, InFlightPlaces, Place, OnLoop, Returned
<1>5. PatchBooks(r)'
  BY <1>1, <1>4 DEF PatchBooks, SnapPaths, Returned, Skipped
<1>6. ScopeFiles(r)'
  <2>1. SnapPaths(r)' = SnapPaths(r)
    BY <1>1 DEF SnapPaths
  <2>2. pc'[r] \notin {"idle", "restore", "restore_manifest"} /\ final'[r] = "none"
    BY <1>1, <1>4
  <2>3. ASSUME pc'[r] # "raised", NEW q \in OwnFiles(r), q \notin SnapPaths(r)
        PROVE  files'[q] = seen'[r][q]
                   \/ (RepairPossible(r)' /\ files'[q] = WrittenBy(r, "repair"))
    <3>1. CASE q = p
      BY <3>1, <2>3, <1>1, <1>2 DEF RepairPossible
    <3>2. CASE q # p
      <4>1. files'[q] = files[q] /\ seen'[r][q] = seen[r][q]
        BY <3>2, <2>3, <1>1, <1>3, CodingAssumption DEF OwnFiles
      <4>2. files[q] = seen[r][q] \/ (RepairPossible(r) /\ files[q] = WrittenBy(r, "repair"))
        BY <2>3, <1>1 DEF ScopeFiles
      <4>3. RepairPossible(r) => RepairPossible(r)'
        BY <2>3, <1>1, <1>4 DEF RepairPossible, RolledBack
      <4> QED
        BY <4>1, <4>2, <4>3
    <3> QED
      BY <3>1, <3>2
  <2>4. ASSUME NEW q \in OwnFiles(r), q \in SnapPaths(r)
        PROVE  snap'[r].files[q] = seen'[r][q]
    BY <2>4, <1>1 DEF ScopeFiles
  <2> QED
    BY <2>1, <2>2, <2>3, <2>4 DEF ScopeFiles, OwnFiles, RolledBack
<1> QED
  BY <1>5, <1>6

\* A rollback brings back what the run saw, or notes that it could not.
LEMMA PatchKeptByRollback ==
    ASSUME TypeOK, NEW r \in Run, TodoWithin(r), PatchBooks(r), ScopeFiles(r),
           RollbackFile(r) \/ RollbackManifest(r) \/ Finish(r) \/ FinishRaises(r)
    PROVE  PatchBooks(r)' /\ ScopeFiles(r)'
<1> USE DEF TypeOK
<1>a. \A from, to \in Place : Moves(r, from, to) => pc[r] = from /\ pc'[r] = to
  BY MovesFacts
<1>b. SnapPaths(r) \subseteq ScopeOf[r] /\ ScopeOf[r] \subseteq Path
  BY CodingAssumption DEF TodoWithin
<1>1. CASE RollbackFile(r)
  <2>1. PICK p \in todo[r] : RollbackFile(r)!(p)
    BY <1>1 DEF RollbackFile
  <2>2. /\ pc[r] = "restore"
        /\ pc'[r] = IF todo[r] = {p} THEN "restore_manifest" ELSE "restore"
    BY <2>1, <1>a DEF Place, OnLoop
  <2>3. /\ todo'[r] = todo[r] \ {p}
        /\ UNCHANGED <<request, seen, snap, patch, entries, final>>
    BY <2>1
  <2>4. /\ p \in SnapPaths(r) /\ final[r] = "none" /\ todo[r] \subseteq SnapPaths(r)
    BY <2>2 DEF TodoWithin, PatchBooks, InFlightPlaces, Place, OnLoop, Returned
  <2>5. /\ \A q \in Path \ {p} : files'[q] = files[q]
        /\ failed[r] \subseteq failed'[r]
        /\ p \notin failed'[r] => files'[p] = snap[r].files[p]
    <3>1. PICK c : /\ RestoreFile(p, c)
                   /\ \/ c = snap[r].files[p] /\ failed' = failed
                      \/ failed' = [failed EXCEPT ![r] = @ \cup {p}]
      BY <2>1
    <3>2. files' = [files EXCEPT ![p] = c] /\ files \in [Path -> Content] /\ p \in Path
      BY <3>1, <2>4, <1>b DEF RestoreFile, WorkspaceTypeOK
    <3>3. failed[r] \subseteq failed'[r] /\ (p \notin failed'[r] => c = snap[r].files[p])
      BY <3>1
    <3> QED
      BY <3>2, <3>3
  <2>6. PatchBooks(r)'
    BY <2>2, <2>3, <2>4 DEF PatchBooks, SnapPaths, Returned, Skipped
  <2>7. ScopeFiles(r)'
    <3>1. p \in OwnFiles(r) => snap[r].files[p] = seen[r][p]
      BY <2>2, <2>4, <1>b DEF ScopeFiles
    <3>2. \A q \in (OwnFiles(r) \cap SnapPaths(r)) \ (todo'[r] \cup failed'[r]) :
              files'[q] = seen[r][q]
      BY <3>1, <2>2, <2>3, <2>5, <1>b DEF ScopeFiles, OwnFiles
    <3>3. \A q \in OwnFiles(r) :
              IF q \in SnapPaths(r) THEN snap[r].files[q] = seen[r][q]
              ELSE files'[q] = seen[r][q] \/ files'[q] = WrittenBy(r, "repair")
      BY <2>2, <2>4, <2>5, <1>b DEF ScopeFiles, OwnFiles
    <3>4. SnapPaths(r)' = SnapPaths(r)
      BY <2>3 DEF SnapPaths
    <3>5. RepairPossible(r)' /\ pc'[r] \notin {"idle", "raised"}
      BY <2>2 DEF RepairPossible
    <3>6. pc'[r] = "restore_manifest" => todo'[r] = {}
      BY <2>2, <2>3
    <3> QED
      BY <2>2, <2>3, <2>4, <3>2, <3>3, <3>4, <3>5, <3>6 DEF ScopeFiles, RolledBack
  <2> QED
    BY <2>6, <2>7
<1>2. CASE RollbackManifest(r)
  <2>1. Moves(r, "restore_manifest", "report")
    BY <1>2 DEF RollbackManifest
  <2>2. pc[r] = "restore_manifest" /\ pc'[r] = "report"
    BY <2>1, <1>a DEF Place, OnLoop
  <2>3. files' = files /\ UNCHANGED <<request, seen, snap, patch, todo>>
    BY <1>2 DEF RollbackManifest, RestoreManifest, workspaceVars
  <2>4. /\ failed[r] \subseteq failed'[r] /\ final'[r] \in RolledBack
        /\ final'[r] = "failed_safely_original_files_restored" => failed'[r] = {}
    <3>1. \/ UNCHANGED failed
          \/ failed' = [failed EXCEPT ![r] = @ \cup {"manifest.json"}]
      BY <1>2 DEF RollbackManifest
    <3>2. final' = [final EXCEPT ![r] = RollbackResult(failed'[r])]
      BY <1>2 DEF RollbackManifest
    <3> QED
      BY <3>1, <3>2 DEF RollbackResult, RolledBack
  <2>5. PatchBooks(r)'
    BY <2>2, <2>3, <2>4 DEF PatchBooks, SnapPaths, InFlightPlaces, Returned, Skipped, RolledBack
  <2>6. ScopeFiles(r)'
    <3>1. SnapPaths(r)' = SnapPaths(r) /\ RepairPossible(r)'
      BY <2>3, <2>4 DEF SnapPaths, RepairPossible
    <3>2. \A p \in OwnFiles(r) \ failed'[r] : AsFoundOrLeftByRepair(r, p)'
      BY <2>2, <2>3, <2>4, <3>1 DEF ScopeFiles, AsFoundOrLeftByRepair
    <3>3. \A p \in OwnFiles(r) :
              IF p \in SnapPaths(r) THEN snap[r].files[p] = seen[r][p]
              ELSE files[p] = seen[r][p] \/ files[p] = WrittenBy(r, "repair")
      BY <2>2 DEF ScopeFiles
    <3> QED
      BY <2>2, <2>3, <3>1, <3>2, <3>3 DEF ScopeFiles
  <2> QED
    BY <2>5, <2>6
<1>3. CASE Finish(r)
  <2>1. pc[r] = "finish" /\ pc'[r] = "done"
    BY <1>3, <1>a DEF Finish, Place, OnLoop, Ended
  <2>2. UNCHANGED <<request, seen, snap, patch, todo, entries, failed, final>>
    BY <1>3 DEF Finish
  <2>3. \A p \in ScopeOf[r] : files'[p] = files[p]
    BY <1>3, CodingAssumption DEF Finish, RegisterRun, WorkspaceTypeOK
  <2> QED
    BY <2>1, <2>2, <2>3, <1>b DEF PatchBooks, ScopeFiles, SnapPaths, InFlightPlaces, Place, OnLoop,
         Returned, OwnFiles, RepairPossible, AsFoundOrLeftByRepair
<1>4. CASE FinishRaises(r)
  <2>1. pc[r] = "finish" /\ pc'[r] = "raised"
    BY <1>4, <1>a DEF FinishRaises, Place, OnLoop, Ended
  <2>2. UNCHANGED <<request, seen, snap, patch, todo, entries, failed, final>>
    BY <1>4 DEF FinishRaises, runVars
  <2>3. \A p \in ScopeOf[r] : files'[p] = files[p]
    BY <1>4, CodingAssumption
       DEF FinishRaises, RegisterRunRaises, RegisterRun, WriteProjectFile, WriteProjectFileRaises,
           WorkspaceTypeOK
  <2> QED
    BY <2>1, <2>2, <2>3, <1>b DEF PatchBooks, ScopeFiles, SnapPaths, InFlightPlaces, Place, OnLoop,
         Returned, Ended, OwnFiles, RepairPossible, AsFoundOrLeftByRepair
<1> QED
  BY <1>1, <1>2, <1>3, <1>4

LEMMA PatchStep ==
    TypeOK /\ WriteInvariant /\ PatchInvariant /\ [Next]_vars => PatchInvariant'
<1> SUFFICES ASSUME TypeOK, WriteInvariant, PatchInvariant, [Next]_vars
             PROVE  PatchInvariant'
  OBVIOUS
<1>1. CASE UNCHANGED vars
  BY <1>1 DEF vars, workspaceVars, runVars, PatchInvariant, TodoWithin, PatchBooks, ScopeFiles,
         SnapPaths, RepairPossible, AsFoundOrLeftByRepair
<1>2. ASSUME NEW r \in Run, Step(r) PROVE PatchInvariant'
  <2>1. /\ TypeOK' /\ WriteInvariant'
    BY <1>2, TypeStep DEF Next
  <2>2. PatchBooks(r)' /\ ScopeFiles(r)'
    BY <1>2, PatchKeptByWaiting, PatchKeptByStart, PatchKeptByValidation, PatchKeptByApply,
       PatchKeptByRollback DEF Step, PatchInvariant
  <2>3. ASSUME NEW s \in Run \ {r} PROVE PatchBooks(s)' /\ ScopeFiles(s)'
    <3>1. Untouched(s) /\ \A p \in OwnFiles(s) : files'[p] = files[p]
      BY <1>2, StepConfined, CodingAssumption DEF OwnFiles
    <3>2. PatchBooks(s) /\ ScopeFiles(s) /\ SnapPaths(s) \subseteq ScopeOf[s]
      BY DEF PatchInvariant, TodoWithin
    <3>3. PatchBooks(s)'
      BY <3>1, <3>2 DEF PatchBooks, SnapPaths, Untouched
    <3>4. ScopeFiles(s)'
      BY <3>1, <3>2 DEF ScopeFiles, SnapPaths, Untouched, RepairPossible, AsFoundOrLeftByRepair
    <3> QED
      BY <3>3, <3>4
  <2> QED
    BY <2>1, <2>2, <2>3 DEF PatchInvariant, WriteInvariant
<1> QED
  BY <1>1, <1>2 DEF Next, AllEnded

\* Whatever the scopes and the repairs of the runs are, and whatever fails:
\* the snapshot, the entries, the outcome and the own files of a run agree at
\* every place of the run.
THEOREM PatchInvariantHolds == Spec => []PatchInvariant
<1>1. Init => PatchInvariant
  BY DEF Init, PatchInvariant, TodoWithin, PatchBooks, ScopeFiles, SnapPaths, NoSnapshot,
         NoPicture, IdleRequest, Returned, Skipped, RolledBack
<1>2. TypeOK /\ WriteInvariant /\ PatchInvariant /\ [Next]_vars => PatchInvariant'
  BY PatchStep
<1> QED
  BY <1>1, <1>2, TypeCorrect, PTL DEF Spec

\* A result that lists no changed file means that the run's own files are as
\* the run found them, but for what a rolled back repair wrote outside the
\* first patch, however the runs interleave, fail and roll back.
THEOREM NothingClaimedMeansNothingChanged == Spec => []NothingClaimedNothingChanged
<1>1. TypeOK /\ PatchInvariant => NothingClaimedNothingChanged
  <2> SUFFICES ASSUME TypeOK, PatchInvariant, NEW r \in Run, pc[r] \in Returned,
                      FilesChanged(r) = {},
                      final[r] \notin {"failed_rollback_error", "repaired_successfully"},
                      NEW p \in OwnFiles(r)
               PROVE  IF final[r] \in RolledBack THEN AsFoundOrLeftByRepair(r, p)
                                                ELSE files[p] = seen[r][p]
    BY DEF NothingClaimedNothingChanged
  <2>1. PatchBooks(r) /\ ScopeFiles(r) /\ pc[r] \notin {"idle", "raised"}
    BY DEF PatchInvariant, Returned
  <2>2. CASE final[r] \in RolledBack
    <3>1. p \in SnapPaths(r) => files[p] = seen[r][p] \/ p \in failed[r]
      BY <2>1, <2>2 DEF ScopeFiles, AsFoundOrLeftByRepair
    <3>2. failed[r] = {}
      BY <2>2, <2>1 DEF PatchBooks, RolledBack
    <3> QED
      BY <2>1, <2>2, <3>2 DEF ScopeFiles
  <2>3. CASE final[r] \in Skipped \cup {"patch_rejected"}
    <3>1. ~RepairPossible(r)
      BY <2>1, <2>3 DEF RepairPossible, Returned, Skipped, RolledBack
    <3>2. SnapPaths(r) = {}
      BY <2>1, <2>3 DEF PatchBooks, FilesChanged, Skipped, RolledBack
    <3> QED
      BY <2>1, <2>3, <3>1, <3>2 DEF ScopeFiles, Skipped, RolledBack
  <2>4. final[r] \in Outcome \ {"none"}
    BY <2>1 DEF PatchBooks, TypeOK
  <2> QED
    BY <2>2, <2>3, <2>4 DEF Outcome
<1> QED
  BY <1>1, PatchInvariantHolds, TypeCorrect, PTL

\* A rollback has brought every own file of the first patch back that it does
\* not list as failed, whatever the other runs and the repair wrote meanwhile.
THEOREM RollbackRestores == Spec => []RollbackRestoresSnapshot
<1>1. PatchInvariant => RollbackRestoresSnapshot
  BY DEF PatchInvariant, ScopeFiles, RollbackRestoresSnapshot
<1> QED
  BY <1>1, PatchInvariantHolds, PTL

----------------------------------------------------------------------------
(* What a run reports.                                                     *)

\* Of the run's own files, what apply has written so far, and what it returned
\* as its entries, holds the run's content until a rollback begins.
Reported(r) ==
    /\ entries[r] \subseteq ScopeOf[r]
    /\ pc[r] \in {"apply", "repair_apply"} =>
           /\ patch[r] \subseteq ScopeOf[r]
           /\ \A p \in (patch[r] \cap OwnFiles(r)) \ todo[r] : files[p].by = r
    /\ pc[r] \notin {"restore", "restore_manifest", "raised"} =>
           \A p \in entries[r] \cap OwnFiles(r) : files[p].by = r

ReportInvariant == \A r \in Run : Reported(r)

LEMMA ReportedKeptByQuiet ==
    ASSUME TypeOK, NEW r \in Run, Reported(r), QuietStep(r)
    PROVE  Reported(r)'
<1> USE DEF TypeOK
<1>a. \A from, to \in Place : Moves(r, from, to) => pc[r] = from /\ pc'[r] = to
  BY MovesFacts
<1>b. files' = files
  BY QuietType DEF workspaceVars
<1>c. ASSUME pc[r] \notin {"restore", "restore_manifest", "raised"},
             pc'[r] \notin {"apply", "repair_apply"}, entries'[r] = entries[r]
      PROVE  Reported(r)'
  BY <1>b, <1>c DEF Reported
<1>1. CASE Start(r) \/ ProviderAnswers(r) \/ ProviderFails(r) \/ ValidateRaises(r)
  BY <1>1, <1>a, <1>c DEF Start, ProviderAnswers, ProviderFails, ValidateRaises, runVars,
         Place, Awaiting, OnLoop, Ended
<1>2. CASE RejectPatch(r) \/ PreviewPatch(r) \/ SkipRepair(r) \/ StartRepair(r) \/ RepairPasses(r)
  BY <1>2, <1>a, <1>c DEF RejectPatch, PreviewPatch, SkipRepair, StartRepair, RepairPasses, runVars,
         Place, Awaiting, OnLoop
<1>3. CASE AskQA(r) \/ QAAnswers(r) \/ QAFails(r) \/ OverBudget(r)
  BY <1>3, <1>a, <1>c DEF AskQA, QAAnswers, QAFails, OverBudget, runVars,
         Place, Awaiting, OnLoop, Ended
<1>4. CASE RejectRepair(r) \/ RepairFails(r)
  BY <1>4, <1>a, <1>c DEF RejectRepair, RepairFails, Place, OnLoop
<1>5. CASE AcceptPatch(r)
  <2>1. PICK S \in SUBSET Path : AcceptPatch(r)!2!(S)
    BY <1>5 DEF AcceptPatch
  <2>2. pc[r] = "reply" /\ pc'[r] \in {"commands", "apply"}
    BY <2>1, <1>a DEF Place, OnLoop
  <2>3. patch'[r] = S /\ todo'[r] = S /\ S \subseteq ScopeOf[r] /\ entries' = entries
    BY <1>5, <2>1 DEF AcceptPatch, Validates
  <2> QED
    BY <2>2, <2>3, <1>b DEF Reported
<1>6. CASE AcceptRepair(r)
  <2>1. PICK S \in SUBSET Path : AcceptRepair(r)!1!(S)
    BY <1>6 DEF AcceptRepair
  <2>2. pc[r] = "repair_reply" /\ pc'[r] \in {"repair_commands", "repair_apply"}
    BY <2>1, <1>a DEF Place, OnLoop
  <2>3. /\ patch'[r] = S /\ todo'[r] = S /\ S \subseteq ScopeOf[r]
        /\ entries'[r] \in {entries[r], {}}
    BY <2>1 DEF Validates
  <2> QED
    BY <2>2, <2>3, <1>b DEF Reported
<1> QED
  BY <1>1, <1>2, <1>3, <1>4, <1>5, <1>6 DEF QuietStep

LEMMA ReportedKeptByWriting ==
    ASSUME TypeOK, WriteInvariant, NEW r \in Run, Reported(r), WritingStep(r)
    PROVE  Reported(r)'
<1> USE DEF TypeOK
<1>a. \A from, to \in Place : Moves(r, from, to) => pc[r] = from /\ pc'[r] = to
  BY MovesFacts
<1>b. ScopeOf[r] \subseteq Path \ {StateFile}
  BY CodingAssumption
<1>1. ASSUME NEW here \in {"apply", "repair_apply"}, NEW role,
             NEW next \in {"commands", "repair_commands"}, ApplyTo(r, here, role, next)
      PROVE  Reported(r)'
  <2>1. PICK p \in todo[r] : ApplyTo(r, here, role, next)!(p)
    BY <1>1 DEF ApplyTo
  <2>2. pc[r] = here /\ pc'[r] = IF todo[r] = {p} THEN next ELSE here
    BY <2>1, <1>a DEF Place, OnLoop
  <2>3. p \in Path /\ files'[p].by = r /\ \A q \in Path \ {p} : files'[q] = files[q]
    BY <2>1 DEF WriteProjectFile, WrittenBy, WorkspaceTypeOK
  <2>4. /\ patch' = patch /\ todo'[r] = todo[r] \ {p}
        /\ todo[r] = {p} => entries'[r] = patch[r]
        /\ todo[r] # {p} => entries'[r] = entries[r]
    BY <2>1
  <2>5. /\ patch[r] \subseteq ScopeOf[r] /\ entries[r] \subseteq ScopeOf[r]
        /\ \A q \in (patch[r] \cap OwnFiles(r)) \ todo[r] : files[q].by = r
        /\ \A q \in entries[r] \cap OwnFiles(r) : files[q].by = r
    BY <2>2 DEF Reported
  <2>6. \A q \in OwnFiles(r) \cap ((patch[r] \ todo'[r]) \cup entries[r]) : files'[q].by = r
    BY <2>3, <2>4, <2>5, <1>b
  <2>7. CASE todo[r] = {p}
    BY <2>2, <2>4, <2>5, <2>6, <2>7 DEF Reported
  <2>8. CASE todo[r] # {p}
    BY <2>2, <2>4, <2>5, <2>6, <2>8 DEF Reported
  <2> QED
    BY <2>7, <2>8
<1>2. ASSUME pc'[r] \in {"raised", "restore", "restore_manifest"}, entries' = entries
      PROVE  Reported(r)'
  BY <1>2 DEF Reported
<1>3. CASE ApplyPatch(r) \/ ApplyRepair(r)
  <2>1. ASSUME NEW here \in {"apply", "repair_apply"}, NEW role, ApplyRaises(r, here, role)
        PROVE  Reported(r)'
    BY <2>1, <1>2, <1>a DEF ApplyRaises, runVars, Place, OnLoop, Ended
  <2> QED
    BY <1>1, <1>3, <2>1 DEF ApplyPatch, ApplyRepair
<1>4. CASE RollbackFile(r)
  <2>1. PICK p \in todo[r] : RollbackFile(r)!(p)
    BY <1>4 DEF RollbackFile
  <2> QED
    BY <2>1, <1>2, <1>a DEF Place, OnLoop
<1>5. CASE RollbackManifest(r)
  <2>1. pc'[r] = "report" /\ entries'[r] = {}
    <3>1. Moves(r, "restore_manifest", "report") /\ entries' = [entries EXCEPT ![r] = {}]
      BY <1>5 DEF RollbackManifest
    <3> QED
      BY <3>1, <1>a DEF Place, OnLoop
  <2> QED
    BY <2>1 DEF Reported
<1>6. CASE Finish(r)
  <2>1. pc[r] = "finish" /\ pc'[r] = "done" /\ entries' = entries
    BY <1>6, <1>a DEF Finish, Place, OnLoop, Ended
  <2>2. \A p \in ScopeOf[r] : files'[p] = files[p]
    BY <1>6, <1>b DEF Finish, RegisterRun, WorkspaceTypeOK
  <2> QED
    BY <2>1, <2>2 DEF Reported
<1>7. CASE FinishRaises(r)
  BY <1>7, <1>2, <1>a DEF FinishRaises, runVars, Place, OnLoop, Ended
<1> QED
  BY <1>3, <1>4, <1>5, <1>6, <1>7 DEF WritingStep

LEMMA ReportStep ==
    TypeOK /\ WriteInvariant /\ ReportInvariant /\ [Next]_vars => ReportInvariant'
<1> SUFFICES ASSUME TypeOK, WriteInvariant, ReportInvariant, [Next]_vars
             PROVE  ReportInvariant'
  OBVIOUS
<1>1. CASE UNCHANGED vars
  BY <1>1 DEF vars, workspaceVars, runVars, ReportInvariant, Reported
<1>2. ASSUME NEW r \in Run, Step(r) PROVE ReportInvariant'
  <2>1. Reported(r)'
    BY <1>2, ReportedKeptByQuiet, ReportedKeptByWriting, StepIsQuietOrWriting DEF ReportInvariant
  <2>2. ASSUME NEW s \in Run \ {r} PROVE Reported(s)'
    <3>1. Untouched(s) /\ \A p \in OwnFiles(s) : files'[p] = files[p]
      BY <1>2, StepConfined, CodingAssumption DEF OwnFiles
    <3> QED
      BY <3>1 DEF ReportInvariant, Reported, Untouched
  <2> QED
    BY <2>1, <2>2 DEF ReportInvariant
<1> QED
  BY <1>1, <1>2 DEF Next, AllEnded

\* What a run reports as changed, among the files no other run may write, is
\* still what it wrote, after repairs and after anything other runs do.
THEOREM ReportsHold == Spec => []ReportedFilesPresent
<1>1. Init => ReportInvariant
  BY DEF Init, ReportInvariant, Reported
<1>2. ReportInvariant => ReportedFilesPresent
  BY DEF ReportInvariant, Reported, ReportedFilesPresent, FilesChanged, Returned
<1>3. TypeOK /\ WriteInvariant /\ ReportInvariant /\ [Next]_vars => ReportInvariant'
  BY ReportStep
<1> QED
  BY <1>1, <1>2, <1>3, TypeCorrect, PTL DEF Spec

----------------------------------------------------------------------------
(* The manifest of a run that is alone on its project.                     *)

Alone(r) == \A s \in Run \ {r} : pc[s] = "idle"

\* The first patch has a snapshot, and its outcome is not known yet.
Repairing == {"repair_call", "repair_fallback", "repair_reply", "repair_apply",
              "repair_commands", "restore", "restore_manifest"}
HasSnapshot(r) ==
    \/ pc[r] \in {"apply"} \cup Repairing
    \/ pc[r] = "commands" /\ ~request[r].dry

\* The repair wrote p, and the snapshot does not have it.
LeftByRepair(r, p) == p \notin SnapPaths(r) /\ files[p] = WrittenBy(r, "repair")

\* Manifest and files agree, and would agree after the rollback but for what
\* the repair leaves: the snapshot has the patch's files and their entries, and
\* no other file has changed.
Solo(r) ==
    /\ pc[r] \in InFlightPlaces \cup {"idle"} => final[r] = "none"
    /\ pc[r] \in {"idle", "call", "fallback", "reply"} => \A p \in Path : files[p].by # r
    /\ pc[r] \in {"apply", "restore"} => todo[r] \subseteq SnapPaths(r)
    /\ pc[r] = "restore_manifest" => todo[r] = {}
    /\ pc[r] \notin {"restore", "restore_manifest", "raised"} /\ final[r] \notin RolledBack =>
           \A p \in Path : ManifestMatches(p)
    /\ pc[r] \in Returned /\ final[r] = "failed_safely_original_files_restored" =>
           \A p \in Path : ManifestMatches(p) <=> ~LeftByRepair(r, p)
    /\ HasSnapshot(r) => \A p \in Path :
           /\ snap[r].manifest.entry[p] # r
           /\ p \in SnapPaths(r) => snap[r].manifest.entry[p] = snap[r].files[p].by
           /\ p \notin SnapPaths(r) /\ ~LeftByRepair(r, p) =>
                  snap[r].manifest.entry[p] = files[p].by
    /\ pc[r] \in {"restore", "restore_manifest"} /\ failed[r] = {} =>
           \A p \in SnapPaths(r) \ todo[r] : files[p] = snap[r].files[p]

SoloInvariant == \A r \in Run : Alone(r) => Solo(r)

LEMMA StepLeavesIdle ==
    ASSUME TypeOK, NEW t \in Run, Step(t)
    PROVE  pc'[t] # "idle"
<1> USE DEF TypeOK
<1>a. \A from, to \in Place : Moves(t, from, to) => pc'[t] = to
  BY MovesFacts
<1>1. CASE Start(t) \/ ProviderAnswers(t) \/ ProviderFails(t) \/ ValidateRaises(t)
  BY <1>1, <1>a DEF Start, ProviderAnswers, ProviderFails, ValidateRaises, Place, Awaiting, OnLoop, Ended
<1>2. CASE RejectPatch(t) \/ PreviewPatch(t) \/ SkipRepair(t) \/ StartRepair(t) \/ RepairPasses(t)
  BY <1>2, <1>a DEF RejectPatch, PreviewPatch, SkipRepair, StartRepair, RepairPasses, Place, Awaiting, OnLoop
<1>3. CASE AcceptPatch(t) \/ AcceptRepair(t)
  BY <1>3, <1>a DEF AcceptPatch, AcceptRepair, Place, OnLoop
<1>4. CASE ApplyPatch(t) \/ ApplyRepair(t)
  BY <1>4, <1>a DEF ApplyPatch, ApplyRepair, ApplyTo, ApplyRaises, Place, OnLoop, Ended
<1>5. CASE RejectRepair(t) \/ RepairFails(t) \/ RollbackFile(t)
  BY <1>5, <1>a DEF RejectRepair, RepairFails, RollbackFile, Place, OnLoop
<1>6. CASE RollbackManifest(t)
  <2>1. Moves(t, "restore_manifest", "report")
    BY <1>6 DEF RollbackManifest
  <2> QED
    BY <2>1, <1>a DEF Place, OnLoop
<1>7. CASE AskQA(t) \/ QAAnswers(t) \/ QAFails(t) \/ OverBudget(t) \/ Finish(t) \/ FinishRaises(t)
  BY <1>7, <1>a DEF AskQA, QAAnswers, QAFails, OverBudget, Finish, FinishRaises, Place, Awaiting, OnLoop, Ended
<1> QED
  BY <1>1, <1>2, <1>3, <1>4, <1>5, <1>6, <1>7 DEF Step

LEMMA SoloKeptByQuiet ==
    ASSUME TypeOK, NEW r \in Run, Solo(r), QuietStep(r)
    PROVE  Solo(r)'
<1> USE DEF TypeOK
<1>a. \A from, to \in Place : Moves(r, from, to) => pc[r] = from /\ pc'[r] = to
  BY MovesFacts
<1>b. UNCHANGED <<files, manifest>>
  BY QuietType DEF workspaceVars
<1>c. ASSUME UNCHANGED snap, pc[r] \notin {"restore", "restore_manifest", "raised"},
             pc'[r] \notin {"apply", "commands"} \cup Repairing,
             \/ /\ pc[r] \in {"idle", "call", "fallback", "reply"} /\ final'[r] = final[r]
                /\ pc'[r] \in {"call", "fallback", "reply", "raised"}
             \/ /\ pc'[r] \in Returned \cup {"raised"}
                /\ \/ pc[r] \in InFlightPlaces /\ final'[r] \notin RolledBack
                   \/ pc[r] \in Returned /\ final'[r] = final[r]
      PROVE  Solo(r)'
  <2>1. ~HasSnapshot(r)' /\ pc'[r] \notin {"apply", "repair_apply", "restore", "restore_manifest"}
    BY <1>c DEF HasSnapshot, Repairing
  <2>2. pc'[r] \in InFlightPlaces \cup {"idle"} => final'[r] = "none"
    BY <1>c DEF InFlightPlaces, Returned, Place, Awaiting, OnLoop, Ended, Solo
  <2>3. \A p \in Path : ManifestMatches(p)' = ManifestMatches(p)
    BY <1>b DEF ManifestMatches
  <2>4. \A p \in Path : LeftByRepair(r, p)' = LeftByRepair(r, p)
    BY <1>b, <1>c DEF LeftByRepair, SnapPaths
  <2>5. final'[r] \notin RolledBack => \A p \in Path : ManifestMatches(p)'
    <3>1. final'[r] \notin RolledBack => final[r] \notin RolledBack
      BY <1>c DEF Solo, RolledBack
    <3> QED
      BY <1>c, <2>3, <3>1 DEF Solo
  <2>6. pc'[r] \in Returned /\ final'[r] = "failed_safely_original_files_restored" =>
            \A p \in Path : ManifestMatches(p)' <=> ~LeftByRepair(r, p)'
    BY <1>c, <2>3, <2>4 DEF Solo, RolledBack, Returned
  <2>7. pc'[r] \in {"idle", "call", "fallback", "reply"} => \A p \in Path : files'[p].by # r
    BY <1>b, <1>c DEF Solo, Returned
  <2> QED
    BY <2>1, <2>2, <2>5, <2>6, <2>7 DEF Solo
<1>1. CASE Start(r)
  BY <1>1, <1>a, <1>c DEF Start, Repairing, InFlightPlaces, Place, Awaiting, OnLoop, Ended
<1>d. ASSUME UNCHANGED <<snap, todo, failed, final>>,
             pc[r] \in {"commands"} \cup Repairing, pc'[r] \in Repairing,
             pc[r] \in {"restore", "restore_manifest"} <=> pc'[r] \in {"restore", "restore_manifest"},
             pc'[r] \notin {"restore", "restore_manifest"}, HasSnapshot(r)
      PROVE  Solo(r)'
  BY <1>b, <1>d DEF Solo, HasSnapshot, ManifestMatches, LeftByRepair, SnapPaths, Repairing,
       InFlightPlaces, Returned, Place, Awaiting, OnLoop
<1>2. CASE ProviderAnswers(r) \/ ProviderFails(r) \/ ValidateRaises(r) \/ StartRepair(r)
  <2>1. UNCHANGED runVars
    BY <1>2 DEF ProviderAnswers, ProviderFails, ValidateRaises, StartRepair
  <2>2. \/ pc'[r] = "raised"
        \/ pc[r] \in {"call", "fallback"} /\ pc'[r] \in {"fallback", "reply"}
        \/ /\ pc[r] \in {"repair_call", "repair_fallback"}
           /\ pc'[r] \in {"repair_fallback", "repair_reply"}
        \/ pc[r] = "commands" /\ ~request[r].dry /\ pc'[r] \in {"repair_call", "repair_reply"}
    BY <1>2, <1>a DEF ProviderAnswers, ProviderFails, ValidateRaises, StartRepair,
         Place, Awaiting, OnLoop, Ended
  <2>3. CASE pc'[r] = "raised"
    BY <2>3 DEF Solo, HasSnapshot, Repairing, InFlightPlaces, Returned
  <2>4. CASE pc[r] \in {"call", "fallback"} /\ pc'[r] \in {"fallback", "reply"}
    BY <2>1, <2>4, <1>c DEF runVars, Repairing
  <2>5. CASE /\ pc'[r] \in {"repair_call", "repair_fallback", "repair_reply"}
             /\ pc[r] \in {"commands", "repair_call", "repair_fallback"} /\ HasSnapshot(r)
    BY <2>1, <2>5, <1>d DEF runVars, Repairing
  <2> QED
    BY <2>2, <2>3, <2>4, <2>5 DEF HasSnapshot, Repairing
<1>3. CASE RejectPatch(r) \/ SkipRepair(r) \/ RepairPasses(r)
  <2>1. /\ pc[r] \in {"reply", "commands", "repair_commands"} /\ pc'[r] = "report"
        /\ UNCHANGED snap
        /\ final'[r] \in {"patch_rejected", "repaired_successfully"} \cup Skipped
    BY <1>3, <1>a DEF RejectPatch, SkipRepair, RepairPasses, Place, OnLoop, Skipped
  <2>2. pc[r] \in InFlightPlaces /\ final'[r] \notin RolledBack
    BY <2>1 DEF InFlightPlaces, Place, OnLoop, Returned, RolledBack, Skipped
  <2> QED
    BY <2>1, <2>2, <1>c DEF Repairing, Returned
<1>4. CASE PreviewPatch(r)
  <2>1. /\ pc[r] = "reply" /\ pc'[r] = "commands" /\ request'[r].dry
        /\ UNCHANGED <<final, snap, failed, todo>>
    BY <1>4, <1>a DEF PreviewPatch, Place, OnLoop
  <2> QED
    BY <2>1, <1>b DEF Solo, HasSnapshot, ManifestMatches, Repairing, InFlightPlaces, Place,
         Awaiting, OnLoop, Returned, RolledBack
<1>5. CASE AcceptPatch(r)
  <2>1. PICK S \in SUBSET Path : AcceptPatch(r)!2!(S)
    BY <1>5 DEF AcceptPatch
  <2>2. pc[r] = "reply" /\ pc'[r] \in {"commands", "apply"}
    BY <2>1, <1>a DEF Place, OnLoop
  <2>3. /\ todo'[r] = S /\ final' = final /\ failed' = failed
        /\ snap'[r].manifest = manifest /\ snap'[r].files = PictureOf(S)
        /\ SnapPaths(r)' = S
    <3>1. snap' = [snap EXCEPT ![r] = [files |-> PictureOf(S), manifest |-> manifest]]
      BY <2>1
    <3>2. SnapPaths(r)' = S
      BY <3>1, SnapshotFacts
    <3>3. todo'[r] = S /\ final' = final /\ failed' = failed
      BY <1>5, <2>1 DEF AcceptPatch
    <3> QED
      BY <3>1, <3>2, <3>3
  <2>4. \A p \in S : snap'[r].files[p] = files[p]
    BY <2>3, PictureFacts
  <2>5. /\ final[r] = "none" /\ \A p \in Path : ManifestMatches(p)
        /\ \A p \in Path : files[p].by # r
    BY <2>2 DEF Solo, InFlightPlaces, Place, OnLoop, Returned, RolledBack
  <2>6. \A p \in Path : ManifestMatches(p)'
    BY <2>5, <1>b DEF ManifestMatches
  <2>7. \A p \in Path :
            /\ snap'[r].manifest.entry[p] # r
            /\ p \in SnapPaths(r)' => snap'[r].manifest.entry[p] = snap'[r].files[p].by
            /\ snap'[r].manifest.entry[p] = files'[p].by
    BY <2>3, <2>4, <2>5, <1>b DEF ManifestMatches
  <2> QED
    BY <2>2, <2>3, <2>5, <2>6, <2>7 DEF Solo, Repairing, Returned
<1>6. CASE AcceptRepair(r)
  <2>1. PICK S \in SUBSET Path : AcceptRepair(r)!1!(S)
    BY <1>6 DEF AcceptRepair
  <2>2. pc[r] = "repair_reply" /\ pc'[r] \in {"repair_commands", "repair_apply"}
    BY <2>1, <1>a DEF Place, OnLoop
  <2>3. UNCHANGED <<final, snap, failed>>
    BY <1>6 DEF AcceptRepair
  <2> QED
    BY <2>2, <2>3, <1>b DEF Solo, HasSnapshot, ManifestMatches, LeftByRepair, SnapPaths, Repairing,
         InFlightPlaces, Place, OnLoop, Returned
<1>7. CASE RejectRepair(r) \/ RepairFails(r)
  <2>1. /\ pc[r] \in {"repair_reply", "repair_commands"} /\ pc'[r] = "restore"
        /\ todo'[r] = SnapPaths(r) /\ UNCHANGED <<final, snap, failed>>
    BY <1>7, <1>a DEF RejectRepair, RepairFails, Place, OnLoop
  <2> QED
    BY <2>1, <1>b DEF Solo, HasSnapshot, ManifestMatches, LeftByRepair, SnapPaths, Repairing,
         InFlightPlaces, Place, OnLoop, Returned
<1>8. CASE AskQA(r) \/ QAAnswers(r) \/ QAFails(r) \/ OverBudget(r)
  <2>1. /\ pc[r] \in {"report", "qa", "finish"} /\ pc'[r] \in {"qa", "finish", "raised"}
        /\ UNCHANGED <<snap, final>>
    BY <1>8, <1>a DEF AskQA, QAAnswers, QAFails, OverBudget, runVars, Place, Awaiting, OnLoop, Ended
  <2> QED
    BY <2>1, <1>c DEF Repairing, InFlightPlaces, Returned
<1> QED
  BY <1>1, <1>2, <1>3, <1>4, <1>5, <1>6, <1>7, <1>8 DEF QuietStep

\* A whole write keeps manifest and files in step.
LEMMA WriteInStep ==
    ASSUME TypeOK, NEW r \in Run, NEW p \in Path, NEW role,
           WriteProjectFile(r, p, WrittenBy(r, role)),
           \A q \in Path : ManifestMatches(q)
    PROVE  \A q \in Path : ManifestMatches(q)'
<1>1. manifest.entry \in [Path -> Run \cup {Earlier, NoRun}]
  BY DEF TypeOK, WorkspaceTypeOK, Manifest
<1>2. manifest'.entry = [manifest.entry EXCEPT ![p] = r]
  BY DEF WriteProjectFile, ManifestEntryBy, TypeOK, WorkspaceTypeOK, Manifest
<1>3. files' = [files EXCEPT ![p] = WrittenBy(r, role)] /\ files \in [Path -> Content]
  BY DEF WriteProjectFile, TypeOK, WorkspaceTypeOK
<1> QED
  BY <1>1, <1>2, <1>3 DEF ManifestMatches, WrittenBy

LEMMA SoloKeptByWriting ==
    ASSUME TypeOK, WriteInvariant, NEW r \in Run, Solo(r), WritingStep(r)
    PROVE  Solo(r)'
<1> USE DEF TypeOK
<1>a. \A from, to \in Place : Moves(r, from, to) => pc[r] = from /\ pc'[r] = to
  BY MovesFacts
<1>1. ASSUME pc'[r] = "raised" PROVE Solo(r)'
  BY <1>1 DEF Solo, HasSnapshot, Repairing, InFlightPlaces, Returned
<1>2. ASSUME NEW here \in {"apply", "repair_apply"}, NEW role, ApplyRaises(r, here, role)
      PROVE  Solo(r)'
  BY <1>1, <1>2, <1>a DEF ApplyRaises, Place, OnLoop, Ended
<1>3. ASSUME NEW here, NEW role, NEW next, ApplyTo(r, here, role, next),
             <<here, role, next>> \in {<<"apply", "patch", "commands">>,
                                       <<"repair_apply", "repair", "repair_commands">>}
      PROVE  Solo(r)'
  <2>1. PICK p \in todo[r] : ApplyTo(r, here, role, next)!(p)
    BY <1>3 DEF ApplyTo
  <2>a. here \in {"apply", "repair_apply"} /\ next \in {"commands", "repair_commands"}
    BY <1>3
  <2>2. pc[r] = here /\ pc'[r] \in {here, next}
    BY <2>1, <2>a, <1>a DEF Place, OnLoop
  <2>3. /\ todo'[r] = todo[r] \ {p}
        /\ UNCHANGED <<request, snap, failed, final>>
    BY <2>1
  <2>4. /\ here = "apply" => todo[r] \subseteq SnapPaths(r)
        /\ final[r] = "none" /\ HasSnapshot(r) /\ p \in Path
    BY <2>2, <2>a DEF Solo, HasSnapshot, Repairing, InFlightPlaces, Place, OnLoop, Returned
  <2>5. \A q \in Path \ {p} : files'[q] = files[q]
    BY <2>1, <2>4 DEF WriteProjectFile, WorkspaceTypeOK
  <2>6. \A q \in Path : ManifestMatches(q)'
    <3>1. \A q \in Path : ManifestMatches(q)
      BY <2>2, <2>4, <2>a DEF Solo, RolledBack
    <3> QED
      BY <2>1, <2>4, <3>1, WriteInStep
  <2>7. p \in SnapPaths(r) \/ files'[p] = WrittenBy(r, "repair")
    <3>1. CASE here = "apply"
      BY <2>4, <3>1
    <3>2. CASE role = "repair"
      BY <2>1, <2>4, <3>2 DEF WriteProjectFile, WorkspaceTypeOK
    <3> QED
      BY <1>3, <3>1, <3>2
  <2>8. SnapPaths(r)' = SnapPaths(r)
    BY <2>3 DEF SnapPaths
  <2>9. \A q \in Path :
            /\ snap'[r].manifest.entry[q] # r
            /\ q \in SnapPaths(r)' => snap'[r].manifest.entry[q] = snap'[r].files[q].by
            /\ q \notin SnapPaths(r)' /\ ~LeftByRepair(r, q)' =>
                   snap'[r].manifest.entry[q] = files'[q].by
    BY <2>3, <2>4, <2>5, <2>7, <2>8 DEF Solo, LeftByRepair
  <2>10. pc'[r] = "apply" => todo'[r] \subseteq SnapPaths(r)'
    BY <1>3, <2>2, <2>3, <2>4, <2>8
  <2> QED
    BY <2>2, <2>3, <2>4, <2>6, <2>9, <2>10, <2>a DEF Solo, Returned
<1>4. CASE ApplyPatch(r) \/ ApplyRepair(r)
  BY <1>2, <1>3, <1>4 DEF ApplyPatch, ApplyRepair
<1>5. CASE RollbackFile(r)
  <2>1. PICK p \in todo[r] : RollbackFile(r)!(p)
    BY <1>5 DEF RollbackFile
  <2>2. /\ pc[r] = "restore" /\ pc'[r] \in {"restore", "restore_manifest"}
        /\ pc'[r] = "restore_manifest" => todo[r] = {p}
    BY <2>1, <1>a DEF Place, OnLoop
  <2>3. /\ todo'[r] = todo[r] \ {p}
        /\ UNCHANGED <<request, snap, final>>
    BY <2>1
  <2>4. todo[r] \subseteq SnapPaths(r) /\ final[r] = "none" /\ HasSnapshot(r) /\ p \in Path
    BY <2>2 DEF Solo, HasSnapshot, Repairing, InFlightPlaces, Place, OnLoop, Returned
  <2>5. PICK c : /\ RestoreFile(p, c)
                 /\ \/ c = snap[r].files[p] /\ failed' = failed
                    \/ failed' = [failed EXCEPT ![r] = @ \cup {p}]
    BY <2>1
  <2>6. /\ files' = [files EXCEPT ![p] = c] /\ files \in [Path -> Content]
        /\ failed'[r] = {} => c = snap[r].files[p] /\ failed[r] = {}
    BY <2>5 DEF RestoreFile, WorkspaceTypeOK
  <2>7. SnapPaths(r)' = SnapPaths(r)
    BY <2>3 DEF SnapPaths
  <2>8. \A q \in Path :
            /\ snap'[r].manifest.entry[q] # r
            /\ q \in SnapPaths(r)' => snap'[r].manifest.entry[q] = snap'[r].files[q].by
            /\ q \notin SnapPaths(r)' /\ ~LeftByRepair(r, q)' =>
                   snap'[r].manifest.entry[q] = files'[q].by
    BY <2>3, <2>4, <2>6, <2>7 DEF Solo, LeftByRepair
  <2>9. failed'[r] = {} => \A q \in SnapPaths(r)' \ todo'[r] : files'[q] = snap'[r].files[q]
    <3> SUFFICES ASSUME failed'[r] = {}, NEW q \in SnapPaths(r) \ (todo[r] \ {p})
                 PROVE  files'[q] = snap[r].files[q]
      BY <2>3, <2>7
    <3>1. q \in Path
      BY DEF SnapPaths
    <3>2. q # p => files[q] = snap[r].files[q]
      BY <2>2, <2>6 DEF Solo
    <3> QED
      BY <2>4, <2>6, <3>1, <3>2
  <2> QED
    BY <2>2, <2>3, <2>4, <2>7, <2>8, <2>9 DEF Solo, Returned
<1>6. CASE RollbackManifest(r)
  <2>1. Moves(r, "restore_manifest", "report")
    BY <1>6 DEF RollbackManifest
  <2>2. pc[r] = "restore_manifest" /\ pc'[r] = "report"
    BY <2>1, <1>a DEF Place, OnLoop
  <2>3. \/ final'[r] = "failed_rollback_error"
        \/ failed[r] = {} /\ manifest' = snap[r].manifest /\ UNCHANGED files
    <3>1. \/ failed' = failed /\ RestoreManifest(snap[r].manifest)
          \/ failed' = [failed EXCEPT ![r] = @ \cup {"manifest.json"}]
      BY <1>6 DEF RollbackManifest
    <3>2. final' = [final EXCEPT ![r] = RollbackResult(failed'[r])]
      BY <1>6 DEF RollbackManifest
    <3>3. CASE failed'[r] # {}
      BY <3>2, <3>3 DEF RollbackResult
    <3>4. CASE failed'[r] = {}
      BY <3>1, <3>4 DEF RestoreManifest
    <3> QED
      BY <3>3, <3>4
  <2>a. final'[r] \in RolledBack /\ UNCHANGED snap
    BY <1>6 DEF RollbackManifest, RollbackResult, RolledBack
  <2>4. ASSUME final'[r] # "failed_rollback_error"
        PROVE  \A p \in Path : ManifestMatches(p)' <=> ~LeftByRepair(r, p)'
    <3>1. failed[r] = {} /\ manifest' = snap[r].manifest /\ UNCHANGED files
      BY <2>3, <2>4
    <3>2. \A p \in SnapPaths(r) : files[p] = snap[r].files[p]
      BY <2>2, <3>1 DEF Solo
    <3>3. HasSnapshot(r)
      BY <2>2 DEF HasSnapshot, Repairing
    <3>4. \A p \in Path : LeftByRepair(r, p)' = LeftByRepair(r, p)
      BY <3>1, <2>a DEF LeftByRepair, SnapPaths
    <3>5. \A p \in Path : files'[p] = files[p] /\ manifest'.entry[p] = snap[r].manifest.entry[p]
      BY <3>1
    <3>6. \A p \in Path : files[p] = WrittenBy(r, "repair") => files[p].by = r
      BY DEF WrittenBy
    <3> QED
      BY <3>2, <3>3, <3>4, <3>5, <3>6 DEF Solo, ManifestMatches, LeftByRepair
  <2> QED
    BY <2>2, <2>a, <2>4 DEF Solo, HasSnapshot, Repairing, InFlightPlaces, Returned
<1>7. CASE Finish(r)
  <2>1. pc[r] = "finish" /\ pc'[r] = "done" /\ UNCHANGED final
    BY <1>7, <1>a DEF Finish, Place, OnLoop, Ended
  <2>a. /\ StateFile \in Path /\ RegisterRun(r) /\ UNCHANGED snap
    BY <1>7, WorkspaceAssumption DEF Finish
  <2>b. /\ manifest.entry \in [Path -> Run \cup {Earlier, NoRun}] /\ files \in [Path -> Content]
        /\ manifest'.entry = [manifest.entry EXCEPT ![StateFile] = r]
        /\ files' = [files EXCEPT ![StateFile] = WrittenBy(r, "state")]
    BY <2>a DEF RegisterRun, ManifestEntryBy, WorkspaceTypeOK, Manifest
  <2>2. ManifestMatches(StateFile)' /\ ~LeftByRepair(r, StateFile)'
    BY <2>a, <2>b DEF ManifestMatches, WrittenBy, LeftByRepair
  <2>3. \A q \in Path \ {StateFile} :
            ManifestMatches(q)' = ManifestMatches(q) /\ LeftByRepair(r, q)' = LeftByRepair(r, q)
    BY <2>a, <2>b DEF ManifestMatches, LeftByRepair, SnapPaths
  <2>4. final'[r] \notin RolledBack => \A p \in Path : ManifestMatches(p)'
    BY <2>1, <2>2, <2>3 DEF Solo
  <2>5. final'[r] = "failed_safely_original_files_restored" =>
            \A p \in Path : ManifestMatches(p)' <=> ~LeftByRepair(r, p)'
    BY <2>1, <2>2, <2>3 DEF Solo, Returned
  <2> QED
    BY <2>1, <2>4, <2>5 DEF Solo, HasSnapshot, Repairing, InFlightPlaces, Returned
<1>8. CASE FinishRaises(r)
  BY <1>8, <1>1, <1>a DEF FinishRaises, Place, OnLoop, Ended
<1> QED
  BY <1>4, <1>5, <1>6, <1>7, <1>8 DEF WritingStep

LEMMA SoloStep ==
    TypeOK /\ WriteInvariant /\ SoloInvariant /\ [Next]_vars => SoloInvariant'
<1> SUFFICES ASSUME TypeOK, WriteInvariant, SoloInvariant, [Next]_vars, NEW r \in Run, Alone(r)'
             PROVE  Solo(r)'
  BY DEF SoloInvariant
<1>1. CASE UNCHANGED vars
  BY <1>1 DEF vars, workspaceVars, runVars, SoloInvariant, Alone, Solo, HasSnapshot, SnapPaths,
         ManifestMatches, LeftByRepair
<1>2. ASSUME NEW t \in Run, Step(t) PROVE Solo(r)'
  <2>1. t = r
    BY <1>2, StepLeavesIdle DEF Alone
  <2>2. Alone(r)
    BY <1>2, <2>1, StepConfined DEF Alone, Untouched
  <2>3. Solo(r)
    BY <2>2 DEF SoloInvariant
  <2> QED
    BY <1>2, <2>1, <2>3, SoloKeptByQuiet, SoloKeptByWriting, StepIsQuietOrWriting
<1> QED
  BY <1>1, <1>2 DEF Next, AllEnded

\* A run that is alone on its project leaves the manifest and the files in
\* step, whatever its patch and its repair did; after a rollback the files the
\* repair has left behind, and they only, are out of step.
THEOREM ManifestInStep == Spec => []SoloRunKeepsManifest
<1>1. Init => SoloInvariant
  BY WorkspaceAssumption
     DEF Init, WorkspaceInit, SoloInvariant, Alone, Solo, HasSnapshot, Repairing, ManifestMatches,
         Returned, Absent, Original
<1>2. TypeOK /\ SoloInvariant => SoloRunKeepsManifest
  <2> SUFFICES ASSUME TypeOK, NEW r \in Run, Solo(r), pc[r] \in Returned,
                      final[r] # "failed_rollback_error", NEW p \in Path
               PROVE  ManifestMatches(p) <=> ~(final[r] \in RolledBack /\ LeftByRepair(r, p))
    BY DEF SoloInvariant, Alone, SoloRunKeepsManifest, LeftByRepair
  <2>1. CASE final[r] \in RolledBack
    BY <2>1 DEF Solo, RolledBack
  <2>2. CASE final[r] \notin RolledBack
    BY <2>2 DEF Solo, Returned
  <2> QED
    BY <2>1, <2>2
<1>3. TypeOK /\ WriteInvariant /\ SoloInvariant /\ [Next]_vars => SoloInvariant'
  BY SoloStep
<1> QED
  BY <1>1, <1>2, <1>3, TypeCorrect, PTL DEF Spec
----------------------------------------------------------------------------
(* The coding runs implement PatchTransaction, its fairness aside.         *)

Early == {"call", "fallback", "reply"}
Late == {"apply", "commands"} \cup Repairing

\* How a run's own files differ from what it saw while its outcome is open:
\* the run's content is new to them, apply puts it into the files of the first
\* patch and then into those of the repair, and nowhere else.
Fresh(r) ==
    /\ pc[r] = "idle" => \A p \in OwnFiles(r) : files[p].by # r
    /\ pc[r] # "idle" => \A p \in OwnFiles(r) : seen[r][p] \in Content /\ seen[r][p].by # r
    /\ pc[r] \in {"idle"} \cup Early => patch[r] = {}
    /\ pc[r] \notin {"apply", "repair_apply", "restore", "raised"} => todo[r] = {}
    /\ pc[r] \in {"apply"} \cup Repairing => ~request[r].dry
    /\ pc[r] \in Repairing => SnapPaths(r) # {}
    /\ pc[r] \in {"apply", "commands", "repair_call", "repair_fallback", "repair_reply"} =>
           RepairOnly(r) = {}
    /\ pc[r] \in {"repair_call", "repair_fallback", "repair_reply", "repair_apply"} =>
           entries[r] = SnapPaths(r)
    /\ pc[r] \in Late => \A p \in OwnFiles(r) \ (SnapPaths(r) \cup RepairOnly(r)) :
           files[p] = seen[r][p]
    /\ pc[r] = "apply" => \A p \in (OwnFiles(r) \cap SnapPaths(r)) \ todo[r] : files[p].by = r
    /\ pc[r] \in Late \ {"apply", "restore", "restore_manifest"} =>
           \A p \in OwnFiles(r) \cap SnapPaths(r) : files[p].by = r
    /\ pc[r] = "repair_apply" =>
           /\ todo[r] \subseteq SnapPaths(r) \cup RepairOnly(r)
           /\ \A p \in (OwnFiles(r) \cap RepairOnly(r)) \ todo[r] : files[p].by = r
    /\ pc[r] \in {"repair_commands", "restore", "restore_manifest"} =>
           \A p \in OwnFiles(r) \cap RepairOnly(r) : files[p].by = r

FreshInvariant == \A r \in Run : Fresh(r)

\* Steps that end the patch, in whatever way, have little to keep.
LEMMA FreshKeptByEnding ==
    ASSUME TypeOK, NEW r \in Run, Fresh(r), pc[r] # "idle", pc'[r] \in Returned \cup {"raised"},
           pc'[r] = "raised" \/ todo'[r] = {}, UNCHANGED seen
    PROVE  Fresh(r)'
BY DEF Fresh, Early, Late, Repairing, Returned

\* Steps between the first patch and the outcome that write nothing.
LEMMA FreshKeptBetween ==
    ASSUME TypeOK, NEW r \in Run, Fresh(r),
           UNCHANGED <<files, request, seen, snap, patch, todo, entries>>,
           \/ pc[r] \in Early /\ pc'[r] \in Early
           \/ /\ pc[r] \in {"commands", "repair_call", "repair_fallback"}
              /\ pc'[r] \in {"repair_call", "repair_fallback", "repair_reply"}
              /\ ~request[r].dry /\ SnapPaths(r) # {} /\ entries[r] = SnapPaths(r)
    PROVE  Fresh(r)'
<1>1. SnapPaths(r)' = SnapPaths(r)
  BY DEF SnapPaths
<1>2. RepairOnly(r)' = RepairOnly(r)
  BY <1>1 DEF RepairOnly
<1> QED
  BY <1>1, <1>2 DEF Fresh, Early, Late, Repairing

LEMMA FreshKeptByQuiet ==
    ASSUME TypeOK, NEW r \in Run, PatchBooks(r), ScopeFiles(r), Fresh(r), QuietStep(r)
    PROVE  Fresh(r)'
<1> USE DEF TypeOK
<1>a. \A from, to \in Place : Moves(r, from, to) => pc[r] = from /\ pc'[r] = to
  BY MovesFacts
<1>b. files' = files
  BY QuietType DEF workspaceVars
<1>c. pc[r] = "reply" => \A p \in OwnFiles(r) : files[p] = seen[r][p]
  BY DEF PatchBooks, ScopeFiles, RepairPossible, RolledBack, InFlightPlaces, Place, OnLoop, Returned
<1>1. CASE Start(r)
  <2>1. /\ pc[r] = "idle" /\ pc'[r] \in {"reply", "call", "raised"}
        /\ UNCHANGED <<patch, todo>>
    BY <1>1, <1>a DEF Start, Place, Awaiting, OnLoop, Ended
  <2>2. seen'[r] = PictureOf(ScopeOf[r])
    BY <1>1 DEF Start
  <2>3. \A p \in OwnFiles(r) : seen'[r][p] = files[p] /\ files[p] \in Content
    BY <2>2, PictureFacts, CodingAssumption DEF WorkspaceTypeOK, OwnFiles
  <2> QED
    BY <2>1, <2>3 DEF Fresh, Early, Late, Repairing
<1>2. CASE ProviderAnswers(r) \/ ProviderFails(r) \/ ValidateRaises(r)
  <2>1. UNCHANGED runVars
    BY <1>2 DEF ProviderAnswers, ProviderFails, ValidateRaises
  <2>2. \/ pc[r] # "idle" /\ pc'[r] = "raised"
        \/ pc[r] \in Early /\ pc'[r] \in Early
        \/ pc[r] \in {"repair_call", "repair_fallback"} /\ pc'[r] \in {"repair_fallback", "repair_reply"}
    BY <1>2, <1>a DEF ProviderAnswers, ProviderFails, ValidateRaises, Place, Awaiting, OnLoop, Ended, Early
  <2>3. pc[r] \in {"repair_call", "repair_fallback"} =>
            ~request[r].dry /\ SnapPaths(r) # {} /\ entries[r] = SnapPaths(r)
    BY DEF Fresh, Repairing
  <2> QED
    BY <2>1, <2>2, <2>3, <1>b, FreshKeptByEnding, FreshKeptBetween DEF runVars
<1>3. CASE RejectPatch(r) \/ SkipRepair(r) \/ RepairPasses(r)
  <2>1. /\ pc[r] \in {"reply", "commands", "repair_commands"} /\ pc'[r] = "report"
        /\ UNCHANGED <<seen, todo>>
    BY <1>3, <1>a DEF RejectPatch, SkipRepair, RepairPasses, Place, OnLoop
  <2>2. todo'[r] = {}
    BY <2>1 DEF Fresh
  <2> QED
    BY <2>1, <2>2, FreshKeptByEnding DEF Returned
<1>4. CASE PreviewPatch(r)
  <2>1. /\ pc[r] = "reply" /\ pc'[r] = "commands" /\ request[r].dry
        /\ UNCHANGED <<request, seen, snap, todo, entries>>
    BY <1>4, <1>a DEF PreviewPatch, Place, OnLoop
  <2>2. SnapPaths(r)' = {} /\ RepairOnly(r)' = {}
    BY <2>1 DEF PatchBooks, SnapPaths, RepairOnly
  <2> QED
    BY <2>1, <2>2, <1>b, <1>c DEF Fresh, Repairing, Early, Late
<1>5. CASE AcceptPatch(r)
  <2>1. PICK S \in SUBSET Path : AcceptPatch(r)!2!(S)
    BY <1>5 DEF AcceptPatch
  <2>2. Moves(r, "reply", IF S = {} THEN "commands" ELSE "apply")
    BY <2>1
  <2>3. pc[r] = "reply" /\ pc'[r] = (IF S = {} THEN "commands" ELSE "apply")
    BY <2>2, <1>a DEF Place, OnLoop
  <2>4. SnapPaths(r)' = S
    <3>1. snap' = [snap EXCEPT ![r] = [files |-> PictureOf(S), manifest |-> manifest]]
      BY <2>1
    <3> QED
      BY <3>1, SnapshotFacts
  <2>5. todo'[r] = S /\ patch'[r] = S /\ ~request[r].dry /\ UNCHANGED <<request, seen>>
    BY <1>5, <2>1 DEF AcceptPatch
  <2>6. RepairOnly(r)' = {}
    BY <2>4, <2>5 DEF RepairOnly
  <2> QED
    BY <2>3, <2>4, <2>5, <2>6, <1>b, <1>c DEF Fresh, Repairing, Early, Late
<1>6. CASE StartRepair(r)
  <2>1. /\ pc[r] = "commands" /\ pc'[r] \in {"repair_call", "repair_reply"}
        /\ ~request[r].dry /\ entries[r] # {} /\ UNCHANGED runVars
    BY <1>6, <1>a DEF StartRepair, Place, Awaiting, OnLoop
  <2>2. entries[r] = SnapPaths(r)
    BY <2>1 DEF PatchBooks
  <2> QED
    BY <2>1, <2>2, <1>b, FreshKeptBetween DEF runVars
<1>7. CASE AcceptRepair(r)
  <2>1. PICK S \in SUBSET Path : AcceptRepair(r)!1!(S)
    BY <1>7 DEF AcceptRepair
  <2>2. Moves(r, "repair_reply", IF S = {} THEN "repair_commands" ELSE "repair_apply")
    BY <2>1
  <2>3. pc[r] = "repair_reply" /\ pc'[r] = (IF S = {} THEN "repair_commands" ELSE "repair_apply")
    BY <2>2, <1>a DEF Place, OnLoop
  <2>4. /\ todo'[r] = S /\ patch'[r] = S /\ UNCHANGED <<request, seen, snap>>
        /\ S # {} => entries'[r] = entries[r]
    BY <1>7, <2>1 DEF AcceptRepair
  <2>5. /\ ~request[r].dry /\ SnapPaths(r) # {} /\ RepairOnly(r) = {} /\ entries[r] = SnapPaths(r)
        /\ \A p \in OwnFiles(r) \ SnapPaths(r) : files[p] = seen[r][p]
        /\ \A p \in OwnFiles(r) \cap SnapPaths(r) : files[p].by = r
    BY <2>3 DEF Fresh, Repairing, Late
  <2>6. SnapPaths(r)' = SnapPaths(r)
    BY <2>4 DEF SnapPaths
  <2>7. RepairOnly(r)' = S \ SnapPaths(r)
    BY <2>4, <2>5, <2>6 DEF RepairOnly
  <2>8. CASE S = {}
    BY <2>3, <2>4, <2>5, <2>6, <2>7, <2>8, <1>b DEF Fresh, Repairing, Early, Late
  <2>9. CASE S # {}
    BY <2>3, <2>4, <2>5, <2>6, <2>7, <2>9, <1>b DEF Fresh, Repairing, Early, Late
  <2> QED
    BY <2>8, <2>9
<1>8. CASE RejectRepair(r) \/ RepairFails(r)
  <2>1. /\ pc[r] \in {"repair_reply", "repair_commands"} /\ pc'[r] = "restore"
        /\ UNCHANGED <<request, seen, snap, patch>>
    BY <1>8, <1>a DEF RejectRepair, RepairFails, Place, OnLoop
  <2>2. SnapPaths(r)' = SnapPaths(r)
    BY <2>1 DEF SnapPaths
  <2>3. RepairOnly(r)' = RepairOnly(r)
    BY <2>1, <2>2 DEF RepairOnly
  <2> QED
    BY <2>1, <2>2, <2>3, <1>b DEF Fresh, Repairing, Early, Late
<1>9. CASE AskQA(r) \/ QAAnswers(r) \/ QAFails(r) \/ OverBudget(r)
  <2>1. /\ pc[r] \in {"report", "qa", "finish"} /\ pc'[r] \in {"qa", "finish", "raised"}
        /\ UNCHANGED <<seen, todo>>
    BY <1>9, <1>a DEF AskQA, QAAnswers, QAFails, OverBudget, runVars, Place, Awaiting, OnLoop, Ended
  <2>2. todo'[r] = {}
    BY <2>1 DEF Fresh
  <2> QED
    BY <2>1, <2>2, FreshKeptByEnding DEF Returned
<1> QED
  BY <1>1, <1>2, <1>3, <1>4, <1>5, <1>6, <1>7, <1>8, <1>9 DEF QuietStep

LEMMA FreshKeptByWriting ==
    ASSUME TypeOK, NEW r \in Run, PatchBooks(r), TodoWithin(r), Fresh(r), WritingStep(r)
    PROVE  Fresh(r)'
<1> USE DEF TypeOK
<1>a. \A from, to \in Place : Moves(r, from, to) => pc[r] = from /\ pc'[r] = to
  BY MovesFacts
<1>1. ASSUME NEW here, NEW role, NEW next, ApplyTo(r, here, role, next),
             <<here, next>> \in {<<"apply", "commands">>, <<"repair_apply", "repair_commands">>}
      PROVE  Fresh(r)'
  <2>1. PICK p \in todo[r] : ApplyTo(r, here, role, next)!(p)
    BY <1>1 DEF ApplyTo
  <2>2. Moves(r, here, IF todo[r] = {p} THEN next ELSE here)
    BY <2>1
  <2>3. here \in {"apply", "repair_apply"} /\ next \in {"commands", "repair_commands"}
    BY <1>1
  <2>4. pc[r] = here /\ pc'[r] = (IF todo[r] = {p} THEN next ELSE here)
    BY <2>2, <2>3, <1>a DEF Place, OnLoop
  <2>5. /\ todo'[r] = todo[r] \ {p} /\ UNCHANGED <<request, seen, snap, patch>>
        /\ todo[r] # {p} => entries' = entries
    BY <2>1
  <2>6. p \in Path /\ files'[p].by = r /\ \A q \in Path \ {p} : files'[q] = files[q]
    BY <2>1 DEF WriteProjectFile, WrittenBy, WorkspaceTypeOK
  <2>7. SnapPaths(r)' = SnapPaths(r) /\ SnapPaths(r) \subseteq Path /\ OwnFiles(r) \subseteq Path
    BY <2>5, CodingAssumption DEF SnapPaths, OwnFiles
  <2>8. RepairOnly(r)' = RepairOnly(r)
    BY <2>5, <2>7 DEF RepairOnly
  <2>9. p \in SnapPaths(r) \cup RepairOnly(r)
    BY <2>3, <2>4 DEF Fresh, PatchBooks
  <2>10. \A q \in OwnFiles(r) \ (SnapPaths(r) \cup RepairOnly(r)) : files'[q] = seen[r][q]
    BY <2>3, <2>4, <2>6, <2>7, <2>9 DEF Fresh, Late, Repairing
  <2>11. CASE here = "apply"
    <3>1. \A q \in (OwnFiles(r) \cap SnapPaths(r)) \ todo'[r] : files'[q].by = r
      BY <2>4, <2>5, <2>6, <2>7, <2>11 DEF Fresh
    <3>2. next = "commands"
      BY <1>1, <2>11
    <3>3. pc'[r] = "commands" => todo'[r] = {}
      BY <2>4, <2>5, <2>11
    <3>4. ~request[r].dry /\ RepairOnly(r) = {}
      BY <2>4, <2>11 DEF Fresh
    <3> QED
      BY <2>4, <2>5, <2>7, <2>8, <2>10, <2>11, <3>1, <3>2, <3>3, <3>4 DEF Fresh, Early, Late, Repairing
  <2>12. CASE here = "repair_apply"
    <3>1. \A q \in OwnFiles(r) \cap SnapPaths(r) : files'[q].by = r
      BY <2>4, <2>6, <2>7, <2>12 DEF Fresh, Late, Repairing
    <3>2. next = "repair_commands"
      BY <1>1, <2>12
    <3>3. \A q \in (OwnFiles(r) \cap RepairOnly(r)) \ todo'[r] : files'[q].by = r
      BY <2>4, <2>5, <2>6, <2>7, <2>12 DEF Fresh
    <3>4. pc'[r] = "repair_commands" => todo'[r] = {}
      BY <2>4, <2>5, <2>12
    <3>5. /\ ~request[r].dry /\ SnapPaths(r) # {} /\ entries[r] = SnapPaths(r)
          /\ todo'[r] \subseteq SnapPaths(r) \cup RepairOnly(r)
      BY <2>4, <2>5, <2>12 DEF Fresh, Repairing
    <3>6. pc'[r] = "repair_apply" => entries'[r] = SnapPaths(r)
      BY <2>4, <2>5, <2>12, <3>2, <3>5
    <3> QED
      BY <2>4, <2>5, <2>7, <2>8, <2>10, <2>12, <3>1, <3>2, <3>3, <3>4, <3>5, <3>6
         DEF Fresh, Early, Late, Repairing
  <2> QED
    BY <2>3, <2>11, <2>12
<1>2. CASE ApplyPatch(r) \/ ApplyRepair(r)
  <2>1. ASSUME NEW here \in {"apply", "repair_apply"}, NEW role, ApplyRaises(r, here, role)
        PROVE  Fresh(r)'
    <3>1. pc[r] = here /\ pc'[r] = "raised" /\ UNCHANGED seen
      BY <2>1, <1>a DEF ApplyRaises, runVars, Place, OnLoop, Ended
    <3> QED
      BY <3>1, FreshKeptByEnding
  <2> QED
    BY <1>1, <1>2, <2>1 DEF ApplyPatch, ApplyRepair
<1>3. CASE RollbackFile(r)
  <2>1. PICK p \in todo[r] : RollbackFile(r)!(p)
    BY <1>3 DEF RollbackFile
  <2>2. Moves(r, "restore", IF todo[r] = {p} THEN "restore_manifest" ELSE "restore")
    BY <2>1
  <2>3. pc[r] = "restore" /\ pc'[r] = (IF todo[r] = {p} THEN "restore_manifest" ELSE "restore")
    BY <2>2, <1>a DEF Place, OnLoop
  <2>4. todo'[r] = todo[r] \ {p} /\ UNCHANGED <<request, seen, snap, patch>>
    BY <2>1
  <2>5. \A q \in Path \ {p} : files'[q] = files[q]
    BY <2>1 DEF RestoreFile, WorkspaceTypeOK
  <2>6. p \in SnapPaths(r) /\ SnapPaths(r)' = SnapPaths(r) /\ OwnFiles(r) \subseteq Path
    BY <2>3, <2>4, CodingAssumption DEF TodoWithin, SnapPaths, OwnFiles
  <2>7. RepairOnly(r)' = RepairOnly(r) /\ p \notin RepairOnly(r)
    BY <2>4, <2>6 DEF RepairOnly
  <2>8. pc'[r] = "restore_manifest" => todo'[r] = {}
    BY <2>3, <2>4
  <2>9. /\ ~request[r].dry /\ SnapPaths(r) # {}
        /\ \A q \in OwnFiles(r) \ (SnapPaths(r) \cup RepairOnly(r)) : files'[q] = seen[r][q]
        /\ \A q \in OwnFiles(r) \cap RepairOnly(r) : files'[q].by = r
    BY <2>3, <2>5, <2>6, <2>7 DEF Fresh, Late, Repairing
  <2> QED
    BY <2>3, <2>4, <2>6, <2>7, <2>8, <2>9 DEF Fresh, Early, Late, Repairing
<1>4. CASE RollbackManifest(r)
  <2>1. Moves(r, "restore_manifest", "report") /\ UNCHANGED <<seen, todo>>
    BY <1>4 DEF RollbackManifest
  <2>2. pc[r] = "restore_manifest" /\ pc'[r] = "report"
    BY <2>1, <1>a DEF Place, OnLoop
  <2>3. todo'[r] = {}
    BY <2>1, <2>2 DEF Fresh
  <2> QED
    BY <2>1, <2>2, <2>3, FreshKeptByEnding DEF Returned
<1>5. CASE Finish(r) \/ FinishRaises(r)
  <2>1. pc[r] = "finish" /\ pc'[r] \in {"done", "raised"} /\ UNCHANGED <<seen, todo>>
    BY <1>5, <1>a DEF Finish, FinishRaises, runVars, Place, OnLoop, Ended
  <2>2. todo'[r] = {}
    BY <2>1 DEF Fresh
  <2> QED
    BY <2>1, <2>2, FreshKeptByEnding DEF Returned
<1> QED
  BY <1>2, <1>3, <1>4, <1>5 DEF WritingStep

LEMMA FreshStep ==
    TypeOK /\ WriteInvariant /\ PatchInvariant /\ FreshInvariant /\ [Next]_vars => FreshInvariant'
<1> SUFFICES ASSUME TypeOK, WriteInvariant, PatchInvariant, FreshInvariant, [Next]_vars
             PROVE  FreshInvariant'
  OBVIOUS
<1>1. CASE UNCHANGED vars
  BY <1>1 DEF vars, workspaceVars, runVars, FreshInvariant, Fresh, SnapPaths, RepairOnly
<1>2. ASSUME NEW r \in Run, Step(r) PROVE FreshInvariant'
  <2>1. Fresh(r)'
    BY <1>2, FreshKeptByQuiet, FreshKeptByWriting, StepIsQuietOrWriting
       DEF FreshInvariant, PatchInvariant
  <2>2. ASSUME NEW s \in Run \ {r} PROVE Fresh(s)'
    <3>1. Untouched(s) /\ \A p \in OwnFiles(s) : files'[p] = files[p]
      BY <1>2, StepConfined, CodingAssumption DEF OwnFiles
    <3>2. SnapPaths(s)' = SnapPaths(s) /\ RepairOnly(s)' = RepairOnly(s)
      BY <3>1 DEF SnapPaths, RepairOnly, Untouched
    <3> QED
      BY <3>1, <3>2 DEF FreshInvariant, Fresh, Untouched
  <2> QED
    BY <2>1, <2>2 DEF FreshInvariant
<1> QED
  BY <1>1, <1>2 DEF Next, AllEnded

----------------------------------------------------------------------------
(* The steps of a transaction.                                             *)

\* What the transaction's store shows of a path.
LEMMA CommittedIs ==
    ASSUME NEW r \in Run, NEW p \in OwnFiles(r)
    PROVE  /\ CommittedFiles[p] = IF InFlight(r) THEN seen[r][p] ELSE files[p]
           /\ CommittedFiles'[p] = IF InFlight(r)' THEN seen'[r][p] ELSE files'[p]
<1>1. p \in OwnedFiles
  BY DEF OwnedFiles
<1>2. \A s \in Run : p \in OwnFiles(s) => s = r
  BY DEF OwnFiles
<1>3. ASSUME InFlight(r) PROVE CommittedFiles[p] = seen[r][p]
  <2>1. (CHOOSE s \in Run : InFlight(s) /\ p \in OwnFiles(s)) = r
    BY <1>2, <1>3 DEF InFlight
  <2> QED
    BY <1>1, <1>3, <2>1 DEF CommittedFiles, InFlight
<1>4. ASSUME ~InFlight(r) PROVE CommittedFiles[p] = files[p]
  BY <1>1, <1>2, <1>4 DEF CommittedFiles
<1>5. ASSUME InFlight(r)' PROVE CommittedFiles'[p] = seen'[r][p]
  <2>1. (CHOOSE s \in Run : InFlight(s)' /\ p \in OwnFiles(s)) = r
    BY <1>2, <1>5 DEF InFlight
  <2> QED
    BY <1>1, <1>5, <2>1 DEF CommittedFiles, InFlight
<1>6. ASSUME ~InFlight(r)' PROVE CommittedFiles'[p] = files'[p]
  BY <1>1, <1>2, <1>6 DEF CommittedFiles
<1> QED
  BY <1>3, <1>4, <1>5, <1>6

LEMMA CommittedType ==
    ASSUME TypeOK', FreshInvariant'
    PROVE  CommittedFiles' \in [OwnedFiles -> Content]
<1>1. ASSUME NEW p \in OwnedFiles PROVE CommittedFiles'[p] \in Content
  <2>1. PICK r \in Run : p \in OwnFiles(r)
    BY DEF OwnedFiles
  <2>2. files'[p] \in Content
    BY <2>1, CodingAssumption DEF TypeOK, WorkspaceTypeOK, OwnFiles
  <2>3. InFlight(r)' => seen'[r][p] \in Content
    BY <2>1 DEF FreshInvariant, Fresh, InFlight, InFlightPlaces
  <2> QED
    BY <2>1, <2>2, <2>3, CommittedIs
<1>2. CommittedFiles' = [p \in OwnedFiles |-> CommittedFiles'[p]]
  BY DEF CommittedFiles
<1> HIDE DEF CommittedFiles
<1> QED
  BY <1>1, <1>2

\* The kinds of step a run takes, as the transaction sees them.

\* The run goes on with its patch.
Within(r) ==
    /\ InFlight(r) /\ InFlight(r)' /\ Planned(r)' = Planned(r)
    /\ RepairOnly(r)' = RepairOnly(r)
    /\ UNCHANGED <<seen, snap>>

\* The outcome of the patch is known.
Leaves(r) ==
    /\ InFlight(r) /\ ~InFlight(r)' /\ pc'[r] # "idle"
    /\ UNCHANGED <<seen, snap, request, patch>>

\* No patch, or the files as they are when it ends: applied, or never touched.
LeavesAsItStands(r) ==
    /\ Leaves(r) /\ UNCHANGED files
    /\ pc[r] \in {"call", "fallback", "reply", "commands", "repair_fallback", "repair_reply",
                  "repair_commands"}
    /\ todo'[r] = {} /\ final'[r] \notin RolledBack

LeavesRolledBack(r) ==
    /\ Leaves(r) /\ UNCHANGED files
    /\ pc[r] = "restore_manifest" /\ pc'[r] = "report" /\ final'[r] \in RolledBack

\* A write of apply raised: the first patch's, or the repair's.
LeavesByWrite(r) ==
    /\ Leaves(r) /\ pc'[r] = "raised"
    /\ UNCHANGED <<todo, entries, final>>
    /\ \E p \in todo[r] :
           /\ files'[p] = files[p] \/ files'[p].by = r
           /\ \A q \in Path \ {p} : files'[q] = files[q]

\* The run has its outcome already.
After(r) ==
    /\ ~InFlight(r) /\ ~InFlight(r)' /\ pc[r] # "idle" /\ pc'[r] # "idle"
    /\ todo[r] = {} /\ todo'[r] = {}
    /\ UNCHANGED <<seen, snap, final, request, patch>>
    /\ \A p \in ScopeOf[r] : files'[p] = files[p]

LEMMA TransactionKinds ==
    ASSUME TypeOK, NEW r \in Run, PatchBooks(r), Fresh(r), Step(r)
    PROVE  \/ Start(r) \/ AcceptPatch(r) \/ AcceptRepair(r)
           \/ Within(r) \/ After(r)
           \/ LeavesAsItStands(r) \/ LeavesRolledBack(r)
           \/ pc[r] \in {"apply", "repair_apply"} /\ LeavesByWrite(r)
<1> USE DEF TypeOK
<1>a. \A from, to \in Place : Moves(r, from, to) => pc[r] = from /\ pc'[r] = to
  BY MovesFacts
<1>b. \A x \in Early \cup Late : x \in InFlightPlaces
  BY DEF Early, Late, InFlightPlaces, Place, Awaiting, OnLoop, Returned, Repairing
<1>c. \A x \in Returned \cup {"raised"} : x \notin InFlightPlaces /\ x # "idle"
  BY DEF InFlightPlaces, Returned
<1>d. Early \cap Late = {}
  BY DEF Early, Late, Repairing
<1>e. ASSUME UNCHANGED <<request, seen, snap, patch>>,
             \/ pc[r] \in Early /\ pc'[r] \in Early
             \/ pc[r] \in Late /\ pc'[r] \in Late
      PROVE  Within(r)
  <2>1. InFlight(r) /\ InFlight(r)'
    BY <1>b, <1>e DEF InFlight
  <2>2. Planned(r)' = Planned(r)
    BY <1>d, <1>e DEF Planned, Early
  <2>3. RepairOnly(r)' = RepairOnly(r)
    BY <1>e DEF RepairOnly, SnapPaths
  <2> QED
    BY <1>e, <2>1, <2>2, <2>3 DEF Within
<1>f. ASSUME pc[r] \in Early \cup Late, pc'[r] \in Returned \cup {"raised"},
             UNCHANGED <<request, seen, snap, patch>>
      PROVE  Leaves(r)
  BY <1>b, <1>c, <1>f DEF Leaves, InFlight
<1>g. pc[r] \in Early \cup Late => final[r] = "none"
  BY <1>b DEF PatchBooks
<1>1. CASE ProviderAnswers(r) \/ ProviderFails(r) \/ ValidateRaises(r) \/ StartRepair(r)
  <2>1. UNCHANGED runVars /\ UNCHANGED files
    BY <1>1 DEF ProviderAnswers, ProviderFails, ValidateRaises, StartRepair, workspaceVars
  <2>2. \/ pc[r] \in Early /\ pc'[r] \in Early
        \/ pc[r] \in Late /\ pc'[r] \in Late
        \/ pc[r] \in {"fallback", "reply", "repair_fallback", "repair_reply"} /\ pc'[r] = "raised"
    BY <1>1, <1>a DEF ProviderAnswers, ProviderFails, ValidateRaises, StartRepair, Repairing,
         Early, Late, Place, Awaiting, OnLoop, Ended
  <2>3. CASE pc[r] \in {"fallback", "reply", "repair_fallback", "repair_reply"} /\ pc'[r] = "raised"
    <3>1. pc[r] \in Early \cup Late
      BY <2>3 DEF Early, Late, Repairing
    <3>2. Leaves(r)
      BY <1>f, <2>1, <2>3, <3>1 DEF runVars
    <3>3. todo'[r] = {} /\ final'[r] = "none"
      BY <1>g, <2>1, <2>3, <3>1 DEF runVars, Fresh
    <3>4. LeavesAsItStands(r)
      BY <2>1, <2>3, <3>2, <3>3 DEF LeavesAsItStands, RolledBack
    <3> QED
      BY <3>4
  <2> QED
    BY <2>1, <2>2, <2>3, <1>e DEF runVars
<1>2. CASE RejectPatch(r) \/ SkipRepair(r) \/ RepairPasses(r)
  <2>1. /\ UNCHANGED <<files, request, seen, snap, patch, todo>>
        /\ pc[r] \in {"reply", "commands", "repair_commands"} /\ pc'[r] = "report"
        /\ final'[r] \in {"patch_rejected", "repaired_successfully"} \cup Skipped
    BY <1>2, <1>a DEF RejectPatch, SkipRepair, RepairPasses, workspaceVars, Place, OnLoop, Skipped
  <2>2. Leaves(r)
    BY <1>f, <2>1 DEF Early, Late, Repairing, Returned
  <2>3. todo'[r] = {} /\ final'[r] \notin RolledBack
    BY <2>1 DEF Fresh, RolledBack, Skipped
  <2> QED
    BY <2>1, <2>2, <2>3 DEF LeavesAsItStands
<1>3. CASE PreviewPatch(r)
  <2>1. /\ pc[r] = "reply" /\ pc'[r] = "commands" /\ request[r].dry
        /\ UNCHANGED <<request, seen, snap>>
    BY <1>3, <1>a DEF PreviewPatch, Place, OnLoop
  <2>2. RepairOnly(r) = {} /\ RepairOnly(r)' = {}
    BY <2>1 DEF RepairOnly
  <2>3. InFlight(r) /\ InFlight(r)' /\ Planned(r)' = Planned(r)
    BY <1>b, <2>1 DEF InFlight, Planned, Early, Late
  <2> QED
    BY <2>1, <2>2, <2>3 DEF Within
<1>4. CASE RejectRepair(r) \/ RepairFails(r)
  <2>1. /\ pc[r] \in {"repair_reply", "repair_commands"} /\ pc'[r] = "restore"
        /\ UNCHANGED <<request, seen, snap, patch>>
    BY <1>4, <1>a DEF RejectRepair, RepairFails, Place, OnLoop
  <2>2. Within(r)
    BY <2>1, <1>e DEF Late, Repairing
  <2> QED
    BY <2>2
<1>5. ASSUME NEW here, NEW role, NEW next, ApplyTo(r, here, role, next),
             <<here, next>> \in {<<"apply", "commands">>, <<"repair_apply", "repair_commands">>}
      PROVE  Within(r)
  <2>1. /\ here \in {"apply", "repair_apply"} /\ next \in {"commands", "repair_commands"}
        /\ UNCHANGED <<request, seen, snap, patch>>
    BY <1>5 DEF ApplyTo
  <2>2. pc[r] = here /\ pc'[r] \in {here, next}
    BY <1>5, <2>1, <1>a DEF ApplyTo, Place, OnLoop
  <2> QED
    BY <2>1, <2>2, <1>e DEF Late, Repairing
<1>6. ASSUME NEW here \in {"apply", "repair_apply"}, NEW role, ApplyRaises(r, here, role)
      PROVE  pc[r] \in {"apply", "repair_apply"} /\ LeavesByWrite(r)
  <2>1. PICK p \in todo[r] :
            Moves(r, here, "raised") /\ WriteProjectFileRaises(r, p, WrittenBy(r, role))
    BY <1>6 DEF ApplyRaises
  <2>2. UNCHANGED runVars /\ pc[r] = here /\ pc'[r] = "raised"
    BY <1>6, <2>1, <1>a DEF ApplyRaises, Place, OnLoop, Ended
  <2>3. Leaves(r)
    BY <1>f, <2>2 DEF runVars, Late, Repairing
  <2>4. /\ files'[p] = files[p] \/ files'[p].by = r
        /\ \A q \in Path \ {p} : files'[q] = files[q]
    BY <2>1 DEF WriteProjectFileRaises, WrittenBy, WorkspaceTypeOK
  <2> QED
    BY <2>2, <2>3, <2>4 DEF LeavesByWrite, runVars
<1>7. CASE RollbackFile(r)
  <2>1. /\ pc[r] = "restore" /\ pc'[r] \in {"restore", "restore_manifest"}
        /\ UNCHANGED <<request, seen, snap, patch>>
    BY <1>7, <1>a DEF RollbackFile, Place, OnLoop
  <2>2. Within(r)
    BY <2>1, <1>e DEF Late, Repairing
  <2> QED
    BY <2>2
<1>8. CASE RollbackManifest(r)
  <2>1. /\ Moves(r, "restore_manifest", "report")
        /\ UNCHANGED <<files, request, seen, snap, patch>>
        /\ final' = [final EXCEPT ![r] = RollbackResult(failed'[r])]
    BY <1>8 DEF RollbackManifest, RestoreManifest, workspaceVars
  <2>2. pc[r] = "restore_manifest" /\ pc'[r] = "report"
    BY <2>1, <1>a DEF Place, OnLoop
  <2>3. final'[r] \in RolledBack
    BY <2>1 DEF RollbackResult, RolledBack
  <2>4. Leaves(r)
    BY <1>f, <2>1, <2>2 DEF Late, Repairing, Returned
  <2> QED
    BY <2>1, <2>2, <2>3, <2>4 DEF LeavesRolledBack
<1>9. CASE AskQA(r) \/ QAAnswers(r) \/ QAFails(r) \/ OverBudget(r) \/ Finish(r) \/ FinishRaises(r)
  <2>1. /\ pc[r] \in Returned /\ pc'[r] \in Returned \cup {"raised"}
        /\ pc[r] \in {"report", "qa", "finish"}
        /\ UNCHANGED <<request, seen, snap, patch, todo, final>>
    BY <1>9, <1>a DEF AskQA, QAAnswers, QAFails, OverBudget, Finish, FinishRaises, runVars,
         Place, Awaiting, OnLoop, Ended, Returned
  <2>2. \A p \in ScopeOf[r] : files'[p] = files[p]
    <3>1. CASE UNCHANGED workspaceVars
      BY <3>1 DEF workspaceVars
    <3>2. CASE RegisterRun(r) \/ RegisterRunRaises(r)
      BY <3>2, CodingAssumption DEF RegisterRun, RegisterRunRaises, WriteProjectFile,
         WriteProjectFileRaises, WorkspaceTypeOK
    <3> QED
      BY <1>9, <3>1, <3>2 DEF AskQA, QAAnswers, QAFails, OverBudget, Finish, FinishRaises
  <2>3. todo[r] = {}
    BY <2>1 DEF Fresh
  <2> QED
    BY <2>1, <2>2, <2>3, <1>c DEF After, InFlight
<1> QED
  BY <1>1, <1>2, <1>3, <1>4, <1>5, <1>6, <1>7, <1>8, <1>9 DEF Step, ApplyPatch, ApplyRepair

\* What changes in the transaction's store when the outcome is known.
ChangedBy(r) == {p \in OwnFiles(r) : CommittedFiles'[p] # CommittedFiles[p]}

\* While the outcome is open, a run's own files outside its patches are as it
\* saw them.
LEMMA OutsideUntouched ==
    ASSUME TypeOK, NEW r \in Run, PatchBooks(r), ScopeFiles(r), Fresh(r),
           pc[r] \in Early \cup Late,
           NEW p \in OwnFiles(r) \ (SnapPaths(r) \cup RepairOnly(r))
    PROVE  files[p] = seen[r][p]
<1>1. CASE pc[r] \in Late
  BY <1>1 DEF Fresh
<1>2. CASE pc[r] \in Early
  <2>1. final[r] = "none"
    BY <1>2 DEF PatchBooks, Early, InFlightPlaces, Place, Awaiting, OnLoop, Returned
  <2> QED
    BY <1>2, <2>1 DEF ScopeFiles, RepairPossible, Early, RolledBack
<1> QED
  BY <1>1, <1>2

LEMMA TransactionStep ==
    ASSUME TypeOK, WriteInvariant, PatchInvariant, FreshInvariant,
           PatchInvariant', FreshInvariant', NEW r \in Run, Step(r)
    PROVE  [Transaction!Next]_(Transaction!vars)
<1> DEFINE stages == [s \in Run |-> StageOf(s)]
           plans == [s \in Run |-> SnapPaths(s) \cap OwnFiles(s)]
           extras == [s \in Run |-> RepairOnly(s) \cap OwnFiles(s)]
           plan == SnapPaths(r) \cap OwnFiles(r)
           extra == RepairOnly(r) \cap OwnFiles(r)
<1>a. TypeOK' /\ \A s \in Run \ {r} : Untouched(s)
  BY StepConfined
<1>b. PatchBooks(r) /\ ScopeFiles(r) /\ TodoWithin(r) /\ Fresh(r)
  BY DEF PatchInvariant, FreshInvariant
<1>c. \A s \in Run \ {r} : /\ StageOf(s)' = StageOf(s) /\ SnapPaths(s)' = SnapPaths(s)
                           /\ RepairOnly(s)' = RepairOnly(s)
  <2> SUFFICES ASSUME NEW s \in Run \ {r}
               PROVE  /\ StageOf(s)' = StageOf(s) /\ SnapPaths(s)' = SnapPaths(s)
                      /\ RepairOnly(s)' = RepairOnly(s)
    OBVIOUS
  <2>1. Untouched(s)
    BY <1>a
  <2>2. SnapPaths(s)' = SnapPaths(s)
    BY <2>1 DEF SnapPaths, Untouched
  <2>3. RepairOnly(s)' = RepairOnly(s)
    BY <2>1, <2>2 DEF RepairOnly, Untouched
  <2>4. StageOf(s)' = StageOf(s)
    BY <2>1, <2>2 DEF StageOf, InFlight, Planned, Broken, Landed, Untouched
  <2> QED
    BY <2>2, <2>3, <2>4
<1>d. ASSUME NEW p \in OwnedFiles, p \notin OwnFiles(r)
      PROVE  CommittedFiles'[p] = CommittedFiles[p]
  <2>1. PICK s \in Run : p \in OwnFiles(s)
    BY DEF OwnedFiles
  <2>2. s # r
    BY <1>d, <2>1
  <2>3. files'[p] = files[p]
    BY <2>1, <2>2, StepConfined, CodingAssumption DEF OwnFiles
  <2>4. InFlight(s)' = InFlight(s) /\ seen'[s] = seen[s]
    BY <1>a, <2>2 DEF Untouched, InFlight
  <2> QED
    BY <2>1, <2>3, <2>4, CommittedIs
<1>e. OwnFiles(r) \subseteq OwnedFiles /\ OwnFiles(r) \subseteq Path
  BY CodingAssumption DEF OwnedFiles, OwnFiles
<1>f. ASSUME ChangedBy(r) = {} PROVE CommittedFiles' = CommittedFiles
  <2>1. \A p \in OwnedFiles : CommittedFiles'[p] = CommittedFiles[p]
    BY <1>d, <1>f DEF ChangedBy
  <2>2. CommittedFiles = [p \in OwnedFiles |-> CommittedFiles[p]]
    BY DEF CommittedFiles
  <2>3. CommittedFiles' = [p \in OwnedFiles |-> CommittedFiles'[p]]
    BY DEF CommittedFiles
  <2> HIDE DEF CommittedFiles
  <2> QED
    BY <2>1, <2>2, <2>3
<1>g. ChangedBy(r) = {p \in OwnedFiles : CommittedFiles'[p] # CommittedFiles[p]}
  BY <1>d, <1>e DEF ChangedBy
<1>h. CommittedFiles' \in [OwnedFiles -> Content]
  BY <1>a, CommittedType
<1>i. ASSUME NEW x, StageOf(r)' = x PROVE stages' = [stages EXCEPT ![r] = x]
  BY <1>c, <1>i
<1>j. SnapPaths(r)' = SnapPaths(r) => plans' = plans
  BY <1>c
<1>k. RepairOnly(r)' = RepairOnly(r) => extras' = extras
  BY <1>c
<1>l. Transaction!vars = <<CommittedFiles, stages, plans, extras>>
  BY DEF Transaction!vars
<1>m. stages[r] = StageOf(r) /\ plans[r] = plan /\ extras[r] = extra
  OBVIOUS
<1>n. ASSUME NEW x, StageOf(r)' = x,
             SnapPaths(r)' = SnapPaths(r), RepairOnly(r)' = RepairOnly(r)
      PROVE  Transaction!Ends(r, x, ChangedBy(r))
  <2>1. stages' = [stages EXCEPT ![r] = x] /\ plans' = plans /\ extras' = extras
    BY <1>i, <1>j, <1>k, <1>n
  <2> HIDE DEF stages, plans, extras
  <2> QED
    BY <1>g, <1>h, <2>1 DEF Transaction!Ends, stages, plans, extras
<1>1. CASE Start(r)
  <2>1. pc[r] = "idle" /\ pc'[r] \in {"reply", "call", "raised"}
    BY <1>1, MovesFacts DEF Start, Place, Awaiting, OnLoop, Ended
  <2>2. /\ UNCHANGED <<files, snap, final, patch, todo>>
        /\ seen'[r] = PictureOf(ScopeOf[r])
    BY <1>1 DEF Start, workspaceVars, TypeOK
  <2>3. SnapPaths(r) = {} /\ patch[r] = {} /\ todo[r] = {} /\ final[r] = "none"
    BY <1>b, <2>1 DEF PatchBooks, Fresh
  <2>4. SnapPaths(r)' = {} /\ RepairOnly(r) = {} /\ RepairOnly(r)' = {}
    BY <2>2, <2>3 DEF SnapPaths, RepairOnly
  <2>5. \A p \in OwnFiles(r) : seen'[r][p] = files[p]
    BY <2>2, PictureFacts, CodingAssumption DEF OwnFiles
  <2>6. ~InFlight(r)
    BY <2>1 DEF InFlight, InFlightPlaces
  <2>7. ChangedBy(r) = {}
    BY <2>2, <2>5, <2>6, CommittedIs DEF ChangedBy
  <2>8. StageOf(r) = "idle"
    BY <2>1 DEF StageOf
  <2>9. CASE pc'[r] = "raised"
    <3>1. StageOf(r)' = "cancelled"
      BY <2>2, <2>3, <2>4, <2>9
         DEF StageOf, InFlight, InFlightPlaces, Broken, Landed
    <3>2. Transaction!Ends(r, "cancelled", extra)
      BY <1>n, <2>3, <2>4, <2>7, <3>1
    <3>3. Transaction!Cancel(r)
      BY <2>8, <3>2 DEF Transaction!Cancel
    <3> QED
      BY <3>3 DEF Transaction!Next
  <2>10. CASE pc'[r] \in {"reply", "call"}
    <3>1. StageOf(r)' = "open"
      BY <2>10 DEF StageOf, InFlight, InFlightPlaces, Planned, Place, Awaiting, OnLoop, Returned
    <3>2. /\ CommittedFiles' = CommittedFiles
          /\ stages' = [stages EXCEPT ![r] = "open"]
          /\ plans' = plans /\ extras' = extras
      BY <1>f, <1>i, <1>j, <1>k, <2>3, <2>4, <2>7, <3>1
    <3>3. Transaction!Begin(r)
      BY <1>m, <2>8, <3>2 DEF Transaction!Begin
    <3> QED
      BY <3>3 DEF Transaction!Next
  <2> QED
    BY <2>1, <2>9, <2>10
<1>2. CASE AcceptPatch(r)
  <2>1. PICK S \in SUBSET Path : AcceptPatch(r)!2!(S)
    BY <1>2 DEF AcceptPatch
  <2>2. pc[r] = "reply" /\ pc'[r] \in {"commands", "apply"}
    BY <2>1, MovesFacts DEF Place, OnLoop
  <2>3. SnapPaths(r)' = S
    <3>1. snap' = [snap EXCEPT ![r] = [files |-> PictureOf(S), manifest |-> manifest]]
      BY <2>1
    <3> QED
      BY <3>1, SnapshotFacts
  <2>4. /\ ~request[r].dry /\ UNCHANGED <<files, seen, request>>
        /\ patch'[r] = S /\ patch[r] = {}
    BY <1>2, <1>b, <2>1, <2>2 DEF AcceptPatch, workspaceVars, TypeOK, Fresh, Early
  <2>5. RepairOnly(r) = {} /\ RepairOnly(r)' = {}
    BY <2>3, <2>4 DEF RepairOnly
  <2>6. InFlight(r) /\ InFlight(r)'
    BY <2>2 DEF InFlight, InFlightPlaces, Place, Awaiting, OnLoop, Returned
  <2>7. ChangedBy(r) = {}
    BY <2>4, <2>6, CommittedIs DEF ChangedBy
  <2>8. StageOf(r) = "open" /\ StageOf(r)' = "planned"
    BY <2>2, <2>4, <2>6 DEF StageOf, Planned
  <2>9. plans' = [plans EXCEPT ![r] = S \cap OwnFiles(r)]
    BY <1>c, <2>3
  <2>10. /\ CommittedFiles' = CommittedFiles
         /\ stages' = [stages EXCEPT ![r] = "planned"] /\ extras' = extras
    BY <1>f, <1>i, <1>k, <2>5, <2>7, <2>8
  <2>11. Transaction!Propose(r, S \cap OwnFiles(r))
    BY <1>m, <2>8, <2>9, <2>10 DEF Transaction!Propose
  <2> QED
    BY <2>11 DEF Transaction!Next
<1>3. CASE AcceptRepair(r)
  <2>1. PICK S \in SUBSET Path : AcceptRepair(r)!1!(S)
    BY <1>3 DEF AcceptRepair
  <2>2. pc[r] = "repair_reply" /\ pc'[r] \in {"repair_commands", "repair_apply"}
    BY <2>1, MovesFacts DEF Place, OnLoop
  <2>3. UNCHANGED <<files, seen, snap, request>>
    BY <1>3 DEF AcceptRepair, workspaceVars
  <2>4. RepairOnly(r) = {} /\ ~request[r].dry
    BY <1>b, <2>2 DEF Fresh, Repairing
  <2>5. SnapPaths(r)' = SnapPaths(r)
    BY <2>3 DEF SnapPaths
  <2>6. InFlight(r) /\ InFlight(r)'
    BY <2>2 DEF InFlight, InFlightPlaces, Place, Awaiting, OnLoop, Returned
  <2>7. ChangedBy(r) = {}
    BY <2>3, <2>6, CommittedIs DEF ChangedBy
  <2>8. StageOf(r) = "planned" /\ StageOf(r)' = "planned"
    BY <2>2, <2>3, <2>4, <2>6 DEF StageOf, Planned
  <2>9. stages' = stages /\ plans' = plans
    BY <1>c, <2>5, <2>8
  <2>10. extras' = [extras EXCEPT ![r] = RepairOnly(r)' \cap OwnFiles(r)]
    BY <1>c
  <2>11. RepairOnly(r)' \cap OwnFiles(r) \subseteq OwnFiles(r) \ plan
    BY <2>5 DEF RepairOnly
  <2>12. CommittedFiles' = CommittedFiles
    BY <1>f, <2>7
  <2>13. Transaction!Adopt(r, RepairOnly(r)' \cap OwnFiles(r))
    BY <1>m, <2>4, <2>8, <2>9, <2>10, <2>11, <2>12 DEF Transaction!Adopt
  <2> QED
    BY <2>13 DEF Transaction!Next
<1>4. CASE Within(r)
  <2>1. ChangedBy(r) = {}
    BY <1>4, CommittedIs DEF ChangedBy, Within
  <2>2. /\ StageOf(r)' = StageOf(r) /\ SnapPaths(r)' = SnapPaths(r)
        /\ RepairOnly(r)' = RepairOnly(r)
    BY <1>4 DEF Within, StageOf, SnapPaths, InFlight, InFlightPlaces
  <2>3. stages' = stages /\ plans' = plans /\ extras' = extras
    BY <1>c, <2>2
  <2> QED
    BY <1>f, <1>l, <2>1, <2>3 DEF Transaction!vars
<1>5. CASE After(r)
  <2>1. ChangedBy(r) = {}
    BY <1>5, CommittedIs DEF ChangedBy, After, OwnFiles
  <2>2. /\ StageOf(r)' = StageOf(r) /\ SnapPaths(r)' = SnapPaths(r)
        /\ RepairOnly(r)' = RepairOnly(r)
    BY <1>5 DEF After, StageOf, Broken, Landed, SnapPaths, RepairOnly
  <2>3. stages' = stages /\ plans' = plans /\ extras' = extras
    BY <1>c, <2>2
  <2> QED
    BY <1>f, <1>l, <2>1, <2>3 DEF Transaction!vars
<1>6. ASSUME Leaves(r)
      PROVE  /\ SnapPaths(r)' = SnapPaths(r) /\ RepairOnly(r)' = RepairOnly(r)
             /\ StageOf(r) = IF Planned(r) THEN "planned" ELSE "open"
             /\ StageOf(r)' = IF Broken(r)' THEN "broken"
                              ELSE IF Landed(r)' THEN "committed" ELSE "cancelled"
             /\ ChangedBy(r) = {p \in OwnFiles(r) : files'[p] # seen[r][p]}
             /\ final[r] = "none"
  <2>1. SnapPaths(r)' = SnapPaths(r) /\ RepairOnly(r)' = RepairOnly(r)
    BY <1>6 DEF Leaves, SnapPaths, RepairOnly
  <2>2. /\ StageOf(r) = IF Planned(r) THEN "planned" ELSE "open"
        /\ StageOf(r)' = IF Broken(r)' THEN "broken"
                         ELSE IF Landed(r)' THEN "committed" ELSE "cancelled"
    BY <1>6 DEF Leaves, StageOf, InFlight, InFlightPlaces
  <2>3. ChangedBy(r) = {p \in OwnFiles(r) : files'[p] # seen[r][p]}
    BY <1>6, CommittedIs DEF Leaves, ChangedBy
  <2>4. final[r] = "none"
    BY <1>b, <1>6 DEF Leaves, InFlight, PatchBooks
  <2> QED
    BY <2>1, <2>2, <2>3, <2>4
<1>7. CASE LeavesAsItStands(r)
  <2>1. Leaves(r) /\ UNCHANGED <<files, seen, snap, request>>
    BY <1>7 DEF LeavesAsItStands, Leaves
  <2>2. ~Broken(r)' /\ (Landed(r)' <=> SnapPaths(r) # {})
    BY <1>6, <1>7, <2>1 DEF LeavesAsItStands, Broken, Landed, RolledBack
  <2>3. pc[r] \in Early \cup Late
    BY <1>7 DEF LeavesAsItStands, Early, Late, Repairing
  <2>4. \A p \in OwnFiles(r) \ (SnapPaths(r) \cup RepairOnly(r)) : files[p] = seen[r][p]
    BY <1>b, <2>3, OutsideUntouched
  <2>5. CASE SnapPaths(r) = {}
    <3>1. pc[r] \in Early \cup {"commands"}
      BY <1>b, <1>7, <2>5 DEF LeavesAsItStands, Fresh, Early, Repairing
    <3>2. RepairOnly(r) = {}
      BY <1>b, <3>1 DEF Fresh, RepairOnly, Early
    <3>3. ChangedBy(r) = {}
      BY <1>6, <2>1, <2>4, <2>5, <3>2
    <3>4. StageOf(r) \in {"open", "planned"} /\ StageOf(r)' = "cancelled"
      BY <1>6, <2>1, <2>2, <2>5
    <3>5. Transaction!Ends(r, "cancelled", extra)
      BY <1>n, <1>6, <2>1, <3>2, <3>3, <3>4
    <3>6. Transaction!Cancel(r)
      BY <3>4, <3>5 DEF Transaction!Cancel
    <3> QED
      BY <3>6 DEF Transaction!Next
  <2>6. CASE SnapPaths(r) # {}
    <3>1. pc[r] \in {"commands", "repair_fallback", "repair_reply", "repair_commands"}
      BY <1>b, <1>7, <2>6 DEF LeavesAsItStands, PatchBooks
    <3>2. \A p \in plan : files[p].by = r /\ seen[r][p].by # r
      BY <1>b, <3>1 DEF Fresh, Late, Repairing
    <3>3. plan \subseteq ChangedBy(r) /\ ChangedBy(r) \subseteq plan \cup extra
      BY <1>6, <2>1, <2>4, <3>2
    <3>4. StageOf(r) = "planned" /\ StageOf(r)' = "committed"
      BY <1>b, <1>6, <2>1, <2>2, <2>6, <3>1 DEF Planned, PatchBooks
    <3>5. PICK T \in SUBSET extra : ChangedBy(r) = plan \cup T
      BY <3>3
    <3>6. Transaction!Ends(r, "committed", plan \cup T)
      BY <1>n, <1>6, <2>1, <3>4, <3>5
    <3>7. Transaction!Commit(r)
      BY <3>4, <3>6 DEF Transaction!Commit
    <3> QED
      BY <3>7 DEF Transaction!Next
  <2> QED
    BY <2>5, <2>6
<1>8. CASE LeavesRolledBack(r)
  <2>1. Leaves(r) /\ UNCHANGED <<files, seen, snap>> /\ pc[r] = "restore_manifest"
    BY <1>8 DEF LeavesRolledBack, Leaves
  <2>2. \A p \in OwnFiles(r) \ (SnapPaths(r) \cup RepairOnly(r)) : files[p] = seen[r][p]
    BY <1>b, <2>1, OutsideUntouched DEF Late, Repairing
  <2>3. StageOf(r) = "planned"
    BY <1>b, <1>6, <2>1 DEF Planned, Fresh, Repairing
  <2>4. ~Landed(r)' /\ (Broken(r)' <=> final'[r] = "failed_rollback_error")
    BY <1>8 DEF LeavesRolledBack, Landed, Broken
  <2>5. CASE final'[r] = "failed_rollback_error"
    <3>1. PICK T \in SUBSET (plan \cup extra) : ChangedBy(r) = T
      BY <1>6, <2>1, <2>2
    <3>2. Transaction!Ends(r, "broken", T)
      BY <1>n, <1>6, <2>1, <2>4, <2>5, <3>1
    <3>3. Transaction!Break(r)
      BY <2>3, <3>2 DEF Transaction!Break
    <3> QED
      BY <3>3 DEF Transaction!Next
  <2>6. CASE final'[r] = "failed_safely_original_files_restored"
    <3>1. PatchBooks(r)' /\ ScopeFiles(r)'
      BY DEF PatchInvariant
    <3>2. \A p \in plan : files[p] = seen[r][p]
      BY <1>6, <2>1, <2>6, <3>1 DEF PatchBooks, ScopeFiles, AsFoundOrLeftByRepair, RolledBack
    <3>3. \A p \in extra : files[p].by = r /\ seen[r][p].by # r
      BY <1>b, <2>1 DEF Fresh
    <3>4. ChangedBy(r) = extra
      BY <1>6, <2>1, <2>2, <3>2, <3>3
    <3>5. Transaction!Ends(r, "cancelled", extra)
      BY <1>n, <1>6, <2>1, <2>4, <2>6, <3>4
    <3>6. Transaction!Cancel(r)
      BY <2>3, <3>5 DEF Transaction!Cancel
    <3> QED
      BY <3>6 DEF Transaction!Next
  <2> QED
    BY <1>8, <2>5, <2>6 DEF LeavesRolledBack, RolledBack
<1>9. CASE pc[r] \in {"apply", "repair_apply"} /\ LeavesByWrite(r)
  <2>1. /\ Leaves(r) /\ pc'[r] = "raised"
        /\ UNCHANGED <<seen, snap, request, todo, entries, final>>
    BY <1>9 DEF LeavesByWrite, Leaves
  <2>2. PICK w \in todo[r] : /\ files'[w] = files[w] \/ files'[w].by = r
                             /\ \A q \in Path \ {w} : files'[q] = files[q]
    BY <1>9 DEF LeavesByWrite
  <2>3. \A p \in OwnFiles(r) \ (SnapPaths(r) \cup RepairOnly(r)) : files[p] = seen[r][p]
    BY <1>b, <1>9, OutsideUntouched DEF Late, Repairing
  <2>4. w \in SnapPaths(r) \cup RepairOnly(r)
    BY <1>b, <1>9 DEF Fresh, PatchBooks
  <2>5. ChangedBy(r) \subseteq plan \cup extra
    BY <1>e, <1>6, <2>1, <2>2, <2>3, <2>4
  <2>6. StageOf(r) = "planned"
    BY <1>b, <1>6, <1>9, <2>1 DEF Planned, Fresh, Repairing
  <2>7. CASE pc[r] = "apply"
    <3>1. Broken(r)'
      BY <1>b, <2>1, <2>7 DEF Broken, PatchBooks
    <3>2. PICK T \in SUBSET (plan \cup extra) : ChangedBy(r) = T
      BY <2>5
    <3>3. Transaction!Ends(r, "broken", T)
      BY <1>n, <1>6, <2>1, <3>1, <3>2
    <3>4. Transaction!Break(r)
      BY <2>6, <3>3 DEF Transaction!Break
    <3> QED
      BY <3>4 DEF Transaction!Next
  <2>8. CASE pc[r] = "repair_apply"
    <3>1. entries[r] = SnapPaths(r) /\ SnapPaths(r) # {}
      BY <1>b, <2>8 DEF Fresh, Repairing
    <3>2. ~Broken(r)' /\ Landed(r)'
      BY <1>6, <2>1, <3>1 DEF Broken, Landed, RolledBack
    <3>3. \A p \in plan : files[p].by = r /\ seen[r][p].by # r
      BY <1>b, <2>8 DEF Fresh, Late, Repairing
    <3>4. plan \subseteq ChangedBy(r)
      BY <1>e, <1>6, <2>1, <2>2, <3>3
    <3>5. PICK T \in SUBSET extra : ChangedBy(r) = plan \cup T
      BY <2>5, <3>4
    <3>6. Transaction!Ends(r, "committed", plan \cup T)
      BY <1>n, <1>6, <2>1, <3>2, <3>5
    <3>7. Transaction!Commit(r)
      BY <2>6, <3>6 DEF Transaction!Commit
    <3> QED
      BY <3>7 DEF Transaction!Next
  <2> QED
    BY <1>9, <2>7, <2>8
<1> QED
  BY <1>b, <1>1, <1>2, <1>3, <1>4, <1>5, <1>7, <1>8, <1>9, TransactionKinds

\* However the runs interleave, overlap in their scopes, repair outside their
\* first patch and fail to write, every step of every run begins, plans,
\* extends, commits as a whole, cancels or visibly breaks the transaction on
\* its own files, or is invisible to the other runs.  Fairness aside, this is
\* PatchesAreTransactions.
THEOREM PatchesCommitOrCancel ==
    Spec => Transaction!Init /\ [][Transaction!Next]_(Transaction!vars)
<1>1. Init => FreshInvariant
  BY WorkspaceAssumption, CodingAssumption
     DEF Init, WorkspaceInit, FreshInvariant, Fresh, Absent, Original, Early, Late, Repairing,
         OwnFiles
<1>2. Init => Transaction!Init
  <2> SUFFICES ASSUME Init PROVE Transaction!Init
    OBVIOUS
  <2>1. \A r \in Run : /\ ~InFlight(r) /\ StageOf(r) = "idle" /\ SnapPaths(r) = {}
                      /\ RepairOnly(r) = {}
    BY DEF Init, InFlight, InFlightPlaces, StageOf, SnapPaths, NoSnapshot, NoPicture, RepairOnly
  <2>2. files \in [Path -> Content]
    BY TypeInit DEF TypeOK, WorkspaceTypeOK
  <2>3. CommittedFiles = [p \in OwnedFiles |-> files[p]]
    BY <2>1 DEF CommittedFiles
  <2>4. CommittedFiles \in [OwnedFiles -> Content]
    BY <2>2, <2>3, CodingAssumption DEF OwnedFiles, OwnFiles
  <2> QED
    BY <2>1, <2>4 DEF Transaction!Init
<1>3. TypeOK /\ WriteInvariant /\ PatchInvariant /\ FreshInvariant /\ [Next]_vars
          => FreshInvariant'
  BY FreshStep
<1>4. TypeOK /\ WriteInvariant /\ PatchInvariant /\ PatchInvariant' /\ FreshInvariant
          /\ FreshInvariant' /\ [Next]_vars
          => [Transaction!Next]_(Transaction!vars)
  <2> SUFFICES ASSUME TypeOK, WriteInvariant, PatchInvariant, PatchInvariant', FreshInvariant,
                      FreshInvariant', [Next]_vars
               PROVE  [Transaction!Next]_(Transaction!vars)
    OBVIOUS
  <2>1. ASSUME NEW r \in Run, Step(r) PROVE [Transaction!Next]_(Transaction!vars)
    BY <2>1, TransactionStep
  <2>2. CASE UNCHANGED vars
    BY <2>2 DEF vars, workspaceVars, runVars, Transaction!vars, CommittedFiles, InFlight, StageOf,
         Planned, Broken, Landed, SnapPaths, RepairOnly
  <2> QED
    BY <2>1, <2>2 DEF Next, AllEnded
<1>5. Spec => []PatchInvariant
  BY PatchInvariantHolds
<1> QED
  BY <1>1, <1>2, <1>3, <1>4, <1>5, TypeCorrect, PTL DEF Spec
=============================================================================

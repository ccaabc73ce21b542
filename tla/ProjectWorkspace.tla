-------------------------- MODULE ProjectWorkspace --------------------------
(***************************************************************************)
(* The durable folder of ONE project as ProjectWorkspaceManager keeps it:  *)
(* the user's files, manifest.json (who touched each file last, which runs *)
(* were registered) and, beside them, the file_changes.json log of every   *)
(* run.  A file's content is abstracted to who wrote it and in what role.  *)
(*                                                                         *)
(* Each operation here is one call made on the event loop, with no await   *)
(* in it, so no other run of the loop can see the middle of it; the file   *)
(* writes a call is made of matter only when one of them raises.           *)
(***************************************************************************)
EXTENDS FiniteSets, Integers

CONSTANTS
    Run,        \* the runs started on the project
    Earlier,    \* stands for every run that touched the project before them
    NoRun,      \* "nobody": no manifest entry, nobody on the event loop
    Path,       \* the project's user-visible files ...
    StateFile,  \* ... among them project_state.md, which every run rewrites
    Existing    \* the files the project has when the first run starts

ASSUME WorkspaceAssumption ==
    /\ Earlier \notin Run
    /\ NoRun \notin Run
    /\ Earlier # NoRun
    /\ StateFile \in Existing
    /\ Existing \subseteq Path

VARIABLES
    files,      \* Path -> what the file holds now
    manifest,   \* manifest.json: the last run of each file, and the runs list
    changes     \* Run -> the paths listed in its file_changes.json

workspaceVars == <<files, manifest, changes>>

----------------------------------------------------------------------------
(* What a file can hold. *)

Absent   == [by |-> NoRun,   role |-> "absent"]
Original == [by |-> Earlier, role |-> "original"]

\* Written by a run: its first patch, its repair patch, its project state,
\* or the torn remains of a write that raised after truncating the file.
WrittenBy(r, role) == [by |-> r, role |-> role]
Roles == {"patch", "repair", "state", "torn"}

Content == {Absent, Original} \cup [by : Run, role : Roles]

Manifest == [entry : [Path -> Run \cup {Earlier, NoRun}], runs : SUBSET Run]

WorkspaceTypeOK ==
    /\ files \in [Path -> Content]
    /\ manifest \in Manifest
    /\ changes \in [Run -> SUBSET Path]

\* The manifest knows the existing files.  ensure_project_workspace has
\* created project_state.md.
WorkspaceInit ==
    /\ files = [p \in Path |-> IF p \in Existing THEN Original ELSE Absent]
    /\ manifest = [entry |-> [p \in Path |-> files[p].by], runs |-> {}]
    /\ changes = [r \in Run |-> {}]

----------------------------------------------------------------------------
(* Operations. *)

\* upsert_file followed by write_manifest.
ManifestEntryBy(r, p) == [manifest EXCEPT !.entry = [@ EXCEPT ![p] = r]]

\* Mutant: only created files are tracked.
WriteTracksCreated(r, p, content) ==
    /\ files' = [files EXCEPT ![p] = content]
    /\ manifest' = ManifestEntryBy(r, p)
    /\ changes' = IF files[p] = Absent THEN [changes EXCEPT ![r] = @ \cup {p}] ELSE changes

\* write_project_file: the file, its manifest entry, then the change log.
WriteProjectFile(r, p, content) ==
    /\ files' = [files EXCEPT ![p] = content]
    /\ manifest' = ManifestEntryBy(r, p)
    /\ changes' = [changes EXCEPT ![r] = @ \cup {p}]

\* The same call when one of its writes raises: what was done stays done.
WriteProjectFileRaises(r, p, content) ==
    \/ /\ \E c \in {files[p], WrittenBy(r, "torn"), content} :
              files' = [files EXCEPT ![p] = c]
       /\ UNCHANGED <<manifest, changes>>
    \/ /\ files' = [files EXCEPT ![p] = content]
       /\ manifest' = ManifestEntryBy(r, p)
       /\ UNCHANGED changes

\* One file of a rollback: the raw write or unlink of _restore_snapshot,
\* which goes past the manifest and the change log.
RestoreFile(p, content) ==
    /\ files' = [files EXCEPT ![p] = content]
    /\ UNCHANGED <<manifest, changes>>

\* Mutant: the manifest is not part of the rollback.
RestoreNoManifest(saved) == UNCHANGED workspaceVars

\* The last step of a rollback: manifest.json is overwritten as a whole.
RestoreManifest(saved) ==
    /\ manifest' = saved
    /\ UNCHANGED <<files, changes>>

\* End of a run: project_state.md is rewritten and append_project_run
\* registers the run.
RegisterRun(r) ==
    /\ files' = [files EXCEPT ![StateFile] = WrittenBy(r, "state")]
    /\ manifest' = [ManifestEntryBy(r, StateFile) EXCEPT !.runs = @ \cup {r}]
    /\ changes' = [changes EXCEPT ![r] = @ \cup {StateFile}]

\* The end of a run when one of these writes raises, or a write after them.
RegisterRunRaises(r) ==
    \/ WriteProjectFileRaises(r, StateFile, WrittenBy(r, "state"))
    \/ WriteProjectFile(r, StateFile, WrittenBy(r, "state"))
    \/ RegisterRun(r)

----------------------------------------------------------------------------
\* The manifest names, for every file, the run whose content the file holds.
ManifestMatches(p) == manifest.entry[p] = files[p].by
=============================================================================

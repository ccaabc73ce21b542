# TheHiveMind in TLA+

TLA+ modules for the backend of TheHiveMind (`backend/app`), TLC
configurations that model-check them on small instances, and theorems that TLAPS
proves for every value of the constants. Paths below are relative to the
repository; `app/` stands for `backend/app/`.

TheHiveMind takes a natural-language command (`POST /api/runs`), asks people for
approval where the command is risky, and then lets a workflow of agents work on a
local project: plan it, write its files, patch it with a coding model, test it,
and account for what the model calls cost. It is one FastAPI process that keeps
everything in JSON files and one SQLite file.

    cd tla
    tlc -workers 2 -config CodingRunFaults.cfg MCCodingRun.tla
    tlapm CodingRunProofs.tla

---------------------------------------------------------------------------

## 1. The system

### 1.1 How it is scheduled

* `POST /api/runs` is an `async` endpoint. All runs share one event loop, and a
  run gives the loop away only where it awaits a provider, a search or a usage
  sync. A **mock run awaits nothing** and runs through; **live runs interleave**
  at those awaits.
* The approval decision and the listing endpoints are plain functions, which
  FastAPI runs in a thread pool: they interleave with the loop, and with one
  another, at **every file operation**.
* There is **no lock** anywhere. Files are written with `write_text`, which
  truncates and then writes; most stores read a file, change it and write it
  back.
* Nothing is resumed after a restart: a run that was under way is gone, its files
  stay as they were.

### 1.2 Components

| Component | State it keeps | Operations | Hard part | Correct when |
|---|---|---|---|---|
| Run endpoint (`app/api/runs.py`) | none | start_run, get, list, approval requirements, hydration of a stored run | calls approvals, engine, usage sync in this order; an exception after the record is saved | no run without its approvals; a stored run shows what happened |
| Approvals (`app/approvals`) | one JSON file per card | require_or_create, decide, list | decisions in threads, torn files, crash, cards never consumed | a run starts only with what humans granted; a decision is final |
| Execution engine (`app/orchestration/execution_engine.py`) | run record, events | seven workflows, budget check, finalisation | charges before checks, exceptions between writes, fallback after a paid answer | every charge is logged; the limit holds; refused runs leave nothing; runs end |
| business_builder workflow (same file) | planning package, project state, prototype files | plan (phase 1) with Exa and the planner, build a local prototype of a stored plan (phase 2A) | whatever the planner answers; overlapping planners; a source that is half written; five lists of phrases that each see what the one before left | a plan stays within command and flags; what is stored has passed the policy; a prototype is made of a finished plan of its project |
| Real coding agent (`app/coding`) | patch, snapshot, change entries | context, call with fallback, parse, validate, apply, commands, one repair, rollback | partial writes, rollback against other live runs, result text | all of a patch or nothing; what is reported is so |
| Project workspace (`app/projects`) | project files, `manifest.json`, `file_changes.json`, `project_history.json` | ensure, write_project_file, append_project_run | read-modify-write of the manifest by loop and threads | manifest and change log agree with the files |
| Run workspace and command runner (`app/workspace`) | run folder | write files, run an allowed command | command timeout | only allow-listed commands run |
| Provider router (`app/providers`) | none | generate_with_provider | success row, then steps that may fail and are reported as a failed call | an answer paid for is in the log |
| Cost limits (`app/core`) | settings | call budget, run budget | what the run budget does not count | limits hold |
| Usage log (`app/storage`) | SQLite rows | log_call, analytics | | one row per call |
| Official usage sync (`app/usage_sync`) | `records.json`, `status.json` | sync of four providers, generation lookup, cooldown | check, waits for three answers, mark; rows and status are two files; torn file read as empty | no row lost; a status that counts rows has them; a repeated sync does not count twice |
| Memory (`app/memory`) | JSON-lines items, index | seed the core rules, add, ingest, rebuild, retrieve | check and seed by every request; appends from loop and threads; a line cut short | an item that was reported can be read; no core rule is missing |
| Artifacts (`app/artifacts`) | registered files | register | | |
| Agent and model registry, search tools (`app/agent_registry`, `app/model_registry`, `app/search_tools`) | static tables, cached discovery | plan agents, select models and a search provider, search | gates checked at four places, fallbacks that skip some; Exa charges outside the log | no plan beyond its request, no gated model without approval |
| Agents (`app/agents`) | none | fill a template around a call | | |
| Frontend (`frontend`) | none the backend relies on | | | |

How they call one another: the run endpoint asks **approvals** for the verdict, then
the **engine**. The engine's steps ask the **provider router** (which asks **cost
limits**, a provider, the **usage log** and the **generation lookup**), the
**coding agent** (which reads and writes the **project workspace** and runs
commands), and write the project's files. At the end the engine checks the
budget, registers the run with the project, saves the record, ingests **memory**,
saves again, and the endpoint awaits the **usage sync**.

The list of what is hard to test, each at its line, is `hazards` in
`PROJECT.json`; the properties below were chosen from it.

---------------------------------------------------------------------------

## 2. The modules

    PatchTransaction <== CodingRun --EXTENDS--> ProjectWorkspace
                           |
                 CodingRunInvariant -- MCCodingRun  (TLC)
                           |
                     CodingRunProofs                (TLAPS)

    ApprovalGate     <== Approvals  -- MCApprovals  (TLC)
                           |
                     ApprovalsProofs                (TLAPS)

    RunLedger        <== RunEngine  -- MCRunEngine  (TLC)
                           |
                     RunEngineProofs                (TLAPS)

    PlanPipeline                          <==   BusinessBuilder -- MCBusinessBuilder  (TLC)
    PromptRules <- ModelRegistry <- AgentPlan <-+      |
                                 BusinessPlan <-+      |
              BusinessPlanProofs <- AgentPlanProofs <- BusinessBuilderProofs          (TLAPS)

    MemoryStore <-+
    UsageSync   <-+- Bookkeeping -- MCBookkeeping  (TLC)
                         |
                   BookkeepingProofs               (TLAPS)

`<==` reads "is implemented by": the module on the left states what the component
promises, the one on the right contains `INSTANCE ... WITH` and the refinement
mapping. `<-` reads "is extended by".

### 2.1 ProjectWorkspace, CodingRun, PatchTransaction

`ProjectWorkspace` is one project's disk: `files` (path to content), `manifest`
(which run touched which file last, and the runs list) and `changes` (each run's
`file_changes.json`). A content is only "written by run r as its patch, its repair,
its state file, or torn". Operations are those of `project_workspace.py`:
`WriteProjectFile` (file, manifest entry, change log), the same call when one of
its three writes raises, the two raw writes of a rollback (`RestoreFile`,
`RestoreManifest`), which go past manifest and change log, and `RegisterRun`.

`CodingRun` is a set of website_update runs of this project, as far as the
coding agent is concerned. `loop` is the run that owns the event loop: a step
inside the agent keeps it, an await gives it away, so runs interleave at awaits
and nowhere else. One action per step of `RealCodingAgentRunner.run`:

| Actions | Code |
|---|---|
| `Start` | the request, the coding context (`seen`), the checks of live coding |
| `ProviderAnswers`, `ProviderFails` | `_call_openrouter`: primary, on HTTPException the fallback, then raise |
| `RejectPatch`, `ValidateRaises`, `PreviewPatch`, `AcceptPatch` | parse and `PatchApplier.validate`; dry run; snapshot |
| `ApplyPatch`, `ApplyRepair` | `PatchApplier.apply`, file by file, or raising in the middle |
| `SkipRepair`, `StartRepair` | the early returns of `_maybe_repair`, in order |
| `RejectRepair`, `AcceptRepair`, `RepairPasses`, `RepairFails` | repair patch, re-validation |
| `RollbackFile`, `RollbackManifest` | `_restore_snapshot`: file by file with its own try, manifest last |
| `AskQA`, `QAAnswers`, `QAFails`, `OverBudget`, `Finish`, `FinishRaises` | the rest of `_execute_website_update` |

What policy and prompt decide about a path is the constant `ScopeOf`; what a
validator may find in a patch's text, and what a command returns, is a
nondeterministic choice.

`PatchTransaction` is the promise: a run plans a set of paths of its scope and in
**one** step all of them change, and nothing else, or nothing does. Two steps say how far
the code falls short of it: `Adopt`, a repair that takes up paths outside the plan, which a
rollback does not take back; and `Break`, a write of the patch or of its rollback that raises.
Its `store` is the files that one run's prompt names and no other's (`OwnFiles`; a file that
two prompts name belongs to whoever wrote last), as other runs may rely on them: while
a run is between its first write and its outcome, they still show what the run saw
(`CommittedFiles`).

### 2.2 Approvals, ApprovalGate

`file` maps a card to its JSON file, which may be torn. A POST (`attempt`) owns
the loop from its first card to its answer; a `decision` is a thread that reads,
truncates and writes, each a step of its own. `Crash` drops everybody who waits
and keeps the files. `saved` is a history variable: the decided forms ever
written of a card. `ApprovalGate` is the promise: a run starts only after each
kind of approval it needs was granted for its command and project, and never
when it needs an action that v1 does not execute.

### 2.3 RunEngine, RunLedger

A run is a program, a sequence of steps (`Program`), one per workflow of the engine,
with the kinds of step listed in the module. A live step goes through
`generate_with_provider`: the checks (`Ask`), the answer or the failure, the success
row, the response's usage record, the generation lookup, and the failure row that
any exception in between produces. `billed` is what providers charged, `logged`
the sum of the success rows, `counted` the sum of the events' costs, which is what the
budget check sees. The three differ, and that is what the properties are about.
Runs share no budget, so the module has one run. `RunLedger` is the promise about
a run's money: charges are posted or flagged, a run with an unexplained charge
has no record, and no run stays open.

### 2.4 PromptRules, ModelRegistry, AgentPlan, BusinessPlan, BusinessBuilder, PlanPipeline

The first four are operators without state.

* `PromptRules`: what the words of a command do. The code looks for phrases at five
  places, each with lists of its own: the overrides of the request
  (`_apply_prompt_safety_overrides`), `is_focused_website_update`, the engine, the
  agent planner with its rules, the model selector. A command is the set of the
  phrases it contains, and there is one phrase for every way in which the lists differ.
* `ModelRegistry`: the table of `model_registry/defaults.py` in its order, with the
  fields the selector looks at, and `DynamicModelSelector`: exclusion, approval, role,
  budget, score and the fallbacks.
* `AgentPlan`: `AgentPlannerService`, which puts together workflow, agents, their
  tools, models and the search provider, and the blocked actions.
* `BusinessPlan`: the decisions a planner returns, how they are parsed and validated
  (`ParsesAsObject`, `Accepts`), the system policy that rewrites them (`Decisions`), the
  package (`Bundle`), the planning QA, and the page of phase 2A with its technical QA. A text is
  the set of the terms of the code's lists that occur in it. `PlannerAnswer` is what a
  planner may answer, with lists of any length; `NarrowedDecisions` and `Package` are
  what can be stored of it. `Kept`, a recursive function, is the loop that copies a list
  without the items it skips: labels without a text, labels that name a
  capability, blank FAQ topics.

`BusinessBuilder` puts them in order, from the POST to the record. A request's
action is what it does from one wait to the next: `Refuse`, `Hold` (an approval is
missing), `RunElsewhere` (the plan of every other workflow), `StartSearch` and
`SearchFails` (Exa), `AskPlanner`, `PlannerDecides`, `PlannerFails`, `PlanMock`,
`BuildPrototype`. `Finish` and `BuildPrototype` choose how many of their writes were
made before a fault; nothing on the loop can come between those writes.

`PlanPipeline` is the promise: a run publishes a plan or a prototype, once and as a
whole; a prototype is the page of a plan that was published before for the same project, and
has no forbidden word. The mapping publishes a run with its record, the last of its writes:
what a run has written before it fails is not there for anyone who looks for the record.

### 2.5 MemoryStore, UsageSync, Bookkeeping

`MemoryStore` is the two item files. A file is the set of items that can be read back,
whether its last line has no end (`tail`), and the items that were glued to such a
line (`swallowed`). Opening a store hands the caller the core rules to append when the
global file is not there; each append is a step of its own, of a run or of a
request thread. `AddItemRaises` is an append that writes nothing or a part of its line, and also
one that writes all of it and raises in `rebuild_index`; `MemoryCrash` finds the server within
appends or between two. Two history variables say what happened, exactly: `cuts`, that a
line was cut short; `interrupted`, that somebody stopped with a rule still to append.

`UsageSync` is `records.json` and `status.json`, the ids the four providers
give their rows, the cooldown and the days. A sync is for a range. OpenAI's answer is any
set of results of the range's days (`Bill`), so that two answers of one day may differ, and a
row's id has its place among all results of the answer (`Place`, the code's `len(records)`);
an Exa row's id has the range. `kept` is a history variable: the ids
saved since `records.json` was last torn.

`Bookkeeping` composes the two around the end of live runs: `CallAnswered`, `LookedUp` and
`Finalize` (usage row, the lookup row of an answer that names a generation, record), `Adds`, `AddsInVain`, `Ingested` (memory),
`Skip`, `AskProvider`, `AskGoogle`, `ProviderAnswers`, `ProviderRefuses`, `WriteFirst`,
`WriteSecond`, `SyncDone` (`sync_all`), `OpenMemory` (the endpoints of `api/memory.py`),
`Crash`, `Tomorrow`. `loop` is the task that owns the event loop, as in `CodingRun`:
a task gives it up where it waits; threads never need it.

---------------------------------------------------------------------------

## 3. What is checked

### 3.1 Runs that pass

| Run | Instance | Distinct states | Shows |
|---|---|---|---|
| `CodingRunFaults` | two runs, one with a file of its own and one that both prompts name; every request, repairs that leave the first patch, provider and write faults | 4 220 469 | the inductive invariant `PatchInvariant`; a result that lists no file changed none but what a rolled back repair left (`NothingClaimedNothingChanged`); the change log has every file that holds a run's content (`ChangeLogComplete`); reported files hold the run's content (`ReportedFilesPresent`); a run alone keeps manifest and files in step, with one exact exception (`SoloRunKeepsManifest`); a rollback, also one that fails in part, restores each file of the first patch that it does not list as failed (`RollbackRestoresSnapshot`); only the loop's owner writes, in its scope (`ScopeConfined`) |
| `CodingRunAtomic` | the same two runs, of which one does not repair, with write faults and fairness | 413 324 | the runs implement `PatchTransaction` (`PatchesAreTransactions`); every run that starts ends (`RunsEnd`) |
| `Approvals` | 4 POSTs (two runs, each posted twice), 2 decisions, 4 cards, crashes; symmetry | 495 758 | rejected cards start nothing (`RejectedCardsStopRuns`); a verdict on disk is one that was given and none is lost (`VerdictsAreKept`); unreadable cards have a writer or a dead one (`TornOnlyByWriters`); refinement of `ApprovalGate` (`ApprovalsGateRuns`) |
| `RunEngine` | all seven workflows, both modes, limits 1 and 2, answers of cost 0 to 2, store faults, fairness | 126 452 | the log says what was billed or has a failure row (`AnswersAreInTheLog`); a step paid twice has one (`PaidTwiceIsExplained`); runs whose every answer is an event stay within their limit (`CountedRunsStayWithinLimit`); refused planning and research runs wrote nothing (`RefusedRunsLeaveNoFiles`); runs end (`RunsEnd`); refinement of `RunLedger` (`KeepsTheLedger`) |
| `BusinessBuilder` | every run type in both modes with contradicting commands and flags; three runs with overlapping planners and prototypes; good and bad answers, write faults, fairness | 80 406 | words against files, commands or search leave a plan no tool, runner or provider for them (`ForbiddenToolsAreNotPlanned`); no plan has what its flags do not give (`PlansStayWithinTheRequest`); no gated model is selected (`GatedModelsNeedApproval`); paid calls were allowed (`WaitsAreAllowed`); stored plans have passed the policy (`StoredPlansAreNarrowed`); state and run list name written runs (`ProjectNamesWrittenRuns`); refinement of `PlanPipeline` (`PrototypesFollowPlans`); requests end (`RequestsEnd`) |
| `Bookkeeping` | two live runs, a sync by hand, two memory threads, two at a time; refused answers, answers with and without a result or a generation id, appends cut short or raising after the line, one crash, one change of day, fairness | 360 438 | reported items can be read (`MemoryKeepsItems`); no core rule is left out by seedings that come to their end (`CoreRulesComplete`); no save loses a row (`RecordsAreKept`); stored runs have their usage rows (`StoredRunsHaveUsage`); a status that counts rows has them (`OkStatusHasRows`); everybody ends (`TasksEnd`) |

Each of these runs also checks its module's `TypeOK`, `CodingRunAtomic` excepted.

### 3.2 Runs that find a disagreement

Each checks one property, which a document, a comment or a message of the code
states, and TLC finds a behaviour of the code that breaks it.

| Run | Property | What happens |
|---|---|---|
| `CodingRunRollback` | `RollbackRestoresOriginals` | The snapshot has the first patch's files; the repair may write another file of the scope. The rollback leaves that one changed and reports "original pre-run file contents were restored" (`coding_agent_runner.py:207`). 12 states. |
| `CodingRunManifest` | `ManifestRecordsEveryRun` | While a run awaits its repair, another live run writes files and registers itself; the rollback then writes the manifest back as its snapshot saw it. The other run's entries are gone, against `docs/project_workspace.md:29`. 17 states. |
| `ApprovalsDecide` | `DecidedOnce` | Two decisions read the card as pending, both save: both callers are told they succeeded, though `approval_store.py:43` means to refuse the second. 9 states. |
| `ApprovalsReuse` | `ApprovalIsForOneRun` | An approved card is not consumed: the approval "for this run" (`risk_policy.py:67`) starts two. 12 states. |
| `RunEngineSpend` | `StoredChargesWithinLimit` | A live prototype_build is stored as completed although it was billed more than its limit: the File Builder's answer is in no event, so the check does not see it (`docs/cost_guardrails.md:11`, `docs/safe_execution.md:13`). 26 states. |
| `BookkeepingTotals` | `OfficialTotalsCountOnce` | The id of a row of OpenAI's bill ends with the number of results before it in the answer, of all days (`openai_usage_sync.py:100`). A later sync of the same day whose answer has one more result for an earlier day, or that is for a longer range, gives the later day's results new ids: both rows stay, and the card adds them (`real_usage_service.py:248`), which calls itself an official billing total (`:141`). 20 states. |

`CodingRunRollback` is one run alone: what it finds is in `CodingRunFaults` too, whose
properties name it as an exact exception (`AsFoundOrLeftByRepair`, `SoloRunKeepsManifest`).
`CodingRunManifest` is why `SoloRunKeepsManifest` speaks of a run that is alone.

### 3.3 Bounds, and why they are enough

* **Coding runs.** Two runs are the least that can interfere; a third would meet
  each of them in the same way, since a run's steps depend on the others only
  through files and manifest, and the theorems hold for any number. Two user
files and `project_state.md`: an existing file that only the first prompt names, and a new one
that both name, so that a rollback unlinks as well as rewrites and meets another run's
content. A patch of two files has a first and a last write, so that apply can fail between them
and a rollback can restore one and not the other; a first patch of one file leaves one
for the repair to write outside it. `MaxFiles = 2` lets a patch have the whole scope. The second run
is a live one: a mock run cannot be interrupted. In `CodingRunAtomic` it does not repair, which the
first one does; there the first run's own file is the new one and the shared file exists, so that
the unlink too is compared with an abstract cancel.
* **Approvals.** Each of two runs is posted twice, so that the second POST can name
  the cards of the first, its own and foreign ones. Two decisions are enough for every
  race on a card. `MaxCards = 4`, `MaxIds = 2`: the larger need is two approvals.
  A POST that would exceed `MaxCards` is not answered.
* **Run engine.** No counter is cut off: the workflows are finite, so costs are
  too. `MaxCost = 2` with limits 1 and 2 makes one answer, or two, exceed the
  limit, exactly meet it, or stay below it; cost 0 is an answer that is free.

* **Business builder.** The scenarios are of two kinds. One run alone has every run
  type in both modes, commands of none to two of eleven phrases, and the four flags all set, none
  set, or all but one set: what a phrase takes away another may give back, and
  a third one meets the same lists. Three runs of which two may overlap plan on one
  project or two, with prototypes whose source is finished, under way, of the other
  project, or a prototype itself. The planner gives one of five answers that are
  accepted (a clean one; one that sells, asks for names and promises delivery; two
  made of capabilities only; one with claims in its free texts) and eleven that are refused, one for
  each check.
* **Bookkeeping.** `Meetings` names who takes part: two runs, a run and a sync by
  hand, a run and a request thread, or two request threads on a new server. Two at a time are
  enough for every race on one file: each reads, or checks, once and writes what it found. Two rules
  have a first and a last append, with a place between them where a seeding can stop, and an
  ingestion adds one item after them. `Enabled` has two providers and two that are skipped:
  one that gives up the loop and has ids that are found again, one that does neither. One range of one
  day, with a result or none, since no property of this run compares the rows of two ranges or
  two days; `MaxDay = 1` makes the cooldown elapse. `BookkeepingTotals` is the instance in
  which they are compared: two ranges, two days, on one day, without faults. One crash. Who meets
  nobody has nothing to race with, and more crashes only empty the files again. The theorems hold for
  any ranges, results, days, providers and crashes.

`CodingRun`, `Approvals` and `RunEngine` have an explicit step for the state in which
everything is over (`AllEnded`, `Quiet`, `Over`), so that deadlock is checked in
their runs. `BusinessBuilder`, `Bookkeeping` and `BookkeepingTotals` say `CHECK_DEADLOCK FALSE`: a
server without requests does nothing, and a state where all requests are over has no step.
That no request is stuck before its end is `RequestsEnd` and `TasksEnd`.

### 3.4 Fairness

`CodingRun`: weak fairness of each run's steps once it has started. `RunEngine`:
weak fairness of `Step`, which does not include the start. The code justifies it:
asyncio resumes every coroutine whose awaited call is over, and a call ends: OpenRouter,
the lookups, the search and the syncs have a timeout of 30 s, OpenAI the one of its SDK, and a
timeout is an exception, which the models have as an action. The Gemini call
(`gemini_provider.py:35`) is given no timeout by the code; for it the fairness is an
assumption about the connection. Nothing is assumed about which outcome a call has. No fairness is
assumed of people, so `Approvals` has safety properties only.

`BusinessBuilder`: weak fairness of `Resume`, for a request that waits for Exa or the
planner. `Bookkeeping`: strong fairness of `Goes(t)` for each task on the loop, since
a task whose answer has come is ready only when the others give the loop up: asyncio's queue of
ready callbacks is first in, first out, so no task is passed over for ever; and weak fairness
of each request thread. The BigQuery query of the Google sync blocks the loop without a timeout
(`google_billing_sync.py:82`); that it returns is an assumption.

---------------------------------------------------------------------------

## 4. What is proved

Seven modules hold the theorems, for any constants that satisfy the named assumptions
`WorkspaceAssumption`, `CodingAssumption`, `RunEngineAssumption`, `ApprovalsAssumption`,
`BusinessBuilderAssumption` and `BookkeepingAssumption`, which TLC evaluates in the runs. They are about
`Spec`, without fairness.

`CodingRunProofs` and `RunEngineProofs`:

| Theorem | States | Along |
|---|---|---|
| `TypeCorrect` | `TypeOK`, `WriteInvariant` | A rollback copies the snapshot into the files, so types need that what a run still has to write or restore lies in its scope and its snapshot: `TypeOK` is inductive only with `WriteInvariant` (`TodoWithin` of every run) |
| `FilesConfined` | `ScopeConfined` | the same invariant: each write is of a path in `todo` |
| `ChangeLogIsComplete` | `ChangeLogComplete` | `LogInvariant`: a rollback may bring content of *another* run back, so the snapshots' contents have to be logged as well as the files' |
| `NothingClaimedMeansNothingChanged` | `NothingClaimedNothingChanged` | `PatchInvariant`: the books of a patch (`PatchBooks`: entries, snapshot and outcome agree place by place) and what each file of the scope holds relative to what the run saw (`ScopeFiles`), for the files that only it may write |
| `RollbackRestores` | `RollbackRestoresSnapshot` | `PatchInvariant`: while a rollback goes on, the files of the snapshot that are neither still to restore nor failed are as the run found them |
| `PatchInvariantHolds` | `PatchInvariant` | inductive with `TypeOK` and `WriteInvariant`; outside the snapshot a file holds what the run saw or what its repair wrote |
| `ReportsHold` | `ReportedFilesPresent` | `ReportInvariant`: what `apply` has written so far, and what it returned, holds the run's content until a rollback begins |
| `ManifestInStep` | `SoloRunKeepsManifest` | `SoloInvariant`: the snapshot's manifest has, for the files of the patch, the entry of what the snapshot holds, and for the others that of what the file holds now, so that writing it back agrees with the files after the rollback, but for what a repair wrote outside the snapshot |
| `PatchesCommitOrCancel` | the safety part of `PatchesAreTransactions` | each action maps to a `PatchTransaction` step or a stutter, by the value of the committed files at each place (`CommittedIs`); `FreshInvariant` says that a patch's content is new to its scope, so that no commit looks like a stutter. With write faults and repairs of any files (`Break`, `Adopt`) |
| `EngineTypeCorrect` | `TypeOK` of RunEngine | inductive with the fact that a program's index stays in it |
| `AnswersLogged` | `AnswersAreInTheLog` | `LogInvariant`: the log never says more than the bill, and a record exists exactly where the run is past its steps, so that every other place is one where the run may still have to be explained |
| `NoUnexplainedAnswer` | `PaidTwiceIsExplained` | `PaidInvariant`: how many provider steps have begun, counted with the cardinality of `RoutedUpTo`, the step at hand counted only where its answer has come |
| `CountedRunsWithinLimit` | `CountedRunsStayWithinLimit` | `CountedInvariant`: in these workflows `billed` is at most `counted` plus the answer in hand, no step has a fallback, and behind the budget check stands nothing that asks a provider (`CountedProgram`) |
| `EngineKeepsTheLedger` | the safety part of `KeepsTheLedger` | initial states map to initial states and each action maps to a `RunLedger` step or a stutter (`LedgerActions`), using `AnswersLogged` for `Keep` |
| `RefusedRunsWroteNothing` | `RefusedRunsLeaveNoFiles` | `CarefulInvariant`: in these workflows what has written is past its steps, because only the last one writes (`CarefulProgram`) |

`ApprovalsProofs`:

| Theorem | States | Along |
|---|---|---|
| `CardsTyped` | `TypeOK` | inductive with `DecisionInv`: what a decision is about to write is a card |
| `VerdictsKept`, `TornByWriters` | `VerdictsAreKept`, `TornOnlyByWriters` | `CardInv`: the cards in use are the first ones (`FirstCards`), so that a new card overwrites none, and only a card with a file was ever decided (`SavedCardsExist`) |
| `RejectedCardsStop` | `RejectedCardsStopRuns` | `AttemptInv`: an attempt has seen an approved form of each card it has read, and a grant for each type it counts; both only grow |
| `ImplementsGate` | `ApprovalsGateRuns` | `Granted` only grows, one grant a step, and `Started` follows `AttemptInv`: each step is one of `ApprovalGate` or a stutter |
| `SettledCards` | no step changes a card that is decided and that nobody is about to write (`SettledCardsStay`, an action property) | `CardInv`: a new card has no file yet, and a decision that has begun before is excluded by the hypothesis of the step |
| `DecidedOnceWhenApart` | `DecidedOnce`, of behaviours in which no two decisions of one card overlap (`DecisionsApart`) | `OnceInv`: a card that somebody is about to write has no saved form |
| `CardsKeepRequests` | the type and the subject of a card never change (`CardsKeepTheirRequest`) | inductive with `CardInv`: over the file, the copies of those who decide and the saved forms (`Forms`) |
| `SharedApprovals` | runs that were started by the same card run the same command on the same project | `AttemptInv` and `CardsKeepTheirRequest` |

The last four say how far two of the disagreements of section 3.2 go. `DecidedOnce` fails only by
overlapping decisions: wherever the server dies and whatever else interleaves, decisions one after the other
are safe. An approval that starts a second run (`ApprovalIsForOneRun`) starts the same one.

`BusinessPlanProofs` and `AgentPlanProofs`, about the operators and for every input:

| Theorem | States | Along |
|---|---|---|
| `PolicyQaOfAnyAnswer` | the policy QA of any answer with valid label statuses passes all that the policy sets itself, but the inquiry's behavior, which it blocks | `DecisionsAreNarrowed`: what the policy leaves of an answer, which needs what `Kept` computes of a list of any length (`KeptElements`) |
| `PagesBlockForFreeTexts` | a prototype is blocked only for words of the planner's free texts, or for a checkout or protein claim in its availability | `PageTexts`: a page has its own texts, the free texts, and an availability without the unsafe phrases |
| `MockPlansPassTechnicalQA` | the mock plan's prototype passes | the same, with the mock's texts |
| `SelectionIsAllowed` | `Select` returns no model or an entry that the agent may use, available, cheap if asked, gated only with an approval and within the limit (`Allowed`) | `BestExists`: a finite list has a best element, so that the `CHOOSE` is one of the candidates; the fallback is looked up among allowed entries |

`BusinessBuilderProofs`:

| Theorem | States | Along |
|---|---|---|
| `ForbiddenToolsNotPlanned`, `PlansWithinRequest` | `ForbiddenToolsAreNotPlanned`, `PlansStayWithinTheRequest` | `PlanInv`: a plan is the planner's, for the request with its effective flags; then for every command and every flags, through overrides, engine, planner and rules |
| `WaitsAllowed` | `WaitsAreAllowed` | `WaitInv`: who waits is a live planning run with its flags |
| `ProjectsNameWrittenRuns` | `ProjectNamesWrittenRuns` | `StoreInv`: of a run that has not ended nothing is stored, so that each store is written once and in order |
| `GatedModelsAreNotPlanned` | `GatedModelsNeedApproval` | `PlanInv` and `SelectionIsAllowed`: the planner asks without approval ids, so no gated entry is allowed |
| `TypesHold` | `TypeOK` | `FilesOK`: a planning run writes a `Package` (`FinishedPackage`), a prototype a set of terms (`PageIsText`), which needs the type of the package it is made of |
| `StoredPlansNarrowed` | `StoredPlansAreNarrowed` | `PackageInv`: a stored package is the bundle of some answer with valid statuses and of its request's forbidden actions; then `DecisionsAreNarrowed` |
| `StoredPlansFailInquiry` | every stored plan is BLOCKED on the inquiry's behavior | `PackageInv` and `PolicyQaOfAnyAnswer`: the inquiry is the policy's own text, whatever the planner answered |
| `ImplementsPipeline` | `PrototypesFollowPlans` | each step is one of `PlanPipeline` or a stutter: a run has no record before its last write (`StoreInv`), a record is of its request's project, so that a source of the same project is a plan of the same project, and a page in a record passed its technical QA (`RecordInv`) |

`BookkeepingProofs`:

| Theorem | States | Along |
|---|---|---|
| `TypeCorrect` | `TypeOK` | with `LoopTypeOK`: who holds the loop neither waits nor rests, and rows are at hand only between an answer and its second write |
| `RecordsKept` | `RecordsAreKept` | a save replaces rows with its own ids and leaves the others |
| `UsageBehindRecords` | `StoredRunsHaveUsage` | `UsageInv`: while a run waits for the lookup its response row is kept, and before its record is saved the row of the lookup, if the answer named a generation |
| `StatusHasRows` | `OkStatusHasRows` | `StatusInv`: between its two writes a sync's rows are kept |
| `ItemsAreKept` | `MemoryKeepsItems` | `HeldInv`: what an ingestion has added so far is in the file, or was glued to a torn line, which needs a cut |
| `RulesAreComplete` | `CoreRulesComplete` | `RuleInv`: once the file is made each rule is in it or somebody has it at hand; before that, who has one at hand has them all; unless somebody stopped with a rule at hand (`interrupted`) |

All properties that a theorem states are also checked by TLC in the runs of section 3.1.

The theorems about coding runs make no assumption on scopes, repairs or faults. What the code
does not keep is in their statements: a file that two prompts name belongs to nobody
(`OwnFiles`), and a file that a rolled back repair wrote outside the first patch stays
(`CodingRunRollback`).

The value for "nothing stored" is assumed to be no package and no text, and the value for "not posted" no
payload (`BusinessBuilderAssumption`).

What a recursive function computes is proved without the library's induction theorems,
which take an operator as a parameter: `SetInduction` states induction over the natural numbers for a
set, `KeptEquations` unfolds `Kept` once, and `KeptElements` uses both.

Only model-checked: liveness (`RunsEnd` of two modules, `RequestsEnd`, `TasksEnd`, and the
fairness part of `KeepsTheLedger` and of `PatchesAreTransactions`), which is out of
the prover's reach. Every safety property of a passing run is stated by a theorem.

---------------------------------------------------------------------------

## 5. What the models leave out

* **Text.** Prompts, replies, diffs, reports and artifacts are not in the models.
  That a reply parses, and what `validate` finds in it, is a choice.
* **CodingRun.** Template updates without the coding agent; validation commands as
  such (pass, fail and blocked are choices). The engine's writes at the end are one step
  (`Finish`) or one that raises after part of them (`FinishRaises`); nothing on
  the loop can come between them. Crashes: nothing recovers from one, and the files it
  leaves are those of a write that raises. A GET thread that rewrites an empty
  manifest while it is being written is planned (section 6).
* **Approvals.** Which words of a command trigger a rule; the listing endpoints, which
  change nothing. Cards are never deleted and never expire, as in the code.
* **RunEngine.** Artifacts and events' texts; the approval chain of phase 2A (source
  run, selection); prices (costs are small integers). A search asks Exa past the
  router: its charge is in no usage row, no event and no budget, so it is no part of
  `billed` either. `wrote` does not count the empty workspace that
  `ensure_project_workspace` creates.
* **BusinessBuilder.** Texts beyond the terms of the code's lists. Discovery and
  prices of models, health checks. The artifact files of the other workflows, which nothing reads
  back. `Hold` may happen to any request: which ones need a card is the subject of `Approvals`.
* **Bookkeeping.** A line is appended by one write to a file opened for appending, so
  lines of two writers do not mix. A torn line is cut between characters;
  `core_memory.json` is whole. The range "all", whose answer OpenAI cuts at 31 days. The index and the manifest of the memory are read by
  nothing that retrieves items, and the scoring of retrieval is a function of text. A
  sync of one provider is a part of one of all four. A store that a run opens before its last
  call is not separate from the one it ingests with. A disk that refuses the usage row or the
  record is in `RunEngine`.
* **Not modelled at all:** the patch parser, exact edits and path policy and the command
  runner's allow-list, which are string matching; the agents' texts; the frontend. `components`
  in `PROJECT.json` has the reason for each, and says what is left out of those
  that are modelled in part.

Met in the code while modelling, and in no run, because no document, comment or test says
otherwise or because the models do not have the data:

* The id of a Google row has the time of the sync (`google_billing_sync.py:89`), so each sync
  stores its rows again; that of an Exa row has the range the client names
  (`exa_usage_sync.py:42`), so overlapping ranges are stored beside one another. The totals add them.
  (`BookkeepingTotals` shows what becomes of OpenAI's rows.)
* A first seeding of the memory that stops between two rules, because the server dies or
  `rebuild_index` raises (`memory_store.py:67`), is never made good: the file exists.
  `CoreRulesComplete` excludes it by name (`interrupted`).
* An OpenRouter call has a response row and a generation row, and
  `real_usage_service.py:37` sums both.
* The inquiry text that the system policy itself puts into every plan says "not a real inquiry"
  and names a "manual-review queue", and the planning QA looks for those phrases
  (`execution_engine.py:5612`): `planning_qa.md` of every run, mock or live, says BLOCKED of the
  "local-only inquiry behavior" that `docs/business_builder_v1_architecture.md:113-121` has it
  check. No run, since no stored plan is otherwise: `StoredPlansFailInquiry` proves it.
* The live planner's model is fixed, so that "do not use gpt-5.5" in a command has no
  effect on it; "do not use web search" contains "web search", which counts as a search
  that is needed; "no external actions" takes the search tool from the agents of a
  plan and leaves its provider, which the run asks (`execution_engine.py:4727`).
  `ForbiddenToolsAreNotPlanned` says which words it is about.
* The files of a prototype that its technical QA blocks stay and are served by the preview
  endpoint (`api/projects.py:43`).
* The free texts of a plan (promise, segment, notes, FAQ) pass the policy unread.
* Two live planners on a project overwrite each other's state; the last one to finish
  stays (`ProjectNamesWrittenRuns` says that it is one of them, and whole).
* An append that a crash cuts inside a multi-byte character makes the file unreadable for
  every later reader (`memory_store.py:138`).

---------------------------------------------------------------------------

## 6. Plan

In order of importance: files, permission, money, plans, what is kept afterwards.

1. **Done.** Coding runs of a project: `ProjectWorkspace`, `CodingRun`,
   `PatchTransaction`, proofs.
2. **Done.** Approvals: `Approvals`, `ApprovalGate`, proofs.
3. **Done.** Engine and router: `RunEngine`, `RunLedger`, proofs.
4. **Done.** Intake, agent plans and the business_builder workflow: `PromptRules`,
   `ModelRegistry`, `AgentPlan`, `BusinessPlan`, `BusinessBuilder`, `PlanPipeline`, proofs.
5. **Done.** Usage records and memory: `UsageSync`, `MemoryStore`, `Bookkeeping`, proofs.
6. `ManifestStore`: `ensure_project_workspace`, the manifest and
   `project_history.json` at file-operation granularity, one run on the loop
   against GET threads, with crashes. Composes with `ProjectWorkspace` as the
   refinement of its atomic `manifest`. One run, one or two threads, two files.
7. `Hydration`: what the GET endpoints make of a stored run, over the states of
   `CodingRun`.
8. `PatchText`: parser candidates, exact edits, path policy, over bounded inputs.
9. **Done.** Theorems of `BusinessBuilder` that depend on lists of any length, its
   refinement of `PlanPipeline`, and how far the disagreements about approvals go.
10. An abstract specification of what usage sync and memory promise (`Bookkeeping` has
    invariants only), with its refinement proved.

Later modules follow the form of the present ones: constants with a named assumption, one
action per operation, invariants as conjunctions of named parts, no `RECURSIVE` in
a module with theorems, an abstract specification where a component makes a promise
to another.

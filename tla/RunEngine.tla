----------------------------- MODULE RunEngine -----------------------------
(***************************************************************************)
(* ExecutionEngine.execute_run: a run is a fixed sequence of steps, its    *)
(* workflow.  In live mode some of the steps ask a provider through        *)
(* provider_router (generate_with_provider), which logs what the answer    *)
(* costs; the engine adds up the costs of the run's events, compares the   *)
(* sum with the run's limit near the end, and stores the run record last.  *)
(*                                                                         *)
(* One run: two runs share no budget, and what they do to each other's     *)
(* project files is the subject of CodingRun.                              *)
(***************************************************************************)
EXTENDS Integers, Sequences, FiniteSets

CONSTANTS
    Workflows,     \* the workflows the run may be started with
    Limits,        \* values of min(max_cost_usd, MAX_COST_PER_RUN_USD)
    MaxCost,       \* bound: the cost of one answer, or the estimate of one event
    IOFaults       \* TRUE: writes to the stores and to project files may raise

----------------------------------------------------------------------------
(* The workflows.  Kinds of step:                                          *)
(*   agent     _run_step: an answer in live mode, an estimate in mock mode *)
(*   manual    _manual_step: an event with an estimated cost, and its row  *)
(*   extra     a _manual_step that only some runs have                     *)
(*   event     an event with an estimated cost, without a usage row        *)
(*   search    an optional Exa search, past the provider router            *)
(*   planner   the Business Builder planner                                *)
(*   test      the one call of a provider test                             *)
(*   coding    the Real Coding Agent's patch, or the template instead      *)
(*   repair    its optional repair call                                    *)
(*   builder   the File Builder call and its file actions                  *)
(*   files     project files are written                                   *)
(*   budget    the run's cost is compared with its limit                   *)
(*   register  project state and the project's run list                    *)

BusinessLaunchPlan ==
    <<"agent", "agent", "agent", "agent", "agent", "agent", "manual", "budget">>

\* Mutant: the planning state is written before the cost is checked.
BusinessBuilderWriteFirst ==
    <<"search", "extra", "planner", "event", "register", "budget">>

BusinessBuilder == <<"search", "extra", "planner", "event", "budget", "register">>

Phase2A == <<"files", "register">>

ResearchOnly == <<"search", "manual", "agent", "budget">>

ProviderTest == <<"test", "budget">>

WebsiteUpdate ==
    <<"search", "extra", "coding", "repair", "extra", "agent", "budget", "register">>

PrototypeBuild ==
    <<"agent", "agent", "agent", "agent", "builder", "manual", "manual", "agent",
      "manual", "budget", "register">>

Program == [business_launch_plan |-> BusinessLaunchPlan,
            business_builder |-> BusinessBuilder,
            phase_2a_local_prototype |-> Phase2A,
            research_only |-> ResearchOnly,
            provider_test |-> ProviderTest,
            website_update |-> WebsiteUpdate,
            prototype_build |-> PrototypeBuild]

\* Steps that ask the provider router in live mode.
Routed == {"agent", "planner", "test", "coding", "repair", "builder"}

ASSUME RunEngineAssumption ==
    /\ Workflows \subseteq DOMAIN Program
    /\ Limits \subseteq Nat
    /\ MaxCost \in Nat
    /\ IOFaults \in BOOLEAN

Cost == 0..MaxCost

----------------------------------------------------------------------------
VARIABLES
    pc,         \* where the run stands
    workflow,   \* its workflow ...
    live,       \* ... whether its mode is live ...
    limit,      \* ... and what it may cost
    at,         \* index of its step
    answer,     \* cost of the answer in hand
    answers,    \* answers given to the run
    errors,     \* failure rows of the run in the usage log
    billed,     \* cost of all answers
    logged,     \* cost of all success rows of the router
    counted,    \* total_estimated_cost_usd: the costs of the run's events
    wrote,      \* what the run has written into its project
    stored      \* the runs table has the run's record

request == <<workflow, live, limit>>
calls == <<answer, answers, errors>>
money == <<billed, logged, counted>>
vars == <<pc, request, at, calls, money, wrote, stored>>

Awaiting == {"search", "call", "fallback", "lookup", "fallback_lookup", "sync"}
Ended == {"done", "refused", "raised"}

TypeOK ==
    /\ pc \in {"idle", "step", "use", "record"} \cup Awaiting \cup Ended
    /\ workflow \in Workflows
    /\ live \in BOOLEAN
    /\ limit \in Limits
    /\ at \in DOMAIN Program[workflow]
    /\ answer \in Cost
    /\ answers \in Nat
    /\ errors \in Nat
    /\ billed \in Nat
    /\ logged \in Nat
    /\ counted \in Nat
    /\ wrote \subseteq {"files", "register"}
    /\ stored \in BOOLEAN

Init ==
    /\ pc = "idle"
    /\ workflow \in Workflows
    /\ live \in BOOLEAN
    /\ limit \in Limits
    /\ at = 1
    /\ answer = 0 /\ answers = 0 /\ errors = 0
    /\ billed = 0 /\ logged = 0 /\ counted = 0
    /\ wrote = {}
    /\ stored = FALSE

----------------------------------------------------------------------------
(* The sequence of steps. *)

Kind == Program[workflow][at]
Last == Len(Program[workflow])

Moves(from, to) == pc = from /\ pc' = to

\* The run ends here, or waits for an answer, within its step.
Stays(from, to) == Moves(from, to) /\ UNCHANGED at

\* Mutant: the index runs past the last step.
StepDonePastEnd(from) ==
    /\ Moves(from, IF at = Last THEN "record" ELSE "step")
    /\ at' = at + 1

StepDone(from) ==
    /\ Moves(from, IF at = Last THEN "record" ELSE "step")
    /\ at' = IF at = Last THEN at ELSE at + 1

CountSomeCost == \E cost \in Cost : counted' = counted + cost

MayWriteFiles == wrote' \in {wrote, wrote \cup {"files"}}

\* execute_run: a workflow refuses a mode or a request it does not serve.
Start ==
    /\ \/ /\ workflow = "provider_test" => live
          /\ workflow = "phase_2a_local_prototype" => ~live
          /\ Stays("idle", "step")
       \/ Stays("idle", "refused")
    /\ UNCHANGED <<request, calls, money, wrote, stored>>

----------------------------------------------------------------------------
(* Steps that ask nobody. *)

\* A step as a mock run does it, and those that are the same in both modes; a
\* live website_update without the Real Coding Agent takes the template.
LocalStep ==
    /\ \/ Kind \in {"manual", "extra", "event", "coding"}
       \/ ~live /\ Kind \in {"agent", "planner"}
    /\ StepDone("step")
    /\ CountSomeCost
    /\ IF Kind = "coding" THEN MayWriteFiles ELSE UNCHANGED wrote
    /\ UNCHANGED <<request, calls, billed, logged, stored>>

\* A step the run does not have: no search provider, no repair, no commands.
SkipStep ==
    /\ Kind \in {"search", "repair", "extra"}
    /\ StepDone("step")
    /\ UNCHANGED <<request, calls, money, wrote, stored>>

\* Files of the project: a mock File Builder, the phase 2A prototype (whose
\* technical QA may then block the run), project state and run list.
WriteFiles ==
    /\ Kind \in {"files", "register"} \/ (Kind = "builder" /\ ~live)
    /\ wrote' = wrote \cup {IF Kind = "register" THEN "register" ELSE "files"}
    /\ StepDone("step") \/ (Kind = "files" /\ Stays("step", "refused"))
    /\ UNCHANGED <<request, calls, money, stored>>

\* Mutant: the limit is compared with the last answer, not with the sum.
CheckLastAnswer ==
    /\ Kind = "budget"
    /\ IF answer > limit THEN Stays("step", "refused") ELSE StepDone("step")
    /\ UNCHANGED <<request, calls, money, wrote, stored>>

\* assert_run_budget and the comparison with max_cost.
CheckBudget ==
    /\ Kind = "budget"
    /\ IF counted > limit THEN Stays("step", "refused") ELSE StepDone("step")
    /\ UNCHANGED <<request, calls, money, wrote, stored>>

\* A write of the step raises, after part of its work; nothing handles it.
StepRaises ==
    /\ IOFaults
    /\ \E from \in {"step", "use"} : Stays(from, "raised")
    /\ IF Kind \in {"files", "register", "builder", "coding"}
       THEN MayWriteFiles
       ELSE UNCHANGED wrote
    /\ UNCHANGED <<request, calls, money, stored>>

----------------------------------------------------------------------------
(* A live step and the provider router. *)

HasFallback == Kind \in {"coding", "repair"}

\* Checks before a call (output limit, call budget, provider ready, the
\* planner's estimate against the run's limit) pass, or refuse the call: the
\* coding agent then tries its fallback model, any other run ends.  Only a
\* patch that a provider has written is repaired by one.
Ask ==
    /\ live /\ Kind \in Routed
    /\ Kind = "repair" => answers > 0
    /\ \/ Stays("step", "call")
       \/ HasFallback /\ Stays("step", "fallback")
       \/ Stays("step", "refused")
    /\ UNCHANGED <<request, calls, money, wrote, stored>>

\* The router's HTTPException reaches the step.
CallRefused(from) ==
    \/ Stays(from, "refused")
    \/ HasFallback /\ from \in {"call", "lookup"} /\ Stays(from, "fallback")

LookupOf == [call |-> "lookup", fallback |-> "fallback_lookup"]

\* The provider has failed: a failure row, then the exception; or no row
\* either, and an exception that nothing handles.
ProviderFails ==
    /\ \E from \in DOMAIN LookupOf :
        \/ CallRefused(from) /\ errors' = errors + 1
        \/ IOFaults /\ Stays(from, "raised") /\ UNCHANGED errors
    /\ UNCHANGED <<request, answer, answers, money, wrote, stored>>

\* Mutant: the failure row is written for exceptions of the provider only.
ProviderAnswersUnflagged ==
    /\ \E cost \in Cost :
        /\ answer' = cost
        /\ billed' = billed + cost
        /\ answers' = answers + 1
        /\ \E from \in DOMAIN LookupOf :
            \/ /\ Stays(from, LookupOf[from]) \/ Stays(from, "use")
               /\ logged' = logged + cost
            \/ /\ IOFaults
               /\ CallRefused(from)
               /\ logged' \in {logged, logged + cost}
    /\ UNCHANGED <<request, errors, counted, wrote, stored>>

\* The provider has answered: the success row, the response's usage record,
\* and for OpenRouter the generation lookup.  When the success row or the
\* usage record cannot be written the call counts as a failed one, and when
\* the failure row cannot be written either, nothing handles the exception.
ProviderAnswers ==
    /\ \E cost \in Cost :
        /\ answer' = cost
        /\ billed' = billed + cost
        /\ answers' = answers + 1
        /\ \E from \in DOMAIN LookupOf :
            \/ /\ Stays(from, LookupOf[from]) \/ Stays(from, "use")
               /\ logged' = logged + cost
               /\ UNCHANGED errors
            \/ /\ IOFaults
               /\ CallRefused(from)
               /\ logged' \in {logged, logged + cost}
               /\ errors' = errors + 1
            \/ /\ IOFaults
               /\ Stays(from, "raised")
               /\ logged' \in {logged, logged + cost}
               /\ UNCHANGED errors
    /\ UNCHANGED <<request, counted, wrote, stored>>

\* sync_openrouter_generation: a failed lookup is stored as pending; only a
\* record that cannot be stored makes the call a failed one.
LookupReturns ==
    /\ \E from \in {"lookup", "fallback_lookup"} :
        \/ Stays(from, "use") /\ UNCHANGED errors
        \/ IOFaults /\ CallRefused(from) /\ errors' = errors + 1
        \/ IOFaults /\ Stays(from, "raised") /\ UNCHANGED errors
    /\ UNCHANGED <<request, answer, answers, money, wrote, stored>>

\* Mutant: a planner whose answer is no valid JSON is asked again.
PlannerAsksAgain == Kind = "planner" /\ Stays("use", "call") /\ UNCHANGED <<counted, wrote>>

\* An answer whose cost becomes the cost of the step's event.
CountAnswer ==
    /\ Kind \in {"agent", "planner", "test"}
    /\ counted' = counted + answer
    /\ StepDone("use")
    /\ UNCHANGED wrote

\* A planner whose answer is no valid JSON ends the run.
PlannerFails == Kind = "planner" /\ Stays("use", "refused") /\ UNCHANGED <<counted, wrote>>

\* The coding agent's event has an estimate of one call; a repair and the File
\* Builder's answer add no event.
ApplyAnswer ==
    /\ Kind \in {"coding", "repair", "builder"}
    /\ IF Kind = "coding" THEN CountSomeCost ELSE UNCHANGED counted
    /\ StepDone("use")
    /\ MayWriteFiles
    /\ Kind = "builder" => "files" \in wrote'

\* Mutant: UseAnswer with such a planner.
UseAnswerRetrying ==
    /\ CountAnswer \/ PlannerAsksAgain \/ ApplyAnswer
    /\ UNCHANGED <<request, calls, billed, logged, stored>>

UseAnswer ==
    /\ CountAnswer \/ PlannerFails \/ ApplyAnswer
    /\ UNCHANGED <<request, calls, billed, logged, stored>>

----------------------------------------------------------------------------
(* A live search, the record and the usage sync. *)

\* run_exa_search is refused by its flags or asks Exa; its mock form has
\* nothing to wait for and costs nothing.
StartSearch ==
    /\ Kind = "search" /\ live
    /\ Stays("step", "search") \/ Stays("step", "refused")
    /\ UNCHANGED <<request, calls, money, wrote, stored>>

\* Exa's answer costs neither the run nor the log anything; a failed search
\* ends the run.
SearchReturns ==
    /\ StepDone("search") \/ Stays("search", "refused") \/ Stays("search", "raised")
    /\ UNCHANGED <<request, calls, money, wrote, stored>>

\* _finalize_run: the record is saved, memory is ingested, and it is saved
\* again; an exception of the ingestion comes after the first save.
SaveRecord ==
    /\ \/ Stays("record", IF live THEN "sync" ELSE "done") /\ stored' = TRUE
       \/ IOFaults /\ Stays("record", "raised") /\ stored' \in BOOLEAN
    /\ UNCHANGED <<request, calls, money, wrote>>

\* Mutant: the sync waits for the provider without a timeout.
SyncHangs == Stays("sync", "sync") /\ UNCHANGED <<request, calls, money, wrote, stored>>

\* sync_after_live_run; it catches the errors of the providers, not those of its store.
SyncReturns ==
    /\ Stays("sync", "done") \/ (IOFaults /\ Stays("sync", "raised"))
    /\ UNCHANGED <<request, calls, money, wrote, stored>>

----------------------------------------------------------------------------
Step ==
    \/ LocalStep \/ SkipStep \/ WriteFiles \/ CheckBudget \/ StepRaises
    \/ Ask \/ ProviderFails \/ ProviderAnswers \/ LookupReturns \/ UseAnswer
    \/ StartSearch \/ SearchReturns \/ SaveRecord \/ SyncReturns

\* The run is over.
Over == pc \in Ended /\ UNCHANGED vars

Next == Start \/ Step \/ Over

Spec == Init /\ [][Next]_vars

\* asyncio resumes a coroutine that can go on; lookups, searches, syncs and
\* OpenRouter have a timeout of 30 s, OpenAI the one of its SDK.  Of Gemini,
\* whose call is given none, it is assumed that it answers or fails.
FairSpec == Spec /\ WF_vars(Step)

----------------------------------------------------------------------------
(* Properties. *)

\* A run that goes on, or has a record, has no answer of which the usage log
\* says nothing: what it was billed is what the router's success rows say,
\* unless a failure row of the run is there to explain the difference.
AnswersAreInTheLog ==
    (stored \/ pc \notin Ended) => (logged = billed \/ (errors > 0 /\ logged < billed))

\* The first n steps that ask a provider in live mode.
RoutedUpTo(n) == {i \in 1..n : Program[workflow][i] \in Routed}

\* No step is answered twice unless a failure row explains it: in every run
\* the answers are no more than the provider steps begun and the failures.
PaidTwiceIsExplained == answers <= Cardinality(RoutedUpTo(at)) + errors

\* In a workflow whose every answer becomes an event, a run that has a record
\* was billed no more than its limit, whatever order its answers came in.
CountedRunsStayWithinLimit ==
    (stored /\ workflow \notin {"website_update", "prototype_build"}) => billed <= limit

\* A planning or research run that is refused, by its budget too, has changed
\* nothing in its project.
RefusedRunsLeaveNoFiles ==
    (pc = "refused" /\ workflow \in {"business_launch_plan", "business_builder",
                                     "research_only", "provider_test"})
        => wrote = {}

\* A run that has started comes to an end.
RunsEnd == (pc = "step") ~> (pc \in Ended)

\* Every record is of a run within its limit, as the per-run guards of
\* docs/cost_guardrails.md:11 say.
StoredChargesWithinLimit == stored => billed <= limit

----------------------------------------------------------------------------
(* The engine implements RunLedger: the record is what keeps a run. *)

Ledger == INSTANCE RunLedger WITH
    stage <- IF stored THEN "kept"
             ELSE IF pc \in Ended THEN "dropped"
             ELSE IF pc = "idle" THEN "new" ELSE "open",
    spent <- billed,
    posted <- logged,
    flagged <- errors > 0

KeepsTheLedger == Ledger!Spec
=============================================================================

-------------------------- MODULE BusinessBuilder --------------------------
(***************************************************************************)
(* POST /api/runs up to the plan of a run, for every run type, and the two *)
(* phases of the business_builder workflow: planning (phase 1) and the     *)
(* local prototype that is made of a stored plan (phase 2A).               *)
(*                                                                         *)
(* Requests run on one event loop and give way to each other only while    *)
(* they wait for Exa or for the planner, so an action is what a request    *)
(* does from one such wait to the next.  What the other workflows do after *)
(* their plan is the subject of RunEngine and CodingRun.                   *)
(***************************************************************************)
EXTENDS AgentPlan, BusinessPlan

CONSTANTS
    Request,      \* POSTs, each the run that it starts
    Project,      \* project ids
    NoPayload,    \* of a request that is not posted
    Nobody,       \* no run: no source, no writer
    None,         \* nothing stored yet
    Scenarios,    \* the payloads of the requests, one choice per behavior
    Answers,      \* what the live planner may answer
    IOFaults      \* TRUE: writes to the stores and to project files may raise

\* RunCreate: the type, the words and the flags of a request, and what it asks
\* for in the two phases of the business_builder workflow.
Payload ==
    [run_type : STRING, phase : {"phase_1", "phase_2a_local_prototype"},
     mode : {"mock", "live"}, command : Command, idea : Command \cup {NoPayload},
     forbidden : SUBSET STRING, project : Project, source : Request \cup {Nobody},
     confirm : BOOLEAN, writes : BOOLEAN, commands : BOOLEAN, search : BOOLEAN,
     ceo : BOOLEAN, agent : BOOLEAN, memory : BOOLEAN, coding_options : BOOLEAN,
     max_cost : Nat]

ASSUME BusinessBuilderAssumption ==
    /\ Nobody \notin Request /\ NoPayload \notin Payload
    /\ None \notin Package /\ \A text \in SUBSET Term : text # None
    /\ Answers \subseteq PlannerAnswer
    /\ Scenarios \subseteq [Request -> Payload \cup {NoPayload}]
    /\ IOFaults \in BOOLEAN /\ LiveAllowed \in BOOLEAN

----------------------------------------------------------------------------
(* The intake. *)

IsPhase2A(p) == p.run_type = "business_builder" /\ p.phase = "phase_2a_local_prototype"
IsPlanning(p) == p.run_type = "business_builder" /\ p.phase = "phase_1"

\* _validate_business_builder_phase2a_payload, and _validate_phase2a_entry in
\* the engine, which asks for a project as well.
Phase2APayload(p) ==
    /\ p.mode = "mock" /\ p.source # Nobody /\ p.confirm
    /\ p.writes
    /\ ~p.commands /\ ~p.search /\ ~p.ceo /\ ~p.memory /\ ~p.agent /\ ~p.coding_options

\* _normalize_business_builder_payload: the idea takes the place of the fixed
\* command after the prompt's words were looked for in the command.
Normalized(p) ==
    IF IsPlanning(p)
    THEN [p EXCEPT !.writes = FALSE, !.commands = FALSE, !.agent = FALSE,
                   !.coding_options = FALSE,
                   !.command = IF @ = {"Business Builder Phase 1"} THEN @ \cup p.idea ELSE @]
    ELSE p

\* What start_run passes to the approval engine and to the execution engine.
Effective(p) == Normalized(Overrides(p))

\* 422 of the intake.
IntakeRefuses(p) ==
    \/ IsPlanning(p) /\ p.idea = NoPayload
    \/ IsPhase2A(p) /\ ~Phase2APayload(p)

\* Mutant: the planner's flag is not asked for.
RefusesWithoutAskingForTheFlag(p) ==
    LET route == EngineRoute(p)
    IN  \/ p.mode = "live" /\ ~LiveAllowed
        \/ route \in {"website_update", "prototype_build", "continuation"} /\ ~p.writes
        \/ route = "provider_test" /\ p.mode # "live"

\* 403 and 400 of the engine before it plans.
EngineRefuses(p) ==
    LET route == EngineRoute(p)
    IN  \/ p.mode = "live" /\ ~LiveAllowed
        \/ IsPlanning(p) /\ p.mode = "live" /\ ~p.ceo
        \/ route \in {"website_update", "prototype_build", "continuation"} /\ ~p.writes
        \/ route = "provider_test" /\ p.mode # "live"

----------------------------------------------------------------------------
VARIABLES
    payload,     \* what each request posts
    pc,          \* where it stands
    plan,        \* agent_plan of its run
    artifacts,   \* its planning package
    page,        \* the index.html of its prototype
    record,      \* its row of the runs table
    state,       \* business_builder_state.json of each project, with its writer
    registered   \* the runs in the manifest of each project

files == <<artifacts, page, record, state, registered>>
vars == <<payload, pc, plan, files>>

Waiting == {"searching", "asking"}
Ended == {"held", "refused", "elsewhere", "failed", "done"}

TypeOK ==
    /\ payload \in Scenarios
    /\ pc \in [Request -> {"idle"} \cup Waiting \cup Ended]
    /\ DOMAIN plan = Request
    /\ artifacts \in [Request -> {None} \cup Package]
    /\ page \in [Request -> {None} \cup SUBSET Term]
    /\ record \in [Request -> {None} \cup [phase : {"1", "2a"}, project : Project,
                                           version : {"1.1"}]]
    /\ state \in [Project -> [run : {Nobody} \cup Request, content : {None} \cup StoredState]]
    /\ registered \in [Project -> SUBSET Request]

Init ==
    /\ payload \in Scenarios
    /\ pc = [r \in Request |-> "idle"]
    /\ plan = [r \in Request |-> None]
    /\ artifacts = [r \in Request |-> None]
    /\ page = [r \in Request |-> None]
    /\ record = [r \in Request |-> None]
    /\ state = [p \in Project |-> [run |-> Nobody, content |-> None]]
    /\ registered = [p \in Project |-> {}]

----------------------------------------------------------------------------
(* Requests that end here. *)

\* Mutant: the record names the phase as the request does.
RecordOfRequest(p) == [phase |-> p.phase, project |-> p.project, version |-> "1.1"]

\* What phase 2A reads of a record: usage_summary["business_builder"].
RecordOf(p) ==
    [phase |-> IF IsPhase2A(p) THEN "2a" ELSE "1", project |-> p.project,
     version |-> "1.1"]

Run(r) == Effective(payload[r])

Posted(r) == pc[r] = "idle" /\ payload[r] # NoPayload

Moves(r, from, to) == pc[r] = from /\ pc' = [pc EXCEPT ![r] = to]

\* Mutant: the plan may be of another project.
SourceIsAPlanAnywhere(r) ==
    LET source == Run(r).source
    IN  /\ record[source] # None
        /\ record[source].phase = "1" /\ record[source].version = "1.1"
        /\ artifacts[source] # None
        /\ artifacts[source].business_builder_state.public = "not_ready"
        /\ artifacts[source].business_builder_state.external_actions_taken = {}

\* _load_phase2a_source_run: a completed phase 1.1 run of the same project,
\* with its three documents.
SourceIsAPlan(r) ==
    LET source == Run(r).source
    IN  /\ record[source] # None
        /\ record[source].project = Run(r).project
        /\ record[source].phase = "1" /\ record[source].version = "1.1"
        /\ artifacts[source] # None
        /\ artifacts[source].business_builder_state.public = "not_ready"
        /\ artifacts[source].business_builder_state.external_actions_taken = {}

\* 422 and 403 before anything is planned, and phase 2A's check of its source.
Refuse(r) ==
    /\ Posted(r)
    /\ \/ IntakeRefuses(Overrides(payload[r]))
       \/ EngineRefuses(Run(r))
       \/ /\ IsPhase2A(Run(r)) /\ ~IntakeRefuses(Overrides(payload[r]))
          /\ ~SourceIsAPlan(r)
    /\ Moves(r, "idle", "refused")
    /\ UNCHANGED <<payload, plan, files>>

\* require_or_create answers with approval cards; Approvals says when.
Hold(r) ==
    /\ Posted(r)
    /\ ~IntakeRefuses(Overrides(payload[r]))
    /\ Moves(r, "idle", "held")
    /\ UNCHANGED <<payload, plan, files>>

\* What is recorded as agent_plan.
PlanOf(p) == Plan(PlanRequest(EngineRoute(p), p))

\* The other workflows; a provider test and a launch plan make no plan.
RunElsewhere(r) ==
    /\ Posted(r)
    /\ ~IntakeRefuses(Overrides(payload[r])) /\ ~EngineRefuses(Run(r))
    /\ Run(r).run_type # "business_builder"
    /\ Moves(r, "idle", "elsewhere")
    /\ plan' = IF EngineRoute(Run(r)) \in {"provider_test", "business_launch_plan"}
               THEN plan ELSE [plan EXCEPT ![r] = PlanOf(Run(r))]
    /\ UNCHANGED <<payload, files>>

----------------------------------------------------------------------------
(* Phase 1. *)

\* _execute_business_builder up to its first wait: the plan is saved.
PlansNow(r) ==
    /\ Posted(r)
    /\ ~IntakeRefuses(Overrides(payload[r])) /\ ~EngineRefuses(Run(r))
    /\ IsPlanning(Run(r))
    /\ plan' = [plan EXCEPT ![r] = PlanOf(Run(r))]

\* _run_research_search asks Exa only with the run's permission and a provider;
\* the mock fixture needs no waiting.
AsksExa(r) ==
    LET p == Run(r)
    IN  /\ p.mode = "live" /\ p.search
        /\ "research_agent" \in PlanOf(p).agents /\ PlanOf(p).provider = "exa_direct"

StartSearch(r) ==
    /\ PlansNow(r) /\ AsksExa(r)
    /\ Moves(r, "idle", "searching")
    /\ UNCHANGED <<payload, files>>

\* _run_live_business_builder_planner: the estimate of the call is within the
\* run's limit and the router's checks pass, or the run ends.
AskPlanner(r) ==
    /\ \E to \in {"asking", "refused"} :
        \/ /\ PlansNow(r) /\ ~AsksExa(r) /\ Run(r).mode = "live"
           /\ Moves(r, "idle", to)
        \/ Moves(r, "searching", to) /\ UNCHANGED plan
    /\ UNCHANGED <<payload, files>>

\* Exa answers with an error, or not in time, or with a body that does not
\* parse: no handler.
SearchFails(r) ==
    /\ Moves(r, "searching", "failed")
    /\ UNCHANGED <<payload, plan, files>>

\* Mutant: the planning state is written before the package it belongs to.
StateFirst == <<"state", "artifacts", "register", "record">>

\* The writes of a finished plan in their order: the package with its QA; the
\* project's state files; the manifest's run list; the record.
FinishSteps == <<"artifacts", "state", "register", "record">>

\* The first n steps are done.  The package is kept by a run whose cost is
\* over its limit; a fault of a write ends the run wherever it happens, after
\* the record when memory cannot be ingested.
Finish(r, from, answer) ==
    LET p == Run(r)
        bundle == Bundle(Decisions(answer), p.forbidden)
    IN  \E n \in 0..4 :
          LET done == {FinishSteps[i] : i \in 1..n}
          IN  /\ \/ n = 4 /\ Moves(r, from, "done")
                 \/ n = 1 /\ Moves(r, from, "refused")
                 \/ IOFaults /\ Moves(r, from, "failed")
              /\ artifacts' = IF "artifacts" \in done
                              THEN [artifacts EXCEPT ![r] = bundle] ELSE artifacts
              /\ state' = IF "state" \in done
                          THEN [state EXCEPT ![p.project] =
                                  [run |-> r, content |-> bundle.business_builder_state]]
                          ELSE state
              /\ registered' = IF "register" \in done
                               THEN [registered EXCEPT ![p.project] = @ \cup {r}]
                               ELSE registered
              /\ record' = IF "record" \in done
                           THEN [record EXCEPT ![r] = RecordOf(p)] ELSE record
              /\ UNCHANGED <<payload, page>>

\* A mock run waits for nothing: it plans and finishes in one go.
PlanMock(r) ==
    /\ PlansNow(r) /\ Run(r).mode = "mock"
    /\ Finish(r, "idle", MockAnswer)

\* The planner has answered with decisions that are accepted.
PlannerDecides(r) ==
    /\ \E answer \in Answers :
        /\ ParsesAsObject(answer) /\ Accepts(answer)
        /\ Finish(r, "asking", answer)
    /\ UNCHANGED plan

\* Mutant: after an answer that is no valid decision the run starts over.
PlannerStartsOver(r) ==
    /\ Moves(r, "asking", "searching")
    /\ UNCHANGED <<payload, plan, files>>

\* The call fails, or the answer is refused with a 502; no second call.
PlannerFails(r) ==
    /\ Moves(r, "asking", "refused")
    /\ UNCHANGED <<payload, plan, files>>

----------------------------------------------------------------------------
(* Phase 2A. *)

\* The prototype of a package's decisions.
PrototypePage(package) == Page(BuildSpec(package.strategic_decisions))

\* _execute_business_builder_phase2a, which waits for nothing.  The files are
\* written before the technical QA reads them back, and stay when it blocks.
BuildPrototype(r) ==
    /\ Posted(r)
    /\ ~IntakeRefuses(Overrides(payload[r])) /\ ~EngineRefuses(Run(r))
    /\ IsPhase2A(Run(r)) /\ SourceIsAPlan(r)
    /\ LET p == Run(r)
           built == PrototypePage(artifacts[p.source])
       IN  \E n \in 0..3 :    \* files, run list, record
             /\ \/ n = 3 /\ Moves(r, "idle", "done")
                \/ n = 1 /\ TechnicalQA(built) = "BLOCKED" /\ Moves(r, "idle", "failed")
                \/ IOFaults /\ Moves(r, "idle", "failed")
             /\ n > 1 => TechnicalQA(built) = "PASS"
             /\ page' = IF n >= 1 THEN [page EXCEPT ![r] = built] ELSE page
             /\ registered' = IF n >= 2 THEN [registered EXCEPT ![p.project] = @ \cup {r}]
                              ELSE registered
             /\ record' = IF n >= 3 THEN [record EXCEPT ![r] = RecordOf(p)] ELSE record
    /\ UNCHANGED <<payload, plan, artifacts, state>>

----------------------------------------------------------------------------
Serve(r) ==
    \/ Refuse(r) \/ Hold(r) \/ RunElsewhere(r) \/ StartSearch(r) \/ PlanMock(r)
    \/ BuildPrototype(r)
    \/ SearchFails(r) \/ PlannerFails(r) \/ AskPlanner(r) \/ PlannerDecides(r)

\* A request that waits goes on.
Resume(r) ==
    /\ pc[r] \in Waiting
    /\ SearchFails(r) \/ PlannerFails(r) \/ AskPlanner(r) \/ PlannerDecides(r)

Next == \E r \in Request : Serve(r)

Spec == Init /\ [][Next]_vars

\* The event loop goes on with a request whose answer has come; Exa has a
\* timeout of 30 s and the OpenAI client one of its own.
FairSpec == Spec /\ \A r \in Request : WF_vars(Resume(r))

----------------------------------------------------------------------------
(* Properties. *)

\* Words against files, commands or search leave no plan of their run a tool
\* for it, the command runner or a search provider, whichever of the five
\* phrase lists knows the words, and whatever else the command asks for.  Of two
\* other prohibitions less holds.  "no external actions" takes the search tool
\* away and no more: the provider stays selected and a run of research asks it.
\* "do not use gpt-5.5" is not here: the Business Builder planner plans that
\* model all the same, and GatedModelsNeedApproval keeps it from the others.
ForbiddenToolsAreNotPlanned ==
    \A r \in Request : plan[r] # None =>
        LET c == payload[r].command
            agents == plan[r].agents
            tools == UNION {plan[r].tools[a] : a \in agents}
        IN  /\ Says(c, NoFiles \cup NoUpdates) => "project_file_write" \notin tools
            /\ Says(c, NoCommands \cup NoUpdates) =>
                  "safe_command_runner" \notin agents /\ "safe_command" \notin tools
            /\ Says(c, NoSearch) =>
                  "web_search" \notin tools /\ plan[r].provider = NoProvider
            /\ "no external actions" \in c => "web_search" \notin tools

\* A plan has no permission that its request did not give, but for the file
\* writes of an edit of the homepage.
PlansStayWithinTheRequest ==
    \A r \in Request : plan[r] # None =>
        LET p == payload[r]
            tools == UNION {plan[r].tools[a] : a \in plan[r].agents}
        IN  /\ "project_file_write" \in tools => p.writes \/ FocusedUpdate(p.command)
            /\ "safe_command" \in tools => p.commands
            /\ "web_search" \in tools \/ plan[r].provider # NoProvider => p.search

\* No registry model that needs an approval is selected, in mock mode and in
\* live mode: the planner never passes approval ids on.  The Business Builder
\* planner's own model is not selected from the registry.
GatedModelsNeedApproval ==
    \A r \in Request : plan[r] # None =>
        \A a \in plan[r].agents \ {"business_planner_agent"}, i \in DOMAIN Models :
            plan[r].models[a] = Models[i].id => ~Models[i].requires_approval

\* A paid call of the workflow was allowed by the request that waits for it,
\* by the flag of that call and the server's.
WaitsAreAllowed ==
    \A r \in Request :
        /\ pc[r] \in Waiting => payload[r].mode = "live" /\ payload[r].ceo /\ LiveAllowed
        /\ pc[r] = "searching" => payload[r].search /\ ~Says(payload[r].command, NoSearch)

\* What a stored plan tells a later build has passed the system policy,
\* whatever the planner answered: no capability of a shop among the products,
\* no real call to action, no personal data asked for, no public launch, and
\* everything blocked that the user forbids.
StoredPlansAreNarrowed ==
    \A r \in Request : artifacts[r] # None =>
        LET handoff == artifacts[r].build_handoff
            planning == artifacts[r].business_builder_state
        IN  /\ \A i \in DOMAIN handoff.labels : ~NamesCapability(handoff.labels[i].label)
            /\ \A i \in DOMAIN handoff.sections : ~RealCta(handoff.sections[i])
            /\ ~RealCta(handoff.cta) /\ ~PersonalData(handoff.inquiry.fields)
            /\ planning.public = "not_ready" /\ ~planning.build_allowed
            /\ payload[r].forbidden \subseteq planning.external_actions_blocked

\* The planning state of a project is that of a run whose whole package is
\* stored, also when the run failed afterwards or when two planners finish in
\* either order; and the manifest lists a run only when its files are there.
ProjectNamesWrittenRuns ==
    \A p \in Project :
        /\ state[p].run # Nobody =>
              /\ artifacts[state[p].run] # None
              /\ state[p].content = artifacts[state[p].run].business_builder_state
        /\ \A r \in registered[p] : artifacts[r] # None \/ page[r] # None

\* A run that has a record of the given phase.
Recorded(r, phase) == record[r] # None /\ record[r].phase = phase

Pipeline ==
    INSTANCE PlanPipeline WITH
        Requests <- Scenarios,
        PageOf <- PrototypePage,
        Forbidden <- PageForbidden,
        asked <- payload,
        plans <- [r \in Request |-> IF Recorded(r, "1") THEN artifacts[r] ELSE None],
        pages <- [r \in Request |-> IF Recorded(r, "2a") THEN page[r] ELSE None]

\* The record publishes a run: however plans and prototypes overlap and wherever
\* a write fails, a published plan is complete and stays as it is, and a
\* published prototype is the clean page of a plan of its own project that was
\* published before.
PrototypesFollowPlans == Pipeline!Spec

\* A request that waits for Exa or for the planner comes to an end.
RequestsEnd == \A r \in Request : (pc[r] \in Waiting) ~> (pc[r] \in Ended)
=============================================================================

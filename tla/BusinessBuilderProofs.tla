----------------------- MODULE BusinessBuilderProofs -----------------------
(***************************************************************************)
(* Theorems about BusinessBuilder, for every command, every planner and    *)
(* any number of requests and projects: what a run plans stays within the  *)
(* command and the flags of its request, and what is stored and built      *)
(* belongs to a finished plan.                                             *)
(***************************************************************************)
EXTENDS BusinessBuilder, AgentPlanProofs, BusinessPlanProofs, TLAPS

----------------------------------------------------------------------------
(* The intake and the planner, as functions of a request. *)

\* What is left of a request's flags when its command's words were applied.
LEMMA EffectivePayload ==
    ASSUME NEW p \in Payload
    PROVE  /\ Effective(p).mode = p.mode
           /\ Effective(p).ceo => p.ceo
           /\ Effective(p).search => p.search /\ ~Says(p.command, NoSearch)
           /\ Effective(p).writes => WritesAllowed(p)
           /\ Effective(p).commands => p.commands /\ ~Says(p.command, NoUpdates \cup NoCommands)
           /\ p.command \subseteq Effective(p).command
           /\ Effective(p).source = p.source /\ Overrides(p).source = p.source
           /\ Effective(p).forbidden = p.forbidden /\ Effective(p).project = p.project
           /\ IsPhase2A(Effective(p)) = IsPhase2A(Overrides(p))
<1> DEFINE o == Overrides(p)
<1>1. /\ o.mode = p.mode /\ o.source = p.source /\ o.command = p.command
      /\ o.forbidden = p.forbidden /\ o.project = p.project
      /\ o.ceo => p.ceo
      /\ o.search => p.search /\ ~Says(p.command, NoSearch)
      /\ o.writes = WritesAllowed(p)
      /\ o.commands => p.commands /\ ~Says(p.command, NoUpdates \cup NoCommands)
  BY DEF Overrides, Payload
<1>2. DOMAIN o = {"run_type", "phase", "mode", "command", "idea", "forbidden", "project",
                  "source", "confirm", "writes", "commands", "search", "ceo", "agent",
                  "memory", "coding_options", "max_cost"}
  BY DEF Overrides, Payload
<1>3. CASE ~IsPlanning(o)
  BY <1>1, <1>3 DEF Effective, Normalized
<1>4. CASE IsPlanning(o)
  <2>1. Effective(p) =
          [o EXCEPT !.writes = FALSE, !.commands = FALSE, !.agent = FALSE,
                    !.coding_options = FALSE,
                    !.command = IF @ = {"Business Builder Phase 1"} THEN @ \cup o.idea ELSE @]
    BY <1>4 DEF Effective, Normalized
  <2> HIDE DEF o
  <2>2. /\ Effective(p).mode = o.mode /\ Effective(p).ceo = o.ceo
        /\ Effective(p).search = o.search /\ Effective(p).source = o.source
        /\ Effective(p).run_type = o.run_type /\ Effective(p).phase = o.phase
        /\ Effective(p).forbidden = o.forbidden /\ Effective(p).project = o.project
        /\ ~Effective(p).writes /\ ~Effective(p).commands
        /\ o.command \subseteq Effective(p).command
    BY <1>2, <2>1
  <2>3. IsPhase2A(Effective(p)) = IsPhase2A(o)
    BY <2>2 DEF IsPhase2A
  <2>4. p.command \subseteq Effective(p).command
    BY <1>1, <2>2
  <2> QED
    BY <1>1, <2>2, <2>3, <2>4 DEF o
<1> QED
  BY <1>3, <1>4

\* A tool of a plan is one that the request and the command's negative
\* constraints leave to one of its agents.
LEMMA PlannedTools ==
    ASSUME NEW p, NEW tool \in UNION {PlanOf(p).tools[a] : a \in PlanOf(p).agents}
    PROVE  /\ tool = "web_search" => p.search /\ "no external actions" \notin p.command
           /\ tool = "project_file_write" => p.writes
           /\ tool = "safe_command" => p.commands
<1> DEFINE request == PlanRequest(EngineRoute(p), p)
           constraints == NegativeConstraints(request.command)
<1>1. PICK a \in PlanOf(p).agents : tool \in PlanOf(p).tools[a]
  OBVIOUS
<1>2. tool \in AllowedTools(a, request, constraints)
  BY <1>1 DEF PlanOf, Plan
<1>3. /\ tool = "web_search" => request.search /\ "external_actions" \notin constraints
      /\ tool = "project_file_write" => request.writes
      /\ tool = "safe_command" => request.commands
  BY <1>2 DEF AllowedTools
<1>4. /\ request.search = p.search /\ request.command = p.command
      /\ request.writes => p.writes
      /\ request.commands => p.commands
  BY DEF PlanRequest
<1>5. "external_actions" \notin constraints => "no external actions" \notin p.command
  BY <1>4 DEF NegativeConstraints
<1> QED
  BY <1>3, <1>4, <1>5

\* The command runner and a search provider need their flags.
LEMMA PlannedAgents ==
    ASSUME NEW p
    PROVE  /\ "safe_command_runner" \in PlanOf(p).agents => p.commands
           /\ PlanOf(p).provider # NoProvider => p.search
<1> DEFINE request == PlanRequest(EngineRoute(p), p)
           constraints == NegativeConstraints(request.command)
           workflow == WorkflowFor(request.run_type, request.command)
<1>1. PlanOf(p).agents = SelectedAgents(workflow, request, constraints)
  BY DEF PlanOf, Plan
<1>2. "safe_command_runner" \in SelectedAgents(workflow, request, constraints) => request.commands
  BY DEF SelectedAgents
<1>3. PlanOf(p).provider # NoProvider => request.search
  BY DEF PlanOf, Plan, SelectSearch
<1>4. request.search = p.search /\ (request.commands => p.commands)
  BY DEF PlanRequest
<1> QED
  BY <1>1, <1>2, <1>3, <1>4

----------------------------------------------------------------------------
(* Plans. *)

\* A plan is the planner's, for the request with its effective flags.
PlanInv ==
    /\ payload \in Scenarios
    /\ DOMAIN plan = Request
    /\ \A r \in Request :
          plan[r] # None => payload[r] \in Payload /\ plan[r] = PlanOf(Run(r))

LEMMA PostedPayload ==
    ASSUME payload \in Scenarios, NEW r \in Request, payload[r] # NoPayload
    PROVE  payload[r] \in Payload
BY BusinessBuilderAssumption

LEMMA PlanStep ==
    ASSUME PlanInv, [Next]_vars
    PROVE  PlanInv'
<1>1. CASE UNCHANGED vars
  BY <1>1 DEF vars, PlanInv, Run
<1>2. ASSUME NEW r \in Request, Serve(r)
      PROVE  /\ payload' = payload
             /\ \/ plan' = plan
                \/ payload[r] # NoPayload /\ plan' = [plan EXCEPT ![r] = PlanOf(Run(r))]
  BY <1>2 DEF Serve, Refuse, Hold, RunElsewhere, StartSearch, PlanMock, BuildPrototype,
              SearchFails, PlannerFails, AskPlanner, PlannerDecides, PlansNow, Posted, Finish
<1>3. ASSUME NEW r \in Request, Serve(r) PROVE PlanInv'
  BY <1>2, <1>3, PostedPayload DEF PlanInv, Run
<1> QED
  BY <1>1, <1>3 DEF Next

LEMMA PlansAreThePlanners == Spec => []PlanInv
<1>1. Init => PlanInv
  BY DEF Init, PlanInv
<1> QED
  BY <1>1, PlanStep, PTL DEF Spec

\* For every command and every combination of flags and run type: words against
\* files, commands or search leave the plan no tool for it, no command runner
\* and no search provider; "no external actions" leaves it no search tool.
THEOREM ForbiddenToolsNotPlanned == Spec => []ForbiddenToolsAreNotPlanned
<1>1. PlanInv => ForbiddenToolsAreNotPlanned
  <2> SUFFICES ASSUME PlanInv, NEW r \in Request, plan[r] # None
               PROVE  LET c == payload[r].command
                          agents == plan[r].agents
                          tools == UNION {plan[r].tools[a] : a \in agents}
                      IN  /\ Says(c, NoFiles \cup NoUpdates) => "project_file_write" \notin tools
                          /\ Says(c, NoCommands \cup NoUpdates) =>
                                "safe_command_runner" \notin agents /\ "safe_command" \notin tools
                          /\ Says(c, NoSearch) =>
                                "web_search" \notin tools /\ plan[r].provider = NoProvider
                          /\ "no external actions" \in c => "web_search" \notin tools
    BY DEF ForbiddenToolsAreNotPlanned
  <2> DEFINE p == payload[r]
             q == Run(r)
             tools == UNION {plan[r].tools[a] : a \in plan[r].agents}
  <2>1. p \in Payload /\ plan[r] = PlanOf(q) /\ q = Effective(p)
    BY DEF PlanInv, Run
  <2>2. /\ q.search => ~Says(p.command, NoSearch)
        /\ q.writes => ~Says(p.command, NoFiles \cup NoUpdates)
        /\ q.commands => ~Says(p.command, NoCommands \cup NoUpdates)
        /\ p.command \subseteq q.command
    <3>1. NoUpdates \cup NoCommands = NoCommands \cup NoUpdates
      OBVIOUS
    <3> QED
      BY <2>1, <3>1, EffectivePayload DEF WritesAllowed
  <2>3. /\ "web_search" \in tools => q.search /\ "no external actions" \notin q.command
        /\ "project_file_write" \in tools => q.writes
        /\ "safe_command" \in tools => q.commands
    BY <2>1, PlannedTools
  <2>4. /\ "safe_command_runner" \in plan[r].agents => q.commands
        /\ plan[r].provider # NoProvider => q.search
    BY <2>1, PlannedAgents
  <2> HIDE DEF q, tools
  <2> QED
    BY <2>2, <2>3, <2>4 DEF tools
<1> QED
  BY <1>1, PlansAreThePlanners, PTL

\* No plan of any run type goes beyond the flags of its request, but for the
\* file writes of a focused homepage edit.
THEOREM PlansWithinRequest == Spec => []PlansStayWithinTheRequest
<1>1. PlanInv => PlansStayWithinTheRequest
  <2> SUFFICES ASSUME PlanInv, NEW r \in Request, plan[r] # None
               PROVE  LET p == payload[r]
                          tools == UNION {plan[r].tools[a] : a \in plan[r].agents}
                      IN  /\ "project_file_write" \in tools => p.writes \/ FocusedUpdate(p.command)
                          /\ "safe_command" \in tools => p.commands
                          /\ "web_search" \in tools \/ plan[r].provider # NoProvider => p.search
    BY DEF PlansStayWithinTheRequest
  <2> DEFINE p == payload[r]
             q == Run(r)
             tools == UNION {plan[r].tools[a] : a \in plan[r].agents}
  <2>1. p \in Payload /\ plan[r] = PlanOf(q) /\ q = Effective(p)
    BY DEF PlanInv, Run
  <2>2. /\ q.search => p.search
        /\ q.writes => p.writes \/ FocusedUpdate(p.command)
        /\ q.commands => p.commands
    BY <2>1, EffectivePayload DEF WritesAllowed, Escalates
  <2>3. /\ "web_search" \in tools => q.search
        /\ "project_file_write" \in tools => q.writes
        /\ "safe_command" \in tools => q.commands
    BY <2>1, PlannedTools
  <2>4. plan[r].provider # NoProvider => q.search
    BY <2>1, PlannedAgents
  <2> HIDE DEF q, tools
  <2> QED
    BY <2>2, <2>3, <2>4 DEF tools
<1> QED
  BY <1>1, PlansAreThePlanners, PTL
\* No plan of any run type, in either mode, gives an agent a model of the
\* registry that needs an approval; only the planner of the Business Builder
\* names such a model, which it does not take from the registry.
THEOREM GatedModelsAreNotPlanned == Spec => []GatedModelsNeedApproval
<1>1. PlanInv => GatedModelsNeedApproval
  BY PlannedModelsAreUngated DEF PlanInv, PlanOf, GatedModelsNeedApproval
<1> QED
  BY <1>1, PlansAreThePlanners, PTL

----------------------------------------------------------------------------
(* Calls that are paid. *)

\* A request that waits is a planning run in live mode, with its flags.
WaitInv ==
    /\ DOMAIN pc = Request
    /\ \A r \in Request : pc[r] \in Waiting =>
          /\ payload[r] \in Payload /\ LiveAllowed
          /\ IsPlanning(Run(r)) /\ Run(r).mode = "live" /\ Run(r).ceo
          /\ pc[r] = "searching" => Run(r).search

LEMMA WaitStep ==
    ASSUME PlanInv, WaitInv, [Next]_vars
    PROVE  WaitInv'
<1>1. CASE UNCHANGED vars
  BY <1>1 DEF vars, WaitInv, Run
<1>2. ASSUME NEW r \in Request, Serve(r) PROVE WaitInv'
  <2>1. payload' = payload
    BY <1>2 DEF Serve, Refuse, Hold, RunElsewhere, StartSearch, PlanMock, BuildPrototype,
                SearchFails, PlannerFails, AskPlanner, PlannerDecides, Finish
  <2>2. CASE \E to \in Ended : pc' = [pc EXCEPT ![r] = to]
    BY <2>1, <2>2 DEF WaitInv, Waiting, Ended, Run
  <2>3. CASE StartSearch(r) \/ AskPlanner(r)
    <3>1. PICK to \in Waiting \cup Ended :
            /\ pc' = [pc EXCEPT ![r] = to]
            /\ to = "searching" => Run(r).search /\ PlansNow(r)
            /\ pc[r] # "searching" => PlansNow(r) /\ Run(r).mode = "live"
      BY <2>3 DEF StartSearch, AskPlanner, AsksExa, Moves, Waiting, Ended
    <3>2. PlansNow(r) => payload[r] \in Payload /\ IsPlanning(Run(r)) /\ ~EngineRefuses(Run(r))
      BY PostedPayload DEF PlansNow, Posted, PlanInv
    <3>3. Run(r).mode = "live" /\ IsPlanning(Run(r)) /\ ~EngineRefuses(Run(r))
            => LiveAllowed /\ Run(r).ceo
      BY DEF EngineRefuses
    <3>4. /\ payload[r] \in Payload /\ LiveAllowed
          /\ IsPlanning(Run(r)) /\ Run(r).mode = "live" /\ Run(r).ceo
      BY <3>1, <3>2, <3>3 DEF WaitInv, Waiting
    <3> QED
      BY <2>1, <3>1, <3>4 DEF WaitInv, Run
  <2>4. Serve(r) => StartSearch(r) \/ AskPlanner(r) \/ \E to \in Ended : pc' = [pc EXCEPT ![r] = to]
    BY DEF Serve, Refuse, Hold, RunElsewhere, PlanMock, BuildPrototype, SearchFails,
           PlannerFails, PlannerDecides, Finish, Moves, Ended
  <2> QED
    BY <1>2, <2>2, <2>3, <2>4
<1> QED
  BY <1>1, <1>2 DEF Next

LEMMA WaitersHold == Spec => []WaitInv
<1>1. Init => WaitInv
  BY DEF Init, WaitInv, Waiting
<1> QED
  BY <1>1, WaitStep, PlansAreThePlanners, PTL DEF Spec

\* Exa and the planner are called only for a live request that carries the
\* flag of that call and whose command does not forbid it.
THEOREM WaitsAllowed == Spec => []WaitsAreAllowed
<1>1. WaitInv => WaitsAreAllowed
  <2> SUFFICES ASSUME WaitInv, NEW r \in Request, pc[r] \in Waiting
               PROVE  /\ payload[r].mode = "live" /\ payload[r].ceo /\ LiveAllowed
                      /\ pc[r] = "searching" =>
                            payload[r].search /\ ~Says(payload[r].command, NoSearch)
    BY DEF WaitsAreAllowed, Waiting
  <2> QED
    BY EffectivePayload DEF WaitInv, Run
<1> QED
  BY <1>1, WaitersHold, PTL

----------------------------------------------------------------------------
(* What is stored. *)

\* Finish writes the first n of its four steps, and ends the run.
LEMMA FinishWrites ==
    ASSUME NEW r \in Request, NEW from, NEW answer, Finish(r, from, answer)
    PROVE  /\ pc[r] = from /\ \E to \in Ended : pc' = [pc EXCEPT ![r] = to]
           /\ UNCHANGED <<payload, page>>
           /\ \E n \in 0..4 :
                LET p == Run(r)
                    bundle == Bundle(Decisions(answer), p.forbidden)
                IN  /\ artifacts' = IF n >= 1 THEN [artifacts EXCEPT ![r] = bundle] ELSE artifacts
                    /\ state' = IF n >= 2
                                THEN [state EXCEPT ![p.project] =
                                        [run |-> r, content |-> bundle.business_builder_state]]
                                ELSE state
                    /\ registered' = IF n >= 3
                                     THEN [registered EXCEPT ![p.project] = @ \cup {r}]
                                     ELSE registered
                    /\ record' = IF n >= 4 THEN [record EXCEPT ![r] = RecordOf(p)] ELSE record
<1> DEFINE done(n) == {FinishSteps[i] : i \in 1..n}
<1>1. \A n \in 0..4 : /\ "artifacts" \in done(n) <=> n >= 1
                      /\ "state" \in done(n) <=> n >= 2
                      /\ "register" \in done(n) <=> n >= 3
                      /\ "record" \in done(n) <=> n >= 4
  BY DEF FinishSteps
<1>2. pc[r] = from /\ \E to \in Ended : pc' = [pc EXCEPT ![r] = to]
  BY DEF Finish, Moves, Ended
<1> HIDE DEF done
<1>3. UNCHANGED <<payload, page>>
  BY DEF Finish
<1>4. \E n \in 0..4 :
                LET p == Run(r)
                    bundle == Bundle(Decisions(answer), p.forbidden)
                IN  /\ artifacts' = IF n >= 1 THEN [artifacts EXCEPT ![r] = bundle] ELSE artifacts
                    /\ state' = IF n >= 2
                                THEN [state EXCEPT ![p.project] =
                                        [run |-> r, content |-> bundle.business_builder_state]]
                                ELSE state
                    /\ registered' = IF n >= 3
                                     THEN [registered EXCEPT ![p.project] = @ \cup {r}]
                                     ELSE registered
                    /\ record' = IF n >= 4 THEN [record EXCEPT ![r] = RecordOf(p)] ELSE record
  <2>1. PICK n \in 0..4 :
                LET p == Run(r)
                    bundle == Bundle(Decisions(answer), p.forbidden)
                IN  /\ artifacts' = IF "artifacts" \in done(n)
                                    THEN [artifacts EXCEPT ![r] = bundle] ELSE artifacts
                    /\ state' = IF "state" \in done(n)
                                THEN [state EXCEPT ![p.project] =
                                        [run |-> r, content |-> bundle.business_builder_state]]
                                ELSE state
                    /\ registered' = IF "register" \in done(n)
                                     THEN [registered EXCEPT ![p.project] = @ \cup {r}]
                                     ELSE registered
                    /\ record' = IF "record" \in done(n)
                                 THEN [record EXCEPT ![r] = RecordOf(p)] ELSE record
    BY DEF Finish, done
  <2> QED
    BY <1>1, <2>1
<1> QED
  BY <1>2, <1>3, <1>4

\* Whatever a run that is still under way will write is not there yet, and
\* what is stored names runs that have written it.
StoreInv ==
    /\ DOMAIN artifacts = Request /\ DOMAIN page = Request /\ DOMAIN record = Request
    /\ DOMAIN state = Project /\ DOMAIN registered = Project
    /\ \A r \in Request : pc[r] \notin Ended =>
          /\ artifacts[r] = None /\ page[r] = None /\ record[r] = None
          /\ \A p \in Project : state[p].run # r /\ r \notin registered[p]

\* A step stores something in the name of one run, which it ends.
LEMMA StoreEffects ==
    ASSUME PlanInv, WaitInv, StoreInv, [Next]_vars
    PROVE  \/ UNCHANGED files /\ payload' = payload
              /\ \A s \in Request : pc[s] \in Ended => pc'[s] = pc[s]
           \/ \E r \in Request : \E answer \in PlannerAnswer :
                 /\ payload[r] \in Payload /\ pc[r] \notin Ended /\ IsPlanning(Run(r))
                 /\ HaveStatus(answer.strategy.labels) /\ Finish(r, pc[r], answer)
           \/ \E r \in Request : pc[r] \notin Ended /\ BuildPrototype(r)
<1>1. CASE UNCHANGED vars
  BY <1>1 DEF vars, files
<1>2. ASSUME NEW r \in Request,
             Refuse(r) \/ Hold(r) \/ RunElsewhere(r) \/ StartSearch(r)
             \/ SearchFails(r) \/ PlannerFails(r) \/ AskPlanner(r)
      PROVE  /\ UNCHANGED files /\ payload' = payload
             /\ \A s \in Request : pc[s] \in Ended => pc'[s] = pc[s]
  BY <1>2 DEF Refuse, Hold, RunElsewhere, StartSearch, SearchFails, PlannerFails, AskPlanner,
              PlansNow, Posted, Moves, Ended, WaitInv
<1>3. ASSUME NEW r \in Request, PlanMock(r)
      PROVE  /\ payload[r] \in Payload /\ pc[r] \notin Ended /\ IsPlanning(Run(r))
             /\ Finish(r, pc[r], MockAnswer)
  BY <1>3, PostedPayload DEF PlanMock, PlansNow, Posted, Ended, PlanInv
<1>4. ASSUME NEW r \in Request, PlannerDecides(r)
      PROVE  /\ payload[r] \in Payload /\ pc[r] \notin Ended /\ IsPlanning(Run(r))
             /\ \E answer \in PlannerAnswer :
                   HaveStatus(answer.strategy.labels) /\ Finish(r, pc[r], answer)
  <2>1. PICK answer \in Answers : Accepts(answer) /\ Finish(r, "asking", answer)
    BY <1>4 DEF PlannerDecides
  <2>2. pc[r] = "asking"
    BY <2>1, FinishWrites
  <2>3. answer \in PlannerAnswer /\ HaveStatus(answer.strategy.labels)
    BY <2>1, BusinessBuilderAssumption DEF Accepts
  <2> QED
    BY <2>1, <2>2, <2>3 DEF WaitInv, Waiting, Ended
<1>5. ASSUME NEW r \in Request, BuildPrototype(r) PROVE pc[r] \notin Ended
  BY <1>5 DEF BuildPrototype, Posted, Ended
<1> QED
  BY <1>1, <1>2, <1>3, <1>4, <1>5, MockAnswerTyped DEF Next, Serve

LEMMA StoreStep ==
    ASSUME PlanInv, WaitInv, StoreInv, [Next]_vars
    PROVE  StoreInv'
<1>1. CASE UNCHANGED files /\ \A s \in Request : pc[s] \in Ended => pc'[s] = pc[s]
  BY <1>1 DEF StoreInv, files
<1>2. ASSUME NEW r \in Request, NEW answer, Finish(r, pc[r], answer) PROVE StoreInv'
  <2>1. \A s \in Request : s # r => pc'[s] = pc[s]
    BY <1>2, FinishWrites DEF WaitInv
  <2>2. pc'[r] \in Ended
    BY <1>2, FinishWrites DEF WaitInv
  <2>3. PICK n \in 0..4 :
                LET p == Run(r)
                    bundle == Bundle(Decisions(answer), p.forbidden)
                IN  /\ artifacts' = IF n >= 1 THEN [artifacts EXCEPT ![r] = bundle] ELSE artifacts
                    /\ state' = IF n >= 2
                                THEN [state EXCEPT ![p.project] =
                                        [run |-> r, content |-> bundle.business_builder_state]]
                                ELSE state
                    /\ registered' = IF n >= 3
                                     THEN [registered EXCEPT ![p.project] = @ \cup {r}]
                                     ELSE registered
                    /\ record' = IF n >= 4 THEN [record EXCEPT ![r] = RecordOf(p)] ELSE record
    BY <1>2, FinishWrites
  <2>4. page' = page
    BY <1>2, FinishWrites
  <2>5. /\ DOMAIN artifacts' = Request /\ DOMAIN page' = Request /\ DOMAIN record' = Request
        /\ DOMAIN state' = Project /\ DOMAIN registered' = Project
    BY <2>3, <2>4 DEF StoreInv
  <2>6. ASSUME NEW s \in Request, s # r
        PROVE  /\ artifacts'[s] = artifacts[s] /\ page'[s] = page[s] /\ record'[s] = record[s]
               /\ \A p \in Project : state'[p] = state[p] \/ state'[p].run = r
               /\ \A p \in Project : s \in registered'[p] => s \in registered[p]
    BY <2>3, <2>4, <2>6 DEF StoreInv
  <2> QED
    BY <2>1, <2>2, <2>5, <2>6 DEF StoreInv
<1>3. ASSUME NEW r \in Request, BuildPrototype(r) PROVE StoreInv'
  <2>1. PICK to \in Ended : pc' = [pc EXCEPT ![r] = to]
    BY <1>3 DEF BuildPrototype, Moves, Ended
  <2>2. /\ DOMAIN artifacts' = Request /\ DOMAIN page' = Request /\ DOMAIN record' = Request
        /\ DOMAIN state' = Project /\ DOMAIN registered' = Project
    BY <1>3 DEF BuildPrototype, StoreInv
  <2>3. ASSUME NEW s \in Request, s # r
        PROVE  /\ artifacts'[s] = artifacts[s] /\ page'[s] = page[s] /\ record'[s] = record[s]
               /\ state' = state
               /\ \A p \in Project : s \in registered'[p] => s \in registered[p]
    BY <1>3, <2>3 DEF BuildPrototype, StoreInv
  <2> QED
    BY <2>1, <2>2, <2>3 DEF StoreInv, WaitInv
<1> QED
  BY <1>1, <1>2, <1>3, StoreEffects

LEMMA NothingIsThereEarly == Spec => []StoreInv
<1>1. Init => StoreInv
  BY BusinessBuilderAssumption DEF Init, StoreInv
<1> QED
  BY <1>1, StoreStep, PlansAreThePlanners, WaitersHold, PTL DEF Spec

----------------------------------------------------------------------------
(* What the stores hold. *)

\* A prototype is built from the record and the package of another request.
LEMMA SourceOfAPrototype ==
    ASSUME payload \in Scenarios, NEW r \in Request, BuildPrototype(r)
    PROVE  /\ payload[r] \in Payload
           /\ Run(r).source \in Request
           /\ record[Run(r).source] # None /\ artifacts[Run(r).source] # None
<1>1. /\ payload[r] \in Payload /\ SourceIsAPlan(r) /\ IsPhase2A(Run(r))
      /\ ~IntakeRefuses(Overrides(payload[r]))
  BY PostedPayload DEF BuildPrototype, Posted
<1>2. /\ Run(r).source = payload[r].source /\ Overrides(payload[r]).source = payload[r].source
      /\ IsPhase2A(Overrides(payload[r]))
  BY <1>1, EffectivePayload DEF Run
<1>3. payload[r].source # Nobody
  BY <1>1, <1>2 DEF IntakeRefuses, Phase2APayload
<1>4. payload[r].source \in Request
  BY <1>1, <1>3 DEF Payload
<1> QED
  BY <1>1, <1>2, <1>4 DEF SourceIsAPlan

\* What a finished planning run writes has its type.
LEMMA FinishedPackage ==
    ASSUME NEW r \in Request, payload[r] \in Payload,
           NEW answer \in PlannerAnswer, HaveStatus(answer.strategy.labels)
    PROVE  LET bundle == Bundle(Decisions(answer), Run(r).forbidden)
           IN  /\ bundle \in Package /\ bundle # None
               /\ bundle = Bundle(Decisions(answer), payload[r].forbidden)
               /\ bundle.business_builder_state \in StoredState
               /\ Run(r).project \in Project
<1>1. Run(r).forbidden = payload[r].forbidden /\ Run(r).project = payload[r].project
  BY EffectivePayload DEF Run
<1>2. payload[r].forbidden \in SUBSET STRING /\ payload[r].project \in Project
  BY DEF Payload
<1>3. Decisions(answer) \in NarrowedDecisions
  BY DecisionsAreNarrowed
<1> DEFINE bundle == Bundle(Decisions(answer), Run(r).forbidden)
<1>4. bundle \in Package
  BY <1>1, <1>2, <1>3, BundleIsAPackage
<1> HIDE DEF bundle
<1>5. bundle # None /\ bundle.business_builder_state \in StoredState
  BY <1>4, BusinessBuilderAssumption DEF Package
<1> QED
  BY <1>1, <1>2, <1>4, <1>5 DEF bundle

LEMMA PcStep ==
    ASSUME pc \in [Request -> {"idle"} \cup Waiting \cup Ended], [Next]_vars
    PROVE  pc' \in [Request -> {"idle"} \cup Waiting \cup Ended]
<1>1. CASE UNCHANGED vars
  BY <1>1 DEF vars
<1>2. ASSUME NEW r \in Request, Serve(r)
      PROVE  \E to \in Waiting \cup Ended : pc' = [pc EXCEPT ![r] = to]
  BY <1>2 DEF Serve, Refuse, Hold, RunElsewhere, StartSearch, PlanMock, BuildPrototype,
              SearchFails, PlannerFails, AskPlanner, PlannerDecides, Finish, Moves, Waiting, Ended
<1> QED
  BY <1>1, <1>2 DEF Next

\* Every stored package is what the system policy makes of an accepted answer,
\* for what the request forbids.
PackageInv ==
    \A r \in Request : artifacts[r] # None =>
        /\ payload[r] \in Payload
        /\ \E answer \in PlannerAnswer :
              /\ HaveStatus(answer.strategy.labels)
              /\ artifacts[r] = Bundle(Decisions(answer), payload[r].forbidden)

LEMMA PackageStep ==
    ASSUME PlanInv, WaitInv, StoreInv, PackageInv, [Next]_vars
    PROVE  PackageInv'
<1>1. CASE UNCHANGED <<artifacts, payload>>
  BY <1>1 DEF PackageInv
<1>2. ASSUME NEW r \in Request, NEW answer \in PlannerAnswer, payload[r] \in Payload,
             HaveStatus(answer.strategy.labels), Finish(r, pc[r], answer)
      PROVE  PackageInv'
  <2> DEFINE bundle == Bundle(Decisions(answer), Run(r).forbidden)
  <2>1. payload' = payload /\ (artifacts' = artifacts \/ artifacts' = [artifacts EXCEPT ![r] = bundle])
    BY <1>2, FinishWrites
  <2>2. bundle = Bundle(Decisions(answer), payload[r].forbidden)
    BY <1>2, FinishedPackage
  <2> HIDE DEF bundle
  <2>3. \A s \in Request : artifacts'[s] = artifacts[s] \/ (s = r /\ artifacts'[s] = bundle)
    BY <2>1 DEF StoreInv
  <2> QED
    BY <1>2, <2>1, <2>2, <2>3 DEF PackageInv
<1>3. ASSUME NEW r \in Request, BuildPrototype(r) PROVE UNCHANGED <<artifacts, payload>>
  BY <1>3 DEF BuildPrototype
<1> QED
  BY <1>1, <1>2, <1>3, StoreEffects DEF files

LEMMA PackagesHold == Spec => []PackageInv
<1>1. Init => PackageInv
  BY DEF Init, PackageInv
<1> QED
  BY <1>1, PackageStep, PlansAreThePlanners, WaitersHold, NothingIsThereEarly, PTL DEF Spec

\* The types of what the files of a step leave.
FilesOK ==
    /\ artifacts \in [Request -> {None} \cup Package]
    /\ page \in [Request -> {None} \cup SUBSET Term]
    /\ record \in [Request -> {None} \cup [phase : {"1", "2a"}, project : Project,
                                           version : {"1.1"}]]
    /\ state \in [Project -> [run : {Nobody} \cup Request, content : {None} \cup StoredState]]
    /\ registered \in [Project -> SUBSET Request]

LEMMA FilesStep ==
    ASSUME PlanInv, WaitInv, StoreInv, FilesOK, [Next]_vars
    PROVE  FilesOK'
<1>1. CASE UNCHANGED files
  BY <1>1 DEF files, FilesOK
<1>2. ASSUME NEW r \in Request, Run(r).project \in Project
      PROVE  RecordOf(Run(r)) \in [phase : {"1", "2a"}, project : Project, version : {"1.1"}]
  BY <1>2 DEF RecordOf
<1>3. ASSUME NEW r \in Request, NEW answer \in PlannerAnswer, payload[r] \in Payload,
             HaveStatus(answer.strategy.labels), Finish(r, pc[r], answer)
      PROVE  FilesOK'
  <2> DEFINE bundle == Bundle(Decisions(answer), Run(r).forbidden)
             project == Run(r).project
  <2>1. /\ bundle \in Package /\ bundle.business_builder_state \in StoredState
        /\ project \in Project
    BY <1>3, FinishedPackage
  <2>2. /\ artifacts' = artifacts \/ artifacts' = [artifacts EXCEPT ![r] = bundle]
        /\ \/ state' = state
           \/ state' = [state EXCEPT ![project] = [run |-> r,
                                                   content |-> bundle.business_builder_state]]
        /\ registered' = registered \/ registered' = [registered EXCEPT ![project] = @ \cup {r}]
        /\ record' = record \/ record' = [record EXCEPT ![r] = RecordOf(Run(r))]
        /\ page' = page
    BY <1>3, FinishWrites
  <2> HIDE DEF bundle, project
  <2>3. artifacts' \in [Request -> {None} \cup Package]
    BY <2>1, <2>2 DEF FilesOK
  <2>4. state' \in [Project -> [run : {Nobody} \cup Request, content : {None} \cup StoredState]]
    BY <2>1, <2>2 DEF FilesOK
  <2>5. registered' \in [Project -> SUBSET Request]
    BY <2>1, <2>2 DEF FilesOK
  <2>6. record' \in [Request -> {None} \cup [phase : {"1", "2a"}, project : Project,
                                             version : {"1.1"}]]
    BY <1>2, <2>1, <2>2 DEF FilesOK, project
  <2> QED
    BY <2>2, <2>3, <2>4, <2>5, <2>6 DEF FilesOK
<1>4. ASSUME NEW r \in Request, BuildPrototype(r) PROVE FilesOK'
  <2> DEFINE source == Run(r).source
             built == PrototypePage(artifacts[source])
             project == Run(r).project
  <2>1. payload[r] \in Payload /\ source \in Request /\ artifacts[source] # None
    BY <1>4, SourceOfAPrototype DEF PlanInv
  <2>2. project \in Project
    BY <2>1, EffectivePayload DEF Run, Payload
  <2>3. built \in SUBSET Term
    <3>1. artifacts[source].strategic_decisions \in NarrowedDecisions
      BY <2>1 DEF FilesOK, Package
    <3> QED
      BY <3>1, PageIsText DEF PrototypePage
  <2>4. /\ page' = page \/ page' = [page EXCEPT ![r] = built]
        /\ registered' = registered \/ registered' = [registered EXCEPT ![project] = @ \cup {r}]
        /\ record' = record \/ record' = [record EXCEPT ![r] = RecordOf(Run(r))]
        /\ artifacts' = artifacts /\ state' = state
    BY <1>4 DEF BuildPrototype
  <2> HIDE DEF built, project
  <2>5. page' \in [Request -> {None} \cup SUBSET Term]
    BY <2>3, <2>4 DEF FilesOK
  <2>6. registered' \in [Project -> SUBSET Request]
    BY <2>2, <2>4 DEF FilesOK
  <2>7. record' \in [Request -> {None} \cup [phase : {"1", "2a"}, project : Project,
                                             version : {"1.1"}]]
    BY <1>2, <2>2, <2>4 DEF FilesOK, project
  <2> QED
    BY <2>4, <2>5, <2>6, <2>7 DEF FilesOK
<1> QED
  BY <1>1, <1>3, <1>4, StoreEffects

LEMMA FilesAreTyped == Spec => []FilesOK
<1>1. Init => FilesOK
  BY BusinessBuilderAssumption DEF Init, FilesOK
<1> QED
  BY <1>1, FilesStep, PlansAreThePlanners, WaitersHold, NothingIsThereEarly, PTL DEF Spec

\* For any number of requests and projects, any scenario of payloads and
\* whatever a planner answers: the stored packages are made of decisions that
\* the policy has narrowed, and the pages of texts.
THEOREM TypesHold == Spec => []TypeOK
<1> DEFINE PcOK == pc \in [Request -> {"idle"} \cup Waiting \cup Ended]
<1>1. Init => PcOK
  BY DEF Init
<1>2. PcOK /\ [Next]_vars => PcOK'
  BY PcStep
<1>3. PlanInv /\ FilesOK /\ PcOK => TypeOK
  BY DEF TypeOK, PlanInv, FilesOK
<1> HIDE DEF PcOK
<1> QED
  BY <1>1, <1>2, <1>3, PlansAreThePlanners, FilesAreTyped, PTL DEF Spec

\* What a package of an accepted answer says, for a request's forbidden actions.
LEMMA PackageIsNarrowed ==
    ASSUME NEW answer \in PlannerAnswer, HaveStatus(answer.strategy.labels),
           NEW forbidden \in SUBSET STRING, NEW package,
           package = Bundle(Decisions(answer), forbidden)
    PROVE  LET handoff == package.build_handoff
               planning == package.business_builder_state
           IN  /\ \A i \in DOMAIN handoff.labels : ~NamesCapability(handoff.labels[i].label)
               /\ \A i \in DOMAIN handoff.sections : ~RealCta(handoff.sections[i])
               /\ ~RealCta(handoff.cta) /\ ~PersonalData(handoff.inquiry.fields)
               /\ planning.public = "not_ready" /\ ~planning.build_allowed
               /\ forbidden \subseteq planning.external_actions_blocked
               /\ PolicyQA(handoff).behavior = "BLOCKED"
<1> DEFINE d == Decisions(answer)
<1>1. /\ d \in NarrowedDecisions
      /\ \A i \in DOMAIN d.labels : ~NamesCapability(d.labels[i].label)
      /\ \A i \in DOMAIN d.sections : ~RealCta(d.sections[i])
  BY DecisionsAreNarrowed
<1>2. PolicyQA(Handoff(d)).behavior = "BLOCKED"
  BY PolicyQaOfAnyAnswer
<1> HIDE DEF d
<1>3. package.build_handoff = Handoff(d)
      /\ package.business_builder_state = PlanningState(d, forbidden)
  BY <1>1, BundleIsAPackage DEF d
<1>4. /\ Handoff(d).labels = d.labels /\ Handoff(d).sections = d.sections
      /\ Handoff(d).cta = CanonicalCta /\ Handoff(d).inquiry = CanonicalInquiry
  BY <1>1 DEF Handoff, NarrowedDecisions
<1>5. /\ PlanningState(d, forbidden).public = "not_ready"
      /\ ~PlanningState(d, forbidden).build_allowed
      /\ forbidden \subseteq PlanningState(d, forbidden).external_actions_blocked
  BY <1>1 DEF PlanningState, NarrowedDecisions, BlockedExternalActions
<1>6. ~RealCta(CanonicalCta) /\ ~PersonalData(CanonicalInquiry.fields)
  <2>1. CanonicalInquiry.fields = {"words"} /\ CanonicalCta = {"words"}
    BY DEF CanonicalInquiry, CanonicalCta
  <2> QED
    BY <2>1 DEF RealCta, PersonalData
<1> QED
  BY <1>1, <1>2, <1>3, <1>4, <1>5, <1>6

\* The planning QA is to check "local-only inquiry behavior"
\* (docs/business_builder_v1_architecture.md:113-121), and the system policy has
\* made every stored plan local-only. Its own wording of the inquiry holds
\* phrases that execution_engine.py:5612 looks for: every stored plan is BLOCKED.
StoredPlansFailInquiryQA ==
    \A r \in Request : artifacts[r] # None =>
        PolicyQA(artifacts[r].build_handoff).behavior = "BLOCKED"

LEMMA PackagesAreNarrowed ==
    PackageInv => StoredPlansAreNarrowed /\ StoredPlansFailInquiryQA
<1> SUFFICES ASSUME PackageInv, NEW r \in Request, artifacts[r] # None
             PROVE  LET handoff == artifacts[r].build_handoff
                        planning == artifacts[r].business_builder_state
                    IN  /\ \A i \in DOMAIN handoff.labels :
                              ~NamesCapability(handoff.labels[i].label)
                        /\ \A i \in DOMAIN handoff.sections : ~RealCta(handoff.sections[i])
                        /\ ~RealCta(handoff.cta) /\ ~PersonalData(handoff.inquiry.fields)
                        /\ planning.public = "not_ready" /\ ~planning.build_allowed
                        /\ payload[r].forbidden \subseteq planning.external_actions_blocked
                        /\ PolicyQA(handoff).behavior = "BLOCKED"
  BY DEF StoredPlansAreNarrowed, StoredPlansFailInquiryQA
<1>1. payload[r].forbidden \in SUBSET STRING
  BY DEF PackageInv, Payload
<1>2. PICK answer \in PlannerAnswer :
        /\ HaveStatus(answer.strategy.labels)
        /\ artifacts[r] = Bundle(Decisions(answer), payload[r].forbidden)
  BY DEF PackageInv
<1> QED
  BY <1>1, <1>2, PackageIsNarrowed

\* Whatever the planner answers and whatever it is asked, a stored plan sells
\* nothing, asks for no personal data, allows no build and blocks all that its
\* request forbids.
THEOREM StoredPlansNarrowed == Spec => []StoredPlansAreNarrowed
BY PackagesHold, PackagesAreNarrowed, PTL

\* The planning QA's check of the inquiry's behavior (execution_engine.py:5612)
\* never passes: it blocks every plan that the workflow stores, whatever the
\* planner answered.
THEOREM StoredPlansFailInquiry == Spec => []StoredPlansFailInquiryQA
BY PackagesHold, PackagesAreNarrowed, PTL

----------------------------------------------------------------------------
(* The state of a project. *)

LEMMA ProjectStep ==
    ASSUME PlanInv, WaitInv, StoreInv, FilesOK, ProjectNamesWrittenRuns, [Next]_vars
    PROVE  ProjectNamesWrittenRuns'
<1>1. CASE UNCHANGED files
  BY <1>1 DEF files, ProjectNamesWrittenRuns
<1>0. \A p \in Project : state[p].run \in Request \cup {Nobody} /\ registered[p] \subseteq Request
  BY DEF FilesOK
<1>2. ASSUME NEW r \in Request, NEW answer \in PlannerAnswer, payload[r] \in Payload,
             HaveStatus(answer.strategy.labels), pc[r] \notin Ended, Finish(r, pc[r], answer)
      PROVE  ProjectNamesWrittenRuns'
  <2>1. PICK n \in 0..4 :
                LET p == Run(r)
                    bundle == Bundle(Decisions(answer), p.forbidden)
                IN  /\ artifacts' = IF n >= 1 THEN [artifacts EXCEPT ![r] = bundle] ELSE artifacts
                    /\ state' = IF n >= 2
                                THEN [state EXCEPT ![p.project] =
                                        [run |-> r, content |-> bundle.business_builder_state]]
                                ELSE state
                    /\ registered' = IF n >= 3
                                     THEN [registered EXCEPT ![p.project] = @ \cup {r}]
                                     ELSE registered
                    /\ record' = IF n >= 4 THEN [record EXCEPT ![r] = RecordOf(p)] ELSE record
    BY <1>2, FinishWrites
  <2> DEFINE bundle == Bundle(Decisions(answer), Run(r).forbidden)
  <2>2. bundle # None /\ page' = page
    BY <1>2, FinishWrites, FinishedPackage
  <2>3. \A s \in Request : s # r => artifacts'[s] = artifacts[s]
    BY <2>1 DEF StoreInv
  <2>4. n >= 1 => artifacts'[r] = bundle
    BY <2>1 DEF StoreInv
  <2> HIDE DEF bundle
  <2>5. ASSUME NEW p \in Project
        PROVE  /\ \/ state'[p] = state[p]
                  \/ n >= 2 /\ state'[p] = [run |-> r, content |-> bundle.business_builder_state]
               /\ registered'[p] = registered[p] \/ (n >= 3 /\ registered'[p] = registered[p] \cup {r})
    BY <2>1 DEF StoreInv, bundle
  <2>6. ASSUME NEW p \in Project
        PROVE  state'[p].run # Nobody =>
                  /\ artifacts'[state'[p].run] # None
                  /\ state'[p].content = artifacts'[state'[p].run].business_builder_state
    <3>1. CASE state'[p] = state[p]
      BY <1>0, <1>2, <2>3, <3>1 DEF StoreInv, ProjectNamesWrittenRuns
    <3>2. CASE n >= 2 /\ state'[p] = [run |-> r, content |-> bundle.business_builder_state]
      BY <2>2, <2>4, <3>2
    <3> QED
      BY <2>5, <3>1, <3>2
  <2>7. ASSUME NEW p \in Project
        PROVE  \A s \in registered'[p] : artifacts'[s] # None \/ page'[s] # None
    <3>1. \A s \in registered[p] : s # r /\ s \in Request
      BY <1>0, <1>2 DEF StoreInv
    <3> QED
      BY <2>2, <2>3, <2>4, <2>5, <3>1 DEF ProjectNamesWrittenRuns
  <2> QED
    BY <2>6, <2>7 DEF ProjectNamesWrittenRuns
<1>3. ASSUME NEW r \in Request, pc[r] \notin Ended, BuildPrototype(r)
      PROVE  ProjectNamesWrittenRuns'
  <2> DEFINE built == PrototypePage(artifacts[Run(r).source])
  <2>1. PICK n \in 0..3 :
          /\ page' = IF n >= 1 THEN [page EXCEPT ![r] = built] ELSE page
          /\ registered' = IF n >= 2 THEN [registered EXCEPT ![Run(r).project] = @ \cup {r}]
                           ELSE registered
    BY <1>3 DEF BuildPrototype
  <2>2. artifacts' = artifacts /\ state' = state
    BY <1>3 DEF BuildPrototype
  <2>3. built # None
    <3>1. artifacts[Run(r).source].strategic_decisions \in NarrowedDecisions
      BY <1>3, SourceOfAPrototype DEF PlanInv, FilesOK, Package
    <3> QED
      BY <3>1, PageIsText, BusinessBuilderAssumption DEF PrototypePage
  <2> HIDE DEF built
  <2>4. (n >= 1 => page'[r] = built) /\ \A s \in Request : s # r => page'[s] = page[s]
    BY <2>1 DEF StoreInv
  <2>5. ASSUME NEW p \in Project
        PROVE  registered'[p] = registered[p] \/ (n >= 2 /\ registered'[p] = registered[p] \cup {r})
    BY <2>1 DEF StoreInv
  <2>6. ASSUME NEW p \in Project
        PROVE  \A s \in registered'[p] : artifacts'[s] # None \/ page'[s] # None
    <3>1. \A s \in registered[p] : s # r /\ s \in Request
      BY <1>0, <1>3 DEF StoreInv
    <3> QED
      BY <2>2, <2>3, <2>4, <2>5, <3>1 DEF ProjectNamesWrittenRuns
  <2> QED
    BY <2>2, <2>6 DEF ProjectNamesWrittenRuns
<1> QED
  BY <1>1, <1>2, <1>3, StoreEffects

\* However many planners finish on a project in whatever order, and wherever a
\* write fails, its planning state is that of a run whose package is stored,
\* and its manifest lists only runs whose files are there.
THEOREM ProjectsNameWrittenRuns == Spec => []ProjectNamesWrittenRuns
<1>1. Init => ProjectNamesWrittenRuns
  BY DEF Init, ProjectNamesWrittenRuns
<1> QED
  BY <1>1, ProjectStep, PlansAreThePlanners, WaitersHold, NothingIsThereEarly, FilesAreTyped,
     PTL DEF Spec

----------------------------------------------------------------------------
(* Published plans and prototypes. *)

\* A record is of its request's project, and the page of a recorded prototype
\* passed the technical QA.
RecordInv ==
    \A r \in Request : record[r] # None =>
        /\ payload[r] \in Payload /\ record[r].project = payload[r].project
        /\ record[r].phase = "2a" => page[r] \cap PageForbidden = {}

\* The record that a finishing run writes.
LEMMA WrittenRecord ==
    ASSUME NEW r \in Request, payload[r] \in Payload
    PROVE  /\ RecordOf(Run(r)) # None => RecordOf(Run(r)).project = payload[r].project
           /\ IsPlanning(Run(r)) => RecordOf(Run(r)).phase = "1"
           /\ IsPhase2A(Run(r)) => RecordOf(Run(r)).phase = "2a"
<1>1. Run(r).project = payload[r].project
  BY EffectivePayload DEF Run
<1> QED
  BY <1>1 DEF RecordOf, IsPlanning, IsPhase2A

\* What a planning run that ends leaves in its own name.
LEMMA PlanWrites ==
    ASSUME StoreInv, NEW r \in Request, payload[r] \in Payload, IsPlanning(Run(r)),
           pc[r] \notin Ended, NEW answer \in PlannerAnswer,
           HaveStatus(answer.strategy.labels), Finish(r, pc[r], answer)
    PROVE  /\ payload' = payload /\ page' = page
           /\ \A s \in Request : s # r => record'[s] = record[s] /\ artifacts'[s] = artifacts[s]
           /\ \/ record'[r] = None
              \/ /\ artifacts'[r] \in Package
                 /\ record'[r].phase = "1" /\ record'[r].project = payload[r].project
<1> DEFINE bundle == Bundle(Decisions(answer), Run(r).forbidden)
<1>1. /\ payload' = payload /\ page' = page
      /\ \/ record' = record /\ (artifacts' = artifacts \/ artifacts' = [artifacts EXCEPT ![r] = bundle])
         \/ /\ record' = [record EXCEPT ![r] = RecordOf(Run(r))]
            /\ artifacts' = [artifacts EXCEPT ![r] = bundle]
  <2>1. payload' = payload /\ page' = page
    BY FinishWrites
  <2>2. \E n \in 0..4 :
          /\ artifacts' = IF n >= 1 THEN [artifacts EXCEPT ![r] = bundle] ELSE artifacts
          /\ record' = IF n >= 4 THEN [record EXCEPT ![r] = RecordOf(Run(r))] ELSE record
    BY FinishWrites
  <2> HIDE DEF bundle
  <2> QED
    BY <2>1, <2>2
<1>2. bundle \in Package
  BY FinishedPackage
<1> HIDE DEF bundle
<1>3. record[r] = None
  BY DEF StoreInv
<1>4. RecordOf(Run(r)) # None => RecordOf(Run(r)).project = payload[r].project
  BY WrittenRecord
<1>5. RecordOf(Run(r)).phase = "1"
  BY WrittenRecord
<1> QED
  BY <1>1, <1>2, <1>3, <1>4, <1>5 DEF StoreInv

\* What a prototype run that ends leaves in its own name.
LEMMA PrototypeWrites ==
    ASSUME PlanInv, StoreInv, NEW r \in Request, pc[r] \notin Ended, BuildPrototype(r)
    PROVE  LET source == Run(r).source
           IN  /\ payload[r] \in Payload /\ source \in Request /\ source # r
               /\ record[source] # None /\ record[source].phase = "1"
               /\ record[source].project = payload[r].project /\ artifacts[source] # None
               /\ payload' = payload /\ artifacts' = artifacts
               /\ \A s \in Request : s # r => record'[s] = record[s] /\ page'[s] = page[s]
               /\ \/ record'[r] = None
                  \/ /\ page'[r] = PrototypePage(artifacts[source])
                     /\ page'[r] \cap PageForbidden = {}
                     /\ record'[r].phase = "2a" /\ record'[r].project = payload[r].project
<1> DEFINE source == Run(r).source
           built == PrototypePage(artifacts[source])
<1>1. /\ payload' = payload /\ artifacts' = artifacts
      /\ SourceIsAPlan(r) /\ IsPhase2A(Run(r))
  BY DEF BuildPrototype
<1>2. payload[r] \in Payload /\ source \in Request
  BY SourceOfAPrototype DEF PlanInv
<1>3. Run(r).project = payload[r].project
  BY <1>2, EffectivePayload DEF Run
<1>4. /\ record[source] # None /\ artifacts[source] # None /\ source # r
      /\ record[source].phase = "1" /\ record[source].project = payload[r].project
  BY <1>1, <1>3 DEF SourceIsAPlan, StoreInv
<1>5. PICK n \in 0..3 :
        /\ n > 1 => TechnicalQA(built) = "PASS"
        /\ page' = IF n >= 1 THEN [page EXCEPT ![r] = built] ELSE page
        /\ record' = IF n >= 3 THEN [record EXCEPT ![r] = RecordOf(Run(r))] ELSE record
  BY DEF BuildPrototype
<1>6. TechnicalQA(built) = "PASS" => built \cap PageForbidden = {}
  BY DEF TechnicalQA, Verdict
<1> HIDE DEF built
<1>7. \A s \in Request : s # r => record'[s] = record[s] /\ page'[s] = page[s]
  BY <1>5 DEF StoreInv
<1>8. CASE n < 3
  <2>1. record'[r] = None
    BY <1>5, <1>8 DEF StoreInv
  <2> QED
    BY <1>1, <1>2, <1>4, <1>7, <2>1
<1>9. CASE n >= 3
  <2>1. page'[r] = built /\ record'[r] = RecordOf(Run(r))
    BY <1>5, <1>9 DEF StoreInv
  <2>2. RecordOf(Run(r)).phase = "2a"
        /\ (RecordOf(Run(r)) # None => RecordOf(Run(r)).project = payload[r].project)
    BY <1>1, <1>2, WrittenRecord
  <2>3. built \cap PageForbidden = {}
    BY <1>5, <1>6, <1>9
  <2> QED
    BY <1>1, <1>2, <1>4, <1>7, <2>1, <2>2, <2>3 DEF built
<1> QED
  BY <1>5, <1>8, <1>9

LEMMA RecordStep ==
    ASSUME PlanInv, WaitInv, StoreInv, RecordInv, [Next]_vars
    PROVE  RecordInv'
<1>1. CASE UNCHANGED files /\ payload' = payload
  BY <1>1 DEF files, RecordInv
<1>2. ASSUME NEW r \in Request, NEW answer \in PlannerAnswer, payload[r] \in Payload,
             pc[r] \notin Ended, IsPlanning(Run(r)), HaveStatus(answer.strategy.labels),
             Finish(r, pc[r], answer)
      PROVE  RecordInv'
  BY <1>2, PlanWrites DEF RecordInv
<1>3. ASSUME NEW r \in Request, pc[r] \notin Ended, BuildPrototype(r) PROVE RecordInv'
  BY <1>3, PrototypeWrites DEF RecordInv
<1> QED
  BY <1>1, <1>2, <1>3, StoreEffects

LEMMA RecordsHold == Spec => []RecordInv
<1>1. Init => RecordInv
  BY DEF Init, RecordInv
<1> QED
  BY <1>1, RecordStep, PlansAreThePlanners, WaitersHold, NothingIsThereEarly, PTL DEF Spec

\* The variables of the abstract specification.
Plans == [r \in Request |-> IF Recorded(r, "1") THEN artifacts[r] ELSE None]
Pages == [r \in Request |-> IF Recorded(r, "2a") THEN page[r] ELSE None]

LEMMA PipelineStep ==
    ASSUME PlanInv, WaitInv, StoreInv, RecordInv, [Next]_vars
    PROVE  [Pipeline!Next]_(Pipeline!vars)
<1>1. CASE UNCHANGED files /\ payload' = payload
  BY <1>1 DEF files, Pipeline!vars, Recorded
<1>2. ASSUME NEW r \in Request, NEW answer \in PlannerAnswer, payload[r] \in Payload,
             pc[r] \notin Ended, IsPlanning(Run(r)), HaveStatus(answer.strategy.labels),
             Finish(r, pc[r], answer)
      PROVE  [Pipeline!Next]_(Pipeline!vars)
  <2>1. /\ payload' = payload /\ page' = page
        /\ \A s \in Request : s # r => record'[s] = record[s] /\ artifacts'[s] = artifacts[s]
    BY <1>2, PlanWrites
  <2>2. record[r] = None /\ Plans[r] = None /\ Pages[r] = None
    BY <1>2 DEF StoreInv, Plans, Pages, Recorded
  <2>3. \A s \in Request : s # r => Plans'[s] = Plans[s] /\ Pages'[s] = Pages[s]
    BY <2>1 DEF Plans, Pages, Recorded
  <2>4. CASE record'[r] = None
    <3>1. Plans' = Plans /\ Pages' = Pages
      BY <2>2, <2>3, <2>4 DEF Plans, Pages, Recorded
    <3> QED
      BY <2>1, <3>1 DEF Pipeline!vars, Plans, Pages
  <2>5. CASE record'[r] # None
    <3>1. artifacts'[r] \in Package /\ record'[r].phase = "1"
      BY <1>2, <2>5, PlanWrites
    <3>2. Plans'[r] = artifacts'[r] /\ Pages'[r] = None
      BY <2>5, <3>1 DEF Plans, Pages, Recorded
    <3>3. Pages' = Pages /\ Plans' = [Plans EXCEPT ![r] = Plans'[r]]
      BY <2>2, <2>3, <3>2 DEF Plans, Pages
    <3>4. payload[r] # NoPayload
      BY <1>2, BusinessBuilderAssumption
    <3>5. Pipeline!PublishPlan(r)
      BY <2>1, <2>2, <3>1, <3>2, <3>3, <3>4
         DEF Pipeline!PublishPlan, Pipeline!MayPublish, Plans, Pages
    <3> QED
      BY <3>5 DEF Pipeline!Next
  <2> QED
    BY <2>4, <2>5
<1>3. ASSUME NEW r \in Request, pc[r] \notin Ended, BuildPrototype(r)
      PROVE  [Pipeline!Next]_(Pipeline!vars)
  <2> DEFINE source == payload[r].source
  <2>0. source = Run(r).source
    BY <1>3, PrototypeWrites, EffectivePayload DEF Run
  <2>1. /\ payload[r] \in Payload /\ source \in Request /\ source # r
        /\ record[source] # None /\ record[source].phase = "1"
        /\ record[source].project = payload[r].project /\ artifacts[source] # None
        /\ payload' = payload /\ artifacts' = artifacts
        /\ \A s \in Request : s # r => record'[s] = record[s] /\ page'[s] = page[s]
    BY <1>3, <2>0, PrototypeWrites
  <2>2. record[r] = None /\ Plans[r] = None /\ Pages[r] = None
    BY <1>3 DEF StoreInv, Plans, Pages, Recorded
  <2>3. \A s \in Request : s # r => Plans'[s] = Plans[s] /\ Pages'[s] = Pages[s]
    BY <2>1 DEF Plans, Pages, Recorded
  <2>4. CASE record'[r] = None
    <3>1. Plans' = Plans /\ Pages' = Pages
      BY <2>2, <2>3, <2>4 DEF Plans, Pages, Recorded
    <3> QED
      BY <2>1, <3>1 DEF Pipeline!vars, Plans, Pages
  <2>5. CASE record'[r] # None
    <3>1. /\ page'[r] = PrototypePage(artifacts[source])
          /\ page'[r] \cap PageForbidden = {} /\ record'[r].phase = "2a"
      BY <1>3, <2>0, <2>5, PrototypeWrites
    <3>2. Plans'[r] = None /\ Pages'[r] = page'[r] /\ Plans[source] = artifacts[source]
      BY <2>1, <2>5, <3>1 DEF Plans, Pages, Recorded
    <3>3. Plans' = Plans
      BY <2>2, <2>3, <3>2 DEF Plans
    <3>4. Pages' = [Pages EXCEPT ![r] = PrototypePage(Plans[source])]
      <4>1. Pages'[r] = PrototypePage(Plans[source])
        BY <3>1, <3>2
      <4>2. Pages' = [Pages EXCEPT ![r] = Pages'[r]]
        BY <2>3 DEF Pages
      <4> QED
        BY <4>1, <4>2
    <3>5. payload[r] # NoPayload /\ payload[source].project = payload[r].project
      BY <1>3, <2>1 DEF RecordInv, BuildPrototype, Posted
    <3>6. Pipeline!PublishPrototype(r)
      BY <2>1, <2>2, <3>1, <3>2, <3>3, <3>4, <3>5
         DEF Pipeline!PublishPrototype, Pipeline!MayPublish, Plans, Pages
    <3> QED
      BY <3>6 DEF Pipeline!Next
  <2> QED
    BY <2>4, <2>5
<1> QED
  BY <1>1, <1>2, <1>3, StoreEffects

\* The workflow implements PlanPipeline: plans and prototypes appear with the
\* records of their runs, and are never changed or half there.
THEOREM ImplementsPipeline == Spec => PrototypesFollowPlans
<1>1. Init => Pipeline!Init
  BY DEF Init, Pipeline!Init, Recorded
<1>2. PlanInv /\ WaitInv /\ StoreInv /\ RecordInv /\ [Next]_vars
        => [Pipeline!Next]_(Pipeline!vars)
  BY PipelineStep
<1> QED
  BY <1>1, <1>2, PlansAreThePlanners, WaitersHold, NothingIsThereEarly, RecordsHold, PTL
     DEF Spec, PrototypesFollowPlans, Pipeline!Spec
=============================================================================

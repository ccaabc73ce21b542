----------------------------- MODULE AgentPlan -----------------------------
(***************************************************************************)
(* AgentPlannerService: the plan that a run records before it executes:    *)
(* the workflow, its agents with their tools and models, the actions that  *)
(* the prompt blocks, and the search provider of the research agent.       *)
(***************************************************************************)
EXTENDS ModelRegistry

CONSTANTS
    ExaEnabled,        \* ENABLE_EXA_SEARCH
    MaxCostPerCall     \* MAX_COST_PER_CALL_USD

\* AGENTS: allowed tools and preferred model tags of the agents a plan may name.
Agents ==
    [business_planner_agent |-> [tools |-> {"artifact_write", "project_state"},
                                 tags |-> {"planner", "cheap", "json"}],
     ceo_agent |-> [tools |-> {"artifact_write"}, tags |-> {"planner", "high_accuracy"}],
     research_agent |-> [tools |-> {"artifact_write", "web_search"},
                         tags |-> {"research", "summary", "cheap"}],
     website_agent |-> [tools |-> {"project_file_write"},
                        tags |-> {"coding", "website", "cheap"}],
     content_agent |-> [tools |-> {"artifact_write"}, tags |-> {"content", "cheap"}],
     operations_agent |-> [tools |-> {"artifact_write"}, tags |-> {"operations", "cheap"}],
     qa_agent |-> [tools |-> {"artifact_write"}, tags |-> {"qa", "cheap"}],
     safe_command_runner |-> [tools |-> {"safe_command"}, tags |-> {"cheap"}],
     provider_test_agent |-> [tools |-> {"provider_call"}, tags |-> {"cheap", "worker"}]]

----------------------------------------------------------------------------
(* The search tools. *)

NoProvider == "none"

\* SearchRegistryLoader._with_availability: in mock mode every active provider
\* has its fixture; live search needs a key, its flag and the run's permission,
\* and the two providers beside Exa are gated, which no run overrides.
ProviderAvailable(id, mode, allowed) ==
    \/ mode = "mock"
    \/ id = "exa_direct" /\ "exa" \in Configured /\ ExaEnabled /\ allowed

\* Mutant: the provider is chosen for a run that may not search.
SelectSearchWhenNeeded(needed, mode, allowed) ==
    IF needed /\ ProviderAvailable("exa_direct", mode, allowed)
    THEN "exa_direct" ELSE NoProvider

\* SearchSelector.select, whose default provider is Exa.
SelectSearch(needed, mode, allowed) ==
    IF needed /\ allowed /\ ProviderAvailable("exa_direct", mode, allowed)
    THEN "exa_direct" ELSE NoProvider

----------------------------------------------------------------------------
(* A plan request: run_type, mode, command, writes, commands, search, max_cost. *)

\* _selected_ids.
SelectedAgents(workflow, request, constraints) ==
    LET research == {a \in {"research_agent"} : SearchNeeded(request.command)}
        runner == {a \in {"safe_command_runner"} :
                      request.commands /\ "commands" \notin constraints}
    IN  CASE workflow = "provider_test" -> {"provider_test_agent"}
          [] workflow = "business_builder" ->
                {"business_planner_agent", "qa_agent"}
                \cup {a \in research : request.search}
          [] workflow = "website_update" ->
                {"website_agent", "qa_agent"} \cup research \cup runner
          [] workflow = "research_only" -> {"research_agent", "qa_agent"}
          [] OTHER -> {"ceo_agent", "research_agent", "content_agent", "operations_agent",
                       "qa_agent"}

\* _required_model_capabilities.
Capabilities(agent) ==
    CASE agent = "website_agent" -> {"coding", "tools", "json"}
      [] agent \in {"business_planner_agent", "research_agent"} -> {"json", "summarization"}
      [] agent = "qa_agent" -> {"json"}
      [] OTHER -> {}

\* _allowed_tools.
AllowedTools(agent, request, constraints) ==
    {tool \in Agents[agent].tools :
        /\ tool = "web_search" => request.search /\ "external_actions" \notin constraints
        /\ tool = "project_file_write" => request.writes /\ "file_writes" \notin constraints
        /\ tool = "safe_command" => request.commands /\ "commands" \notin constraints}

\* _business_planner_model_selection: no registry, no constraints.
PlannerModel(mode) == IF mode = "live" THEN "gpt-5.5" ELSE "mock_business_planner"

\* select_for_agent as the planner calls it: without approval ids.
AgentModel(agent, request) ==
    CASE agent = "business_planner_agent" -> PlannerModel(request.mode)
      [] agent = "safe_command_runner" -> "none"
      [] OTHER -> Select([agent |-> agent, mode |-> request.mode,
                          command |-> request.command, caps |-> Capabilities(agent),
                          tags |-> Agents[agent].tags, approved |-> FALSE,
                          max_cost |-> IF request.max_cost < MaxCostPerCall
                                       THEN request.max_cost ELSE MaxCostPerCall])

\* plan.  A Business Builder plan without search asks with a fixed query.
Plan(request) ==
    LET constraints == NegativeConstraints(request.command)
        workflow == WorkflowFor(request.run_type, request.command)
        agents == SelectedAgents(workflow, request, constraints)
        needed == /\ SearchNeeded(request.command)
                  /\ request.run_type = "business_builder" => request.search
        provider == SelectSearch(needed, request.mode, request.search)
    IN  [workflow |-> workflow, agents |-> agents,
         tools |-> [a \in agents |-> AllowedTools(a, request, constraints)],
         models |-> [a \in agents |-> AgentModel(a, request)],
         blocked_actions |-> BlockedActions(constraints),
         search_needed |-> needed, provider |-> provider,
         search_unavailable |-> needed /\ provider = NoProvider]

\* _plan_run: what each route of the engine asks to be planned.
PlanRequest(route, p) ==
    [run_type |-> IF route = "research_only" THEN "research_only" ELSE p.run_type,
     mode |-> p.mode, command |-> p.command, search |-> p.search, max_cost |-> p.max_cost,
     writes |-> p.writes /\ route \notin {"business_builder", "research_only"},
     commands |-> p.commands /\ route \notin {"business_builder", "research_only"}]
=============================================================================

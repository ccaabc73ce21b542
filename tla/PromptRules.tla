---------------------------- MODULE PromptRules ----------------------------
(***************************************************************************)
(* What the words of a command do to a run.  The code looks for phrases in *)
(* the lowered text at five places that keep lists of their own:           *)
(* _apply_prompt_safety_overrides (POST /api/runs), is_focused_website_    *)
(* update, the execution engine, the agent planner with its rules, and the *)
(* model selector.  A command is the set of phrases it contains; each list *)
(* keeps one phrase for every way in which the five lists differ, and a    *)
(* phrase that contains a word of a list is a member of that list.         *)
(***************************************************************************)

Phrase ==
    {"do not create files", "don't create files", "do not update files", "research only",
     "do not run commands", "don't run commands", "do not search", "without web search",
     "do not use web search", "no external actions", "research", "latest",
     "update homepage", "new prototype", "website", "do not use gpt-5.5",
     "cheap models only", "Business Builder Phase 1"}

Command == SUBSET Phrase

Says(command, phrases) == command \cap phrases # {}

----------------------------------------------------------------------------
(* The request: lists of _apply_prompt_safety_overrides. *)

NoFiles == {"do not create files", "don't create files"}
NoUpdates == {"do not update files", "research only"}
NoCommands == {"do not run commands", "don't run commands"}
NoSearch == {"do not search"}

\* is_focused_website_update: an edit of the homepage, and no new prototype.
FocusedUpdate(command) ==
    "update homepage" \in command /\ "new prototype" \notin command

Escalates(payload) ==
    /\ payload.run_type \in {"prototype_build", "continuation", "business_launch_plan"}
    /\ FocusedUpdate(payload.command)

\* Mutant: the focused update is looked at last and turns writes on again.
WritesAfterEscalation(p) ==
    Escalates(p) \/ (p.writes /\ ~Says(p.command, NoFiles \cup NoUpdates))

\* allow_file_writes: a focused update turns it on, a prohibition turns it off.
WritesAllowed(p) ==
    (Escalates(p) \/ p.writes) /\ ~Says(p.command, NoFiles \cup NoUpdates)

\* _apply_prompt_safety_overrides: later updates replace earlier ones.
Overrides(p) ==
    LET c == p.command
    IN  [p EXCEPT
          !.run_type = IF Says(c, NoUpdates) THEN "research_only"
                       ELSE IF Escalates(p) THEN "website_update" ELSE @,
          !.writes = WritesAllowed(p),
          !.commands = @ /\ ~Says(c, NoUpdates \cup NoCommands),
          !.search = @ /\ ~Says(c, NoSearch),
          !.agent = Escalates(p) \/ @,
          !.ceo = @ /\ ~Escalates(p)]

----------------------------------------------------------------------------
(* The engine. *)

\* _normalized_run_type, then the branches of execute_run, in their order.
EngineRoute(p) ==
    LET type == IF Escalates(p) THEN "website_update" ELSE p.run_type
    IN  IF type \in {"provider_test", "business_builder"} THEN type
        ELSE IF \/ type \in {"research", "research_only"}
                \/ "research only" \in p.command
        THEN "research_only"
        ELSE IF type \in {"website_update", "prototype_build", "continuation"} THEN type
        ELSE "business_launch_plan"

----------------------------------------------------------------------------
(* The planner and the selector. *)

\* AGENT_RULES["negative_constraints"], for the labels that change a plan.
NegativeConstraints(command) ==
    {label \in {"file_writes", "commands", "external_actions", "gpt-5.5"} :
        \/ label = "file_writes"
           /\ Says(command, {"do not create files", "do not update files"})
        \/ label = "commands" /\ "do not run commands" \in command
        \/ label = "external_actions" /\ "no external actions" \in command
        \/ label = "gpt-5.5" /\ "do not use gpt-5.5" \in command}

\* _blocked_actions_from_constraints.
BlockedActions(constraints) ==
    {CASE c = "file_writes" -> "file_write"
       [] c = "commands" -> "safe_command"
       [] OTHER -> c : c \in constraints}

\* _search_needed after _strip_negated_search_phrases, which knows "do not
\* search" and "without web search" and not "do not use web search".
SearchNeeded(command) ==
    Says(command, {"research", "research only", "latest", "do not use web search"})

\* _research_only_requested.
ResearchOnlyRequested(command) ==
    \/ "research only" \in command
    \/ /\ "research" \in command
       /\ ~Says(command, {"website", "update homepage", "do not create files",
                          "don't create files", "do not update files"})

\* _workflow_for.
WorkflowFor(run_type, command) ==
    IF run_type \in {"provider_test", "business_builder", "website_update"} THEN run_type
    ELSE IF run_type \in {"research", "research_only"} \/ ResearchOnlyRequested(command)
    THEN "research_only"
    ELSE IF Says(command, {"update homepage", "website"}) THEN "website_update"
    ELSE "business_launch_plan"

\* _excluded_models_from_command and _cheap_only.
ExcludesGpt55(command) == "do not use gpt-5.5" \in command
CheapOnly(command) == "cheap models only" \in command
=============================================================================

--------------------------- MODULE ModelRegistry ---------------------------
(***************************************************************************)
(* The model registry and DynamicModelSelector: which model an agent gets. *)
(* The registry is a table, in the order of model_registry/defaults.py; an *)
(* entry keeps the fields that the selector, availability_service and      *)
(* pricing_service look at.  Costs are cents.                              *)
(***************************************************************************)
EXTENDS Integers, Sequences, FiniteSets, PromptRules

CONSTANTS
    Configured,     \* providers whose API key is set
    LiveAllowed,    \* ALLOW_LIVE_CALLS
    ModelSearch     \* providers whose model search is enabled

\* ModelRegistryEntry with the defaults of its fields.
Entry ==
    [id |-> "", provider |-> "openai", status |-> "active", enabled |-> TRUE,
     live |-> TRUE,              \* available_for_live and allowed_in_live
     auto |-> TRUE,              \* approved_for_auto_selection and auto_selectable
     planned |-> FALSE,          \* curated_tier is planned
     requires_approval |-> FALSE, blocked |-> FALSE,
     approval_live |-> FALSE,    \* requires_human_approval_for_live
     approval_cost |-> FALSE,    \* requires_human_approval_for_high_cost
     roles |-> {},               \* allowed_for_*
     tools |-> FALSE, search |-> FALSE, vision |-> FALSE,
     tags |-> {}, cost |-> "unknown", low_budget |-> FALSE, coding |-> FALSE,
     price |-> 1]                \* max_cost_per_call_recommended

Gpt55 ==
    [Entry EXCEPT !.id = "gpt-5.5", !.requires_approval = TRUE, !.blocked = TRUE,
        !.auto = FALSE, !.approval_live = TRUE, !.approval_cost = TRUE, !.roles = {"ceo"},
        !.tools = TRUE, !.vision = TRUE, !.cost = "very_high", !.price = 5,
        !.tags = {"ceo", "planner", "high_accuracy", "expensive"}]

Gpt55Flex ==
    [Gpt55 EXCEPT !.id = "gpt-5.5:flex", !.status = "experimental", !.cost = "high",
        !.tags = @ \cup {"flex"}]

Gpt54Nano ==
    [Entry EXCEPT !.id = "gpt-5.4-nano", !.tools = TRUE, !.cost = "low", !.low_budget = TRUE,
        !.roles = {"research", "coding", "qa", "operations"},
        !.tags = {"cheap", "worker", "qa", "content", "operations", "fast"}]

Gemini35Flash ==
    [Entry EXCEPT !.id = "gemini-3.5-flash", !.provider = "gemini", !.tools = TRUE,
        !.vision = TRUE, !.cost = "medium", !.price = 2,
        !.roles = {"research", "qa", "operations"},
        !.tags = {"router", "selector", "research", "summary", "multimodal"}]

Gemini31FlashLite ==
    [Entry EXCEPT !.id = "gemini-3.1-flash-lite", !.provider = "gemini", !.vision = TRUE,
        !.cost = "low", !.low_budget = TRUE,
        !.roles = {"research", "coding", "qa", "operations"},
        !.tags = {"cheap", "research", "summary", "fast", "multimodal"}]

KimiCode ==
    [Entry EXCEPT !.id = "moonshotai/kimi-k2.7-code", !.provider = "openrouter",
        !.tools = TRUE, !.cost = "low", !.coding = TRUE, !.price = 2, !.roles = {"coding"},
        !.tags = {"coding", "website", "file_builder", "json", "openrouter",
                  "primary_coding_worker"}]

QwenCoder ==
    [Entry EXCEPT !.id = "qwen/qwen3-coder", !.provider = "openrouter", !.tools = TRUE,
        !.cost = "very_low", !.low_budget = TRUE, !.coding = TRUE, !.roles = {"coding", "qa"},
        !.tags = {"cheap", "coding", "website", "file_builder", "json"}]

Planned(id, provider) ==
    [Entry EXCEPT !.id = id, !.provider = provider, !.status = "planned", !.enabled = FALSE,
        !.live = FALSE, !.auto = FALSE, !.planned = TRUE]

PlannedModels ==
    <<[Planned("openrouter-coding-fallback-planned", "openrouter") EXCEPT
          !.roles = {"coding"}, !.tags = {"coding", "planned", "openrouter"}],
      [Planned("openrouter-general-worker-planned", "openrouter") EXCEPT
          !.roles = {"qa", "operations"}, !.tags = {"worker", "planned", "openrouter"}],
      [Planned("openrouter-vision-fallback-planned", "openrouter") EXCEPT
          !.vision = TRUE, !.tags = {"vision", "planned", "openrouter"}],
      [Planned("openai-high-quality-worker-gated", "openai") EXCEPT
          !.requires_approval = TRUE, !.blocked = TRUE, !.cost = "high",
          !.tags = {"high_accuracy", "planned", "gated"}]>>

GatedSearch(id, provider) ==
    [Entry EXCEPT !.id = id, !.provider = provider, !.status = "experimental",
        !.auto = FALSE, !.requires_approval = TRUE, !.search = TRUE, !.roles = {"research"},
        !.tags = {"research", "search", provider, "gated"}, !.cost = "medium"]

GatedSearchModels ==
    <<GatedSearch("gemini-grounded-research-gated", "gemini"),
      GatedSearch("openai-web-search-research-gated", "openai")>>

MockSummarizer ==
    [Entry EXCEPT !.id = "local-mock-research-summarizer", !.provider = "mock",
        !.live = FALSE, !.roles = {"research"}, !.tags = {"mock", "research", "test"},
        !.cost = "free"]

Models ==
    <<Gpt55, Gpt55Flex, Gpt54Nano, Gemini35Flash, Gemini31FlashLite, KimiCode, QwenCoder>>
    \o PlannedModels \o GatedSearchModels \o <<MockSummarizer>>

\* SELECTION_RULES["safe_fallback_order"].
SafeFallbackOrder == <<Gpt54Nano, Gemini31FlashLite, KimiCode, QwenCoder>>

Gated(model) == model.id \in {"gpt-5.5", "gpt-5.5:flex"}
Cheap(model) == model.cost \in {"very_low", "low"}

----------------------------------------------------------------------------
(* A request: agent, mode, command, caps, tags, max_cost, and whether it   *)
(* carries approval ids (the planner's requests never do).                 *)

\* ModelAvailabilityService.availability.
Available(model, mode, search) ==
    /\ model.enabled /\ model.status # "disabled"
    /\ model.status # "planned" /\ ~model.planned
    /\ mode = "live" => model.live /\ LiveAllowed /\ model.provider \in Configured
    /\ search => model.search /\ model.provider \in ModelSearch

\* _allowed_for_agent.
AllowedForAgent(model, agent) ==
    CASE agent = "ceo_agent" -> "ceo" \in model.roles
      [] agent = "research_agent" -> "research" \in model.roles
      [] agent \in {"website_agent", "file_builder_agent"} -> "coding" \in model.roles
      [] agent = "qa_agent" -> "qa" \in model.roles
      [] agent = "operations_agent" -> "operations" \in model.roles
      [] OTHER -> TRUE

\* Mutant: the family is enough, nobody looks for approval ids.
ApprovesFamily(req, model) == Gated(model)

\* _approval_allows_model.
Approves(req, model) == req.approved /\ Gated(model)

\* _filter_candidates: _reject_reason gives no reason.
Candidate(model, req) ==
    /\ Gated(model) => ~ExcludesGpt55(req.command)
    /\ model.auto \/ Approves(req, model)
    /\ ~model.planned /\ model.status # "planned"
    /\ CheapOnly(req.command) => model.cost \notin {"high", "very_high"}
    /\ AllowedForAgent(model, req.agent)
    /\ Available(model, req.mode, "search" \in req.caps)
    /\ "tools" \in req.caps => model.tools
    /\ "vision" \in req.caps => model.vision
    /\ model.blocked => Approves(req, model)
    /\ model.approval_cost => model.price <= req.max_cost

\* _score.
Score(model, req) ==
    LET If(condition, points) == IF condition THEN points ELSE 0
    IN  2 * Cardinality(model.tags \cap req.tags)
        + If(model.low_budget \/ Cheap(model), 2)
        + If(CheapOnly(req.command) /\ Cheap(model), 4)
        + If("coding" \in req.caps /\ model.coding, 4)
        + If("coding" \in req.caps /\ model = KimiCode, 5)
        + If("tools" \in req.caps /\ model.tools, 2)
        + If(model.price <= req.max_cost, 2)
        - If(model.blocked, 5)

NoModel == "error"

\* _fallback: the first model of the safe order that the agent may use.
Fallback(req) ==
    LET Usable == {i \in DOMAIN SafeFallbackOrder :
                      /\ AllowedForAgent(SafeFallbackOrder[i], req.agent)
                      /\ Available(SafeFallbackOrder[i], req.mode, FALSE)}
    IN  IF "search" \in req.caps \/ Usable = {} THEN NoModel
        ELSE SafeFallbackOrder[CHOOSE i \in Usable : \A j \in Usable : i <= j].id

\* select: the candidate with the highest score, the first of several.
Select(req) ==
    LET ok == {i \in DOMAIN Models : Candidate(Models[i], req)}
        Better(i, j) == \/ Score(Models[i], req) > Score(Models[j], req)
                        \/ Score(Models[i], req) = Score(Models[j], req) /\ i <= j
    IN  IF ok = {} THEN Fallback(req)
        ELSE Models[CHOOSE i \in ok : \A j \in ok : Better(i, j)].id
=============================================================================

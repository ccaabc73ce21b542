-------------------------- MODULE AgentPlanProofs --------------------------
(***************************************************************************)
(* What the model selector returns for every request: a candidate that the *)
(* rules let through or a safe fallback, and a gated model only with an    *)
(* approval.                                                               *)
(***************************************************************************)
EXTENDS AgentPlan, BusinessPlanProofs, FiniteSetTheorems

----------------------------------------------------------------------------
(* The registry. *)

RegistryEntries ==
    {Gpt55, Gpt55Flex, Gpt54Nano, Gemini35Flash, Gemini31FlashLite, KimiCode, QwenCoder}
    \cup Elements(PlannedModels) \cup Elements(GatedSearchModels) \cup {MockSummarizer}

GatedIds ==
    {"gpt-5.5", "gpt-5.5:flex", "openai-high-quality-worker-gated",
     "gemini-grounded-research-gated", "openai-web-search-research-gated"}

\* What the selector relies on in an entry: it is named as gated if it needs an
\* approval, and then is not selected automatically; and the family that an
\* approval is for has a limit on the cost of a call.
WellMarked(model) ==
    /\ model.requires_approval <=> model.id \in GatedIds
    /\ model.requires_approval \in BOOLEAN /\ model.auto \in BOOLEAN
    /\ model.auto => ~model.requires_approval
    /\ Gated(model) => model.approval_cost /\ model.requires_approval

LEMMA EntriesAreWellMarked ==
    \A model \in RegistryEntries : WellMarked(model)
<1> USE DEF WellMarked, GatedIds, Gated
<1>1. WellMarked(Gpt55)
  BY DEF Gpt55, Entry
<1>2. WellMarked(Gpt55Flex)
  <2>1. /\ Gpt55Flex.id = "gpt-5.5:flex" /\ Gpt55Flex.requires_approval = TRUE
        /\ Gpt55Flex.auto = FALSE /\ Gpt55Flex.approval_cost = TRUE
    BY DEF Gpt55Flex, Gpt55, Entry
  <2> QED
    BY <2>1
<1>3. WellMarked(Gpt54Nano)
  BY DEF Gpt54Nano, Entry
<1>4. WellMarked(Gemini35Flash)
  BY DEF Gemini35Flash, Entry
<1>5. WellMarked(Gemini31FlashLite)
  BY DEF Gemini31FlashLite, Entry
<1>6. WellMarked(KimiCode)
  BY DEF KimiCode, Entry
<1>7. WellMarked(QwenCoder)
  BY DEF QwenCoder, Entry
<1>8. WellMarked(MockSummarizer)
  BY DEF MockSummarizer, Entry
<1>9. \A model \in Elements(GatedSearchModels) : WellMarked(model)
  <2> DEFINE a == GatedSearchModels[1]
             b == GatedSearchModels[2]
  <2>1. WellMarked(GatedSearch("gemini-grounded-research-gated", "gemini"))
    BY DEF GatedSearch, Entry
  <2>2. WellMarked(GatedSearch("openai-web-search-research-gated", "openai"))
    BY DEF GatedSearch, Entry
  <2>3. /\ DOMAIN GatedSearchModels = {1, 2}
        /\ a = GatedSearch("gemini-grounded-research-gated", "gemini")
        /\ b = GatedSearch("openai-web-search-research-gated", "openai")
    BY DEF GatedSearchModels
  <2> HIDE DEF WellMarked
  <2> QED
    BY <2>1, <2>2, <2>3 DEF Elements
<1>10. \A model \in Elements(PlannedModels) : WellMarked(model)
  <2> DEFINE a == [Planned("openrouter-coding-fallback-planned", "openrouter") EXCEPT
                     !.roles = {"coding"}, !.tags = {"coding", "planned", "openrouter"}]
             b == [Planned("openrouter-general-worker-planned", "openrouter") EXCEPT
                     !.roles = {"qa", "operations"}, !.tags = {"worker", "planned", "openrouter"}]
             c == [Planned("openrouter-vision-fallback-planned", "openrouter") EXCEPT
                     !.vision = TRUE, !.tags = {"vision", "planned", "openrouter"}]
             d == [Planned("openai-high-quality-worker-gated", "openai") EXCEPT
                     !.requires_approval = TRUE, !.blocked = TRUE, !.cost = "high",
                     !.tags = {"high_accuracy", "planned", "gated"}]
  <2>1. WellMarked(a)
    <3>1. /\ a.id = "openrouter-coding-fallback-planned" /\ a.requires_approval = FALSE
          /\ a.auto = FALSE
      BY DEF Planned, Entry
    <3> HIDE DEF a
    <3> QED
      BY <3>1
  <2>2. WellMarked(b)
    <3>1. /\ b.id = "openrouter-general-worker-planned" /\ b.requires_approval = FALSE
          /\ b.auto = FALSE
      BY DEF Planned, Entry
    <3> HIDE DEF b
    <3> QED
      BY <3>1
  <2>3. WellMarked(c)
    <3>1. /\ c.id = "openrouter-vision-fallback-planned" /\ c.requires_approval = FALSE
          /\ c.auto = FALSE
      BY DEF Planned, Entry
    <3> HIDE DEF c
    <3> QED
      BY <3>1
  <2>4. WellMarked(d)
    <3>1. /\ d.id = "openai-high-quality-worker-gated" /\ d.requires_approval = TRUE
          /\ d.auto = FALSE
      BY DEF Planned, Entry
    <3> HIDE DEF d
    <3> QED
      BY <3>1
  <2>5. PlannedModels = <<a, b, c, d>>
    BY DEF PlannedModels
  <2> HIDE DEF WellMarked, a, b, c, d
  <2>6. \A i \in DOMAIN <<a, b, c, d>> : <<a, b, c, d>>[i] \in {a, b, c, d}
    OBVIOUS
  <2> QED
    BY <2>1, <2>2, <2>3, <2>4, <2>5, <2>6 DEF Elements
<1> HIDE DEF WellMarked, GatedIds, Gated
<1> QED
  BY <1>1, <1>2, <1>3, <1>4, <1>5, <1>6, <1>7, <1>8, <1>9, <1>10 DEF RegistryEntries

LEMMA ModelsAreEntries ==
    Models \in Seq(RegistryEntries) /\ \A i \in DOMAIN Models : Models[i] \in RegistryEntries
<1> DEFINE active == <<Gpt55, Gpt55Flex, Gpt54Nano, Gemini35Flash, Gemini31FlashLite, KimiCode,
                       QwenCoder>>
           mock == <<MockSummarizer>>
<1>1. active \in Seq(RegistryEntries) /\ mock \in Seq(RegistryEntries)
  BY DEF RegistryEntries
<1>2. PlannedModels \in Seq(RegistryEntries)
  <2>1. PlannedModels \in Seq(Elements(PlannedModels))
    <3>1. PlannedModels \in Seq({PlannedModels[1], PlannedModels[2], PlannedModels[3],
                                 PlannedModels[4]})
      BY DEF PlannedModels
    <3> QED
      BY <3>1, ElementsType
  <2> QED
    BY <2>1, ElementsType DEF RegistryEntries
<1>3. GatedSearchModels \in Seq(RegistryEntries)
  <2>1. GatedSearchModels \in Seq({GatedSearchModels[1], GatedSearchModels[2]})
    BY DEF GatedSearchModels
  <2> QED
    BY <2>1, ElementsType DEF RegistryEntries
<1>4. Models = active \o PlannedModels \o GatedSearchModels \o mock
  BY DEF Models
<1> HIDE DEF active, mock
<1>5. Models \in Seq(RegistryEntries)
  BY <1>1, <1>2, <1>3, <1>4
<1> QED
  BY <1>5

----------------------------------------------------------------------------
(* The selection. *)

\* Of some places of a list with scores, one has the highest, and is the first
\* of several.
LEMMA BestExists ==
    ASSUME NEW f \in [Nat -> Int]
    PROVE  \A n \in Nat : \A S \in SUBSET (1..n) : S # {} =>
              \E i \in S : \A j \in S : f[i] > f[j] \/ (f[i] = f[j] /\ i <= j)
<1> DEFINE Best(S, i) == i \in S /\ \A j \in S : f[i] > f[j] \/ (f[i] = f[j] /\ i <= j)
           T == {n \in Nat : \A S \in SUBSET (1..n) : S # {} => \E i : Best(S, i)}
<1>1. 0 \in T
  OBVIOUS
<1>2. ASSUME NEW n \in Nat, n \in T PROVE n + 1 \in T
  <2> SUFFICES ASSUME NEW S \in SUBSET (1..(n + 1)), S # {} PROVE \E i : Best(S, i)
    OBVIOUS
  <2> DEFINE R == S \ {n + 1}
  <2>1. R \in SUBSET (1..n)
    OBVIOUS
  <2>2. CASE R = {}
    <3>1. S = {n + 1}
      BY <2>2
    <3> QED
      BY <3>1
  <2>3. CASE R # {}
    <3>1. PICK i : Best(R, i)
      BY <1>2, <2>1, <2>3
    <3>2. i \in S /\ i \in Nat /\ i <= n
      BY <2>1, <3>1
    <3>3. CASE n + 1 \notin S
      <4>1. R = S
        BY <3>3
      <4> QED
        BY <3>1, <4>1
    <3>4. CASE n + 1 \in S /\ f[n + 1] > f[i]
      <4>1. \A j \in R : j \in Nat /\ f[j] \in Int /\ f[i] >= f[j]
        BY <2>1, <3>1, <3>2
      <4>2. \A j \in R : f[n + 1] > f[j]
        BY <3>2, <3>4, <4>1
      <4>3. Best(S, n + 1)
        BY <3>4, <4>2
      <4> QED
        BY <4>3
    <3>5. CASE n + 1 \in S /\ ~(f[n + 1] > f[i])
      <4>1. f[i] > f[n + 1] \/ (f[i] = f[n + 1] /\ i <= n + 1)
        BY <3>2, <3>5
      <4>2. Best(S, i)
        BY <3>1, <3>2, <4>1
      <4> QED
        BY <4>2
    <3> QED
      BY <3>3, <3>4, <3>5
  <2> QED
    BY <2>2, <2>3
<1>3. Nat \subseteq T
  <2> HIDE DEF T
  <2> QED
    BY <1>1, <1>2, SetInduction
<1> QED
  BY <1>3

LEMMA ScoresAreIntegers ==
    ASSUME NEW model, NEW req, IsFiniteSet(req.tags)
    PROVE  Score(model, req) \in Int
<1>1. IsFiniteSet(model.tags \cap req.tags)
  BY FS_Subset, model.tags \cap req.tags \in SUBSET req.tags
<1>2. Cardinality(model.tags \cap req.tags) \in Nat
  BY <1>1, FS_CardinalityType
<1> QED
  BY <1>2 DEF Score

\* What a selected model may be: one whose agent may use it and that is
\* available; cheap when the command asks for cheap models only; and with an
\* approval, and below the request's limit, when it needs one.
Allowed(model, req) ==
    /\ AllowedForAgent(model, req.agent)
    /\ Available(model, req.mode, "search" \in req.caps)
    /\ CheapOnly(req.command) => model.cost \notin {"high", "very_high"}
    /\ model.requires_approval =>
          /\ req.approved /\ Gated(model) /\ ~ExcludesGpt55(req.command)
          /\ model.price <= req.max_cost

LEMMA CandidatesAreAllowed ==
    ASSUME NEW model \in RegistryEntries, NEW req, Candidate(model, req)
    PROVE  Allowed(model, req)
<1>1. WellMarked(model)
  BY EntriesAreWellMarked
<1> QED
  BY <1>1 DEF WellMarked, Candidate, Allowed, Approves

LEMMA FallbacksAreAllowed ==
    ASSUME NEW req, Fallback(req) # NoModel
    PROVE  \E model \in RegistryEntries : Fallback(req) = model.id /\ Allowed(model, req)
<1> DEFINE Usable == {i \in DOMAIN SafeFallbackOrder :
                         /\ AllowedForAgent(SafeFallbackOrder[i], req.agent)
                         /\ Available(SafeFallbackOrder[i], req.mode, FALSE)}
           first == CHOOSE i \in Usable : \A j \in Usable : i <= j
<1>1. /\ "search" \notin req.caps /\ Usable # {}
      /\ Fallback(req) = SafeFallbackOrder[first].id
  BY DEF Fallback
<1>2. DOMAIN SafeFallbackOrder = 1..4
  BY DEF SafeFallbackOrder
<1>3. \E i \in Usable : \A j \in Usable : i <= j
  <2> DEFINE f == [i \in Nat |-> 0]
  <2>1. f \in [Nat -> Int] /\ \A i \in Nat : f[i] = 0
    OBVIOUS
  <2>2. Usable \in SUBSET (1..4) /\ 4 \in Nat
    BY <1>2
  <2> HIDE DEF f, Usable
  <2>3. \E i \in Usable : \A j \in Usable : f[i] > f[j] \/ (f[i] = f[j] /\ i <= j)
    BY <1>1, <2>1, <2>2, BestExists
  <2> QED
    BY <2>1, <2>2, <2>3
<1>4. first \in Usable
  BY <1>3
<1> HIDE DEF first
<1>5. /\ Gpt54Nano.cost = "low" /\ Gpt54Nano.requires_approval = FALSE
      /\ Gemini31FlashLite.cost = "low" /\ Gemini31FlashLite.requires_approval = FALSE
      /\ KimiCode.cost = "low" /\ KimiCode.requires_approval = FALSE
      /\ QwenCoder.cost = "very_low" /\ QwenCoder.requires_approval = FALSE
  BY DEF Gpt54Nano, Gemini31FlashLite, KimiCode, QwenCoder, Entry
<1>6. SafeFallbackOrder[first] \in {Gpt54Nano, Gemini31FlashLite, KimiCode, QwenCoder}
  BY <1>2, <1>4 DEF SafeFallbackOrder
<1> DEFINE model == SafeFallbackOrder[first]
<1>7. AllowedForAgent(model, req.agent) /\ Available(model, req.mode, FALSE)
  BY <1>4
<1> HIDE DEF model
<1>8. model \in RegistryEntries /\ model.cost \in {"low", "very_low"} /\ ~model.requires_approval
  BY <1>5, <1>6 DEF RegistryEntries, model
<1>9. Available(model, req.mode, "search" \in req.caps)
  BY <1>1, <1>7 DEF Available
<1>10. Allowed(model, req)
  BY <1>7, <1>8, <1>9 DEF Allowed
<1> QED
  BY <1>1, <1>8, <1>10 DEF model

\* For every request, whatever its command, tags, capabilities and limit, the
\* selector returns no model or one that it may: no high price when only cheap
\* models may be used, and no gated model without an approval for it.
THEOREM SelectionIsAllowed ==
    ASSUME NEW req, IsFiniteSet(req.tags), Select(req) # NoModel
    PROVE  \E model \in RegistryEntries : Select(req) = model.id /\ Allowed(model, req)
<1> DEFINE ok == {i \in DOMAIN Models : Candidate(Models[i], req)}
           Better(i, j) == \/ Score(Models[i], req) > Score(Models[j], req)
                           \/ Score(Models[i], req) = Score(Models[j], req) /\ i <= j
           best == CHOOSE i \in ok : \A j \in ok : Better(i, j)
<1>1. CASE ok = {}
  BY <1>1, FallbacksAreAllowed DEF Select
<1>2. CASE ok # {}
  <2> DEFINE f == [i \in Nat |-> Score(Models[i], req)]
             n == Len(Models)
  <2>1. f \in [Nat -> Int]
    BY ScoresAreIntegers
  <2>2. n \in Nat /\ ok \in SUBSET (1..n)
    BY ModelsAreEntries
  <2>3. \E i \in ok : \A j \in ok : f[i] > f[j] \/ (f[i] = f[j] /\ i <= j)
    <3> HIDE DEF f, n, ok
    <3> QED
      BY <1>2, <2>1, <2>2, BestExists
  <2>4. \A i \in ok : f[i] = Score(Models[i], req)
    BY <2>2
  <2>5. \E i \in ok : \A j \in ok : Better(i, j)
    BY <2>3, <2>4
  <2>6. best \in ok
    BY <2>5
  <2>7. Select(req) = Models[best].id
    BY <1>2 DEF Select
  <2> HIDE DEF best
  <2>8. Models[best] \in RegistryEntries /\ Candidate(Models[best], req)
    BY <2>6, ModelsAreEntries
  <2> QED
    BY <2>7, <2>8, CandidatesAreAllowed
<1> QED
  BY <1>1, <1>2

----------------------------------------------------------------------------
(* A plan's models. *)

LEMMA PlannedAgentsAreKnown ==
    ASSUME NEW request, NEW agent \in Plan(request).agents
    PROVE  agent \in DOMAIN Agents /\ IsFiniteSet(Agents[agent].tags)
<1>1. DOMAIN Agents = {"business_planner_agent", "ceo_agent", "research_agent", "website_agent",
                       "content_agent", "operations_agent", "qa_agent", "safe_command_runner",
                       "provider_test_agent"}
  BY DEF Agents
<1>2. agent \in DOMAIN Agents
  <2>1. PICK workflow, constraints : agent \in SelectedAgents(workflow, request, constraints)
    BY DEF Plan
  <2> QED
    BY <1>1, <2>1 DEF SelectedAgents
<1>3. \A a, b, c : IsFiniteSet({a}) /\ IsFiniteSet({a, b}) /\ IsFiniteSet({a, b, c})
  <2> TAKE a, b, c
  <2>1. IsFiniteSet({a})
    BY FS_Singleton
  <2>2. IsFiniteSet({a, b})
    BY <2>1, FS_AddElement, {a} \cup {b} = {a, b}
  <2>3. IsFiniteSet({a, b, c})
    BY <2>2, FS_AddElement, {a, b} \cup {c} = {a, b, c}
  <2> QED
    BY <2>1, <2>2, <2>3
<1>4. /\ Agents.business_planner_agent.tags = {"planner", "cheap", "json"}
      /\ Agents.ceo_agent.tags = {"planner", "high_accuracy"}
      /\ Agents.research_agent.tags = {"research", "summary", "cheap"}
      /\ Agents.website_agent.tags = {"coding", "website", "cheap"}
      /\ Agents.content_agent.tags = {"content", "cheap"}
      /\ Agents.operations_agent.tags = {"operations", "cheap"}
      /\ Agents.qa_agent.tags = {"qa", "cheap"}
      /\ Agents.safe_command_runner.tags = {"cheap"}
      /\ Agents.provider_test_agent.tags = {"cheap", "worker"}
  BY DEF Agents
<1>5. /\ IsFiniteSet({"planner", "cheap", "json"})
      /\ IsFiniteSet({"research", "summary", "cheap"})
      /\ IsFiniteSet({"coding", "website", "cheap"})
  BY <1>3
<1>6. /\ IsFiniteSet({"planner", "high_accuracy"}) /\ IsFiniteSet({"content", "cheap"})
      /\ IsFiniteSet({"operations", "cheap"}) /\ IsFiniteSet({"qa", "cheap"})
      /\ IsFiniteSet({"cheap", "worker"}) /\ IsFiniteSet({"cheap"})
  BY <1>3
<1>7. /\ IsFiniteSet(Agents.business_planner_agent.tags)
      /\ IsFiniteSet(Agents.ceo_agent.tags) /\ IsFiniteSet(Agents.research_agent.tags)
      /\ IsFiniteSet(Agents.website_agent.tags) /\ IsFiniteSet(Agents.content_agent.tags)
      /\ IsFiniteSet(Agents.operations_agent.tags) /\ IsFiniteSet(Agents.qa_agent.tags)
      /\ IsFiniteSet(Agents.safe_command_runner.tags)
      /\ IsFiniteSet(Agents.provider_test_agent.tags)
  BY <1>4, <1>5, <1>6, Zenon
<1>8. \A a \in DOMAIN Agents : IsFiniteSet(Agents[a].tags)
  BY <1>1, <1>7
<1> QED
  BY <1>2, <1>8

\* No agent but the Business Builder planner is given a model of the registry
\* that needs an approval.
LEMMA PlannedModelsAreUngated ==
    ASSUME NEW request, NEW agent \in Plan(request).agents \ {"business_planner_agent"}
    PROVE  \A i \in DOMAIN Models :
              Plan(request).models[agent] = Models[i].id => ~Models[i].requires_approval
<1>1. Plan(request).models[agent] = AgentModel(agent, request)
  BY DEF Plan
<1>2. AgentModel(agent, request) \notin GatedIds
  <2>1. CASE agent = "safe_command_runner"
    BY <2>1 DEF AgentModel, GatedIds
  <2>2. CASE agent # "safe_command_runner"
    <3> DEFINE req == [agent |-> agent, mode |-> request.mode,
                       command |-> request.command, caps |-> Capabilities(agent),
                       tags |-> Agents[agent].tags, approved |-> FALSE,
                       max_cost |-> IF request.max_cost < MaxCostPerCall
                                    THEN request.max_cost ELSE MaxCostPerCall]
    <3>1. AgentModel(agent, request) = Select(req)
      BY <2>2 DEF AgentModel
    <3>2. req.tags = Agents[agent].tags /\ req.approved = FALSE
      OBVIOUS
    <3>3. IsFiniteSet(req.tags)
      BY <3>2, PlannedAgentsAreKnown
    <3> HIDE DEF req
    <3>4. CASE Select(req) = NoModel
      BY <3>1, <3>4 DEF NoModel, GatedIds
    <3>5. CASE Select(req) # NoModel
      <4>1. PICK model \in RegistryEntries : Select(req) = model.id /\ Allowed(model, req)
        BY <3>3, <3>5, SelectionIsAllowed
      <4> QED
        BY <3>1, <3>2, <4>1, EntriesAreWellMarked DEF Allowed, WellMarked
    <3> QED
      BY <3>4, <3>5
  <2> QED
    BY <2>1, <2>2
<1>3. \A i \in DOMAIN Models : Models[i].requires_approval => Models[i].id \in GatedIds
  BY ModelsAreEntries, EntriesAreWellMarked DEF WellMarked
<1> QED
  BY <1>1, <1>2, <1>3
=============================================================================

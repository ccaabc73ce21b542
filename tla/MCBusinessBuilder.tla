------------------------- MODULE MCBusinessBuilder -------------------------
(* Scenarios and planner answers for BusinessBuilder. *)
EXTENDS BusinessBuilder, TLC

CONSTANTS r1, r2, r3, shop, blog

----------------------------------------------------------------------------
(* Payloads. *)

Plain ==
    [run_type |-> "business_launch_plan", phase |-> "phase_1", mode |-> "mock",
     command |-> {}, idea |-> NoPayload, forbidden |-> {}, project |-> shop,
     source |-> Nobody, confirm |-> FALSE, writes |-> FALSE, commands |-> FALSE,
     search |-> FALSE, ceo |-> FALSE, agent |-> TRUE, memory |-> TRUE,
     coding_options |-> FALSE, max_cost |-> 25]

\* Every run type in both modes, with commands of up to two phrases, when the
\* request allows everything, nothing, or all but one thing.
Words ==
    {"don't create files", "do not update files", "do not run commands",
     "don't run commands", "do not search", "no external actions", "research",
     "update homepage", "new prototype", "do not use gpt-5.5", "cheap models only"}

OneOrTwo == {{}} \cup {{a, b} : a \in Words, b \in Words}

Flags == {"writes", "commands", "search", "ceo"}
Allowing(flags, p) ==
    [p EXCEPT !.writes = "writes" \in flags, !.commands = "commands" \in flags,
              !.search = "search" \in flags, !.ceo = "ceo" \in flags]

Singles ==
    {Allowing(flags, [Plain EXCEPT !.run_type = type, !.mode = mode, !.command = command,
                                   !.idea = {"research"}]) :
        type \in {"business_launch_plan", "prototype_build", "continuation",
                  "website_update", "research_only", "provider_test",
                  "business_builder"},
        mode \in {"mock", "live"}, command \in OneOrTwo,
        flags \in {{}, Flags} \cup {Flags \ {f} : f \in Flags}}

\* A planning run; the fixed command is replaced by the idea.
Planning ==
    [Plain EXCEPT !.run_type = "business_builder",
                  !.command = {"Business Builder Phase 1"}, !.idea = {"research"},
                  !.forbidden = {"supplier calls"}]
Live == [Planning EXCEPT !.mode = "live", !.ceo = TRUE]
Searching == [Live EXCEPT !.search = TRUE]

\* A prototype of the plan of a source.
Prototype(source) ==
    [Plain EXCEPT !.run_type = "business_builder", !.phase = "phase_2a_local_prototype",
                  !.source = source, !.confirm = TRUE, !.writes = TRUE,
                  !.memory = FALSE, !.agent = FALSE]

----------------------------------------------------------------------------
Nothing == [r \in Request |-> NoPayload]

Alone ==
    {[Nothing EXCEPT ![r1] = p] : p \in Singles \cup {[Planning EXCEPT !.idea = NoPayload]}}

\* Three runs of which two may overlap: planners on one project or on two,
\* and prototypes of a plan that is there, is still being made, is of another
\* project, or is itself a prototype.
Together ==
    {[Nothing EXCEPT ![r1] = first, ![r2] = second, ![r3] = third] :
        first \in {Searching, Planning},
        second \in {Live, [Live EXCEPT !.project = blog], Prototype(r1)},
        third \in {Prototype(r1), [Prototype(r1) EXCEPT !.project = blog],
                   Prototype(r2), [Prototype(r1) EXCEPT !.mode = "live"],
                   [Prototype(r1) EXCEPT !.command = {"don't create files"}]}}

AllScenarios == Alone \cup Together

----------------------------------------------------------------------------
(* Answers of the live planner. *)

Clean ==
    Answer("object", TRUE,
        Strategy({"words"}, {"words"}, {"simple"}, {"simple"},
                 <<Label({"simple"}, "planned", {"pricing"})>>),
        Website({"words"}, {"words"}, <<{"words"}>>, [i \in 1..5 |-> {"words"}]),
        {"words"}, Readiness("schema", "conditionally_ready", {"words"}, {"words"}))

\* It promises delivery, asks for names and orders, and calls the shop open.
Selling ==
    [Clean EXCEPT !.form = "fenced",
        !.strategy.labels = <<Label({"simple", "delivery"}, "planned", {"words"}),
                              Label({"simple"}, "confirmed", {"delivery"})>>,
        !.website.availability = {"order now", "availability"},
        !.website.cta = {"whatsapp"}, !.website.sections[1] = {"order now"},
        !.inquiry = {"name", "manual review"},
        !.local = Readiness("canonical", "another", {"pricing"}, {"website build"})]

\* Only capabilities, with an anchor that is a product or is not one.
Capabilities1 ==
    [Clean EXCEPT !.form = "in prose", !.strategy.labels = <<Label({"checkout"}, "planned", {"words"})>>]
Capabilities2 == [Capabilities1 EXCEPT !.strategy.anchor = {"whatsapp"}]

\* Product claims in the free texts, which the policy does not look at.
Claiming == [Clean EXCEPT !.strategy.promise = {"simple", "protein"}]

\* Answers that are refused.
Unusable ==
    {[Clean EXCEPT !.form = f] : f \in {"broken", "array", "empty"}}
    \cup {[Clean EXCEPT !.complete = FALSE],
          [Clean EXCEPT !.strategy.segment = Blank],
          [Clean EXCEPT !.strategy.labels = <<Label(Blank, "another", {"words"})>>],
          [Clean EXCEPT !.strategy.labels[1].status = "another"],
          [Clean EXCEPT !.website.sections = <<{"words"}>>],
          [Clean EXCEPT !.questions = 4], [Clean EXCEPT !.negative = 2],
          [Clean EXCEPT !.local.fields = "neither"]}

AllAnswers == {Clean, Selling, Capabilities1, Capabilities2, Claiming} \cup Unusable
=============================================================================

---------------------------- MODULE BusinessPlan ----------------------------
(***************************************************************************)
(* The content of a Business Builder run: the strategic decisions that the *)
(* planner returns, their validation, the system policy that rewrites      *)
(* them, the planning QA, and the local prototype page that phase 2A makes *)
(* of the stored decisions with its technical QA.                          *)
(*                                                                         *)
(* A text is the set of the terms it contains; the six term lists of the   *)
(* code are sets of terms, with one term for every way in which they       *)
(* differ.  Texts that no list and no check looks at are left out.         *)
(***************************************************************************)
EXTENDS Naturals, Sequences, FiniteSets

Term ==
    {"words", "simple", "delivery", "whatsapp", "checkout", "email", "order now",
     "register interest", "protein", "pricing", "availability", "website build", "name",
     "external submission", "no external submission", "manual review",
     "no manual-review queue", "real inquiry"}

Blank == {}

\* _contains_business_builder_capability.
NamesCapability(text) == text \cap {"delivery", "whatsapp", "checkout", "email"} # {}

\* _contains_real_cta.
RealCta(text) == text \cap {"delivery", "whatsapp", "checkout", "order now"} # {}

\* _contains_business_builder_personal_data_field.
PersonalData(text) == text \cap {"name", "email"} # {}

\* _contains_real_inquiry_claim: a denial counts in its exact words only.
RealInquiryClaim(text) ==
    \/ "external submission" \in text /\ "no external submission" \notin text
    \/ "manual review" \in text /\ "no manual-review queue" \notin text
    \/ "real inquiry" \in text

\* _contains_local_blocker_misclassification.
NoLocalBlocker(text) == text \cap {"pricing", "availability"} # {}

\* unsafe_phrases of _phase2a_safe_availability_wording.
UnsafeAvailability ==
    {"register interest", "whatsapp", "order now", "delivery"}

\* forbidden_checks of _phase2a_technical_qa that a decision's words can fail.
PageForbidden == {"order now", "checkout", "register interest", "whatsapp", "protein"}

----------------------------------------------------------------------------
(* What the planner is asked for. *)

LabelStatus == {"confirmed", "planned", "exploratory", "unavailable until validated"}

\* A product status label: label and notes are texts.
Label(label, status, notes) == [label |-> label, status |-> status, notes |-> notes]

\* local_build_readiness as the schema names its fields; fields says which of
\* the two accepted sets of fields it has, if any.
Readiness(fields, status, blockers, scope) ==
    [fields |-> fields, status |-> status, blockers |-> blockers, scope |-> scope]

\* The customer, the promise and the offer of an answer.
Strategy(segment, use_case, promise, anchor, labels) ==
    [segment |-> segment, use_case |-> use_case, promise |-> promise, anchor |-> anchor,
     labels |-> labels]

\* The website of an answer: availability and CTA wording, FAQ topics, and the
\* two CTAs of every section contract.
Website(availability, cta, faq, sections) ==
    [availability |-> availability, cta |-> cta, faq |-> faq, sections |-> sections]

\* An answer: how the text reads as JSON, whether every group has its fields,
\* and what it decides.
Answer(form, complete, strategy, website, inquiry, local) ==
    [form |-> form, complete |-> complete, strategy |-> strategy, website |-> website,
     inquiry |-> inquiry, local |-> local,
     questions |-> 5, positive |-> 3, negative |-> 3]

\* What a planner may answer; "another" is any status that the code does not
\* compare with.
AnswerText == SUBSET Term
AnswerLabel == [label : AnswerText, status : LabelStatus \cup {"another"}, notes : AnswerText]
PlannerAnswer ==
    [form : {"object", "fenced", "in prose", "array", "broken", "empty"}, complete : BOOLEAN,
     strategy : [segment : AnswerText, use_case : AnswerText, promise : AnswerText,
                 anchor : AnswerText, labels : Seq(AnswerLabel)],
     website : [availability : AnswerText, cta : AnswerText, faq : Seq(AnswerText),
                sections : Seq(AnswerText)],
     inquiry : AnswerText,
     local : [fields : {"schema", "canonical", "neither"},
              status : {"conditionally_ready", "another"},
              blockers : AnswerText, scope : AnswerText],
     questions : Nat, positive : Nat, negative : Nat]

\* _parse_json_object: fences and surrounding prose are taken off.
ParsesAsObject(answer) == answer.form \in {"object", "fenced", "in prose"}

Elements(seq) == {seq[i] : i \in DOMAIN seq}

\* The loops that append to a new list what they do not skip.
Kept(seq, S) ==
    LET kept[n \in 0..Len(seq)] ==
            IF n = 0 THEN <<>>
            ELSE IF seq[n] \in S THEN Append(kept[n - 1], seq[n]) ELSE kept[n - 1]
    IN  kept[Len(seq)]

Texts(seq) == Kept(seq, Elements(seq) \ {Blank})

\* Labels without a text are skipped before their status is looked at.
LabelsWithText(labels) == Kept(labels, {l \in Elements(labels) : l.label # Blank})

Products(labels) == Kept(labels, {l \in Elements(labels) : ~NamesCapability(l.label)})

First(n, seq) == SubSeq(seq, 1, IF Len(seq) < n THEN Len(seq) ELSE n)

\* A label is skipped or has one of the four statuses.
HaveStatus(labels) ==
    \A i \in DOMAIN labels : labels[i].label # Blank => labels[i].status \in LabelStatus

\* _validate_business_builder_decisions; what it refuses is a 502.
Accepts(answer) ==
    /\ answer.complete
    /\ HaveStatus(answer.strategy.labels)
    /\ LabelsWithText(answer.strategy.labels) # <<>>
    /\ Len(answer.website.sections) >= 5
    /\ answer.questions >= 5 /\ answer.positive >= 3 /\ answer.negative >= 3
    /\ answer.strategy.segment # Blank
    /\ answer.local.fields \in {"schema", "canonical"}

----------------------------------------------------------------------------
(* The system policy. *)

\* _canonical_business_builder_inquiry_flow: its fields, and the five texts
\* about its behavior.
CanonicalInquiry ==
    [fields |-> {"words"},
     behavior |-> {"real inquiry", "external submission", "no external submission",
                   "whatsapp", "email", "manual review"}]

CanonicalCta == {"words"}

\* _canonical_business_builder_local_readiness.
CanonicalLocal ==
    [status |-> "conditionally_ready", policy_source |-> "system_deterministic",
     prototype_mode |-> "local_demo_only", personal_data |-> "not_collected",
     blockers |-> {"words"}, scope |-> {"local non-deployed landing page"}]

\* Mutant: a label is checked by its status alone, whatever it names.
KeepAllLabels(strategy) == First(8, LabelsWithText(strategy.labels))

\* Labels that name a capability of the shop are taken out; when none is left,
\* the anchor offer takes their place if it does not name one itself.
ProductLabels(strategy) ==
    LET labels == First(8, LabelsWithText(strategy.labels))
        products == Products(labels)
        anchor == Label(strategy.anchor, "planned", {"words"})
    IN  IF products # <<>> \/ strategy.anchor = Blank \/ NamesCapability(strategy.anchor)
        THEN products ELSE <<anchor>>

\* policy_boundary_notes: where the policy found something to narrow.
PolicyNotes(answer) ==
    LET labels == First(8, LabelsWithText(answer.strategy.labels))
        removed == \E i \in DOMAIN labels : NamesCapability(labels[i].label)
        derived == /\ \A i \in DOMAIN labels : NamesCapability(labels[i].label)
                   /\ ProductLabels(answer.strategy) # <<>>
    IN  {n \in {"labels"} : removed} \cup {n \in {"anchor"} : derived}
        \cup {n \in {"inquiry"} : PersonalData(answer.inquiry)
                                  \/ RealInquiryClaim(answer.inquiry)}
        \cup {n \in {"cta"} : RealCta(answer.website.cta)}
        \cup {n \in {"local"} : \/ answer.local.status # "conditionally_ready"
                                \/ NoLocalBlocker(answer.local.blockers)
                                \/ "website build" \in answer.local.scope}

\* The decisions that are stored: _apply_business_builder_system_policy.
Decisions(answer) ==
    [segment |-> answer.strategy.segment, use_case |-> answer.strategy.use_case,
     promise |-> answer.strategy.promise, anchor |-> answer.strategy.anchor,
     labels |-> ProductLabels(answer.strategy),
     availability |-> answer.website.availability, faq |-> answer.website.faq,
     cta |-> CanonicalCta,
     sections |-> [i \in DOMAIN answer.website.sections |->
                      IF RealCta(answer.website.sections[i]) THEN {"words"}
                      ELSE answer.website.sections[i]],
     inquiry |-> CanonicalInquiry, local |-> CanonicalLocal, public |-> "not_ready",
     notes |-> PolicyNotes(answer)]

----------------------------------------------------------------------------
(* The deterministic planner of mock runs. *)

\* The section contracts: none has a real CTA.
MockSections == [i \in 1..8 |-> {"words"}]

\* _mock_business_builder_decisions.  Its CTA direction and its inquiry name
\* what they rule out, so the policy narrows a mock plan as well.
MockAnswer ==
    Answer("object", TRUE,
        Strategy({"words"}, {"simple"}, {"simple", "availability"}, {"simple"},
                 <<Label({"simple"}, "planned", {"words"}),
                   Label({"simple"}, "exploratory", {"words"})>>),
        Website({"pricing", "availability"}, {"words", "delivery"},
                <<{"words"}, {"pricing"}, {"words"}, {"availability"}, {"words"}, {"words"}>>,
                MockSections),
        {"name", "email", "whatsapp", "delivery", "external submission",
         "no external submission"},
        Readiness("schema", "conditionally_ready", {"words"}, {"words"}))

----------------------------------------------------------------------------
(* The stored package, for a user's forbidden actions. *)

AlwaysBlocked ==
    {"deployments", "domain_purchase", "hosting_purchase", "package_installation",
     "cloud_setup", "payments", "email", "whatsapp", "social_media_posting", "ads",
     "supplier_contact", "customer_contact", "external_apis"}

\* The actions that every plan blocks, and what the user forbids.
BlockedExternalActions(forbidden) == AlwaysBlocked \cup forbidden

\* build_handoff.json: what a later build is told.
Handoff(decisions) ==
    [sections |-> decisions.sections, cta |-> decisions.cta,
     availability |-> decisions.availability, faq |-> decisions.faq,
     labels |-> decisions.labels, inquiry |-> decisions.inquiry,
     local |-> decisions.local, public |-> decisions.public, notes |-> decisions.notes]

\* business_builder_state.json.
PlanningState(decisions, forbidden) ==
    [phase_status |-> "planning_complete", build_started |-> FALSE, build_allowed |-> FALSE,
     external_actions_taken |-> {},
     external_actions_blocked |-> BlockedExternalActions(forbidden),
     local |-> decisions.local, public |-> decisions.public]

\* _business_builder_bundle: the three documents that phase 2A reads.
Bundle(decisions, forbidden) ==
    [strategic_decisions |-> decisions, build_handoff |-> Handoff(decisions),
     business_builder_state |-> PlanningState(decisions, forbidden)]

\* What the policy leaves of an answer that is accepted, and the documents that
\* are made of it.
StatusLabel == [label : AnswerText, status : LabelStatus, notes : AnswerText]
NarrowedDecisions ==
    [segment : AnswerText, use_case : AnswerText, promise : AnswerText, anchor : AnswerText,
     labels : Seq(StatusLabel), availability : AnswerText, faq : Seq(AnswerText),
     cta : {CanonicalCta}, sections : Seq(AnswerText), inquiry : {CanonicalInquiry},
     local : {CanonicalLocal}, public : {"not_ready"},
     notes : SUBSET {"labels", "anchor", "inquiry", "cta", "local"}]

StoredState ==
    [phase_status : {"planning_complete"}, build_started : {FALSE}, build_allowed : {FALSE},
     external_actions_taken : {{}}, external_actions_blocked : SUBSET (AlwaysBlocked \cup STRING),
     local : {CanonicalLocal}, public : {"not_ready"}]

Package ==
    [strategic_decisions : NarrowedDecisions,
     build_handoff : [sections : Seq(AnswerText), cta : {CanonicalCta},
                      availability : AnswerText, faq : Seq(AnswerText),
                      labels : Seq(StatusLabel), inquiry : {CanonicalInquiry},
                      local : {CanonicalLocal}, public : {"not_ready"},
                      notes : SUBSET {"labels", "anchor", "inquiry", "cta", "local"}],
     business_builder_state : StoredState]

----------------------------------------------------------------------------
(* Planning QA. *)

Verdict(blocked) == IF blocked THEN "BLOCKED" ELSE "PASS"

\* _business_builder_policy_qa_lines.  The labels are read with their notes,
\* which the policy has not looked at.
PolicyQA(handoff) ==
    [narrowed |-> IF handoff.notes # {} THEN "WARN" ELSE "PASS",
     readiness |-> Verdict(handoff.local.status # "conditionally_ready"
                           \/ handoff.local.policy_source # "system_deterministic"),
     demo_only |-> Verdict(handoff.local.prototype_mode # "local_demo_only"
                           \/ handoff.local.personal_data # "not_collected"),
     fields |-> Verdict(PersonalData(handoff.inquiry.fields)),
     behavior |-> Verdict(RealInquiryClaim(handoff.inquiry.behavior)),
     products |-> Verdict(\E i \in DOMAIN handoff.labels :
                              \/ NamesCapability(handoff.labels[i].label)
                              \/ NamesCapability(handoff.labels[i].notes)),
     blockers |-> Verdict(NoLocalBlocker(handoff.local.blockers)),
     allowed |-> Verdict("local non-deployed landing page" \notin handoff.local.scope),
     cta |-> Verdict(RealCta(handoff.cta))]

\* The semantic lines of _business_builder_qa that decisions can change: the
\* first segment, a promise about process and not product, and the labels.
SemanticQA(decisions, researched) ==
    LET process == decisions.promise \cap {"availability", "manual review"}
    IN  [segment |-> IF decisions.segment = Blank THEN "BLOCKED"
                     ELSE IF researched THEN "PASS" ELSE "WARN",
         promise |-> IF decisions.promise = Blank
                        \/ (Cardinality(process) >= 2 /\ "simple" \notin decisions.promise)
                     THEN "WARN" ELSE "PASS",
         labels |-> IF decisions.labels = <<>> THEN "WARN" ELSE "PASS"]

----------------------------------------------------------------------------
(* The local prototype of phase 2A. *)

\* _phase2a_policy: the form's fields, its button and its confirmation.
PrototypePolicy ==
    [allowed_form_fields |-> {"interest type", "use-case preference",
                              "plain/flavour preference", "optional fictional sample note"},
     personal_data |-> "not_collected", canonical_cta |-> {"words"}]

\* _phase2a_safe_availability_wording.
AvailabilityWording(text) ==
    IF text = Blank \/ text \cap UnsafeAvailability # {} THEN {"words"} ELSE text

\* _phase2a_build_spec: labels are filtered, promise, segment, use case, notes
\* and FAQ topics are taken as they are.
BuildSpec(decisions) ==
    LET given(text, default) == IF text = Blank THEN default ELSE text
        products == First(6, Products(decisions.labels))
        faq == First(5, Texts(decisions.faq))
    IN  [promise |-> given(decisions.promise, {"simple", "availability"}),
         segment |-> given(decisions.segment, {"words"}),
         use_case |-> given(decisions.use_case, {"words"}),
         products |-> IF products # <<>> THEN products
                      ELSE <<Label({"simple"}, "planned", {"words"})>>,
         faq |-> IF faq # <<>> THEN faq
                 ELSE <<{"words"}, {"pricing"}, {"availability"}, {"words"}, {"words"}>>,
         cta |-> PrototypePolicy.canonical_cta,
         availability |-> AvailabilityWording(decisions.availability)]

\* index.html: the texts of the spec between the page's own.
Page(spec) ==
    UNION ({{"words", "pricing", "availability", "simple"}, spec.cta}
           \cup {spec[f] : f \in {"promise", "segment", "use_case", "availability"}}
           \cup Elements(spec.faq)
           \cup UNION {{l.label, l.notes} : l \in Elements(spec.products)})

\* _phase2a_technical_qa: the page's own sections, disclaimers and form pass
\* all checks, so what is left is what the decisions put between them.
TechnicalQA(page) == Verdict(page = Blank \/ page \cap PageForbidden # {})
=============================================================================

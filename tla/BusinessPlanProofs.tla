------------------------ MODULE BusinessPlanProofs ------------------------
(***************************************************************************)
(* What the operators of BusinessPlan compute for every answer a planner   *)
(* may give: the lists keep what their tests let through, the system       *)
(* policy leaves nothing that the planning QA looks for in what it has     *)
(* looked at, and the package and the page are made of texts.              *)
(***************************************************************************)
EXTENDS BusinessPlan, SequenceTheorems, WellFoundedInduction, TLAPS

----------------------------------------------------------------------------
(* Lists. *)

\* Induction for a set of natural numbers, from the least one outside it.
LEMMA SetInduction ==
    ASSUME NEW T, 0 \in T, \A n \in Nat : n \in T => n + 1 \in T
    PROVE  Nat \subseteq T
<1> DEFINE U == Nat \ T
<1> SUFFICES ASSUME U # {} PROVE FALSE
  OBVIOUS
<1>1. PICK x \in U : \A y \in U : ~(<<y, x>> \in OpToRel(<, Nat))
  <2>1. U \subseteq Nat
    OBVIOUS
  <2> HIDE DEF U
  <2> QED
    BY <2>1, WFMin, NatLessThanWellFounded
<1>2. \A y \in U : ~(y < x)
  BY <1>1 DEF OpToRel
<1>3. x \in Nat /\ x # 0
  OBVIOUS
<1>4. x - 1 \in Nat /\ x - 1 < x /\ (x - 1) + 1 = x
  BY <1>3
<1>5. x - 1 \notin U
  BY <1>2, <1>4
<1> QED
  BY <1>4, <1>5

\* The function in Kept, up to a position.
IsKept(f, seq, S, m) ==
    f = [n \in 0..m |-> IF n = 0 THEN <<>>
                        ELSE IF seq[n] \in S THEN Append(f[n - 1], seq[n]) ELSE f[n - 1]]

LEMMA KeptEquations ==
    ASSUME NEW f, NEW seq, NEW S, NEW m \in Nat, IsKept(f, seq, S, m)
    PROVE  /\ f[0] = <<>>
           /\ \A n \in 1..m :
                 f[n] = IF seq[n] \in S THEN Append(f[n - 1], seq[n]) ELSE f[n - 1]
<1> DEFINE h == [n \in 0..m |-> IF n = 0 THEN <<>>
                                ELSE IF seq[n] \in S THEN Append(f[n - 1], seq[n])
                                ELSE f[n - 1]]
<1>1. f = h
  BY DEF IsKept
<1>2. h[0] = <<>>
  OBVIOUS
<1>3. \A n \in 1..m : h[n] = IF seq[n] \in S THEN Append(f[n - 1], seq[n]) ELSE f[n - 1]
  OBVIOUS
<1> HIDE DEF h
<1> QED
  BY <1>1, <1>2, <1>3

LEMMA KeptExists ==
    ASSUME NEW seq, NEW S
    PROVE  \A m \in Nat : \E f : IsKept(f, seq, S, m)
<1> DEFINE T == {m \in Nat : \E f : IsKept(f, seq, S, m)}
<1>1. 0 \in T
  <2>1. IsKept([n \in 0..0 |-> <<>>], seq, S, 0)
    BY DEF IsKept
  <2> QED
    BY <2>1
<1>2. ASSUME NEW m \in Nat, m \in T PROVE m + 1 \in T
  <2>1. PICK f : IsKept(f, seq, S, m)
    BY <1>2
  <2> DEFINE g == [n \in 0..(m + 1) |->
                      IF n = m + 1
                      THEN IF seq[n] \in S THEN Append(f[m], seq[n]) ELSE f[m]
                      ELSE f[n]]
             h == [n \in 0..(m + 1) |->
                      IF n = 0 THEN <<>>
                      ELSE IF seq[n] \in S THEN Append(g[n - 1], seq[n]) ELSE g[n - 1]]
  <2>2. ASSUME NEW n \in 0..(m + 1) PROVE g[n] = h[n]
    <3>1. CASE n = m + 1
      BY <3>1
    <3>2. CASE n = 0
      BY <2>1, <3>2, KeptEquations
    <3>3. CASE n \in 1..m
      <4>1. f[n] = IF seq[n] \in S THEN Append(f[n - 1], seq[n]) ELSE f[n - 1]
        BY <2>1, <3>3, KeptEquations
      <4>2. g[n] = f[n] /\ g[n - 1] = f[n - 1]
        BY <3>3
      <4>3. h[n] = IF seq[n] \in S THEN Append(g[n - 1], seq[n]) ELSE g[n - 1]
        BY <3>3
      <4> QED
        BY <4>1, <4>2, <4>3
    <3> QED
      BY <3>1, <3>2, <3>3
  <2>3. g = h
    BY <2>2
  <2>4. IsKept(g, seq, S, m + 1)
    BY <2>3 DEF IsKept
  <2> QED
    BY <2>4
<1>3. Nat \subseteq T
  <2> HIDE DEF T
  <2> QED
    BY <1>1, <1>2, SetInduction
<1> QED
  BY <1>3

LEMMA AppendElements ==
    ASSUME NEW E, NEW s \in Seq(E), NEW e \in E
    PROVE  Append(s, e) \in Seq(E) /\ Elements(Append(s, e)) = Elements(s) \cup {e}
<1> DEFINE t == Append(s, e)
<1>1. /\ t \in Seq(E) /\ DOMAIN t = 1..(Len(s) + 1) /\ DOMAIN s = 1..Len(s)
      /\ Len(s) \in Nat
      /\ t[Len(s) + 1] = e /\ \A i \in 1..Len(s) : t[i] = s[i]
  OBVIOUS
<1> HIDE DEF t
<1>2. Elements(t) = Elements(s) \cup {e}
  BY <1>1 DEF Elements
<1> QED
  BY <1>1, <1>2 DEF t

\* A filtered list has the elements that the test lets through, and no other.
LEMMA KeptElements ==
    ASSUME NEW E, NEW seq \in Seq(E), NEW S
    PROVE  Kept(seq, S) \in Seq(E) /\ Elements(Kept(seq, S)) = Elements(seq) \cap S
<1> DEFINE g == CHOOSE f : IsKept(f, seq, S, Len(seq))
<1>1. Len(seq) \in Nat /\ DOMAIN seq = 1..Len(seq)
  OBVIOUS
<1>2. IsKept(g, seq, S, Len(seq))
  BY <1>1, KeptExists
<1>3. Kept(seq, S) = g[Len(seq)]
  BY DEF Kept, IsKept
<1> HIDE DEF g
<1>4. /\ g[0] = <<>>
      /\ \A n \in 1..Len(seq) :
            g[n] = IF seq[n] \in S THEN Append(g[n - 1], seq[n]) ELSE g[n - 1]
  BY <1>1, <1>2, KeptEquations
<1> DEFINE first(n) == {seq[i] : i \in 1..n}
           T == {n \in Nat : n <= Len(seq) =>
                                /\ g[n] \in Seq(E)
                                /\ Elements(g[n]) = first(n) \cap S}
<1>5. 0 \in T
  <2>1. first(0) = {} /\ <<>> \in Seq(E)
    OBVIOUS
  <2>2. Elements(<<>>) = {}
    BY DEF Elements
  <2> QED
    BY <1>4, <2>1, <2>2
<1>6. ASSUME NEW n \in Nat, n \in T PROVE n + 1 \in T
  <2> SUFFICES ASSUME n + 1 <= Len(seq)
               PROVE  g[n + 1] \in Seq(E) /\ Elements(g[n + 1]) = first(n + 1) \cap S
    OBVIOUS
  <2>1. g[n] \in Seq(E) /\ Elements(g[n]) = first(n) \cap S
    BY <1>1, <1>6
  <2>2. n + 1 \in 1..Len(seq) /\ (n + 1) - 1 = n
    BY <1>1
  <2>3. g[n + 1] = IF seq[n + 1] \in S THEN Append(g[n], seq[n + 1]) ELSE g[n]
    BY <1>4, <2>2
  <2>4. seq[n + 1] \in E
    BY <2>2
  <2>5. first(n + 1) = first(n) \cup {seq[n + 1]}
    BY <2>2
  <2> HIDE DEF first
  <2>6. CASE seq[n + 1] \in S
    <3>1. g[n + 1] \in Seq(E) /\ Elements(g[n + 1]) = Elements(g[n]) \cup {seq[n + 1]}
      BY <2>1, <2>3, <2>4, <2>6, AppendElements
    <3> QED
      BY <2>1, <2>5, <2>6, <3>1
  <2>7. CASE seq[n + 1] \notin S
    BY <2>1, <2>3, <2>5, <2>7
  <2> QED
    BY <2>6, <2>7
<1>7. Nat \subseteq T
  <2> HIDE DEF T
  <2> QED
    BY <1>5, <1>6, SetInduction
<1>8. g[Len(seq)] \in Seq(E) /\ Elements(g[Len(seq)]) = first(Len(seq)) \cap S
  <2>1. Len(seq) \in T
    BY <1>1, <1>7
  <2> QED
    BY <1>1, <2>1
<1>9. first(Len(seq)) = Elements(seq)
  BY <1>1 DEF Elements
<1> QED
  BY <1>3, <1>8, <1>9

\* A list that is cut has elements of the whole one, and one if that has one.
LEMMA FirstElements ==
    ASSUME NEW E, NEW seq \in Seq(E), NEW n \in Nat \ {0}
    PROVE  /\ First(n, seq) \in Seq(E)
           /\ Elements(First(n, seq)) \subseteq Elements(seq)
           /\ seq # <<>> => First(n, seq) # <<>>
<1> DEFINE m == IF Len(seq) < n THEN Len(seq) ELSE n
           s == SubSeq(seq, 1, m)
<1>1. m \in Nat /\ m <= Len(seq) /\ Len(seq) \in Nat
  OBVIOUS
<1> HIDE DEF m
<1>2. s \in Seq(E) /\ Len(s) = m /\ DOMAIN s = 1..m /\ \A i \in 1..m : s[i] = seq[i]
  BY <1>1
<1>3. DOMAIN seq = 1..Len(seq)
  OBVIOUS
<1>4. Elements(s) \subseteq Elements(seq)
  BY <1>1, <1>2, <1>3 DEF Elements
<1>5. seq # <<>> => m # 0
  BY <1>1 DEF m
<1>6. First(n, seq) = s
  BY DEF First, m
<1> QED
  BY <1>2, <1>4, <1>5, <1>6

LEMMA ElementAt ==
    ASSUME NEW E, NEW seq \in Seq(E), NEW i \in DOMAIN seq
    PROVE  seq[i] \in Elements(seq) /\ seq[i] \in E
BY DEF Elements

LEMMA NoElements ==
    ASSUME NEW E, NEW seq \in Seq(E)
    PROVE  seq = <<>> <=> Elements(seq) = {}
<1>1. DOMAIN seq = 1..Len(seq) /\ Len(seq) \in Nat
  OBVIOUS
<1>2. CASE seq = <<>>
  BY <1>2 DEF Elements
<1>3. CASE seq # <<>>
  <2>1. 1 \in DOMAIN seq
    BY <1>1, <1>3
  <2> QED
    BY <1>3, <2>1 DEF Elements
<1> QED
  BY <1>2, <1>3

\* A list is typed by its elements.
LEMMA ElementsType ==
    ASSUME NEW E, NEW seq \in Seq(E), NEW F, Elements(seq) \subseteq F
    PROVE  seq \in Seq(F)
<1>1. DOMAIN seq = 1..Len(seq) /\ Len(seq) \in Nat /\ seq = [i \in 1..Len(seq) |-> seq[i]]
  OBVIOUS
<1>2. \A i \in 1..Len(seq) : seq[i] \in F
  BY <1>1 DEF Elements
<1>3. seq \in [1..Len(seq) -> F]
  BY <1>1, <1>2
<1> QED
  BY <1>1, <1>3, SeqDef

\* A list that a comprehension makes.
LEMMA MadeList ==
    ASSUME NEW E, NEW n \in Nat, NEW f \in [1..n -> E]
    PROVE  f \in Seq(E)
BY SeqDef

LEMMA SingleList ==
    ASSUME NEW E, NEW e \in E
    PROVE  <<e>> \in Seq(E) /\ <<e>> # <<>> /\ Elements(<<e>>) = {e}
<1>1. <<e>> \in Seq(E) /\ <<e>> # <<>> /\ DOMAIN <<e>> = {1} /\ <<e>>[1] = e
  OBVIOUS
<1> DEFINE s == <<e>>
<1> HIDE DEF s
<1>2. DOMAIN s = {1} /\ s[1] = e => Elements(s) = {e}
  BY DEF Elements
<1> QED
  BY <1>1, <1>2 DEF s

----------------------------------------------------------------------------
(* The system policy. *)

\* No product label names a capability of a shop, whatever the labels of an
\* answer are and wherever the anchor offer takes their place; and every label
\* has one of the four statuses.
LEMMA LabelsAreNarrowed ==
    ASSUME NEW strategy, strategy.labels \in Seq(AnswerLabel), strategy.anchor \in AnswerText,
           HaveStatus(strategy.labels)
    PROVE  /\ ProductLabels(strategy) \in Seq(StatusLabel)
           /\ \A l \in Elements(ProductLabels(strategy)) : ~NamesCapability(l.label)
           /\ Elements(ProductLabels(strategy)) \subseteq
                 Elements(strategy.labels)
                 \cup {Label(strategy.anchor, "planned", {"words"})}
<1> DEFINE with == LabelsWithText(strategy.labels)
           labels == First(8, with)
           products == Products(labels)
           anchor == Label(strategy.anchor, "planned", {"words"})
           named == {l \in Elements(strategy.labels) : l.label # Blank}
<1>1. with \in Seq(AnswerLabel) /\ Elements(with) \subseteq named
  BY KeptElements DEF LabelsWithText
<1> HIDE DEF with
<1>2. named \subseteq StatusLabel
  <2>1. \A i \in DOMAIN strategy.labels : strategy.labels[i] \in AnswerLabel
    OBVIOUS
  <2> QED
    BY <2>1 DEF Elements, HaveStatus, AnswerLabel, StatusLabel
<1>9. named \subseteq Elements(strategy.labels)
  OBVIOUS
<1> HIDE DEF named
<1>3. labels \in Seq(AnswerLabel) /\ Elements(labels) \subseteq Elements(with)
  BY <1>1, FirstElements
<1> HIDE DEF labels
<1>4. /\ products \in Seq(AnswerLabel)
      /\ Elements(products) \subseteq Elements(labels)
      /\ \A l \in Elements(products) : ~NamesCapability(l.label)
  BY <1>3, KeptElements DEF Products
<1> HIDE DEF products
<1>5. products \in Seq(StatusLabel)
  BY <1>1, <1>2, <1>3, <1>4, ElementsType
<1>6. anchor \in StatusLabel /\ anchor.label = strategy.anchor
  BY DEF Label, StatusLabel, AnswerText, Term, LabelStatus
<1> HIDE DEF anchor
<1>7. <<anchor>> \in Seq(StatusLabel) /\ Elements(<<anchor>>) = {anchor}
  BY <1>6, SingleList
<1>8. ProductLabels(strategy) =
        IF products # <<>> \/ strategy.anchor = Blank \/ NamesCapability(strategy.anchor)
        THEN products ELSE <<anchor>>
  BY DEF ProductLabels, products, labels, with, anchor
<1>10. Elements(products) \subseteq Elements(strategy.labels)
  BY <1>1, <1>3, <1>4, <1>9
<1>11. anchor = Label(strategy.anchor, "planned", {"words"})
  BY DEF anchor
<1> QED
  BY <1>4, <1>5, <1>6, <1>7, <1>8, <1>10, <1>11

\* What the policy makes of an answer: fixed inquiry, readiness and call to
\* action, and no list that says more than it may.
LEMMA DecisionsAreNarrowed ==
    ASSUME NEW answer \in PlannerAnswer, HaveStatus(answer.strategy.labels)
    PROVE  /\ Decisions(answer) \in NarrowedDecisions
           /\ \A i \in DOMAIN Decisions(answer).labels :
                 ~NamesCapability(Decisions(answer).labels[i].label)
           /\ \A i \in DOMAIN Decisions(answer).sections :
                 ~RealCta(Decisions(answer).sections[i])
<1> DEFINE d == Decisions(answer)
           given == answer.website.sections
           sections == [i \in DOMAIN given |-> IF RealCta(given[i]) THEN {"words"} ELSE given[i]]
<1>1. /\ answer.strategy.segment \in AnswerText /\ answer.strategy.use_case \in AnswerText
      /\ answer.strategy.promise \in AnswerText /\ answer.strategy.anchor \in AnswerText
      /\ answer.strategy.labels \in Seq(AnswerLabel)
      /\ answer.website.availability \in AnswerText /\ answer.website.faq \in Seq(AnswerText)
      /\ given \in Seq(AnswerText)
  BY DEF PlannerAnswer
<1>2. /\ ProductLabels(answer.strategy) \in Seq(StatusLabel)
      /\ \A l \in Elements(ProductLabels(answer.strategy)) : ~NamesCapability(l.label)
  BY <1>1, LabelsAreNarrowed
<1>3. {"words"} \in AnswerText /\ ~RealCta({"words"})
  BY DEF AnswerText, Term, RealCta
<1>4. sections \in Seq(AnswerText) /\ \A i \in DOMAIN sections : ~RealCta(sections[i])
  <2>1. DOMAIN given = 1..Len(given) /\ Len(given) \in Nat /\ given \in [1..Len(given) -> AnswerText]
    BY <1>1
  <2>2. sections \in [1..Len(given) -> AnswerText]
    BY <1>3, <2>1
  <2>3. \A i \in DOMAIN sections : ~RealCta(sections[i])
    BY <1>3
  <2> HIDE DEF sections
  <2> QED
    BY <2>1, <2>2, <2>3, MadeList
<1>5. PolicyNotes(answer) \in SUBSET {"labels", "anchor", "inquiry", "cta", "local"}
  BY DEF PolicyNotes
<1> HIDE DEF sections
<1>6. d = [segment |-> answer.strategy.segment, use_case |-> answer.strategy.use_case,
           promise |-> answer.strategy.promise, anchor |-> answer.strategy.anchor,
           labels |-> ProductLabels(answer.strategy),
           availability |-> answer.website.availability, faq |-> answer.website.faq,
           cta |-> CanonicalCta, sections |-> sections,
           inquiry |-> CanonicalInquiry, local |-> CanonicalLocal, public |-> "not_ready",
           notes |-> PolicyNotes(answer)]
  BY DEF Decisions, sections
<1> HIDE DEF d
<1>7. d \in NarrowedDecisions
  BY <1>1, <1>2, <1>4, <1>5, <1>6 DEF NarrowedDecisions
<1>8. \A i \in DOMAIN d.labels : ~NamesCapability(d.labels[i].label)
  BY <1>2, <1>6, ElementAt
<1>9. \A i \in DOMAIN d.sections : ~RealCta(d.sections[i])
  BY <1>4, <1>6
<1> QED
  BY <1>7, <1>8, <1>9 DEF d

\* The stored package has the same decisions in its three documents.
LEMMA BundleIsAPackage ==
    ASSUME NEW d \in NarrowedDecisions, NEW forbidden \in SUBSET STRING
    PROVE  /\ Bundle(d, forbidden) \in Package
           /\ Bundle(d, forbidden).strategic_decisions = d
           /\ Bundle(d, forbidden).build_handoff = Handoff(d)
           /\ Bundle(d, forbidden).business_builder_state = PlanningState(d, forbidden)
<1>1. Handoff(d) \in [sections : Seq(AnswerText), cta : {CanonicalCta},
                      availability : AnswerText, faq : Seq(AnswerText),
                      labels : Seq(StatusLabel), inquiry : {CanonicalInquiry},
                      local : {CanonicalLocal}, public : {"not_ready"},
                      notes : SUBSET {"labels", "anchor", "inquiry", "cta", "local"}]
  BY DEF Handoff, NarrowedDecisions
<1>2. BlockedExternalActions(forbidden) \in SUBSET (AlwaysBlocked \cup STRING)
  BY DEF BlockedExternalActions
<1>3. PlanningState(d, forbidden) \in StoredState
  BY <1>2 DEF PlanningState, StoredState, NarrowedDecisions
<1> QED
  BY <1>1, <1>3 DEF Bundle, Package

\* The planner of mock runs answers as a live one may.
LEMMA MockAnswerTyped ==
    MockAnswer \in PlannerAnswer /\ HaveStatus(MockAnswer.strategy.labels)
<1>1. /\ {"words"} \in AnswerText /\ {"simple"} \in AnswerText
      /\ {"simple", "availability"} \in AnswerText /\ {"pricing"} \in AnswerText
      /\ {"availability"} \in AnswerText /\ {"pricing", "availability"} \in AnswerText
      /\ {"words", "delivery"} \in AnswerText
      /\ {"name", "email", "whatsapp", "delivery", "external submission",
          "no external submission"} \in AnswerText
  BY DEF AnswerText, Term
<1>2. MockSections \in Seq(AnswerText)
  BY <1>1, MadeList, 8 \in Nat DEF MockSections
<1> DEFINE labels == <<Label({"simple"}, "planned", {"words"}),
                       Label({"simple"}, "exploratory", {"words"})>>
           faq == <<{"words"}, {"pricing"}, {"words"}, {"availability"}, {"words"}, {"words"}>>
<1>3. labels \in Seq(AnswerLabel) /\ HaveStatus(labels)
  <2> DEFINE a == Label({"simple"}, "planned", {"words"})
             b == Label({"simple"}, "exploratory", {"words"})
  <2>1. /\ a \in AnswerLabel /\ a.status \in LabelStatus
        /\ b \in AnswerLabel /\ b.status \in LabelStatus
    BY <1>1 DEF Label, AnswerLabel, LabelStatus
  <2> HIDE DEF a, b
  <2>2. <<a, b>> \in Seq(AnswerLabel) /\ \A i \in DOMAIN <<a, b>> : <<a, b>>[i] \in {a, b}
    BY <2>1
  <2>3. labels = <<a, b>>
    BY DEF a, b
  <2> HIDE DEF labels
  <2> QED
    BY <2>1, <2>2, <2>3 DEF HaveStatus
<1>4. faq \in Seq(AnswerText)
  <2> DEFINE w == {"words"}
             x == {"pricing"}
             y == {"availability"}
  <2>1. w \in AnswerText /\ x \in AnswerText /\ y \in AnswerText
    BY <1>1
  <2> HIDE DEF w, x, y
  <2>2. <<w, x, w, y, w, w>> \in Seq(AnswerText)
    BY <2>1
  <2> QED
    BY <2>2 DEF w, x, y
<1> HIDE DEF labels, faq
<1>5. Strategy({"words"}, {"simple"}, {"simple", "availability"}, {"simple"}, labels) \in
        [segment : AnswerText, use_case : AnswerText, promise : AnswerText,
         anchor : AnswerText, labels : Seq(AnswerLabel)]
  BY <1>1, <1>3 DEF Strategy
<1>6. Website({"pricing", "availability"}, {"words", "delivery"}, faq, MockSections) \in
        [availability : AnswerText, cta : AnswerText, faq : Seq(AnswerText),
         sections : Seq(AnswerText)]
  BY <1>1, <1>2, <1>4 DEF Website
<1>7. Readiness("schema", "conditionally_ready", {"words"}, {"words"}) \in
        [fields : {"schema", "canonical", "neither"},
         status : {"conditionally_ready", "another"},
         blockers : AnswerText, scope : AnswerText]
  BY <1>1 DEF Readiness
<1> DEFINE strategy == Strategy({"words"}, {"simple"}, {"simple", "availability"}, {"simple"}, labels)
           website == Website({"pricing", "availability"}, {"words", "delivery"}, faq, MockSections)
           inquiry == {"name", "email", "whatsapp", "delivery", "external submission",
                       "no external submission"}
           local == Readiness("schema", "conditionally_ready", {"words"}, {"words"})
<1>8. MockAnswer = Answer("object", TRUE, strategy, website, inquiry, local)
  BY DEF MockAnswer, labels, faq
<1>9. inquiry \in AnswerText
  BY <1>1
<1> HIDE DEF strategy, website, inquiry, local
<1>10. Answer("object", TRUE, strategy, website, inquiry, local) \in PlannerAnswer
  BY <1>5, <1>6, <1>7, <1>9 DEF Answer, PlannerAnswer, strategy, website, local
<1>11. MockAnswer.strategy.labels = labels
  BY <1>8 DEF Answer, strategy, Strategy
<1> QED
  BY <1>3, <1>8, <1>10, <1>11

----------------------------------------------------------------------------
(* The planning QA and the page. *)

\* Whatever the planner has answered, the policy QA of an accepted plan finds
\* nothing in the readiness, the form, the blockers and the call to action,
\* which the policy sets itself; and it blocks on the inquiry's behavior, which
\* the policy sets as well: the words in which the canonical texts deny a
\* manual review are not the ones that count as a denial.
THEOREM PolicyQaOfAnyAnswer ==
    ASSUME NEW answer \in PlannerAnswer, HaveStatus(answer.strategy.labels)
    PROVE  LET qa == PolicyQA(Handoff(Decisions(answer)))
           IN  /\ qa.readiness = "PASS" /\ qa.demo_only = "PASS" /\ qa.fields = "PASS"
               /\ qa.blockers = "PASS" /\ qa.allowed = "PASS" /\ qa.cta = "PASS"
               /\ qa.behavior = "BLOCKED"
<1> DEFINE h == Handoff(Decisions(answer))
<1>1. /\ h.local = CanonicalLocal /\ h.inquiry = CanonicalInquiry /\ h.cta = CanonicalCta
      /\ h.labels = Decisions(answer).labels
  BY DecisionsAreNarrowed DEF Handoff, NarrowedDecisions
<1> HIDE DEF h
<1>2. h.cta = {"words"} /\ h.inquiry.fields = {"words"}
      /\ h.inquiry.behavior = {"real inquiry", "external submission", "no external submission",
                               "whatsapp", "email", "manual review"}
  <2>1. /\ CanonicalInquiry.fields = {"words"}
        /\ CanonicalInquiry.behavior =
             {"real inquiry", "external submission", "no external submission",
              "whatsapp", "email", "manual review"}
    BY DEF CanonicalInquiry
  <2> QED
    BY <1>1, <2>1 DEF CanonicalCta
<1>3. /\ h.local.status = "conditionally_ready"
      /\ h.local.policy_source = "system_deterministic"
      /\ h.local.prototype_mode = "local_demo_only" /\ h.local.personal_data = "not_collected"
      /\ h.local.blockers = {"words"} /\ h.local.scope = {"local non-deployed landing page"}
  <2>1. /\ CanonicalLocal.status = "conditionally_ready"
        /\ CanonicalLocal.policy_source = "system_deterministic"
        /\ CanonicalLocal.prototype_mode = "local_demo_only"
        /\ CanonicalLocal.personal_data = "not_collected"
        /\ CanonicalLocal.blockers = {"words"}
        /\ CanonicalLocal.scope = {"local non-deployed landing page"}
    BY DEF CanonicalLocal
  <2> QED
    BY <1>1, <2>1
<1>4. /\ ~PersonalData(h.inquiry.fields) /\ ~NoLocalBlocker(h.local.blockers) /\ ~RealCta(h.cta)
  BY <1>2, <1>3 DEF PersonalData, NoLocalBlocker, RealCta
<1>5. RealInquiryClaim(h.inquiry.behavior)
  BY <1>2 DEF RealInquiryClaim
<1>6. "local non-deployed landing page" \in h.local.scope
  BY <1>3
<1> QED
  BY <1>3, <1>4, <1>5, <1>6 DEF PolicyQA, Verdict, h

\* The texts of a plan that a page takes as they are.
FreeTexts(d) ==
    d.promise \cup d.segment \cup d.use_case \cup (UNION Elements(d.faq))
    \cup (UNION {l.label \cup l.notes : l \in Elements(d.labels)})

\* The page's own texts.
OwnTexts == {"words", "pricing", "availability", "simple"}

\* A page is made of its own texts, the plan's free texts, and an availability
\* that names none of the phrases that the wording is replaced for.
LEMMA PageTexts ==
    ASSUME NEW d \in NarrowedDecisions
    PROVE  /\ Page(BuildSpec(d)) \subseteq
                 OwnTexts \cup FreeTexts(d) \cup (d.availability \ UnsafeAvailability)
           /\ OwnTexts \subseteq Page(BuildSpec(d))
           /\ \A l \in Elements(BuildSpec(d).products) : ~NamesCapability(l.label)
<1> DEFINE products == First(6, Products(d.labels))
           faq == First(5, Texts(d.faq))
           ownFaq == <<{"words"}, {"pricing"}, {"availability"}, {"words"}, {"words"}>>
           ownLabel == Label({"simple"}, "planned", {"words"})
           spec == BuildSpec(d)
<1>1. d.labels \in Seq(StatusLabel) /\ d.faq \in Seq(AnswerText)
  BY DEF NarrowedDecisions
<1>2. /\ Elements(products) \subseteq Elements(d.labels)
      /\ \A l \in Elements(products) : ~NamesCapability(l.label)
  <2> DEFINE kept == Products(d.labels)
  <2>1. /\ kept \in Seq(StatusLabel) /\ Elements(kept) \subseteq Elements(d.labels)
        /\ \A l \in Elements(kept) : ~NamesCapability(l.label)
    BY <1>1, KeptElements DEF Products
  <2> HIDE DEF kept
  <2> QED
    BY <2>1, FirstElements DEF kept
<1>3. Elements(faq) \subseteq Elements(d.faq)
  <2> DEFINE kept == Texts(d.faq)
  <2>1. kept \in Seq(AnswerText) /\ Elements(kept) \subseteq Elements(d.faq)
    BY <1>1, KeptElements DEF Texts
  <2> HIDE DEF kept
  <2> QED
    BY <2>1, FirstElements DEF kept
<1>4. \A t \in Elements(ownFaq) : t \subseteq OwnTexts
  BY DEF Elements, OwnTexts
<1>5. /\ Elements(<<ownLabel>>) = {ownLabel} /\ ~NamesCapability(ownLabel.label)
      /\ ownLabel.label \subseteq OwnTexts /\ ownLabel.notes \subseteq OwnTexts
  BY SingleList DEF Label, NamesCapability, OwnTexts
<1> HIDE DEF products, faq, ownFaq, ownLabel
<1>6. /\ spec.products = IF products # <<>> THEN products ELSE <<ownLabel>>
      /\ spec.faq = IF faq # <<>> THEN faq ELSE ownFaq
      /\ spec.cta = {"words"} /\ spec.availability = AvailabilityWording(d.availability)
  BY DEF BuildSpec, products, faq, ownFaq, ownLabel, PrototypePolicy
<1>7. /\ spec.promise \subseteq d.promise \cup OwnTexts
      /\ spec.segment \subseteq d.segment \cup OwnTexts
      /\ spec.use_case \subseteq d.use_case \cup OwnTexts
  BY DEF BuildSpec, OwnTexts
<1>8. spec.availability \subseteq OwnTexts \cup (d.availability \ UnsafeAvailability)
  BY <1>6 DEF AvailabilityWording, OwnTexts
<1> HIDE DEF spec
<1>9. \A t \in Elements(spec.faq) : t \subseteq OwnTexts \cup UNION Elements(d.faq)
  BY <1>3, <1>4, <1>6
<1>10. \A l \in Elements(spec.products) :
          /\ ~NamesCapability(l.label)
          /\ \/ l = ownLabel
             \/ l \in Elements(d.labels)
  BY <1>2, <1>5, <1>6
<1>11. \A l \in Elements(spec.products) :
          l.label \subseteq OwnTexts \cup FreeTexts(d) /\ l.notes \subseteq OwnTexts \cup FreeTexts(d)
  <2>1. \A l \in Elements(d.labels) : l.label \subseteq FreeTexts(d) /\ l.notes \subseteq FreeTexts(d)
    BY DEF FreeTexts
  <2> QED
    BY <1>5, <1>10, <2>1
<1>12. /\ \A t \in Elements(spec.faq) : t \subseteq OwnTexts \cup FreeTexts(d)
       /\ spec.promise \subseteq OwnTexts \cup FreeTexts(d)
       /\ spec.segment \subseteq OwnTexts \cup FreeTexts(d)
       /\ spec.use_case \subseteq OwnTexts \cup FreeTexts(d)
       /\ spec.cta \subseteq OwnTexts
  BY <1>6, <1>7, <1>9 DEF FreeTexts, OwnTexts
<1> DEFINE bound == OwnTexts \cup FreeTexts(d) \cup (d.availability \ UnsafeAvailability)
           parts == {OwnTexts, spec.cta}
                    \cup {spec[f] : f \in {"promise", "segment", "use_case", "availability"}}
                    \cup Elements(spec.faq)
                    \cup UNION {{l.label, l.notes} : l \in Elements(spec.products)}
<1>13. Page(spec) = UNION parts
  BY DEF Page, OwnTexts
<1>14. ASSUME NEW t \in parts PROVE t \subseteq bound
  <2>1. CASE t \in {OwnTexts, spec.cta}
    BY <1>12, <2>1
  <2>2. CASE t \in {spec.promise, spec.segment, spec.use_case, spec.availability}
    BY <1>8, <1>12, <2>2
  <2>3. CASE t \in Elements(spec.faq)
    BY <1>12, <2>3
  <2>4. CASE t \in UNION {{l.label, l.notes} : l \in Elements(spec.products)}
    BY <1>11, <2>4
  <2> QED
    BY <1>14, <2>1, <2>2, <2>3, <2>4
<1>15. OwnTexts \in parts
  OBVIOUS
<1> HIDE DEF parts, bound
<1>16. Page(spec) \subseteq bound /\ OwnTexts \subseteq Page(spec)
  BY <1>13, <1>14, <1>15
<1> QED
  BY <1>10, <1>16 DEF spec, bound

LEMMA PageIsText ==
    ASSUME NEW d \in NarrowedDecisions
    PROVE  Page(BuildSpec(d)) \in SUBSET Term
<1>1. d.availability \subseteq Term /\ OwnTexts \subseteq Term
  BY DEF NarrowedDecisions, AnswerText, OwnTexts, Term
<1>2. FreeTexts(d) \subseteq Term
  <2>1. \A t \in Elements(d.faq) : t \subseteq Term
    BY DEF Elements, NarrowedDecisions, AnswerText
  <2>2. \A l \in Elements(d.labels) : l.label \subseteq Term /\ l.notes \subseteq Term
    <3>1. d.labels \in Seq(StatusLabel)
      BY DEF NarrowedDecisions
    <3>2. \A i \in DOMAIN d.labels : d.labels[i] \in StatusLabel
      BY <3>1
    <3>3. \A l \in StatusLabel : l.label \subseteq Term /\ l.notes \subseteq Term
      BY DEF StatusLabel, AnswerText
    <3> QED
      BY <3>2, <3>3 DEF Elements
  <2>3. d.promise \subseteq Term /\ d.segment \subseteq Term /\ d.use_case \subseteq Term
    BY DEF NarrowedDecisions, AnswerText
  <2> QED
    BY <2>1, <2>2, <2>3 DEF FreeTexts
<1> QED
  BY <1>1, <1>2, PageTexts

\* The technical QA blocks a prototype of a stored plan only for words that the
\* planner wrote into a text that no policy looks at: its promise, segment, use
\* case, FAQ topics, labels and notes, or a checkout or protein claim in its
\* availability.
THEOREM PagesBlockForFreeTexts ==
    ASSUME NEW d \in NarrowedDecisions,
           TechnicalQA(Page(BuildSpec(d))) = "BLOCKED"
    PROVE  \/ FreeTexts(d) \cap PageForbidden # {}
           \/ d.availability \cap {"checkout", "protein"} # {}
<1> DEFINE page == Page(BuildSpec(d))
<1>1. OwnTexts \subseteq page /\ page \subseteq OwnTexts \cup FreeTexts(d)
                                               \cup (d.availability \ UnsafeAvailability)
  BY PageTexts
<1> HIDE DEF page
<1>2. page # Blank
  BY <1>1 DEF Blank, OwnTexts
<1>3. page \cap PageForbidden # {}
  BY <1>2 DEF TechnicalQA, Verdict, page
<1>4. OwnTexts \cap PageForbidden = {} /\ PageForbidden \ UnsafeAvailability = {"checkout", "protein"}
  BY DEF OwnTexts, PageForbidden, UnsafeAvailability
<1> QED
  BY <1>1, <1>3, <1>4

\* The prototype of a mock plan always passes its technical QA.
THEOREM MockPlansPassTechnicalQA ==
    TechnicalQA(Page(BuildSpec(Decisions(MockAnswer)))) = "PASS"
<1> DEFINE d == Decisions(MockAnswer)
           plain == OwnTexts
<1>1. d \in NarrowedDecisions
  BY MockAnswerTyped, DecisionsAreNarrowed
<1>2. /\ MockAnswer.strategy.promise \subseteq plain /\ MockAnswer.strategy.segment \subseteq plain
      /\ MockAnswer.strategy.use_case \subseteq plain /\ MockAnswer.strategy.anchor \subseteq plain
      /\ MockAnswer.website.availability \subseteq plain
  BY DEF MockAnswer, Answer, Strategy, Website, OwnTexts
<1>3. \A t \in Elements(MockAnswer.website.faq) : t \subseteq plain
  BY DEF MockAnswer, Answer, Website, OwnTexts, Elements
<1>4. \A l \in Elements(MockAnswer.strategy.labels) : l.label \subseteq plain /\ l.notes \subseteq plain
  BY DEF MockAnswer, Answer, Strategy, Label, OwnTexts, Elements
<1>5. /\ d.promise = MockAnswer.strategy.promise /\ d.segment = MockAnswer.strategy.segment
      /\ d.use_case = MockAnswer.strategy.use_case /\ d.faq = MockAnswer.website.faq
      /\ d.availability = MockAnswer.website.availability
      /\ d.labels = ProductLabels(MockAnswer.strategy)
  BY DEF Decisions
<1>6. \A l \in Elements(d.labels) : l.label \subseteq plain /\ l.notes \subseteq plain
  <2> DEFINE s == MockAnswer.strategy
             anchor == Label(s.anchor, "planned", {"words"})
  <2>1. s.labels \in Seq(AnswerLabel) /\ s.anchor \in AnswerText /\ HaveStatus(s.labels)
    BY MockAnswerTyped DEF PlannerAnswer
  <2>2. anchor.label \subseteq plain /\ anchor.notes \subseteq plain
    BY <1>2 DEF Label, OwnTexts
  <2> HIDE DEF s
  <2>3. Elements(ProductLabels(s)) \subseteq Elements(s.labels) \cup {anchor}
    BY <2>1, LabelsAreNarrowed
  <2> QED
    BY <1>4, <1>5, <2>2, <2>3 DEF s
<1> HIDE DEF d
<1>7. FreeTexts(d) \subseteq plain
  BY <1>2, <1>3, <1>5, <1>6 DEF FreeTexts
<1>8. FreeTexts(d) \cap PageForbidden = {} /\ d.availability \cap {"checkout", "protein"} = {}
  BY <1>2, <1>5, <1>7 DEF OwnTexts, PageForbidden
<1>9. TechnicalQA(Page(BuildSpec(d))) # "BLOCKED"
  BY <1>1, <1>8, PagesBlockForFreeTexts
<1>10. TechnicalQA(Page(BuildSpec(d))) \in {"PASS", "BLOCKED"}
  BY DEF TechnicalQA, Verdict
<1> QED
  BY <1>9, <1>10 DEF d
=============================================================================

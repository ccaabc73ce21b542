-------------------------- MODULE ApprovalsProofs --------------------------
(***************************************************************************)
(* Theorems about Approvals, for any number of attempts, decisions and     *)
(* cards: what the files hold, and that the protocol of files and threads  *)
(* implements ApprovalGate.                                                *)
(***************************************************************************)
EXTENDS Approvals, FiniteSetTheorems, TLAPS

----------------------------------------------------------------------------
(* Types. *)

LEMMA NeededTypes ==
    ASSUME NEW a \in Attempt
    PROVE  Needs(PayloadOf[a]) \subseteq Type
<1>1. PayloadOf[a].words \subseteq KeywordType
  BY ApprovalsAssumption DEF Payload
<1> QED
  BY <1>1 DEF Needs, Type

LEMMA TypesAreFinite == IsFiniteSet(Type)
<1>1. \A x1, x2, x3, x4 : IsFiniteSet({x1, x2, x3, x4})
  <2> TAKE x1, x2, x3, x4
  <2>1. IsFiniteSet({x1}) /\ IsFiniteSet({x2}) /\ IsFiniteSet({x3}) /\ IsFiniteSet({x4})
    BY FS_Singleton
  <2>2. IsFiniteSet({x1} \cup {x2}) /\ IsFiniteSet({x3} \cup {x4})
    BY <2>1, FS_Union
  <2>3. IsFiniteSet(({x1} \cup {x2}) \cup ({x3} \cup {x4}))
    BY <2>2, FS_Union
  <2>4. {x1, x2, x3, x4} = ({x1} \cup {x2}) \cup ({x3} \cup {x4})
    OBVIOUS
  <2> QED
    BY <2>3, <2>4
<1> DEFINE k1 == {"package_install", "deployment", "external_api", "web_search"}
           k2 == {"customer_messaging", "social_posting", "payment_integration", "sensitive_file"}
           k3 == {"dangerous_command", "large_overwrite", "human_approval_marker", "unknown_model"}
           k4 == {"live_mode", "expensive_ceo_model", "run_cost_limit", "live_coding_model"}
           k5 == {"real_coding_repair_attempt"}
<1>2. IsFiniteSet(k1) /\ IsFiniteSet(k2) /\ IsFiniteSet(k3) /\ IsFiniteSet(k4)
  BY <1>1
<1>3. IsFiniteSet(k5)
  BY FS_Singleton
<1>4. Type = (k1 \cup k2) \cup ((k3 \cup k4) \cup k5)
  BY DEF Type, KeywordType, FlagType
<1> HIDE DEF k1, k2, k3, k4, k5
<1>5. IsFiniteSet(k1 \cup k2) /\ IsFiniteSet(k3 \cup k4)
  BY <1>2, FS_Union
<1>6. IsFiniteSet((k3 \cup k4) \cup k5)
  BY <1>3, <1>5, FS_Union
<1>7. IsFiniteSet((k1 \cup k2) \cup ((k3 \cup k4) \cup k5))
  BY <1>5, <1>6, FS_Union
<1> QED
  BY <1>4, <1>7

\* A decision that will write has a card and a copy of it.
DecisionInv ==
    \A d \in Decision : decision[d].pc \in {"read", "truncated"} =>
        /\ decision[d].card \in Card
        /\ decision[d].copy \in CardFile
        /\ file[decision[d].card] # NoFile

\* What Save writes.
Updated(d) == [decision[d].copy EXCEPT !.status = decision[d].verdict]

LEMMA UpdatedCard ==
    ASSUME TypeOK, DecisionInv, NEW d \in Decision, decision[d].pc = "truncated"
    PROVE  /\ Updated(d) \in CardFile /\ Updated(d).status = decision[d].verdict
           /\ Updated(d) # Torn /\ Updated(d) # NoFile
<1>1. decision[d].copy \in CardFile /\ decision[d].verdict \in Verdict
  BY DEF DecisionInv, TypeOK, DecisionState
<1>2. Updated(d) \in CardFile /\ Updated(d).status = decision[d].verdict
  BY <1>1 DEF Updated, CardFile
<1> QED
  BY <1>1, <1>2 DEF Torn, NoFile, Verdict

\* The new cards of an attempt that asks for approval.
LEMMA NewCards ==
    ASSUME TypeOK, NEW a \in Attempt, AskForApproval(a)
    PROVE  \E new \in SUBSET Card :
              /\ new = (Cardinality({c \in Card : file[c] # NoFile}) + 1)
                          ..(Cardinality({c \in Card : file[c] # NoFile}) + Cardinality(Missing(a)))
              /\ \A c \in Card \ new : file'[c] = file[c]
              /\ \A c \in new : file'[c] \in CardFile /\ file'[c].status = "pending"
              /\ file' \in [Card -> CardFile \cup {NoFile, Torn}]
<1> DEFINE new == (Cardinality({c \in Card : file[c] # NoFile}) + 1)
                     ..(Cardinality({c \in Card : file[c] # NoFile}) + Cardinality(Missing(a)))
<1>1. PICK typeOf \in Bijection(new, Missing(a)) :
        file' = [c \in Card |->
                    IF c \in new
                    THEN [status |-> "pending", type |-> typeOf[c],
                          subject |-> PayloadOf[a].subject]
                    ELSE file[c]]
  BY DEF AskForApproval
<1>2. new \in SUBSET Card
  BY DEF AskForApproval
<1> HIDE DEF new
<1>3. \A c \in new : typeOf[c] \in Type
  BY <1>1, NeededTypes DEF Bijection, Injection, Missing
<1>4. PayloadOf[a].subject \in Subject
  BY ApprovalsAssumption DEF Payload
<1>5. \A c \in Card \ new : file'[c] = file[c]
  BY <1>1
<1>6. \A c \in new : file'[c] \in CardFile /\ file'[c].status = "pending"
  BY <1>1, <1>2, <1>3, <1>4 DEF CardFile
<1>7. file' \in [Card -> CardFile \cup {NoFile, Torn}]
  <2>1. \A c \in Card : file'[c] \in CardFile \cup {NoFile, Torn}
    BY <1>5, <1>6 DEF TypeOK
  <2> QED
    BY <1>1, <2>1
<1> QED
  BY <1>2, <1>5, <1>6, <1>7 DEF new

LEMMA AnswersType ==
    ASSUME TypeOK, NEW a \in Attempt, NEW answer \in Answer, Answers(a, answer)
    PROVE  attempt' \in [Attempt -> AttemptState] /\ loop' = Nobody
<1>1. [pc |-> answer, ids |-> IF answer = "started" THEN attempt[a].ids ELSE {},
       left |-> {}, types |-> {}] \in AttemptState
  BY DEF TypeOK, AttemptState
<1> QED
  BY <1>1 DEF Answers, TypeOK

LEMMA TypeStep ==
    ASSUME TypeOK, DecisionInv, [Next]_vars
    PROVE  TypeOK'
<1>1. ASSUME NEW a \in Attempt, Post(a) PROVE TypeOK'
  <2>1. CASE Answers(a, "started")
    BY <1>1, <2>1, AnswersType DEF Post, TypeOK, Answer
  <2>2. ASSUME NEW ids \in SUBSET Card, loop' = a,
               attempt' = [attempt EXCEPT ![a] =
                    [pc |-> "reading", ids |-> ids, left |-> ids, types |-> {}]]
        PROVE  TypeOK'
    <3>1. [pc |-> "reading", ids |-> ids, left |-> ids, types |-> {}] \in AttemptState
      BY DEF AttemptState
    <3> QED
      BY <1>1, <2>2, <3>1 DEF Post, TypeOK
  <2> QED
    BY <1>1, <2>1, <2>2 DEF Post
<1>2. ASSUME NEW a \in Attempt, ReadCard(a) PROVE TypeOK'
  <2>1. CASE Answers(a, "refused")
    BY <1>2, <2>1, AnswersType DEF ReadCard, TypeOK, Answer
  <2>2. ASSUME NEW c \in attempt[a].left, file[c] \in CardFile, loop' = loop,
               attempt' = [attempt EXCEPT ![a].left = @ \ {c}, ![a].types = @ \cup {file[c].type}]
        PROVE  TypeOK'
    <3>1. attempt' \in [Attempt -> AttemptState]
      BY <2>2 DEF TypeOK, AttemptState, CardFile
    <3> QED
      BY <1>2, <2>2, <3>1 DEF ReadCard, TypeOK
  <2> QED
    BY <1>2, <2>1, <2>2 DEF ReadCard
<1>3. ASSUME NEW a \in Attempt, StartOrBlock(a) PROVE TypeOK'
  BY <1>3, AnswersType DEF StartOrBlock, TypeOK, Answer
<1>4. ASSUME NEW a \in Attempt, AskForApproval(a) PROVE TypeOK'
  <2>1. file' \in [Card -> CardFile \cup {NoFile, Torn}]
    BY <1>4, NewCards
  <2>2. Answers(a, "approval_required") /\ UNCHANGED <<decision, saved>>
    BY <1>4 DEF AskForApproval
  <2> QED
    BY <2>1, <2>2, AnswersType DEF TypeOK, Answer
<1>5. ASSUME NEW d \in Decision, ReadForDecision(d) PROVE TypeOK'
  <2>1. \A c \in Card : file[c] \in CardFile \cup {NoFile, Torn}
    BY DEF TypeOK
  <2>2. \A c \in Card : file[c].status = "pending" => file[c] \in CardFile
    BY <2>1 DEF NoFile, Torn
  <2>3. decision' \in [Decision -> DecisionState]
    BY <1>5, <2>2 DEF ReadForDecision, TypeOK, DecisionState
  <2> QED
    BY <1>5, <2>3 DEF ReadForDecision, TypeOK
<1>6. ASSUME NEW d \in Decision, Truncate(d) PROVE TypeOK'
  BY <1>6 DEF Truncate, TypeOK, DecisionState
<1>7. ASSUME NEW d \in Decision, Save(d) PROVE TypeOK'
  <2>1. Updated(d) \in CardFile /\ decision[d].card \in Card
    BY <1>7, UpdatedCard DEF Save, DecisionInv
  <2>2. /\ file' = [file EXCEPT ![decision[d].card] = Updated(d)]
        /\ saved' = [saved EXCEPT ![decision[d].card] = @ \cup {Updated(d)}]
        /\ decision' = [decision EXCEPT ![d].pc = "answered"]
        /\ UNCHANGED <<loop, attempt>>
    BY <1>7 DEF Save, Updated
  <2> QED
    BY <2>1, <2>2 DEF TypeOK, DecisionState
<1>8. CASE Crash
  <2>1. attempt' \in [Attempt -> AttemptState]
    BY <1>8 DEF Crash, TypeOK, AttemptState, Answer
  <2>2. decision' \in [Decision -> DecisionState]
    BY <1>8 DEF Crash, TypeOK, DecisionState
  <2> QED
    BY <1>8, <2>1, <2>2 DEF Crash, TypeOK
<1>9. CASE UNCHANGED vars
  BY <1>9 DEF vars, TypeOK
<1> QED
  BY <1>1, <1>2, <1>3, <1>4, <1>5, <1>6, <1>7, <1>8, <1>9
     DEF Next, AttemptStep, DecisionStep, Quiet

----------------------------------------------------------------------------
(* The cards. *)

\* The cards in use are the first ones.
FirstCards == \E n \in Nat : \A c \in Card : file[c] # NoFile <=> c <= n

SavedCardsExist == \A c \in Card : saved[c] # {} => file[c] # NoFile

CardInv ==
    DecisionInv /\ FirstCards /\ SavedCardsExist /\ VerdictsAreKept /\ TornOnlyByWriters

\* New cards have no file yet, and are again the first ones.
LEMMA NewCardsAreNew ==
    ASSUME TypeOK, FirstCards, NEW a \in Attempt, AskForApproval(a)
    PROVE  \E new \in SUBSET Card :
              /\ \A c \in new : file[c] = NoFile
              /\ \A c \in Card \ new : file'[c] = file[c]
              /\ \A c \in new : file'[c] \in CardFile /\ file'[c].status = "pending"
              /\ FirstCards'
<1>1. PICK n \in Nat : \A c \in Card : file[c] # NoFile <=> c <= n
  BY DEF FirstCards
<1> DEFINE used == {c \in Card : file[c] # NoFile}
           m == IF n <= MaxCards THEN n ELSE MaxCards
           k == Cardinality(Missing(a))
<1>2. MaxCards \in Nat /\ m \in Nat /\ m <= MaxCards
  BY ApprovalsAssumption
<1>3. used = 1..m
  BY <1>1, <1>2 DEF Card
<1>4. \A c \in Card : file[c] # NoFile <=> c <= m
  BY <1>1, <1>2 DEF Card
<1>5. k \in Nat
  <2>1. Missing(a) \subseteq Type
    BY NeededTypes DEF Missing
  <2> QED
    BY <2>1, TypesAreFinite, FS_Subset, FS_CardinalityType
<1> HIDE DEF m
<1>6. Cardinality(used) = m
  <2>1. m \in Int /\ 1 \in Int
    BY <1>2
  <2>2. Cardinality(1..m) = IF 1 > m THEN 0 ELSE m - 1 + 1
    BY <2>1, FS_Interval
  <2>3. Cardinality(1..m) = m
    BY <1>2, <2>2
  <2> QED
    BY <1>3, <2>3
<1>7. PICK new \in SUBSET Card :
        /\ new = (m + 1)..(m + k)
        /\ \A c \in Card \ new : file'[c] = file[c]
        /\ \A c \in new : file'[c] \in CardFile /\ file'[c].status = "pending"
  <2>1. \E new \in SUBSET Card :
          /\ new = (Cardinality(used) + 1)..(Cardinality(used) + k)
          /\ \A c \in Card \ new : file'[c] = file[c]
          /\ \A c \in new : file'[c] \in CardFile /\ file'[c].status = "pending"
    BY NewCards
  <2> HIDE DEF used, k
  <2> QED
    BY <1>6, <2>1
<1>8. \A c \in new : file'[c] # NoFile
  BY <1>7 DEF NoFile
<1> HIDE DEF k, used
<1>9. \A c \in Card : file'[c] # NoFile <=> c <= m + k
  BY <1>2, <1>4, <1>5, <1>7, <1>8 DEF Card
<1>10. FirstCards'
  BY <1>2, <1>5, <1>9 DEF FirstCards
<1>11. \A c \in new : file[c] = NoFile
  BY <1>2, <1>4, <1>5, <1>7 DEF Card
<1> QED
  BY <1>7, <1>10, <1>11

LEMMA CardStep ==
    ASSUME TypeOK, CardInv, [Next]_vars
    PROVE  CardInv'
<1> USE DEF CardInv
<1>1. CASE UNCHANGED <<file, decision, saved>>
  BY <1>1 DEF DecisionInv, FirstCards, SavedCardsExist, VerdictsAreKept, TornOnlyByWriters
<1>2. ASSUME NEW a \in Attempt, AskForApproval(a) PROVE CardInv'
  <2>1. PICK new \in SUBSET Card :
          /\ \A c \in new : file[c] = NoFile
          /\ \A c \in Card \ new : file'[c] = file[c]
          /\ \A c \in new : file'[c] \in CardFile /\ file'[c].status = "pending"
          /\ FirstCards'
    BY <1>2, NewCardsAreNew
  <2>2. UNCHANGED <<decision, saved>>
    BY <1>2 DEF AskForApproval
  <2>3. \A c \in new : file'[c] # Torn /\ file'[c] # NoFile /\ file'[c].status \notin Verdict
    BY <2>1 DEF Torn, NoFile, Verdict
  <2>4. DecisionInv' /\ SavedCardsExist'
    BY <2>1, <2>2, <2>3 DEF DecisionInv, SavedCardsExist
  <2>5. VerdictsAreKept'
    BY <2>1, <2>2, <2>3 DEF VerdictsAreKept, SavedCardsExist
  <2>6. TornOnlyByWriters'
    BY <2>1, <2>2, <2>3 DEF TornOnlyByWriters
  <2> QED
    BY <2>1, <2>4, <2>5, <2>6
<1>3. ASSUME NEW d \in Decision, ReadForDecision(d) PROVE CardInv'
  <2>1. \A c \in Card : file[c] \in CardFile \cup {NoFile, Torn}
    BY DEF TypeOK
  <2>2. \A c \in Card : file[c].status = "pending" => file[c] \in CardFile /\ file[c] # NoFile
    BY <2>1 DEF NoFile, Torn
  <2>3. UNCHANGED <<file, saved>> /\ \A e \in Decision : e # d => decision'[e] = decision[e]
    BY <1>3 DEF ReadForDecision, TypeOK
  <2>4. decision'[d].pc \in {"read", "truncated"} =>
          /\ decision'[d].card \in Card
          /\ decision'[d].copy \in CardFile
          /\ file'[decision'[d].card] # NoFile
    BY <1>3, <2>2 DEF ReadForDecision, TypeOK, DecisionState
  <2>5. decision[d].pc = "idle"
    BY <1>3 DEF ReadForDecision
  <2> QED
    BY <2>3, <2>4, <2>5
       DEF DecisionInv, FirstCards, SavedCardsExist, VerdictsAreKept, TornOnlyByWriters
<1>4. ASSUME NEW d \in Decision, Truncate(d) PROVE CardInv'
  <2> DEFINE k == decision[d].card
  <2>1. k \in Card /\ file[k] # NoFile /\ decision[d].pc = "read"
    BY <1>4 DEF Truncate, DecisionInv
  <2>2. /\ file'[k] = Torn /\ \A c \in Card : c # k => file'[c] = file[c]
        /\ saved' = saved
        /\ decision'[d].pc = "truncated" /\ decision'[d].card = k
        /\ decision'[d].copy = decision[d].copy
        /\ \A e \in Decision : e # d => decision'[e] = decision[e]
    BY <1>4, <2>1 DEF Truncate, TypeOK, DecisionState
  <2>3. Torn # NoFile /\ Torn \notin CardFile
    BY DEF Torn, NoFile, CardFile, Verdict
  <2> HIDE DEF k
  <2>4. DecisionInv' /\ FirstCards' /\ SavedCardsExist'
    BY <2>1, <2>2, <2>3 DEF DecisionInv, FirstCards, SavedCardsExist, k
  <2>5. VerdictsAreKept' /\ TornOnlyByWriters'
    BY <2>1, <2>2, <2>3 DEF VerdictsAreKept, TornOnlyByWriters
  <2> QED
    BY <2>4, <2>5
<1>5. ASSUME NEW d \in Decision, Save(d) PROVE CardInv'
  <2> DEFINE k == decision[d].card
  <2>1. k \in Card /\ decision[d].pc = "truncated" /\ decision[d].verdict \in Verdict
    BY <1>5 DEF Save, DecisionInv, TypeOK, DecisionState
  <2>2. /\ Updated(d) \in CardFile /\ Updated(d).status \in Verdict
        /\ Updated(d) # Torn /\ Updated(d) # NoFile
    BY <2>1, UpdatedCard
  <2>3. /\ file'[k] = Updated(d) /\ \A c \in Card : c # k => file'[c] = file[c]
        /\ saved'[k] = saved[k] \cup {Updated(d)}
        /\ \A c \in Card : c # k => saved'[c] = saved[c]
        /\ decision'[d].pc = "answered"
        /\ \A e \in Decision : e # d => decision'[e] = decision[e]
    BY <1>5, <2>1 DEF Save, Updated, TypeOK, DecisionState
  <2>4. file[k] # NoFile
    BY <2>1 DEF DecisionInv
  <2> HIDE DEF k
  <2>5. DecisionInv' /\ FirstCards' /\ SavedCardsExist'
    BY <2>1, <2>2, <2>3, <2>4 DEF DecisionInv, FirstCards, SavedCardsExist
  <2>6. VerdictsAreKept'
    BY <2>1, <2>2, <2>3 DEF VerdictsAreKept, Verdict
  <2>7. TornOnlyByWriters'
    BY <2>1, <2>2, <2>3 DEF TornOnlyByWriters, k
  <2> QED
    BY <2>5, <2>6, <2>7
<1>6. CASE Crash
  <2>1. UNCHANGED <<file, saved>>
    BY <1>6 DEF Crash
  <2>2. \A e \in Decision : /\ decision'[e].card = decision[e].card
                            /\ decision'[e].pc \notin {"read", "truncated"}
                            /\ decision[e].pc \in {"truncated", "lost"} => decision'[e].pc = "lost"
    BY <1>6 DEF Crash, TypeOK, DecisionState
  <2> QED
    BY <2>1, <2>2 DEF DecisionInv, FirstCards, SavedCardsExist, VerdictsAreKept, TornOnlyByWriters
<1> QED
  BY <1>1, <1>2, <1>3, <1>4, <1>5, <1>6
     DEF Next, AttemptStep, DecisionStep, Quiet, Post, ReadCard, StartOrBlock, vars

LEMMA CardsHold == Spec => [](TypeOK /\ CardInv)
<1>1. Init => TypeOK /\ CardInv
  <2> SUFFICES ASSUME Init PROVE TypeOK /\ CardInv
    OBVIOUS
  <2>1. TypeOK
    BY DEF Init, TypeOK, AttemptState, DecisionState, Verdict
  <2>2. FirstCards
    <3>1. \A c \in Card : file[c] # NoFile <=> c <= 0
      BY ApprovalsAssumption DEF Init, Card
    <3> QED
      BY <3>1 DEF FirstCards
  <2> QED
    BY <2>1, <2>2
       DEF Init, CardInv, DecisionInv, SavedCardsExist, VerdictsAreKept, TornOnlyByWriters,
           NoFile, Torn, CardFile, Verdict
<1>2. TypeOK /\ CardInv /\ [Next]_vars => TypeOK' /\ CardInv'
  BY TypeStep, CardStep DEF CardInv
<1> QED
  BY <1>1, <1>2, PTL DEF Spec

\* Every file, attempt and decision stays well formed, whatever threads and
\* crashes do between two file operations.
THEOREM CardsTyped == Spec => []TypeOK
BY CardsHold, PTL

\* A verdict that was given is what the file holds, and a card that reads as
\* pending was never decided: no later request writes over a decision.
THEOREM VerdictsKept == Spec => []VerdictsAreKept
<1>1. CardInv => VerdictsAreKept
  BY DEF CardInv
<1> QED
  BY <1>1, CardsHold, PTL

\* An unreadable card has a writer, alive or lost in a crash.
THEOREM TornByWriters == Spec => []TornOnlyByWriters
<1>1. CardInv => TornOnlyByWriters
  BY DEF CardInv
<1> QED
  BY <1>1, CardsHold, PTL

----------------------------------------------------------------------------
(* The attempts. *)

\* What an attempt knows: a form of each card it has read, approved for its
\* command and project, and a grant for each type it counts as approved.
AttemptInv ==
    \A a \in Attempt :
        /\ attempt[a].pc = "idle" => attempt[a].ids = {}
        /\ attempt[a].pc # "reading" => attempt[a].left = {}
        /\ attempt[a].pc \in {"reading", "started"} =>
              \A c \in attempt[a].ids \ attempt[a].left : \E card \in saved[c] : Matches(card, a)
        /\ attempt[a].pc = "reading" =>
              \A t \in attempt[a].types : <<PayloadOf[a].subject, t>> \in Granted

LEMMA AnswersDo ==
    ASSUME TypeOK, NEW a \in Attempt, NEW answer \in Answer, Answers(a, answer)
    PROVE  /\ attempt'[a].pc = answer
           /\ attempt'[a].ids = IF answer = "started" THEN attempt[a].ids ELSE {}
           /\ attempt'[a].left = {}
           /\ \A b \in Attempt : b # a => attempt'[b] = attempt[b]
BY DEF Answers, TypeOK

LEMMA GrantedIs ==
    \A s, t : <<s, t>> \in Granted <=>
        \E c \in Card : \E card \in saved[c] :
            card.status = "approved" /\ card.subject = s /\ card.type = t
BY DEF Granted

LEMMA SavedGrows ==
    ASSUME TypeOK, [Next]_vars
    PROVE  /\ \A c \in Card : saved[c] \subseteq saved'[c]
           /\ Granted \subseteq Granted'
<1>1. \A c \in Card : saved[c] \subseteq saved'[c]
  <2>1. ASSUME NEW d \in Decision, Save(d) PROVE \A c \in Card : saved[c] \subseteq saved'[c]
    BY <2>1 DEF Save, TypeOK
  <2>2. (\E d \in Decision : Save(d)) \/ saved' = saved
    BY DEF Next, AttemptStep, DecisionStep, Post, ReadCard, StartOrBlock, AskForApproval,
           ReadForDecision, Truncate, Crash, Quiet, vars
  <2> QED
    BY <2>1, <2>2
<1>2. Granted \subseteq Granted'
  BY <1>1 DEF Granted
<1> QED
  BY <1>1, <1>2

\* A card that an attempt accepts was granted for its command and project.
LEMMA AcceptedIsGranted ==
    ASSUME TypeOK, VerdictsAreKept, NEW a \in Attempt, NEW c \in Card,
           file[c] \in CardFile, Matches(file[c], a)
    PROVE  /\ \E card \in saved[c] : Matches(card, a)
           /\ <<PayloadOf[a].subject, file[c].type>> \in Granted
<1>1. file[c] \in saved[c] /\ file[c].status = "approved"
  BY DEF VerdictsAreKept, Matches, Verdict
<1> QED
  BY <1>1, GrantedIs DEF Matches

LEMMA AttemptInvStep ==
    ASSUME TypeOK, VerdictsAreKept, AttemptInv, [Next]_vars
    PROVE  AttemptInv'
<1> DEFINE Known(b) ==
             /\ attempt[b].pc = "idle" => attempt[b].ids = {}
             /\ attempt[b].pc # "reading" => attempt[b].left = {}
             /\ attempt[b].pc \in {"reading", "started"} =>
                   \A c \in attempt[b].ids \ attempt[b].left :
                       \E card \in saved[c] : Matches(card, b)
             /\ attempt[b].pc = "reading" =>
                   \A t \in attempt[b].types : <<PayloadOf[b].subject, t>> \in Granted
<1>1. \A b \in Attempt : Known(b)
  BY DEF AttemptInv
<1>2. /\ \A c \in Card : saved[c] \subseteq saved'[c]
      /\ Granted \subseteq Granted'
  BY SavedGrows
<1>3. \A b \in Attempt : attempt[b].ids \subseteq Card /\ attempt[b].left \subseteq Card
  BY DEF TypeOK, AttemptState
<1>4. ASSUME NEW b \in Attempt, attempt'[b] = attempt[b] PROVE Known(b)'
  BY <1>1, <1>2, <1>3, <1>4
<1>5. SUFFICES \A b \in Attempt : Known(b)'
  BY DEF AttemptInv
<1>6. ASSUME NEW a \in Attempt, NEW answer \in Answer, Answers(a, answer),
             answer = "started" => attempt[a].left = {} /\ attempt[a].pc \in {"idle", "reading"}
      PROVE  \A b \in Attempt : Known(b)'
  <2>1. /\ attempt'[a].pc = answer
        /\ attempt'[a].ids = IF answer = "started" THEN attempt[a].ids ELSE {}
        /\ attempt'[a].left = {}
        /\ \A b \in Attempt : b # a => attempt'[b] = attempt[b]
    BY <1>6, AnswersDo
  <2>2. answer \notin {"idle", "reading"}
    BY DEF Answer
  <2>3. Known(a)'
    BY <1>1, <1>2, <1>3, <1>6, <2>1, <2>2
  <2> QED
    BY <1>4, <2>1, <2>3
<1>7. ASSUME NEW a \in Attempt, Post(a) PROVE \A b \in Attempt : Known(b)'
  <2>1. attempt[a].pc = "idle" /\ attempt[a].left = {}
    BY <1>1, <1>7 DEF Post
  <2>2. CASE Answers(a, "started")
    BY <1>6, <2>1, <2>2 DEF Answer
  <2>3. ASSUME NEW ids \in SUBSET Card,
               attempt' = [attempt EXCEPT ![a] =
                    [pc |-> "reading", ids |-> ids, left |-> ids, types |-> {}]]
        PROVE  \A b \in Attempt : Known(b)'
    <3>1. /\ attempt'[a] = [pc |-> "reading", ids |-> ids, left |-> ids, types |-> {}]
          /\ \A b \in Attempt : b # a => attempt'[b] = attempt[b]
      BY <2>3 DEF TypeOK
    <3>2. Known(a)'
      BY <3>1
    <3> QED
      BY <1>4, <3>1, <3>2
  <2> QED
    BY <1>7, <2>2, <2>3 DEF Post
<1>8. ASSUME NEW a \in Attempt, ReadCard(a) PROVE \A b \in Attempt : Known(b)'
  <2>1. CASE Answers(a, "refused")
    BY <1>6, <2>1 DEF Answer
  <2>2. ASSUME NEW c \in attempt[a].left, file[c] \in CardFile, Matches(file[c], a),
               attempt' = [attempt EXCEPT ![a].left = @ \ {c}, ![a].types = @ \cup {file[c].type}]
        PROVE  \A b \in Attempt : Known(b)'
    <3>1. /\ attempt'[a].pc = attempt[a].pc /\ attempt'[a].ids = attempt[a].ids
          /\ attempt'[a].left = attempt[a].left \ {c}
          /\ attempt'[a].types = attempt[a].types \cup {file[c].type}
          /\ \A b \in Attempt : b # a => attempt'[b] = attempt[b]
      BY <2>2 DEF TypeOK, AttemptState
    <3>2. c \in Card /\ attempt[a].pc = "reading"
      BY <1>3, <1>8, <2>2 DEF ReadCard
    <3>3. /\ \E card \in saved[c] : Matches(card, a)
          /\ <<PayloadOf[a].subject, file[c].type>> \in Granted
      BY <2>2, <3>2, AcceptedIsGranted
    <3>4. \A e \in attempt'[a].ids \ attempt'[a].left : \E card \in saved[e] : Matches(card, a)
      BY <1>1, <3>1, <3>2, <3>3
    <3>5. \A t \in attempt'[a].types : <<PayloadOf[a].subject, t>> \in Granted
      BY <1>1, <3>1, <3>2, <3>3
    <3>6. Known(a)'
      BY <1>2, <1>3, <3>1, <3>2, <3>4, <3>5
    <3> QED
      BY <1>4, <3>1, <3>6
  <2> QED
    BY <1>8, <2>1, <2>2 DEF ReadCard
<1>9. ASSUME NEW a \in Attempt, StartOrBlock(a) PROVE \A b \in Attempt : Known(b)'
  <2>1. attempt[a].left = {} /\ attempt[a].pc = "reading"
    BY <1>9 DEF StartOrBlock
  <2>2. Answers(a, "started") \/ Answers(a, "refused")
    BY <1>9 DEF StartOrBlock
  <2> QED
    BY <1>6, <2>1, <2>2 DEF Answer
<1>10. ASSUME NEW a \in Attempt, AskForApproval(a) PROVE \A b \in Attempt : Known(b)'
  <2>1. Answers(a, "approval_required")
    BY <1>10 DEF AskForApproval
  <2> QED
    BY <1>6, <2>1 DEF Answer
<1>11. CASE Crash
  <2>1. \A b \in Attempt :
          \/ attempt'[b] = attempt[b]
          \/ attempt'[b] = [pc |-> "lost", ids |-> {}, left |-> {}, types |-> {}]
    BY <1>11 DEF Crash
  <2>2. ASSUME NEW b \in Attempt,
               attempt'[b] = [pc |-> "lost", ids |-> {}, left |-> {}, types |-> {}]
        PROVE  Known(b)'
    BY <2>2
  <2> QED
    BY <1>4, <2>1, <2>2
<1>12. CASE UNCHANGED attempt
  BY <1>4, <1>12
<1> HIDE DEF Known
<1> QED
  BY <1>7, <1>8, <1>9, <1>10, <1>11, <1>12
     DEF Next, AttemptStep, DecisionStep, ReadForDecision, Truncate, Save, Quiet, vars

LEMMA AttemptsHold == Spec => [](TypeOK /\ CardInv /\ AttemptInv)
<1>1. Init => AttemptInv
  BY DEF Init, AttemptInv
<1>2. TypeOK /\ CardInv /\ AttemptInv /\ [Next]_vars => AttemptInv'
  BY AttemptInvStep DEF CardInv
<1> QED
  BY <1>1, <1>2, CardsHold, PTL DEF Spec

\* A card that was only ever rejected starts no run, whatever order the
\* decisions, the attempts and the crashes come in.
THEOREM RejectedCardsStop == Spec => []RejectedCardsStopRuns
<1>1. AttemptInv => RejectedCardsStopRuns
  BY DEF AttemptInv, RejectedCardsStopRuns, Matches
<1> QED
  BY <1>1, AttemptsHold, PTL

----------------------------------------------------------------------------
(* One card, one decision. *)

\* The request d has read the card c and will write it.
Deciding(d, c) == decision[d].pc \in {"read", "truncated"} /\ decision[d].card = c

\* A card that is decided and that nobody is about to write stays as it is:
\* no later decision gets past its status, and no attempt reuses its id.
SettledCardsStay ==
    [][\A c \in Card :
          (file[c] \in CardFile /\ file[c].status \in Verdict /\ ~\E d \in Decision : Deciding(d, c))
          => file'[c] = file[c] /\ ~\E d \in Decision : Deciding(d, c)']_vars

LEMMA SettledStep ==
    ASSUME TypeOK, CardInv, [Next]_vars, NEW c \in Card,
           file[c] \in CardFile, file[c].status \in Verdict,
           \A d \in Decision : ~Deciding(d, c)
    PROVE  file'[c] = file[c] /\ \A d \in Decision : ~Deciding(d, c)'
<1> file[c].status # "pending" /\ file[c] # NoFile
  BY DEF Verdict, CardFile, NoFile
<1>1. CASE UNCHANGED <<file, decision>>
  BY <1>1 DEF Deciding
<1>2. ASSUME NEW a \in Attempt, AskForApproval(a)
      PROVE  file'[c] = file[c] /\ \A d \in Decision : ~Deciding(d, c)'
  <2>1. file'[c] = file[c]
    BY <1>2, NewCardsAreNew DEF CardInv
  <2>2. decision' = decision
    BY <1>2 DEF AskForApproval
  <2> QED
    BY <2>1, <2>2 DEF Deciding
<1>3. ASSUME NEW e \in Decision, ReadForDecision(e)
      PROVE  file'[c] = file[c] /\ \A d \in Decision : ~Deciding(d, c)'
  <2>1. file' = file /\ \A d \in Decision : d # e => decision'[d] = decision[d]
    BY <1>3 DEF ReadForDecision, TypeOK
  <2>2. ~Deciding(e, c)'
    <3>1. CASE decision' = [decision EXCEPT ![e].pc = "refused"]
      BY <3>1 DEF Deciding, TypeOK, DecisionState
    <3>2. ASSUME NEW k \in Card, NEW verdict \in Verdict, file[k].status = "pending",
                 decision' = [decision EXCEPT ![e] =
                    [pc |-> "read", card |-> k, verdict |-> verdict, copy |-> file[k]]]
          PROVE  ~Deciding(e, c)'
      BY <3>2 DEF Deciding, TypeOK
    <3> QED
      BY <1>3, <3>1, <3>2 DEF ReadForDecision
  <2> QED
    BY <2>1, <2>2 DEF Deciding
<1>4. ASSUME NEW e \in Decision, Truncate(e) \/ Save(e)
      PROVE  file'[c] = file[c] /\ \A d \in Decision : ~Deciding(d, c)'
  <2>1. decision[e].card # c
    BY <1>4 DEF Truncate, Save, Deciding
  <2>2. file'[c] = file[c]
    BY <1>4, <2>1 DEF Truncate, Save, TypeOK
  <2>3. /\ decision'[e].card = decision[e].card
        /\ \A d \in Decision : d # e => decision'[d] = decision[d]
    BY <1>4 DEF Truncate, Save, TypeOK, DecisionState
  <2> QED
    BY <2>1, <2>2, <2>3 DEF Deciding
<1>5. CASE Crash
  <2>1. /\ file' = file
        /\ \A d \in Decision : decision'[d] = IF decision[d].pc \in {"read", "truncated"}
                                              THEN [decision[d] EXCEPT !.pc = "lost"]
                                              ELSE decision[d]
    BY <1>5 DEF Crash
  <2>2. \A d \in Decision : decision[d].pc \in {"read", "truncated"} => decision'[d].pc = "lost"
    BY <2>1 DEF TypeOK, DecisionState
  <2> QED
    BY <2>1, <2>2 DEF Deciding
<1> QED
  BY <1>1, <1>2, <1>3, <1>4, <1>5
     DEF Next, AttemptStep, DecisionStep, Post, ReadCard, StartOrBlock, Quiet, vars

\* The status check of decide is enough for every decision that begins after
\* the one before it has been written, across crashes and new cards.
THEOREM SettledCards == Spec => SettledCardsStay
<1>1. TypeOK /\ CardInv /\ [Next]_vars
        => [\A c \in Card :
              (file[c] \in CardFile /\ file[c].status \in Verdict /\ ~\E d \in Decision : Deciding(d, c))
              => file'[c] = file[c] /\ ~\E d \in Decision : Deciding(d, c)']_vars
  BY SettledStep
<1> QED
  BY <1>1, CardsHold, PTL DEF Spec, SettledCardsStay

\* No two decisions work on one card at the same time.
DecisionsApart ==
    \A d, e \in Decision, c \in Card : Deciding(d, c) /\ Deciding(e, c) => d = e

\* A card that somebody will write has no saved form yet, and none has two.
OnceInv ==
    \A c \in Card :
        /\ (\E d \in Decision : Deciding(d, c)) => saved[c] = {}
        /\ \A x, y \in saved[c] : x = y

LEMMA OnceStep ==
    ASSUME TypeOK, CardInv, OnceInv, DecisionsApart, [Next]_vars
    PROVE  OnceInv'
<1>1. CASE UNCHANGED <<decision, saved>>
  BY <1>1 DEF OnceInv, Deciding
<1>2. ASSUME NEW e \in Decision, ReadForDecision(e) PROVE OnceInv'
  <2>1. saved' = saved /\ \A d \in Decision : d # e => decision'[d] = decision[d]
    BY <1>2 DEF ReadForDecision, TypeOK
  <2>2. ASSUME NEW c \in Card, Deciding(e, c)' PROVE saved[c] = {}
    <3>1. CASE decision' = [decision EXCEPT ![e].pc = "refused"]
      BY <2>2, <3>1 DEF Deciding, TypeOK, DecisionState
    <3>2. ASSUME NEW k \in Card, NEW verdict \in Verdict, file[k].status = "pending",
                 decision' = [decision EXCEPT ![e] =
                    [pc |-> "read", card |-> k, verdict |-> verdict, copy |-> file[k]]]
          PROVE  saved[c] = {}
      <4>1. k = c
        BY <2>2, <3>2 DEF Deciding, TypeOK
      <4>2. file[k] \in CardFile
        BY <3>2 DEF TypeOK, NoFile, Torn
      <4> QED
        BY <3>2, <4>1, <4>2 DEF CardInv, VerdictsAreKept
    <3> QED
      BY <1>2, <3>1, <3>2 DEF ReadForDecision
  <2> QED
    BY <2>1, <2>2 DEF OnceInv, Deciding
<1>3. ASSUME NEW e \in Decision, Truncate(e) PROVE OnceInv'
  <2>1. /\ saved' = saved /\ decision[e].pc = "read"
        /\ decision'[e].card = decision[e].card
        /\ \A d \in Decision : d # e => decision'[d] = decision[d]
    BY <1>3 DEF Truncate, TypeOK, DecisionState
  <2> QED
    BY <2>1 DEF OnceInv, Deciding
<1>4. ASSUME NEW e \in Decision, Save(e) PROVE OnceInv'
  <2> DEFINE k == decision[e].card
  <2>1. k \in Card /\ Deciding(e, k)
    BY <1>4 DEF Save, CardInv, DecisionInv, Deciding
  <2>2. saved[k] = {} /\ \A d \in Decision : Deciding(d, k) => d = e
    BY <2>1 DEF OnceInv, DecisionsApart
  <2>3. /\ saved'[k] = saved[k] \cup {Updated(e)}
        /\ \A c \in Card : c # k => saved'[c] = saved[c]
        /\ decision'[e].pc = "answered"
        /\ \A d \in Decision : d # e => decision'[d] = decision[d]
    BY <1>4, <2>1 DEF Save, Updated, TypeOK, DecisionState
  <2>4. \A d \in Decision, c \in Card : Deciding(d, c)' => Deciding(d, c) /\ c # k
    BY <2>2, <2>3 DEF Deciding
  <2> HIDE DEF k
  <2> QED
    BY <2>2, <2>3, <2>4 DEF OnceInv
<1>5. CASE Crash
  <2>1. /\ saved' = saved
        /\ \A d \in Decision : decision'[d] = IF decision[d].pc \in {"read", "truncated"}
                                              THEN [decision[d] EXCEPT !.pc = "lost"]
                                              ELSE decision[d]
    BY <1>5 DEF Crash
  <2>2. \A d \in Decision : decision'[d].pc \notin {"read", "truncated"}
    BY <2>1 DEF TypeOK, DecisionState
  <2> QED
    BY <2>1, <2>2 DEF OnceInv, Deciding
<1> QED
  BY <1>1, <1>2, <1>3, <1>4, <1>5
     DEF Next, AttemptStep, DecisionStep, Post, ReadCard, StartOrBlock, AskForApproval,
         Quiet, vars

\* A card is decided twice only when two decisions of it overlap: as long as
\* none do, whatever else interleaves and wherever the server dies, the
\* message "Approval is already ..." keeps its promise.
THEOREM DecidedOnceWhenApart == Spec /\ []DecisionsApart => []DecidedOnce
<1>1. Init => OnceInv
  BY DEF Init, OnceInv, Deciding
<1>2. TypeOK /\ CardInv /\ OnceInv /\ DecisionsApart /\ [Next]_vars => OnceInv'
  BY OnceStep
<1>3. OnceInv => DecidedOnce
  <2> SUFFICES ASSUME OnceInv, NEW c \in Card PROVE Cardinality(saved[c]) <= 1
    BY DEF DecidedOnce
  <2>1. CASE saved[c] = {}
    BY <2>1, FS_EmptySet
  <2>2. ASSUME NEW x \in saved[c] PROVE Cardinality(saved[c]) <= 1
    <3>1. saved[c] = {x}
      BY <2>2 DEF OnceInv
    <3>2. Cardinality({x}) = 1
      BY FS_Singleton
    <3> QED
      BY <3>1, <3>2
  <2> QED
    BY <2>1, <2>2
<1> QED
  BY <1>1, <1>2, <1>3, CardsHold, PTL DEF Spec

----------------------------------------------------------------------------
(* One card, one subject. *)

\* What a card is in its file, in the memory of those who decide it, and in
\* every form that was saved of it.
Forms(c) ==
    saved[c] \cup ({file[c]} \cap CardFile)
    \cup {decision[d].copy : d \in {d \in Decision : Deciding(d, c)}}

\* Whoever decides a card, and however often, decides the same request.
CardsKeepTheirRequest ==
    \A c \in Card : \A x, y \in Forms(c) : x.type = y.type /\ x.subject = y.subject

\* Two runs that were started by the same approval run the same command on the
\* same project.
SharedApprovalsShareTheSubject ==
    \A a, b \in Attempt :
        /\ attempt[a].pc = "started" /\ attempt[b].pc = "started"
        /\ attempt[a].ids \cap attempt[b].ids # {}
        => PayloadOf[a].subject = PayloadOf[b].subject

LEMMA RequestStep ==
    ASSUME TypeOK, CardInv, CardsKeepTheirRequest, [Next]_vars
    PROVE  CardsKeepTheirRequest'
<1>1. ASSUME \A c \in Card : Forms(c)' \subseteq Forms(c) PROVE CardsKeepTheirRequest'
  BY <1>1 DEF CardsKeepTheirRequest
<1>2. CASE UNCHANGED <<file, decision, saved>>
  BY <1>1, <1>2 DEF Forms, Deciding
<1>3. ASSUME NEW a \in Attempt, AskForApproval(a) PROVE CardsKeepTheirRequest'
  <2>1. PICK new \in SUBSET Card :
          /\ \A c \in new : file[c] = NoFile
          /\ \A c \in Card \ new : file'[c] = file[c]
          /\ \A c \in new : file'[c] \in CardFile /\ file'[c].status = "pending"
    BY <1>3, NewCardsAreNew DEF CardInv
  <2>2. UNCHANGED <<decision, saved>>
    BY <1>3 DEF AskForApproval
  <2>3. \A c \in Card \ new : Forms(c)' = Forms(c)
    BY <2>1, <2>2 DEF Forms, Deciding
  <2>4. \A c \in new : Forms(c)' \subseteq {file'[c]}
    <3> SUFFICES ASSUME NEW c \in new PROVE Forms(c)' \subseteq {file'[c]}
      OBVIOUS
    <3>1. c \in Card /\ file[c] = NoFile
      BY <2>1
    <3>2. saved'[c] = {}
      BY <2>2, <3>1 DEF CardInv, SavedCardsExist
    <3>3. \A d \in Decision : ~Deciding(d, c)'
      BY <2>2, <3>1 DEF CardInv, DecisionInv, Deciding
    <3> QED
      BY <3>2, <3>3 DEF Forms
  <2> QED
    BY <2>3, <2>4 DEF CardsKeepTheirRequest
<1>4. ASSUME NEW e \in Decision, ReadForDecision(e) PROVE CardsKeepTheirRequest'
  <2>1. UNCHANGED <<file, saved>> /\ \A d \in Decision : d # e => decision'[d] = decision[d]
    BY <1>4 DEF ReadForDecision, TypeOK
  <2>2. ASSUME NEW c \in Card, Deciding(e, c)' PROVE decision'[e].copy \in Forms(c)
    <3>1. CASE decision' = [decision EXCEPT ![e].pc = "refused"]
      BY <2>2, <3>1 DEF Deciding, TypeOK, DecisionState
    <3>2. ASSUME NEW k \in Card, NEW verdict \in Verdict, file[k].status = "pending",
                 decision' = [decision EXCEPT ![e] =
                    [pc |-> "read", card |-> k, verdict |-> verdict, copy |-> file[k]]]
          PROVE  decision'[e].copy \in Forms(c)
      <4>1. k = c /\ decision'[e].copy = file[c]
        BY <2>2, <3>2 DEF Deciding, TypeOK
      <4>2. file[c] \in CardFile
        BY <3>2, <4>1 DEF TypeOK, NoFile, Torn
      <4> QED
        BY <4>1, <4>2 DEF Forms
    <3> QED
      BY <1>4, <3>1, <3>2 DEF ReadForDecision
  <2>3. \A c \in Card : Forms(c)' \subseteq Forms(c)
    BY <2>1, <2>2 DEF Forms, Deciding
  <2> QED
    BY <1>1, <2>3
<1>5. ASSUME NEW e \in Decision, Truncate(e) PROVE CardsKeepTheirRequest'
  <2>1. /\ saved' = saved /\ decision[e].pc = "read"
        /\ \A c \in Card : file'[c] = file[c] \/ file'[c] = Torn
        /\ decision'[e].card = decision[e].card /\ decision'[e].copy = decision[e].copy
        /\ \A d \in Decision : d # e => decision'[d] = decision[d]
    BY <1>5 DEF Truncate, TypeOK, DecisionState
  <2>2. Torn \notin CardFile
    BY DEF Torn, CardFile
  <2>3. \A c \in Card : \A d \in Decision :
          Deciding(d, c)' => Deciding(d, c) /\ decision'[d].copy = decision[d].copy
    BY <2>1 DEF Deciding
  <2>4. \A c \in Card : Forms(c)' \subseteq Forms(c)
    BY <2>1, <2>2, <2>3 DEF Forms
  <2> QED
    BY <1>1, <2>4
<1>6. ASSUME NEW e \in Decision, Save(e) PROVE CardsKeepTheirRequest'
  <2>1. PICK k \in Card, old \in CardFile :
          /\ k = decision[e].card /\ old = decision[e].copy
          /\ Deciding(e, k)
    BY <1>6 DEF Save, CardInv, DecisionInv, Deciding
  <2>2. old \in Forms(k)
    BY <2>1 DEF Forms
  <2>3. Updated(e).type = old.type /\ Updated(e).subject = old.subject
    BY <2>1 DEF Updated, CardFile
  <2>4. /\ saved'[k] = saved[k] \cup {Updated(e)} /\ file'[k] = Updated(e)
        /\ \A c \in Card : c # k => saved'[c] = saved[c] /\ file'[c] = file[c]
        /\ decision'[e].pc = "answered"
        /\ \A d \in Decision : d # e => decision'[d] = decision[d]
    BY <1>6, <2>1 DEF Save, Updated, TypeOK, DecisionState
  <2>5. \A c \in Card : \A d \in Decision :
          Deciding(d, c)' => Deciding(d, c) /\ decision'[d].copy = decision[d].copy
    BY <2>4 DEF Deciding
  <2>6. /\ \A c \in Card : c # k => Forms(c)' \subseteq Forms(c)
        /\ Forms(k)' \subseteq Forms(k) \cup {Updated(e)}
    BY <2>4, <2>5 DEF Forms
  <2> QED
    BY <2>2, <2>3, <2>6 DEF CardsKeepTheirRequest
<1>7. CASE Crash
  <2>1. /\ UNCHANGED <<file, saved>>
        /\ \A d \in Decision : decision'[d] = IF decision[d].pc \in {"read", "truncated"}
                                              THEN [decision[d] EXCEPT !.pc = "lost"]
                                              ELSE decision[d]
    BY <1>7 DEF Crash
  <2>2. \A d \in Decision : decision'[d].pc \notin {"read", "truncated"}
    BY <2>1 DEF TypeOK, DecisionState
  <2>3. \A c \in Card : Forms(c)' \subseteq Forms(c)
    BY <2>1, <2>2 DEF Forms, Deciding
  <2> QED
    BY <1>1, <2>3
<1> QED
  BY <1>2, <1>3, <1>4, <1>5, <1>6, <1>7
     DEF Next, AttemptStep, DecisionStep, Post, ReadCard, StartOrBlock, Quiet, vars

\* The type and the subject of a card are those it was created with, also in
\* the copies of two people who decide it at the same time.
THEOREM CardsKeepRequests == Spec => []CardsKeepTheirRequest
<1>1. Init => CardsKeepTheirRequest
  BY DEF Init, CardsKeepTheirRequest, Forms, Deciding, NoFile, CardFile
<1>2. TypeOK /\ CardInv /\ CardsKeepTheirRequest /\ [Next]_vars => CardsKeepTheirRequest'
  BY RequestStep
<1> QED
  BY <1>1, <1>2, CardsHold, PTL DEF Spec

\* An approval is not spent by the run it starts, but it never starts a run of
\* another command or project.
THEOREM SharedApprovals == Spec => []SharedApprovalsShareTheSubject
<1>1. TypeOK /\ AttemptInv /\ CardsKeepTheirRequest => SharedApprovalsShareTheSubject
  <2> SUFFICES ASSUME TypeOK, AttemptInv, CardsKeepTheirRequest,
                      NEW a \in Attempt, NEW b \in Attempt,
                      attempt[a].pc = "started", attempt[b].pc = "started",
                      NEW c \in attempt[a].ids \cap attempt[b].ids
               PROVE  PayloadOf[a].subject = PayloadOf[b].subject
    BY DEF SharedApprovalsShareTheSubject
  <2>1. c \in Card
    BY DEF TypeOK, AttemptState
  <2>2. attempt[a].left = {} /\ attempt[b].left = {}
    BY DEF AttemptInv
  <2>3. PICK x \in saved[c] : Matches(x, a)
    BY <2>2 DEF AttemptInv
  <2>4. PICK y \in saved[c] : Matches(y, b)
    BY <2>2 DEF AttemptInv
  <2>5. x.subject = y.subject
    BY <2>1, <2>3, <2>4 DEF CardsKeepTheirRequest, Forms
  <2> QED
    BY <2>3, <2>4, <2>5 DEF Matches
<1> QED
  BY <1>1, AttemptsHold, CardsKeepRequests, PTL

----------------------------------------------------------------------------
(* The gate. *)

Started == {a \in Attempt : attempt[a].pc = "started"}

LEMMA GateStarts ==
    ASSUME TypeOK, AttemptInv, NEW a \in Attempt, Answers(a, "started"), saved' = saved,
           attempt[a].pc # "started",
           \A t \in Needs(PayloadOf[a]) : <<PayloadOf[a].subject, t>> \in Granted,
           Needs(PayloadOf[a]) \cap Blocked = {}
    PROVE  Gate!Next
<1>1. Started' = Started \cup {a} /\ a \notin Started
  BY AnswersDo DEF Started, Answer
<1>2. Granted' = Granted
  BY DEF Granted
<1>3. Gate!StartRun(a)
  BY <1>1, <1>2 DEF Gate!StartRun, Started
<1> QED
  BY <1>3 DEF Gate!Next

LEMMA GateStutters ==
    ASSUME saved' = saved, Started' = Started
    PROVE  UNCHANGED Gate!vars
BY DEF Gate!vars, Granted, Started

LEMMA NoStart ==
    ASSUME TypeOK, NEW a \in Attempt, NEW answer \in Answer, Answers(a, answer),
           answer # "started", attempt[a].pc # "started"
    PROVE  Started' = Started
BY AnswersDo DEF Started

LEMMA GateGrants ==
    ASSUME TypeOK, DecisionInv, NEW d \in Decision, Save(d)
    PROVE  [Gate!Next]_(Gate!vars)
<1> DEFINE k == decision[d].card
           u == Updated(d)
<1>1. k \in Card /\ u \in CardFile /\ u.status \in Verdict
  BY UpdatedCard DEF Save, DecisionInv, TypeOK, DecisionState
<1>2. /\ saved'[k] = saved[k] \cup {u}
      /\ \A c \in Card : c # k => saved'[c] = saved[c]
      /\ attempt' = attempt
  BY <1>1 DEF Save, Updated, TypeOK
<1>3. Started' = Started
  BY <1>2 DEF Started
<1> HIDE DEF k, u
<1> DEFINE forms == UNION {saved[c] : c \in Card}
           approved == {card \in forms : card.status = "approved"}
<1>4. forms' = forms \cup {u}
  <2>1. \A x : x \in forms' <=> \E c \in Card : x \in saved'[c]
    OBVIOUS
  <2>2. \A x : x \in forms <=> \E c \in Card : x \in saved[c]
    OBVIOUS
  <2> HIDE DEF forms
  <2>3. \A x : x \in forms' <=> x \in forms \/ x = u
    BY <1>1, <1>2, <2>1, <2>2
  <2> QED
    BY <2>3
<1> HIDE DEF forms
<1>5. Granted = {<<card.subject, card.type>> : card \in approved}
  BY DEF Granted, forms
<1>6. Granted' = {<<card.subject, card.type>> : card \in approved'}
  BY DEF Granted, forms
<1>7. CASE u.status = "approved"
  <2>1. Granted' = Granted \cup {<<u.subject, u.type>>}
    <3>1. approved' = approved \cup {u}
      BY <1>4, <1>7
    <3> HIDE DEF approved
    <3> QED
      BY <1>5, <1>6, <3>1
  <2>2. u.subject \in Subject /\ u.type \in Type
    BY <1>1 DEF CardFile
  <2>3. Gate!Grant(u.subject, u.type)
    BY <1>3, <2>1 DEF Gate!Grant, Started
  <2> QED
    BY <2>2, <2>3 DEF Gate!Next
<1>8. CASE u.status # "approved"
  <2>1. Granted' = Granted
    <3>1. approved' = approved
      BY <1>4, <1>8
    <3> HIDE DEF approved
    <3> QED
      BY <1>5, <1>6, <3>1
  <2> QED
    BY <1>3, <2>1 DEF Gate!vars, Started
<1> QED
  BY <1>7, <1>8

LEMMA GateStep ==
    ASSUME TypeOK, CardInv, AttemptInv, [Next]_vars
    PROVE  [Gate!Next]_(Gate!vars)
<1>1. ASSUME NEW a \in Attempt, Post(a) PROVE [Gate!Next]_(Gate!vars)
  <2>1. saved' = saved /\ attempt[a].pc = "idle"
    BY <1>1 DEF Post
  <2>2. CASE Needs(PayloadOf[a]) = {} /\ Answers(a, "started")
    BY <2>1, <2>2, GateStarts
  <2>3. ASSUME NEW ids \in SUBSET Card,
               attempt' = [attempt EXCEPT ![a] =
                    [pc |-> "reading", ids |-> ids, left |-> ids, types |-> {}]]
        PROVE  [Gate!Next]_(Gate!vars)
    <3>1. Started' = Started
      BY <2>1, <2>3 DEF Started, TypeOK
    <3> QED
      BY <2>1, <3>1, GateStutters
  <2> QED
    BY <1>1, <2>2, <2>3 DEF Post
<1>2. ASSUME NEW a \in Attempt, ReadCard(a) PROVE [Gate!Next]_(Gate!vars)
  <2>1. saved' = saved /\ attempt[a].pc = "reading"
    BY <1>2 DEF ReadCard
  <2>2. CASE Answers(a, "refused")
    <3>1. Started' = Started
      BY <2>1, <2>2, NoStart DEF Answer
    <3> QED
      BY <2>1, <3>1, GateStutters
  <2>3. ASSUME NEW c,
               attempt' = [attempt EXCEPT ![a].left = @ \ {c}, ![a].types = @ \cup {file[c].type}]
        PROVE  [Gate!Next]_(Gate!vars)
    <3>1. Started' = Started
      BY <2>1, <2>3 DEF Started, TypeOK, AttemptState
    <3> QED
      BY <2>1, <3>1, GateStutters
  <2> QED
    BY <1>2, <2>2, <2>3 DEF ReadCard
<1>3. ASSUME NEW a \in Attempt, StartOrBlock(a) PROVE [Gate!Next]_(Gate!vars)
  <2>1. /\ saved' = saved /\ attempt[a].pc = "reading"
        /\ Needs(PayloadOf[a]) \subseteq attempt[a].types
        /\ Answers(a, IF attempt[a].types \cap Blocked = {} THEN "started" ELSE "refused")
    BY <1>3 DEF StartOrBlock, Missing
  <2>2. CASE attempt[a].types \cap Blocked = {}
    <3>1. \A t \in Needs(PayloadOf[a]) : <<PayloadOf[a].subject, t>> \in Granted
      BY <2>1 DEF AttemptInv
    <3>2. Needs(PayloadOf[a]) \cap Blocked = {}
      BY <2>1, <2>2
    <3> QED
      BY <2>1, <2>2, <3>1, <3>2, GateStarts
  <2>3. CASE attempt[a].types \cap Blocked # {}
    <3>1. Started' = Started
      BY <2>1, <2>3, NoStart DEF Answer
    <3> QED
      BY <2>1, <3>1, GateStutters
  <2> QED
    BY <2>2, <2>3
<1>4. ASSUME NEW a \in Attempt, AskForApproval(a) PROVE [Gate!Next]_(Gate!vars)
  <2>1. saved' = saved /\ attempt[a].pc = "reading" /\ Answers(a, "approval_required")
    BY <1>4 DEF AskForApproval
  <2>2. Started' = Started
    BY <2>1, NoStart DEF Answer
  <2> QED
    BY <2>1, <2>2, GateStutters
<1>5. ASSUME NEW d \in Decision, Save(d) PROVE [Gate!Next]_(Gate!vars)
  BY <1>5, GateGrants DEF CardInv
<1>6. CASE Crash
  <2>1. saved' = saved /\ Started' = Started
    BY <1>6 DEF Crash, Started
  <2> QED
    BY <2>1, GateStutters
<1>7. CASE UNCHANGED <<saved, attempt>>
  <2>1. Started' = Started
    BY <1>7 DEF Started
  <2> QED
    BY <1>7, <2>1, GateStutters
<1> QED
  BY <1>1, <1>2, <1>3, <1>4, <1>5, <1>6, <1>7
     DEF Next, AttemptStep, DecisionStep, ReadForDecision, Truncate, Quiet, vars

\* The protocol of card files, threads and crashes implements ApprovalGate: a
\* run starts only with every approval it needs, given for its command and
\* project, and never with an action v1 does not execute.
THEOREM ImplementsGate == Spec => ApprovalsGateRuns
<1>1. Init => Gate!Init
  BY DEF Init, Gate!Init, Granted
<1>2. TypeOK /\ CardInv /\ AttemptInv /\ [Next]_vars => [Gate!Next]_(Gate!vars)
  BY GateStep
<1> QED
  BY <1>1, <1>2, AttemptsHold, PTL DEF Spec, Gate!Spec, ApprovalsGateRuns
=============================================================================

--------------------------- MODULE RunEngineProofs ---------------------------
(***************************************************************************)
(* Proofs about RunEngine for any limits, any cost of an answer and any of *)
(* the workflows.                                                          *)
(***************************************************************************)
EXTENDS RunEngine, FiniteSetTheorems, TLAPS

----------------------------------------------------------------------------
(* Type correctness. *)

\* A program is a sequence of at least one step.
LEMMA ProgramFacts ==
    ASSUME NEW w \in DOMAIN Program
    PROVE  /\ Len(Program[w]) \in Nat \ {0}
           /\ DOMAIN Program[w] = 1..Len(Program[w])
BY DEF Program, BusinessLaunchPlan, BusinessBuilder, Phase2A, ResearchOnly,
       ProviderTest, WebsiteUpdate, PrototypeBuild

LEMMA TypeInit == Init => TypeOK
<1> SUFFICES ASSUME Init PROVE TypeOK
  OBVIOUS
<1>1. workflow \in DOMAIN Program
  BY RunEngineAssumption DEF Init
<1>2. 1 \in DOMAIN Program[workflow]
  BY <1>1, ProgramFacts
<1>3. 0 \in Cost
  BY RunEngineAssumption DEF Cost
<1>4. pc \in {"idle", "step", "use", "record"} \cup Awaiting \cup Ended
  BY DEF Init
<1>5. at \in DOMAIN Program[workflow]
  BY <1>2 DEF Init
<1> QED
  BY <1>3, <1>4, <1>5 DEF Init, TypeOK

Place == {"idle", "step", "use", "record"} \cup Awaiting \cup Ended

\* A step that is over leaves a well-typed place and index.
LEMMA StepDoneFacts ==
    ASSUME TypeOK, NEW from, StepDone(from), UNCHANGED request
    PROVE  /\ pc = from
           /\ pc' \in {"record", "step"}
           /\ at \in Nat /\ at' \in {at, at + 1}
           /\ pc' = "step" => at' = at + 1
           /\ at' \in DOMAIN Program[workflow']
<1>1. workflow \in DOMAIN Program /\ workflow' = workflow
  BY RunEngineAssumption DEF TypeOK, request
<1>2. Last \in Nat \ {0} /\ at \in 1..Last
  BY <1>1, ProgramFacts DEF TypeOK, Last
<1>3. at' \in 1..Last
  BY <1>2 DEF StepDone
<1>4. at' \in DOMAIN Program[workflow']
  BY <1>1, <1>3, ProgramFacts DEF Last
<1> QED
  BY <1>2, <1>4 DEF StepDone, Moves

\* A run that stays within its step keeps its index.
LEMMA StaysFacts ==
    ASSUME TypeOK, NEW from, NEW to, Stays(from, to), UNCHANGED request
    PROVE  pc = from /\ pc' = to /\ at' \in DOMAIN Program[workflow']
BY DEF TypeOK, Stays, Moves, request

\* What a refused call leaves.
LEMMA CallRefusedFacts ==
    ASSUME TypeOK, NEW from, CallRefused(from), UNCHANGED request
    PROVE  /\ pc = from
           /\ pc' \in {"refused", "fallback"}
           /\ pc' = "fallback" => from \in {"call", "lookup"}
           /\ UNCHANGED at
           /\ at' \in DOMAIN Program[workflow']
BY StaysFacts DEF CallRefused, Stays, Moves

\* The parts of a state that an action may change, well typed after it.
LEMMA TypeOfNext ==
    ASSUME TypeOK, UNCHANGED request,
           pc' \in Place,
           at' \in DOMAIN Program[workflow'],
           answer' \in Cost, answers' \in Nat, errors' \in Nat,
           billed' \in Nat, logged' \in Nat, counted' \in Nat,
           wrote' \subseteq {"files", "register"},
           stored' \in BOOLEAN
    PROVE  TypeOK'
BY DEF TypeOK, request, Place

LEMMA CostIsNat == Cost \subseteq Nat
BY RunEngineAssumption DEF Cost

LEMMA TypeNext == TypeOK /\ [Next]_vars => TypeOK'
<1> SUFFICES ASSUME TypeOK, [Next]_vars PROVE TypeOK'
  OBVIOUS
<1> USE CostIsNat
<1>1. ASSUME Start PROVE TypeOK'
  <2>1. pc' \in Place /\ at' \in DOMAIN Program[workflow']
    BY <1>1, StaysFacts DEF Start, Place, Ended
  <2> QED
    BY <1>1, <2>1, TypeOfNext DEF Start, TypeOK, calls, money
<1>2. ASSUME LocalStep PROVE TypeOK'
  <2>1. pc' \in Place /\ at' \in DOMAIN Program[workflow']
    BY <1>2, StepDoneFacts DEF LocalStep, Place
  <2>2. counted' \in Nat
    BY <1>2 DEF LocalStep, CountSomeCost, TypeOK
  <2>3. wrote' \subseteq {"files", "register"}
    BY <1>2 DEF LocalStep, MayWriteFiles, TypeOK
  <2> QED
    BY <1>2, <2>1, <2>2, <2>3, TypeOfNext DEF LocalStep, TypeOK, calls
<1>3. ASSUME SkipStep PROVE TypeOK'
  <2>1. pc' \in Place /\ at' \in DOMAIN Program[workflow']
    BY <1>3, StepDoneFacts DEF SkipStep, Place
  <2> QED
    BY <1>3, <2>1, TypeOfNext DEF SkipStep, TypeOK, calls, money
<1>4. ASSUME WriteFiles PROVE TypeOK'
  <2>1. pc' \in Place /\ at' \in DOMAIN Program[workflow']
    BY <1>4, StepDoneFacts, StaysFacts DEF WriteFiles, Place, Ended
  <2> QED
    BY <1>4, <2>1, TypeOfNext DEF WriteFiles, TypeOK, calls, money
<1>5. ASSUME CheckBudget PROVE TypeOK'
  <2>1. pc' \in Place /\ at' \in DOMAIN Program[workflow']
    BY <1>5, StepDoneFacts, StaysFacts DEF CheckBudget, Place, Ended
  <2> QED
    BY <1>5, <2>1, TypeOfNext DEF CheckBudget, TypeOK, calls, money
<1>6. ASSUME StepRaises PROVE TypeOK'
  <2>1. pc' \in Place /\ at' \in DOMAIN Program[workflow']
    BY <1>6, StaysFacts DEF StepRaises, Place, Ended
  <2> QED
    BY <1>6, <2>1, TypeOfNext DEF StepRaises, MayWriteFiles, TypeOK, calls, money
<1>7. ASSUME Ask PROVE TypeOK'
  <2>1. pc' \in Place /\ at' \in DOMAIN Program[workflow']
    BY <1>7, StaysFacts DEF Ask, Place, Ended, Awaiting
  <2> QED
    BY <1>7, <2>1, TypeOfNext DEF Ask, TypeOK, calls, money
<1>8. ASSUME ProviderFails PROVE TypeOK'
  <2>1. pc' \in Place /\ at' \in DOMAIN Program[workflow']
    BY <1>8, StaysFacts, CallRefusedFacts DEF ProviderFails, Place, Ended, Awaiting
  <2>2. errors' \in Nat
    BY <1>8 DEF ProviderFails, TypeOK
  <2> QED
    BY <1>8, <2>1, <2>2, TypeOfNext DEF ProviderFails, TypeOK, money
<1>9. ASSUME ProviderAnswers PROVE TypeOK'
  <2>1. PICK cost \in Cost, from \in DOMAIN LookupOf :
           /\ answer' = cost
           /\ billed' = billed + cost
           /\ answers' = answers + 1
           /\ \/ /\ Stays(from, LookupOf[from]) \/ Stays(from, "use")
                 /\ logged' = logged + cost
                 /\ UNCHANGED errors
              \/ /\ IOFaults
                 /\ CallRefused(from)
                 /\ logged' \in {logged, logged + cost}
                 /\ errors' = errors + 1
              \/ /\ IOFaults
                 /\ Stays(from, "raised")
                 /\ logged' \in {logged, logged + cost}
                 /\ UNCHANGED errors
    BY <1>9 DEF ProviderAnswers
  <2>2. LookupOf[from] \in {"lookup", "fallback_lookup"}
    BY DEF LookupOf
  <2>3. UNCHANGED <<request, counted, wrote, stored>>
    BY <1>9 DEF ProviderAnswers
  <2>4. pc' \in Place /\ at' \in DOMAIN Program[workflow']
    BY <2>1, <2>2, <2>3, StaysFacts, CallRefusedFacts DEF Place, Ended, Awaiting
  <2>5. /\ answer' \in Cost /\ billed' \in Nat /\ answers' \in Nat
        /\ logged' \in Nat /\ errors' \in Nat
    BY <2>1 DEF TypeOK
  <2> QED
    BY <2>3, <2>4, <2>5, TypeOfNext DEF TypeOK
<1>10. ASSUME LookupReturns PROVE TypeOK'
  <2>1. pc' \in Place /\ at' \in DOMAIN Program[workflow']
    BY <1>10, StaysFacts, CallRefusedFacts DEF LookupReturns, Place, Ended, Awaiting
  <2>2. errors' \in Nat
    BY <1>10 DEF LookupReturns, TypeOK
  <2> QED
    BY <1>10, <2>1, <2>2, TypeOfNext DEF LookupReturns, TypeOK, money
<1>11. ASSUME UseAnswer PROVE TypeOK'
  <2>1. pc' \in Place /\ at' \in DOMAIN Program[workflow']
    BY <1>11, StaysFacts, StepDoneFacts
       DEF UseAnswer, CountAnswer, PlannerFails, ApplyAnswer, Place, Ended
  <2>2. counted' \in Nat
    BY <1>11 DEF UseAnswer, CountAnswer, PlannerFails, ApplyAnswer, CountSomeCost, TypeOK
  <2>3. wrote' \subseteq {"files", "register"}
    BY <1>11 DEF UseAnswer, CountAnswer, PlannerFails, ApplyAnswer, MayWriteFiles, TypeOK
  <2> QED
    BY <1>11, <2>1, <2>2, <2>3, TypeOfNext DEF UseAnswer, TypeOK, calls
<1>12. ASSUME StartSearch PROVE TypeOK'
  <2>1. pc' \in Place /\ at' \in DOMAIN Program[workflow']
    BY <1>12, StaysFacts DEF StartSearch, Place, Ended, Awaiting
  <2> QED
    BY <1>12, <2>1, TypeOfNext DEF StartSearch, TypeOK, calls, money
<1>13. ASSUME SearchReturns PROVE TypeOK'
  <2>1. pc' \in Place /\ at' \in DOMAIN Program[workflow']
    BY <1>13, StaysFacts, StepDoneFacts DEF SearchReturns, Place, Ended
  <2> QED
    BY <1>13, <2>1, TypeOfNext DEF SearchReturns, TypeOK, calls, money
<1>14. ASSUME SaveRecord PROVE TypeOK'
  <2>1. pc' \in Place /\ at' \in DOMAIN Program[workflow']
    BY <1>14, StaysFacts DEF SaveRecord, Place, Ended, Awaiting
  <2> QED
    BY <1>14, <2>1, TypeOfNext DEF SaveRecord, TypeOK, calls, money
<1>15. ASSUME SyncReturns PROVE TypeOK'
  <2>1. pc' \in Place /\ at' \in DOMAIN Program[workflow']
    BY <1>15, StaysFacts DEF SyncReturns, Place, Ended
  <2> QED
    BY <1>15, <2>1, TypeOfNext DEF SyncReturns, TypeOK, calls, money
<1>16. ASSUME UNCHANGED vars PROVE TypeOK'
  BY <1>16 DEF vars, request, calls, money, TypeOK
<1> QED
  BY <1>1, <1>2, <1>3, <1>4, <1>5, <1>6, <1>7, <1>8, <1>9, <1>10, <1>11, <1>12,
     <1>13, <1>14, <1>15, <1>16 DEF Next, Step, Over

\* Every reachable state is well typed; the step a run is in is a step of its
\* workflow.
THEOREM EngineTypeCorrect == Spec => []TypeOK
BY TypeInit, TypeNext, PTL DEF Spec


----------------------------------------------------------------------------
(* The log and the bill. *)

\* A record exists when the run is past its steps and not before; until then,
\* and in the record, the log explains the whole bill.
LogInvariant ==
    /\ stored => pc \in {"sync"} \cup Ended
    /\ pc \in {"sync", "done"} => stored
    /\ (stored \/ pc \notin Ended)
        => logged <= billed /\ (logged = billed \/ errors > 0)

LEMMA LogInit == Init => LogInvariant
BY DEF Init, LogInvariant, Ended

LEMMA LogNext == TypeOK /\ LogInvariant /\ [Next]_vars => LogInvariant'
<1> SUFFICES ASSUME TypeOK, LogInvariant, [Next]_vars PROVE LogInvariant'
  OBVIOUS
<1> USE DEF LogInvariant, Ended
<1>1. ASSUME pc \in {"idle", "step", "search", "call", "fallback", "lookup",
                     "fallback_lookup", "use"},
             pc' \notin {"sync", "done"},
             UNCHANGED <<billed, logged, stored>>,
             errors' = errors \/ errors' = errors + 1
      PROVE  LogInvariant'
  BY <1>1 DEF TypeOK
<1>2. CASE Start
  BY <1>1, <1>2 DEF Start, Stays, Moves, calls, money
<1>3. CASE LocalStep \/ SkipStep \/ WriteFiles \/ CheckBudget \/ StepRaises
  BY <1>1, <1>3 DEF LocalStep, SkipStep, WriteFiles, CheckBudget, StepRaises, StepDone,
                    Stays, Moves, calls, money
<1>4. CASE Ask \/ StartSearch \/ SearchReturns
  BY <1>1, <1>4 DEF Ask, StartSearch, SearchReturns, StepDone, Stays, Moves, calls, money
<1>5. CASE ProviderFails \/ LookupReturns
  BY <1>1, <1>5, CallRefusedFacts
     DEF ProviderFails, LookupReturns, CallRefused, LookupOf, Stays, Moves, money
<1>6. CASE UseAnswer
  BY <1>1, <1>6 DEF UseAnswer, CountAnswer, PlannerFails, ApplyAnswer, StepDone, Stays,
                    Moves, calls
<1>7. CASE ProviderAnswers
  <2>1. PICK cost \in Cost, from \in DOMAIN LookupOf :
           /\ billed' = billed + cost
           /\ \/ /\ logged' = logged + cost
                 /\ UNCHANGED errors
              \/ /\ logged' \in {logged, logged + cost}
                 /\ errors' = errors + 1
              \/ /\ pc' = "raised"
                 /\ logged' \in {logged, logged + cost}
                 /\ UNCHANGED errors
    BY <1>7 DEF ProviderAnswers, Stays, Moves
  <2>2. pc \in {"call", "fallback"} /\ ~stored /\ ~stored' /\ pc' \notin {"sync", "done"}
    BY <1>7 DEF ProviderAnswers, CallRefused, LookupOf, Stays, Moves, TypeOK
  <2> QED
    BY <2>1, <2>2, CostIsNat DEF TypeOK
<1>8. CASE SaveRecord
  BY <1>8 DEF SaveRecord, Stays, Moves, calls, money
<1>9. CASE SyncReturns
  BY <1>9 DEF SyncReturns, Stays, Moves, calls, money
<1>10. CASE UNCHANGED vars
  BY <1>10 DEF vars, calls, money
<1> QED
  BY <1>2, <1>3, <1>4, <1>5, <1>6, <1>7, <1>8, <1>9, <1>10 DEF Next, Step, Over

\* In every run that goes on or has a record, the success rows are the whole
\* bill, unless a failure row is there to explain the difference.
THEOREM AnswersLogged == Spec => []AnswersAreInTheLog
<1>1. TypeOK /\ LogInvariant => AnswersAreInTheLog
  BY DEF TypeOK, LogInvariant, AnswersAreInTheLog
<1> QED
  BY <1>1, TypeInit, TypeNext, LogInit, LogNext, PTL DEF Spec


----------------------------------------------------------------------------
(* Paid twice. *)

LEMMA NoneRouted == Cardinality(RoutedUpTo(0)) = 0
<1>1. RoutedUpTo(0) = {}
  BY DEF RoutedUpTo
<1> QED
  BY <1>1, FS_EmptySet

\* One more step is at most one more step that asks a provider, and is one
\* when its kind is Routed.
LEMMA OneMoreRouted ==
    ASSUME NEW n \in Nat
    PROVE  /\ Cardinality(RoutedUpTo(n)) \in Nat
           /\ Cardinality(RoutedUpTo(n + 1)) \in Nat
           /\ Cardinality(RoutedUpTo(n)) <= Cardinality(RoutedUpTo(n + 1))
           /\ Cardinality(RoutedUpTo(n + 1)) <= Cardinality(RoutedUpTo(n)) + 1
           /\ Program[workflow][n + 1] \in Routed =>
                  Cardinality(RoutedUpTo(n + 1)) = Cardinality(RoutedUpTo(n)) + 1
<1>1. IsFiniteSet(RoutedUpTo(n))
  <2>1. IsFiniteSet(1..n)
    BY FS_Interval
  <2> QED
    BY <2>1, FS_Subset DEF RoutedUpTo
<1>2. n + 1 \notin RoutedUpTo(n)
  BY DEF RoutedUpTo
<1>3. 1..(n + 1) = (1..n) \cup {n + 1}
  OBVIOUS
<1>4. CASE Program[workflow][n + 1] \in Routed
  <2>1. RoutedUpTo(n + 1) = RoutedUpTo(n) \cup {n + 1}
    BY <1>3, <1>4 DEF RoutedUpTo
  <2>2. Cardinality(RoutedUpTo(n)) \in Nat
    BY <1>1, FS_CardinalityType
  <2>3. Cardinality(RoutedUpTo(n) \cup {n + 1}) = Cardinality(RoutedUpTo(n)) + 1
    BY <1>1, <1>2, FS_AddElement
  <2> QED
    BY <2>1, <2>2, <2>3
<1>5. CASE Program[workflow][n + 1] \notin Routed
  <2>1. RoutedUpTo(n + 1) = RoutedUpTo(n)
    BY <1>3, <1>5 DEF RoutedUpTo
  <2> QED
    BY <1>1, <1>5, <2>1, FS_CardinalityType
<1> QED
  BY <1>4, <1>5

\* Where the answer of the step at hand is still to come.
Unanswered == {"idle", "step", "search", "call", "fallback"}

\* Before its answer a run has at most one answer for every provider step
\* that is behind it, and one more for every failure row.
PaidInvariant ==
    /\ pc \in {"call", "fallback", "lookup", "fallback_lookup", "use"} => Kind \in Routed
    /\ answers <= Cardinality(RoutedUpTo(IF pc \in Unanswered THEN at - 1 ELSE at)) + errors

LEMMA PaidInit == Init => PaidInvariant
<1> SUFFICES ASSUME Init PROVE PaidInvariant
  OBVIOUS
<1>1. pc = "idle" /\ at - 1 = 0 /\ answers = 0 /\ errors = 0
  BY DEF Init
<1>2. Cardinality(RoutedUpTo(at - 1)) = 0
  BY <1>1, NoneRouted
<1> QED
  BY <1>1, <1>2 DEF PaidInvariant, Unanswered

\* What a step has to show, with the count taken in the state before it.
LEMMA PaidAfter ==
    ASSUME UNCHANGED workflow,
           NEW n, n = IF pc' \in Unanswered THEN at' - 1 ELSE at',
           answers' <= Cardinality(RoutedUpTo(n)) + errors',
           pc' \in {"call", "fallback", "lookup", "fallback_lookup", "use"} =>
               Program[workflow][at'] \in Routed
    PROVE  PaidInvariant'
<1>1. RoutedUpTo(n) = {i \in 1..n : Program[workflow'][i] \in Routed}
  BY DEF RoutedUpTo
<1>2. answers' <= Cardinality({i \in 1..n : Program[workflow'][i] \in Routed}) + errors'
  BY <1>1
<1> QED
  BY <1>2 DEF PaidInvariant, RoutedUpTo, Kind

LEMMA PaidNext == TypeOK /\ PaidInvariant /\ [Next]_vars => PaidInvariant'
<1> SUFFICES ASSUME TypeOK, PaidInvariant, [Next]_vars PROVE PaidInvariant'
  OBVIOUS
<1> DEFINE before == Cardinality(RoutedUpTo(at - 1))
           after  == Cardinality(RoutedUpTo(at))
<1>1. at \in Nat \ {0} /\ answers \in Nat /\ errors \in Nat
  BY ProgramFacts, RunEngineAssumption DEF TypeOK
<1>2. /\ before \in Nat /\ after \in Nat
      /\ before <= after /\ after <= before + 1
      /\ Kind \in Routed => after = before + 1
  BY <1>1, OneMoreRouted DEF Kind
<1>3. answers <= (IF pc \in Unanswered THEN before ELSE after) + errors
  BY DEF PaidInvariant
<1> HIDE DEF before, after
<1>4. ASSUME NEW e \in {errors, errors + 1}, errors' = e,
             UNCHANGED <<workflow, answers>>,
             \/ UNCHANGED at /\ (pc' \in Unanswered => pc \in Unanswered)
             \/ at' = at + 1 /\ pc' = "step",
             pc' \in {"call", "fallback", "lookup", "fallback_lookup", "use"} =>
                 Kind \in Routed /\ UNCHANGED at
      PROVE  PaidInvariant'
  <2>1. CASE UNCHANGED at /\ pc' \in Unanswered
    <3>1. answers' <= before + errors'
      BY <1>1, <1>2, <1>3, <1>4, <2>1
    <3> QED
      BY <1>4, <2>1, <3>1, PaidAfter DEF before, Kind
  <2>2. CASE UNCHANGED at /\ pc' \notin Unanswered
    <3>1. answers' <= after + errors'
      BY <1>1, <1>2, <1>3, <1>4, <2>2
    <3> QED
      BY <1>4, <2>2, <3>1, PaidAfter DEF after, Kind
  <2>3. CASE at' = at + 1 /\ pc' = "step"
    <3>1. answers' <= after + errors'
      BY <1>1, <1>2, <1>3, <1>4, <2>3
    <3>2. at' - 1 = at /\ pc' \in Unanswered
      BY <1>1, <2>3 DEF Unanswered
    <3> QED
      BY <1>4, <2>3, <3>1, <3>2, PaidAfter DEF after
  <2> QED
    BY <1>4, <2>1, <2>2, <2>3
<1> USE DEF Unanswered
<1>5. CASE Start
  BY <1>4, <1>5 DEF Start, Stays, Moves, calls, request
<1>6. CASE LocalStep \/ SkipStep \/ WriteFiles \/ CheckBudget \/ StepRaises
  BY <1>4, <1>6 DEF LocalStep, SkipStep, WriteFiles, CheckBudget, StepRaises, StepDone,
                    Stays, Moves, calls, request
<1>7. CASE Ask \/ StartSearch \/ SearchReturns
  BY <1>4, <1>7 DEF Ask, StartSearch, SearchReturns, StepDone, Stays, Moves, calls, request
<1>8. CASE UseAnswer
  BY <1>4, <1>8 DEF UseAnswer, CountAnswer, PlannerFails, ApplyAnswer, StepDone, Stays,
                    Moves, calls, request
<1>9. CASE SaveRecord \/ SyncReturns
  BY <1>4, <1>9 DEF SaveRecord, SyncReturns, Stays, Moves, calls, request
<1>10. CASE UNCHANGED vars
  BY <1>3, <1>4, <1>10 DEF vars, calls, request, PaidInvariant
<1>11. CASE ProviderFails
  <2>1. pc \in {"call", "fallback"} /\ Kind \in Routed
    BY <1>11 DEF ProviderFails, CallRefused, LookupOf, Stays, Moves, PaidInvariant
  <2> QED
    BY <1>4, <1>11, <2>1 DEF ProviderFails, CallRefused, Stays, Moves, request
<1>12. CASE ProviderAnswers
  <2>1. pc \in {"call", "fallback"} /\ Kind \in Routed
    BY <1>12 DEF ProviderAnswers, CallRefused, LookupOf, Stays, Moves, PaidInvariant
  <2>2. /\ UNCHANGED <<workflow, at>> /\ answers' = answers + 1
        /\ \/ pc' \in {"lookup", "fallback_lookup", "use", "raised"} /\ errors' = errors
           \/ pc' \in {"refused", "fallback"} /\ errors' = errors + 1
    BY <1>12 DEF ProviderAnswers, CallRefused, LookupOf, Stays, Moves, request
  <2>3. CASE pc' \in Unanswered
    <3>1. answers' <= before + errors'
      BY <1>1, <1>2, <1>3, <2>1, <2>2, <2>3
    <3> QED
      BY <2>1, <2>2, <2>3, <3>1, PaidAfter DEF before, Kind
  <2>4. CASE pc' \notin Unanswered
    <3>1. answers' <= after + errors'
      BY <1>1, <1>2, <1>3, <2>1, <2>2, <2>4
    <3> QED
      BY <2>1, <2>2, <2>4, <3>1, PaidAfter DEF after, Kind
  <2> QED
    BY <2>3, <2>4
<1>13. CASE LookupReturns
  <2>1. pc \in {"lookup", "fallback_lookup"} /\ Kind \in Routed
    BY <1>13 DEF LookupReturns, CallRefused, Stays, Moves, PaidInvariant
  <2>2. /\ UNCHANGED <<workflow, at, answers>>
        /\ \/ pc' \in {"use", "raised"} /\ errors' = errors
           \/ pc' \in {"refused", "fallback"} /\ errors' = errors + 1
    BY <1>13 DEF LookupReturns, CallRefused, Stays, Moves, request
  <2>3. CASE pc' \in Unanswered
    <3>1. answers' <= before + errors'
      BY <1>1, <1>2, <1>3, <2>1, <2>2, <2>3
    <3> QED
      BY <2>1, <2>2, <2>3, <3>1, PaidAfter DEF before, Kind
  <2>4. CASE pc' \notin Unanswered
    <3>1. answers' <= after + errors'
      BY <1>1, <1>2, <1>3, <2>1, <2>2, <2>4
    <3> QED
      BY <2>1, <2>2, <2>4, <3>1, PaidAfter DEF after, Kind
  <2> QED
    BY <2>3, <2>4
<1> QED
  BY <1>5, <1>6, <1>7, <1>8, <1>9, <1>10, <1>11, <1>12, <1>13 DEF Next, Step, Over

\* In no run of no workflow is a provider step answered twice without a
\* failure row in the usage log that explains the second answer.
THEOREM NoUnexplainedAnswer == Spec => []PaidTwiceIsExplained
<1>1. TypeOK /\ PaidInvariant => PaidTwiceIsExplained
  <2> SUFFICES ASSUME TypeOK, PaidInvariant PROVE PaidTwiceIsExplained
    OBVIOUS
  <2>1. at \in Nat \ {0} /\ answers \in Nat /\ errors \in Nat
    BY ProgramFacts, RunEngineAssumption DEF TypeOK
  <2>2. /\ Cardinality(RoutedUpTo(at - 1)) \in Nat /\ Cardinality(RoutedUpTo(at)) \in Nat
        /\ Cardinality(RoutedUpTo(at - 1)) <= Cardinality(RoutedUpTo(at))
    BY <2>1, OneMoreRouted
  <2> QED
    BY <2>1, <2>2 DEF PaidInvariant, PaidTwiceIsExplained
<1> QED
  BY <1>1, TypeInit, TypeNext, PaidInit, PaidNext, PTL DEF Spec


----------------------------------------------------------------------------
(* The engine's steps are the ledger's. *)

Stage == IF stored THEN "kept"
         ELSE IF pc \in Ended THEN "dropped"
         ELSE IF pc = "idle" THEN "new" ELSE "open"

\* The ledger's actions, in the engine's variables.
LEMMA LedgerActions ==
    ASSUME NEW cost \in Cost
    PROVE  /\ Stage = "new" /\ Stage' = "open"
              /\ UNCHANGED <<billed, logged, errors>> => Ledger!Open
           /\ Stage = "open" /\ Stage' \in {"open", "dropped"}
              /\ billed' = billed + cost /\ logged' = logged + cost
              /\ ((errors > 0)' = (errors > 0) \/ (errors > 0)') => Ledger!Charge
           /\ Stage = "open" /\ Stage' \in {"open", "dropped"}
              /\ billed' = billed + cost /\ logged' = logged
              /\ (errors > 0)' => Ledger!Charge
           /\ Stage = "open" /\ Stage' \in {"open", "dropped"}
              /\ UNCHANGED <<billed, logged>> /\ (errors > 0)' => Ledger!Flag
           /\ Stage = "open" /\ Stage' = "dropped"
              /\ billed' = billed + cost /\ UNCHANGED <<logged, errors>> => Ledger!Lose
           /\ Stage = "open" /\ Stage' = "kept" /\ (logged = billed \/ errors > 0)
              /\ UNCHANGED <<billed, logged, errors>> => Ledger!Keep
           /\ Stage \in {"new", "open"} /\ Stage' = "dropped"
              /\ UNCHANGED <<billed, logged, errors>> => Ledger!Drop
BY Zenon DEF Stage, Ledger!Open, Ledger!Charge, Ledger!Flag, Ledger!Lose, Ledger!Keep, Ledger!Drop


\* An open run stays open, ends or is kept.
LEMMA StageFacts ==
    ASSUME LogInvariant,
           pc \in {"step", "search", "call", "fallback", "lookup", "fallback_lookup",
                   "use", "record"}
    PROVE  /\ ~stored /\ Stage = "open"
           /\ ~stored' /\ pc' \in {"refused", "raised"} => Stage' = "dropped"
           /\ ~stored' /\ pc' \in {"step", "search", "call", "fallback", "lookup",
                                   "fallback_lookup", "use", "record"} => Stage' = "open"
BY DEF LogInvariant, Stage, Ended

LEMMA LedgerInit == Init => Ledger!Init
BY DEF Init, Ledger!Init, Ended

LEMMA LedgerNext ==
    TypeOK /\ LogInvariant /\ [Next]_vars => [Ledger!Next]_(Ledger!vars)
<1> SUFFICES ASSUME TypeOK, LogInvariant, [Next]_vars
             PROVE  [Ledger!Next]_(Ledger!vars)
  OBVIOUS
<1>a. 0 \in Cost /\ \A c \in Cost : c \in Nat
  BY RunEngineAssumption, CostIsNat DEF Cost
<1>b. errors \in Nat /\ billed \in Nat /\ logged \in Nat
  BY DEF TypeOK
<1>c. ASSUME UNCHANGED <<billed, logged, errors>>, Stage' = Stage
      PROVE  UNCHANGED Ledger!vars
  BY <1>c DEF Ledger!vars, Stage
<1>d. ASSUME UNCHANGED <<billed, logged, errors, stored>>,
             pc \in {"step", "search", "call", "fallback", "lookup", "fallback_lookup",
                     "use", "record"},
             pc' \in {"step", "search", "call", "fallback", "lookup", "fallback_lookup",
                      "use", "record", "refused", "raised"}
      PROVE  [Ledger!Next]_(Ledger!vars)
  <2>1. CASE pc' \in {"refused", "raised"}
    <3>1. Ledger!Drop
      BY <1>a, <1>d, <2>1, StageFacts, LedgerActions
    <3> QED
      BY <3>1 DEF Ledger!Next
  <2>2. CASE pc' \notin {"refused", "raised"}
    BY <1>c, <1>d, <2>2, StageFacts
  <2> QED
    BY <2>1, <2>2
<1>1. CASE Start
  <2>1. pc = "idle" /\ pc' \in {"step", "refused"} /\ UNCHANGED <<billed, logged, errors, stored>>
    BY <1>1 DEF Start, Stays, Moves, calls, money
  <2>2. Stage = "new" /\ Stage' \in {"open", "dropped"}
    BY <2>1 DEF Stage, LogInvariant, Ended
  <2>3. Ledger!Open \/ Ledger!Drop
    BY <1>a, <2>1, <2>2, LedgerActions
  <2> QED
    BY <2>3 DEF Ledger!Next
<1>2. CASE LocalStep \/ SkipStep \/ WriteFiles \/ CheckBudget \/ StepRaises
  BY <1>d, <1>2 DEF LocalStep, SkipStep, WriteFiles, CheckBudget, StepRaises, StepDone,
                    Stays, Moves, calls, money
<1>3. CASE Ask \/ StartSearch \/ SearchReturns
  BY <1>d, <1>3 DEF Ask, StartSearch, SearchReturns, StepDone, Stays, Moves, calls, money
<1>4. CASE UseAnswer
  BY <1>d, <1>4 DEF UseAnswer, CountAnswer, PlannerFails, ApplyAnswer, StepDone, Stays,
                    Moves, calls
<1>5. CASE ProviderFails \/ LookupReturns
  <2>1. /\ pc \in {"call", "fallback", "lookup", "fallback_lookup"}
        /\ pc' \in {"refused", "fallback", "use", "raised"}
        /\ UNCHANGED <<billed, logged, stored>>
        /\ errors' = errors \/ (errors' = errors + 1 /\ pc' \in {"refused", "fallback"})
    BY <1>5 DEF ProviderFails, LookupReturns, CallRefused, LookupOf, Stays, Moves, money
  <2>2. CASE errors' = errors
    BY <1>d, <2>1, <2>2
  <2>3. CASE errors' = errors + 1
    <3>1. Stage = "open" /\ Stage' \in {"open", "dropped"} /\ (errors > 0)'
      BY <1>b, <2>1, <2>3, StageFacts DEF LogInvariant, Ended
    <3>2. Ledger!Flag
      BY <1>a, <2>1, <3>1, LedgerActions
    <3> QED
      BY <3>2 DEF Ledger!Next
  <2> QED
    BY <2>1, <2>2, <2>3
<1>6. CASE ProviderAnswers
  <2>1. PICK cost \in Cost :
          /\ pc \in {"call", "fallback"} /\ stored' = stored
          /\ billed' = billed + cost
          /\ \/ /\ pc' \in {"lookup", "fallback_lookup", "use"}
                /\ logged' = logged + cost /\ errors' = errors
             \/ /\ pc' \in {"refused", "fallback"}
                /\ logged' \in {logged, logged + cost} /\ errors' = errors + 1
             \/ /\ pc' = "raised"
                /\ logged' \in {logged, logged + cost} /\ errors' = errors
    BY <1>6 DEF ProviderAnswers, CallRefused, LookupOf, Stays, Moves
  <2>2. Stage = "open" /\ ~stored'
    BY <2>1, StageFacts DEF LogInvariant, Ended
  <2>3. Stage' \in {"open", "dropped"} /\ (pc' = "raised" => Stage' = "dropped")
    BY <2>1, <2>2, StageFacts DEF LogInvariant, Ended
  <2>4. CASE logged' = logged + cost
    <3>1. (errors > 0)' = (errors > 0) \/ (errors > 0)'
      BY <1>b, <2>1
    <3>2. Ledger!Charge
      BY <2>1, <2>2, <2>3, <2>4, <3>1, LedgerActions
    <3> QED
      BY <3>2 DEF Ledger!Next
  <2>5. CASE logged' = logged /\ errors' = errors + 1
    <3>1. (errors > 0)'
      BY <1>b, <2>5
    <3>2. Ledger!Charge
      BY <2>1, <2>2, <2>3, <2>5, <3>1, LedgerActions
    <3> QED
      BY <3>2 DEF Ledger!Next
  <2>6. CASE logged' = logged /\ errors' = errors /\ pc' = "raised"
    <3>1. Ledger!Lose
      BY <2>1, <2>2, <2>3, <2>6, LedgerActions
    <3> QED
      BY <3>1 DEF Ledger!Next
  <2> QED
    BY <2>1, <2>4, <2>5, <2>6
<1>7. CASE SaveRecord
  <2>1. /\ pc = "record" /\ pc' \in {"sync", "done", "raised"}
        /\ UNCHANGED <<billed, logged, errors>>
        /\ stored' = TRUE \/ (stored' = FALSE /\ pc' = "raised")
    BY <1>7 DEF SaveRecord, Stays, Moves, calls, money
  <2>2. CASE stored' = TRUE
    <3>1. Stage = "open" /\ (logged = billed \/ errors > 0)
      BY <2>1, StageFacts DEF LogInvariant, Ended
    <3>2. Stage' = "kept"
      BY <2>2 DEF Stage
    <3>3. Ledger!Keep
      BY <1>a, <2>1, <3>1, <3>2, LedgerActions
    <3> QED
      BY <3>3 DEF Ledger!Next
  <2>3. CASE stored' = FALSE /\ pc' = "raised"
    <3>1. Ledger!Drop
      BY <1>a, <2>1, <2>3, StageFacts, LedgerActions
    <3> QED
      BY <3>1 DEF Ledger!Next
  <2> QED
    BY <2>1, <2>2, <2>3
<1>8. CASE SyncReturns
  <2>1. pc = "sync" /\ pc' \in {"done", "raised"} /\ UNCHANGED <<billed, logged, errors, stored>>
    BY <1>8 DEF SyncReturns, Stays, Moves, calls, money
  <2>2. Stage = "kept" /\ Stage' = "kept"
    BY <2>1 DEF Stage, LogInvariant
  <2> QED
    BY <1>c, <2>1, <2>2
<1>9. CASE UNCHANGED vars
  BY <1>9 DEF vars, calls, money, Ledger!vars
<1> QED
  BY <1>1, <1>2, <1>3, <1>4, <1>5, <1>6, <1>7, <1>8, <1>9 DEF Next, Step, Over


\* The engine implements the ledger, its fairness aside: a run is charged only
\* while it is open, and is kept only when the log says what it was charged.
THEOREM EngineKeepsTheLedger == Spec => Ledger!Init /\ [][Ledger!Next]_(Ledger!vars)
BY TypeInit, TypeNext, LogInit, LogNext, LedgerInit, LedgerNext, PTL DEF Spec


----------------------------------------------------------------------------
(* Runs whose every answer is counted.                                     *)

CountedWorkflow == DOMAIN Program \ {"website_update", "prototype_build"}

\* In these workflows no step has a fallback or an answer that is not
\* counted, the last step is the budget check or comes after it, and before
\* register stands the budget check, except in phase 2A, which asks nobody.
LEMMA CountedProgram ==
    ASSUME NEW w \in CountedWorkflow, NEW n \in DOMAIN Program[w]
    PROVE  /\ Program[w][n] \notin {"coding", "repair", "builder"}
           /\ n = Len(Program[w]) => Program[w][n] \in {"budget", "register"}
           /\ w # "phase_2a_local_prototype" /\ n + 1 \in DOMAIN Program[w]
              /\ Program[w][n + 1] = "register" => Program[w][n] = "budget"
           /\ w = "phase_2a_local_prototype" => Program[w][n] \notin Routed
<1>1. CASE w = "business_launch_plan"
  BY <1>1 DEF Program, BusinessLaunchPlan
<1>2. CASE w = "business_builder"
  BY <1>2 DEF Program, BusinessBuilder
<1>3. CASE w = "phase_2a_local_prototype"
  BY <1>3 DEF Program, Phase2A, Routed
<1>4. CASE w = "research_only"
  BY <1>4 DEF Program, ResearchOnly
<1>5. CASE w = "provider_test"
  BY <1>5 DEF Program, ProviderTest
<1> QED
  BY <1>1, <1>2, <1>3, <1>4, <1>5 DEF CountedWorkflow, Program

\* What the providers have billed is counted or in hand, and once the budget
\* check is behind the run it is within the limit.
CountedInvariant ==
    workflow \in CountedWorkflow =>
        /\ pc \in {"idle", "step", "search", "call"} => billed <= counted
        /\ pc \in {"lookup", "use"} => billed <= counted + answer
        /\ pc \notin {"fallback", "fallback_lookup"}
        /\ pc = "search" => Kind = "search"
        /\ Kind = "register" \/ pc = "record" \/ stored => billed <= limit
        /\ workflow = "phase_2a_local_prototype" => billed = 0


LEMMA CountedInit == Init => CountedInvariant
<1> SUFFICES ASSUME Init PROVE CountedInvariant
  OBVIOUS
<1>1. limit \in Nat /\ billed = 0 /\ counted = 0 /\ pc = "idle"
  BY RunEngineAssumption DEF Init
<1> QED
  BY <1>1 DEF CountedInvariant

\* Where the next step of a counted workflow begins, and how the last ends.
LEMMA CountedStepDone ==
    ASSUME TypeOK, LogInvariant, CountedInvariant, workflow \in CountedWorkflow,
           NEW from \in {"step", "use", "search"}, StepDone(from), UNCHANGED request,
           billed <= counted', Kind = "budget" => billed <= limit,
           UNCHANGED <<billed, stored>>
    PROVE  CountedInvariant'
<1>1. workflow \in DOMAIN Program /\ Last \in Nat \ {0} /\ at \in 1..Last
      /\ DOMAIN Program[workflow] = 1..Last
  BY ProgramFacts, RunEngineAssumption DEF TypeOK, Last
<1>2. ~stored /\ UNCHANGED <<workflow, limit>> /\ billed \in Nat /\ limit \in Nat
  BY RunEngineAssumption DEF TypeOK, LogInvariant, StepDone, Moves, Ended, request
<1>3. CASE at = Last
  <2>1. Kind \in {"budget", "register"}
    BY <1>1, <1>3, CountedProgram DEF Kind, Last
  <2>2. billed <= limit
    BY <2>1 DEF CountedInvariant
  <2> QED
    BY <1>2, <1>3, <2>2 DEF CountedInvariant, StepDone, Moves, Kind
<1>4. CASE at # Last
  <2>1. at' = at + 1 /\ at + 1 \in DOMAIN Program[workflow] /\ pc' = "step"
    BY <1>1, <1>4 DEF StepDone, Moves
  <2>2. ASSUME Kind' = "register" PROVE billed <= limit
    <3>1. CASE workflow = "phase_2a_local_prototype"
      BY <1>2, <3>1 DEF CountedInvariant
    <3>2. CASE workflow # "phase_2a_local_prototype"
      <4>1. Program[workflow][at + 1] = "register"
        BY <1>2, <2>1, <2>2 DEF Kind
      <4>2. Kind = "budget"
        BY <1>1, <2>1, <3>2, <4>1, CountedProgram DEF Kind
      <4> QED
        BY <4>2
    <3> QED
      BY <3>1, <3>2
  <2> QED
    BY <1>2, <2>1, <2>2 DEF CountedInvariant
<1> QED
  BY <1>3, <1>4

LEMMA CountedNext ==
    TypeOK /\ LogInvariant /\ PaidInvariant /\ CountedInvariant /\ [Next]_vars
        => CountedInvariant'
<1> SUFFICES ASSUME TypeOK, LogInvariant, PaidInvariant, CountedInvariant, [Next]_vars,
                    workflow \in CountedWorkflow
             PROVE  CountedInvariant'
  BY DEF CountedInvariant, Next, Step, Over, vars, request, Start, LocalStep, SkipStep,
         WriteFiles, CheckBudget, StepRaises, Ask, ProviderFails, ProviderAnswers,
         LookupReturns, UseAnswer, StartSearch, SearchReturns, SaveRecord, SyncReturns
<1>a. /\ answer \in Nat /\ billed \in Nat /\ counted \in Nat /\ limit \in Nat
      /\ \A c \in Cost : c \in Nat
  BY CostIsNat, RunEngineAssumption DEF TypeOK
<1>b. Kind \notin {"coding", "repair", "builder"}
      /\ (workflow = "phase_2a_local_prototype" => Kind \notin Routed)
  BY CountedProgram DEF TypeOK, Kind
<1>c. ~HasFallback
  BY <1>b DEF HasFallback
<1>d. ASSUME UNCHANGED <<billed, counted, stored, at>>, UNCHANGED request,
             \/ pc \in {"step", "idle", "search", "call"}
                /\ pc' \in {"step", "search", "call", "refused", "raised"}
             \/ pc \in {"lookup", "use"} /\ pc' \in {"use", "refused", "raised"}
                /\ answer' = answer,
             pc' = "search" => Kind = "search"
      PROVE  CountedInvariant'
  BY <1>d DEF CountedInvariant, Kind, request
<1>1. CASE Start
  BY <1>d, <1>1 DEF Start, Stays, Moves, calls, money
<1>2. CASE LocalStep
  <2>1. StepDone("step") /\ billed <= counted'
    BY <1>a, <1>2 DEF LocalStep, CountSomeCost, CountedInvariant, StepDone, Moves
  <2>2. Kind # "budget"
    BY <1>2 DEF LocalStep
  <2> QED
    BY <1>2, <2>1, <2>2, CountedStepDone DEF LocalStep
<1>3. CASE SkipStep
  BY <1>3, CountedStepDone DEF SkipStep, CountedInvariant, StepDone, Moves, money
<1>4. CASE WriteFiles
  <2>1. CASE StepDone("step")
    BY <1>4, <2>1, CountedStepDone DEF WriteFiles, CountedInvariant, StepDone, Moves, money
  <2>2. CASE Stays("step", "refused")
    BY <1>d, <1>4, <2>2 DEF WriteFiles, Stays, Moves, money
  <2> QED
    BY <1>4, <2>1, <2>2 DEF WriteFiles
<1>5. CASE CheckBudget
  <2>1. CASE counted > limit
    BY <1>d, <1>5, <2>1 DEF CheckBudget, Stays, Moves, money
  <2>2. CASE ~(counted > limit)
    <3>1. StepDone("step") /\ billed <= counted' /\ billed <= limit
      BY <1>a, <1>5, <2>2 DEF CheckBudget, CountedInvariant, StepDone, Moves, money
    <3> QED
      BY <1>5, <3>1, CountedStepDone DEF CheckBudget, money
  <2> QED
    BY <2>1, <2>2
<1>6. CASE StepRaises
  BY <1>d, <1>6 DEF StepRaises, Stays, Moves, calls, money
<1>7. CASE Ask \/ StartSearch
  BY <1>c, <1>d, <1>7 DEF Ask, StartSearch, Stays, Moves, money
<1>8. CASE SearchReturns
  <2>1. CASE StepDone("search")
    BY <1>8, <2>1, CountedStepDone DEF SearchReturns, CountedInvariant, StepDone, Moves, money
  <2>2. CASE Stays("search", "refused") \/ Stays("search", "raised")
    BY <1>d, <1>8, <2>2 DEF SearchReturns, Stays, Moves, money
  <2> QED
    BY <1>8, <2>1, <2>2 DEF SearchReturns
<1>9. CASE ProviderFails \/ LookupReturns
  BY <1>c, <1>d, <1>9
     DEF ProviderFails, LookupReturns, CallRefused, LookupOf, Stays, Moves, money, CountedInvariant
<1>10. CASE ProviderAnswers
  <2>1. PICK cost \in Cost :
          /\ pc = "call" /\ pc' \in {"lookup", "use", "refused", "raised"}
          /\ answer' = cost /\ billed' = billed + cost
          /\ UNCHANGED <<request, at, counted, stored>>
    BY <1>c, <1>10
       DEF ProviderAnswers, CallRefused, LookupOf, Stays, Moves, CountedInvariant
  <2>2. Kind # "register" /\ workflow # "phase_2a_local_prototype" /\ ~stored
    BY <1>b, <2>1 DEF PaidInvariant, Routed, LogInvariant, Ended
  <2>3. billed' <= counted' + answer'
    BY <1>a, <2>1 DEF CountedInvariant
  <2> QED
    BY <2>1, <2>2, <2>3 DEF CountedInvariant, Kind, request
<1>11. CASE UseAnswer
  <2>1. CASE CountAnswer
    <3>1. StepDone("use") /\ billed <= counted' /\ Kind # "budget"
      BY <1>a, <2>1 DEF CountAnswer, CountedInvariant, StepDone, Moves
    <3> QED
      BY <1>11, <3>1, CountedStepDone DEF UseAnswer
  <2>2. CASE PlannerFails
    BY <1>d, <1>11, <2>2 DEF UseAnswer, PlannerFails, Stays, Moves, calls
  <2> QED
    BY <1>b, <1>11, <2>1, <2>2 DEF UseAnswer, ApplyAnswer
<1>12. CASE SaveRecord
  BY <1>12 DEF SaveRecord, Stays, Moves, CountedInvariant, Kind, request, money
<1>13. CASE SyncReturns
  BY <1>13 DEF SyncReturns, Stays, Moves, CountedInvariant, Kind, request, money
<1>14. CASE UNCHANGED vars
  BY <1>14 DEF vars, request, calls, money, CountedInvariant, Kind
<1> QED
  BY <1>1, <1>2, <1>3, <1>4, <1>5, <1>6, <1>7, <1>8, <1>9, <1>10, <1>11, <1>12, <1>13,
     <1>14 DEF Next, Step, Over

\* A run whose answers are all counted is within its limit when it has a
\* record, whatever its limit, its answers and the faults on the way.
THEOREM CountedRunsWithinLimit == Spec => []CountedRunsStayWithinLimit
<1>1. TypeOK /\ CountedInvariant => CountedRunsStayWithinLimit
  BY RunEngineAssumption
     DEF TypeOK, CountedInvariant, CountedRunsStayWithinLimit, CountedWorkflow
<1> QED
  BY <1>1, TypeInit, TypeNext, LogInit, LogNext, PaidInit, PaidNext, CountedInit,
     CountedNext, PTL DEF Spec

----------------------------------------------------------------------------
(* Runs that are refused.                                                  *)

Careful == {"business_launch_plan", "business_builder", "research_only", "provider_test"}

\* These workflows write in their last step alone, if at all.
LEMMA CarefulProgram ==
    ASSUME NEW w \in Careful, NEW n \in DOMAIN Program[w]
    PROVE  /\ Program[w][n] \notin {"coding", "repair", "builder", "files"}
           /\ Program[w][n] = "register" => n = Len(Program[w])
<1>1. CASE w = "business_launch_plan"
  BY <1>1 DEF Program, BusinessLaunchPlan
<1>2. CASE w = "business_builder"
  BY <1>2 DEF Program, BusinessBuilder
<1>3. CASE w = "research_only"
  BY <1>3 DEF Program, ResearchOnly
<1>4. CASE w = "provider_test"
  BY <1>4 DEF Program, ProviderTest
<1> QED
  BY <1>1, <1>2, <1>3, <1>4 DEF Careful

\* What has written is past its steps: nothing refuses it any more.
CarefulInvariant ==
    (workflow \in Careful /\ wrote # {}) => pc \in {"record", "sync", "done", "raised"}

LEMMA CarefulNext == TypeOK /\ CarefulInvariant /\ [Next]_vars => CarefulInvariant'
<1> SUFFICES ASSUME TypeOK, CarefulInvariant, [Next]_vars, workflow \in Careful
             PROVE  CarefulInvariant'
  BY DEF CarefulInvariant, Next, Step, Over, vars, request, Start, LocalStep, SkipStep,
         WriteFiles, CheckBudget, StepRaises, Ask, ProviderFails, ProviderAnswers,
         LookupReturns, UseAnswer, StartSearch, SearchReturns, SaveRecord, SyncReturns
<1>1. /\ Kind \notin {"coding", "repair", "builder", "files"}
      /\ Kind = "register" => at = Last
  BY CarefulProgram DEF TypeOK, Kind, Last
<1>2. CASE UNCHANGED wrote /\ pc \notin {"record", "sync", "done", "raised"}
  BY <1>2 DEF CarefulInvariant
<1>3. CASE UNCHANGED wrote /\ pc' \in {"record", "sync", "done", "raised"}
  BY <1>3 DEF CarefulInvariant
<1>4. CASE WriteFiles
  <2>1. Kind = "register"
    BY <1>1, <1>4 DEF WriteFiles
  <2>2. pc' = "record"
    BY <1>1, <1>4, <2>1 DEF WriteFiles, StepDone, Moves
  <2> QED
    BY <2>2 DEF CarefulInvariant
<1>5. CASE StepRaises
  BY <1>5 DEF StepRaises, Stays, Moves, CarefulInvariant
<1>6. CASE LocalStep \/ UseAnswer
  BY <1>1, <1>2, <1>6
     DEF LocalStep, UseAnswer, CountAnswer, PlannerFails, ApplyAnswer, StepDone, Stays, Moves
<1>7. CASE Start \/ SkipStep \/ CheckBudget \/ Ask \/ StartSearch \/ SearchReturns
  BY <1>2, <1>7
     DEF Start, SkipStep, CheckBudget, Ask, StartSearch, SearchReturns, StepDone, Stays, Moves
<1>8. CASE ProviderFails \/ ProviderAnswers \/ LookupReturns
  BY <1>2, <1>8
     DEF ProviderFails, ProviderAnswers, LookupReturns, CallRefused, LookupOf, Stays, Moves
<1>9. CASE SaveRecord \/ SyncReturns
  BY <1>3, <1>9 DEF SaveRecord, SyncReturns, Stays, Moves
<1>10. CASE UNCHANGED vars
  BY <1>10 DEF vars, CarefulInvariant, request
<1> QED
  BY <1>4, <1>5, <1>6, <1>7, <1>8, <1>9, <1>10 DEF Next, Step, Over

\* A planning, research or test run that is refused, whichever of its steps
\* refuses it, has written nothing to its project.
THEOREM RefusedRunsWroteNothing == Spec => []RefusedRunsLeaveNoFiles
<1>1. Init => CarefulInvariant
  BY DEF Init, CarefulInvariant
<1>2. CarefulInvariant => RefusedRunsLeaveNoFiles
  BY DEF CarefulInvariant, RefusedRunsLeaveNoFiles, Careful
<1> QED
  BY <1>1, <1>2, TypeInit, TypeNext, CarefulNext, PTL DEF Spec
=============================================================================

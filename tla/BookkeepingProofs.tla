------------------------- MODULE BookkeepingProofs -------------------------
(***************************************************************************)
(* Proofs about Bookkeeping for any runs, syncs, threads and providers.    *)
(***************************************************************************)
EXTENDS Bookkeeping, FiniteSetTheorems, TLAPS

----------------------------------------------------------------------------
(* Type correctness. *)

LEMMA IngestionType ==
    ASSUME NEW run \in Run, NEW a \in Actor
    PROVE  Ingestion(run, a) \in Seq(Line)
<1>1. Kinds \in Nat /\ Rules \in Nat
  BY BookkeepingAssumption
<1>2. \A k \in 1..Kinds : Rules + k \in 1..(Rules + Kinds)
  BY <1>1
<1> QED
  BY <1>1, <1>2 DEF Ingestion, Line, Item, File

LEMMA SeedsType ==
    ASSUME NEW a \in Actor
    PROVE  Seeds(a) \in Seq(Line)
<1>1. Kinds \in Nat /\ Rules \in Nat
  BY BookkeepingAssumption
<1>2. \A i \in 1..Rules : i \in 1..(Rules + Kinds)
  BY <1>1
<1>3. \A i \in 1..Rules : [n |-> i, run |-> NoRun, by |-> a] \in Item
  BY <1>2 DEF Item
<1>4. [i \in 1..Rules |-> [file |-> "global", item |-> [n |-> i, run |-> NoRun, by |-> a]]]
         \in [1..Rules -> Line]
  BY <1>3 DEF Line, File
<1>5. [i \in 1..Rules |-> [file |-> "global", item |-> [n |-> i, run |-> NoRun, by |-> a]]]
         \in Seq(Line)
  BY <1>1, <1>4
<1>6. <<>> \in Seq(Line)
  OBVIOUS
<1> QED
  BY <1>5, <1>6 DEF Seeds

LEMMA OpenType ==
    ASSUME MemoryTypeOK, NEW a \in Actor, NEW lines \in Seq(Line),
           Open(a, lines), UNCHANGED memory
    PROVE  MemoryTypeOK'
<1>1. Seeds(a) \o lines \in Seq(Line)
  BY SeedsType
<1> QED
  BY <1>1 DEF Open, MemoryTypeOK

LEMMA AddItemType ==
    ASSUME MemoryTypeOK, NEW a \in Actor, AddItem(a) \/ AddItemRaises(a)
    PROVE  MemoryTypeOK'
<1>1. work[a] \in Seq(Line) /\ work[a] # <<>>
  BY DEF MemoryTypeOK, AddItem, AddItemRaises
<1>2. Head(work[a]) \in Line /\ Tail(work[a]) \in Seq(Line)
  BY <1>1
<1>3. Head(work[a]).file \in File /\ Head(work[a]).item \in Item
  BY <1>2 DEF Line
<1>4. memory[Head(work[a]).file] \in MemoryFile
  BY <1>3 DEF MemoryTypeOK
<1>5. CASE AddItem(a)
  <2>1. WithLine(memory[Head(work[a]).file], Head(work[a]).item) \in MemoryFile
    BY <1>3, <1>4 DEF WithLine, MemoryFile
  <2>2. memory' \in [File -> MemoryFile]
    BY <1>5, <2>1, <1>3 DEF AddItem, MemoryTypeOK
  <2>3. work' \in [Actor -> Seq(Line)]
    BY <1>5, <1>2 DEF AddItem, Left, MemoryTypeOK
  <2>4. inserted' \in [Actor -> SUBSET Item]
    BY <1>5, <1>3 DEF AddItem, MemoryTypeOK
  <2> QED
    BY <1>5, <2>2, <2>3, <2>4 DEF AddItem, MemoryTypeOK
<1>6. CASE AddItemRaises(a)
  <2> DEFINE f == Head(work[a]).file
  <2>1. /\ WithTail(memory[f]) \in MemoryFile /\ Made(memory[f]) \in MemoryFile
        /\ WithLine(memory[f], Head(work[a]).item) \in MemoryFile
    BY <1>3, <1>4 DEF WithTail, Made, WithLine, MemoryFile
  <2>2. \E file \in MemoryFile : memory' = [memory EXCEPT ![f] = file]
    BY <1>4, <1>6, <2>1 DEF AddItemRaises
  <2>3. memory' \in [File -> MemoryFile]
    BY <1>3, <2>2 DEF MemoryTypeOK
  <2>4. cuts' \in BOOLEAN /\ interrupted' \in BOOLEAN
    BY <1>6 DEF AddItemRaises, HasRules, MemoryTypeOK
  <2> QED
    BY <1>6, <2>3, <2>4 DEF AddItemRaises, MemoryTypeOK
<1> QED
  BY <1>5, <1>6

LEMMA MemoryCrashType ==
    ASSUME MemoryTypeOK, MemoryCrash
    PROVE  MemoryTypeOK'
<1>1. \A f \in File : WithTail(memory[f]) \in MemoryFile /\ Made(memory[f]) \in MemoryFile
  BY DEF MemoryTypeOK, WithTail, Made, MemoryFile
<1>2. memory' \in [File -> MemoryFile]
  BY <1>1 DEF MemoryCrash, MemoryTypeOK
<1>3. cuts' \in BOOLEAN /\ interrupted' \in BOOLEAN
  BY DEF MemoryCrash, HasRules, MemoryTypeOK
<1> QED
  BY <1>2, <1>3 DEF MemoryCrash, MemoryTypeOK

\* The actors of the memory are the runs and the threads.
LEMMA MemoryStep ==
    ASSUME MemoryTypeOK, ControlTypeOK, [Next]_vars
    PROVE  MemoryTypeOK'
<1>1. CASE UNCHANGED memoryVars
  BY <1>1 DEF memoryVars, MemoryTypeOK
<1>2. ASSUME NEW x \in Actor, AddItem(x) \/ AddItemRaises(x) PROVE MemoryTypeOK'
  BY <1>2, AddItemType
<1>3. ASSUME NEW r \in Run, Finalize(r) PROVE MemoryTypeOK'
  <2>1. r \in Actor
    BY BookkeepingAssumption
  <2> QED
    BY <1>3, <2>1, IngestionType, OpenType DEF Finalize
<1>4. ASSUME NEW t \in Thread, OpenMemory(t) PROVE MemoryTypeOK'
  <2>1. t \in Actor
    BY BookkeepingAssumption
  <2>2. <<>> \in Seq(Line)
    OBVIOUS
  <2>3. stored \subseteq Run
    BY DEF ControlTypeOK
  <2> QED
    BY <1>4, <2>1, <2>2, <2>3, IngestionType, OpenType DEF OpenMemory
<1>5. CASE Crash
  BY <1>5, MemoryCrashType DEF Crash
<1>6. Next => \/ UNCHANGED memoryVars
              \/ \E x \in Actor : AddItem(x) \/ AddItemRaises(x)
              \/ \E r \in Run : Finalize(r)
              \/ \E t \in Thread : OpenMemory(t)
              \/ Crash
  <2>1. Run \subseteq Actor /\ Thread \subseteq Actor
    BY BookkeepingAssumption
  <2>2. ASSUME NEW t \in Task, SyncStep(t) PROVE UNCHANGED memoryVars
    BY <2>2 DEF SyncStep, StartSync, Skip, AskProvider, AskGoogle, ProviderAnswers,
                ProviderRefuses, WriteFirst, WriteSecond, SyncDone
  <2>3. ASSUME NEW r \in Run, CallAnswered(r) \/ LookedUp(r) PROVE UNCHANGED memoryVars
    BY <2>3 DEF CallAnswered, LookedUp
  <2>4. ASSUME NEW x, Adds(x) PROVE AddItem(x)
    BY <2>4 DEF Adds
  <2>5. ASSUME NEW x, AddsInVain(x) PROVE AddItemRaises(x)
    BY <2>5 DEF AddsInVain
  <2>6. ASSUME NEW x, Ingested(x) PROVE UNCHANGED memoryVars
    BY <2>6 DEF Ingested
  <2>7. ASSUME Tomorrow PROVE UNCHANGED memoryVars
    BY <2>7 DEF Tomorrow
  <2> QED
    BY <2>1, <2>2, <2>3, <2>4, <2>5, <2>6, <2>7 DEF Next, RunStep, ThreadStep
<1> QED
  BY <1>1, <1>2, <1>3, <1>4, <1>5, <1>6 DEF vars

----------------------------------------------------------------------------
(* The steps of the module, by what they do to the usage files. *)

Ids(rows) == {r.id : r \in rows}

LEMMA SyncEffects ==
    ASSUME [Next]_vars
    PROVE  \/ UNCHANGED syncVars
           \/ \E r \in Run : CallAnswered(r) \/ LookedUp(r)
           \/ \E t \in Task : \/ Skip(t) \/ AskGoogle(t) \/ ProviderRefuses(t)
                              \/ WriteFirst(t) \/ WriteSecond(t)
           \/ Crash
           \/ Tomorrow
<1>1. CASE UNCHANGED vars
  BY <1>1 DEF vars
<1>2. ASSUME NEW r \in Run, RunStep(r) \/ AddsInVain(r)
      PROVE  UNCHANGED syncVars \/ CallAnswered(r) \/ LookedUp(r)
  BY <1>2 DEF RunStep, Finalize, Adds, Ingested, AddsInVain
<1>3. ASSUME NEW t \in Task, SyncStep(t)
      PROVE  \/ UNCHANGED syncVars \/ Skip(t) \/ AskGoogle(t) \/ ProviderRefuses(t)
             \/ WriteFirst(t) \/ WriteSecond(t)
  BY <1>3 DEF SyncStep, StartSync, AskProvider, ProviderAnswers, SyncDone
<1>4. ASSUME NEW t \in Thread, OpenMemory(t) \/ ThreadStep(t) \/ AddsInVain(t)
      PROVE  UNCHANGED syncVars
  BY <1>4 DEF OpenMemory, ThreadStep, Adds, Ingested, AddsInVain
<1> QED
  BY <1>1, <1>2, <1>3, <1>4 DEF Next

\* A save keeps the ids it finds and those it brings.
LEMMA SaveKeepsIds ==
    ASSUME NEW rows, SaveRecords(rows), RecordsAreKept
    PROVE  /\ RecordsAreKept'
           /\ kept \subseteq kept'
           /\ Ids(rows) \subseteq kept'
           /\ UNCHANGED <<status, day, tornRecords>>
<1>1. Ids(records) \cup Ids(rows) \subseteq Ids(Merged(records, rows))
  BY DEF Ids, Merged
<1> QED
  BY <1>1 DEF SaveRecords, RecordsAreKept, Ids

----------------------------------------------------------------------------
LEMMA MovesFacts ==
    ASSUME ControlTypeOK, NEW x \in Task \cup Thread, NEW from, NEW to \in Pc,
           Moves(x, from, to)
    PROVE  /\ pc[x] = from
           /\ pc' \in [Task \cup Thread -> Pc]
           /\ pc' = [pc EXCEPT ![x] = to]
           /\ pc'[x] = to
           /\ \A y \in Task \cup Thread : y # x => pc'[y] = pc[y]
BY DEF ControlTypeOK, Moves

LEMMA SyncWritesAre ==
    /\ SyncWrites[1] = "records" /\ SyncWrites[2] = "status"
    /\ Len(Order) = 4
    /\ \A i \in 1..4 : Order[i] \in Provider
BY DEF SyncWrites, Order, Provider

\* The rows of an answer.
LEMMA NewType ==
    ASSUME SyncTypeOK, NEW provider
    PROVE  New(provider) \in Nat
<1>1. IsFiniteSet({r \in records : r.id[1] = provider})
  BY FS_Subset DEF SyncTypeOK
<1> QED
  BY <1>1, FS_CardinalityType DEF New

LEMMA OpenAIRowsType ==
    ASSUME SyncTypeOK, NEW w \in Ranges, NEW results \in SUBSET Bill(w)
    PROVE  OpenAIRows(results) \in SUBSET Row /\ IsFiniteSet(OpenAIRows(results))
<1>1. w \in 1..Window /\ Window \in Nat /\ Results \in Nat /\ day \in Nat
  BY BookkeepingAssumption DEF SyncTypeOK
<1>2. /\ \A d \in (day + Window - w)..(day + Window - 1) : d \in Nat
      /\ \A k \in 1..Results : k \in Nat
  BY <1>1
<1>3. \A r \in results : r \in Nat \X Nat /\ r[1] \in Nat /\ r[2] \in Nat
  BY <1>2 DEF Bill
<1>4. IsFiniteSet(results)
  <2>1. IsFiniteSet((day + Window - w)..(day + Window - 1)) /\ IsFiniteSet(1..Results)
    BY <1>1, FS_Interval
  <2> QED
    BY <2>1, FS_Product, FS_Subset DEF Bill
<1>5. ASSUME NEW r \in results PROVE Place(results, r) \in Nat
  <2>1. IsFiniteSet({q \in results : q[1] < r[1] \/ (q[1] = r[1] /\ q[2] < r[2])})
    BY <1>4, FS_Subset
  <2> QED
    BY <2>1, FS_CardinalityType DEF Place
<1>6. OpenAIRows(results) \subseteq Row
  BY <1>3, <1>5 DEF OpenAIRows, Row, Provider
<1>7. IsFiniteSet(OpenAIRows(results))
  <2> DEFINE f == [r \in results |-> [id |-> <<"openai", r[1], Place(results, r)>>, of |-> r]]
  <2>1. f \in Surjection(results, OpenAIRows(results))
    BY DEF OpenAIRows, Surjection
  <2> QED
    BY <1>4, <2>1, FS_Surjection
<1> QED
  BY <1>6, <1>7

LEMMA AnswersType ==
    ASSUME SyncTypeOK, NEW provider \in Provider, NEW w \in Ranges,
           NEW rows \in Answers(provider, w)
    PROVE  rows \in SUBSET Row /\ IsFiniteSet(rows)
<1>1. day \in Nat /\ w \in Nat
  BY BookkeepingAssumption DEF SyncTypeOK
<1>2. New(provider) \in Nat
  BY NewType
<1>3. IsFiniteSet({}) /\ \A x : IsFiniteSet({x})
  BY FS_EmptySet, FS_Singleton
<1>6. CASE provider = "openai"
  <2>1. PICK results \in SUBSET Bill(w) : rows = OpenAIRows(results)
    BY <1>6 DEF Answers
  <2> QED
    BY <2>1, OpenAIRowsType
<1>7. CASE provider = "google"
  <2>1. [id |-> <<"google", New("google"), 0>>, of |-> <<day, 0>>] \in Row
    BY <1>1, <1>2, <1>7 DEF Row, Provider
  <2>2. rows = {} \/ rows = {[id |-> <<"google", New("google"), 0>>, of |-> <<day, 0>>]}
    BY <1>7 DEF Answers
  <2> QED
    BY <1>3, <2>1, <2>2
<1>8. CASE provider = "openrouter"
  <2>1. [id |-> <<"openrouter", New("openrouter"), 0>>, of |-> <<day, 0>>] \in Row
    BY <1>1, <1>2, <1>8 DEF Row, Provider
  <2>2. rows = {[id |-> <<"openrouter", New("openrouter"), 0>>, of |-> <<day, 0>>]}
    BY <1>8 DEF Answers
  <2> QED
    BY <1>3, <2>1, <2>2
<1>9. CASE provider = "exa"
  <2>1. [id |-> <<"exa", w, 0>>, of |-> <<day, 0>>] \in Row
    BY <1>1 DEF Row, Provider
  <2>2. rows = {[id |-> <<"exa", w, 0>>, of |-> <<day, 0>>]}
    BY <1>9 DEF Answers
  <2> QED
    BY <1>3, <2>1, <2>2
<1> QED
  BY <1>6, <1>7, <1>8, <1>9 DEF Provider

LEMMA CallRowType ==
    ASSUME NEW r \in Run, NEW source \in Nat
    PROVE  {CallRow(r, source)} \in SUBSET Row /\ IsFiniteSet({CallRow(r, source)})
<1>1. CallRow(r, source) \in Row
  BY DEF CallRow, Row, Provider
<1> QED
  BY <1>1, FS_Singleton

\* What the writes leave.
LEMMA SaveType ==
    ASSUME SyncTypeOK, NEW rows \in SUBSET Row, IsFiniteSet(rows), SaveRecords(rows)
    PROVE  SyncTypeOK'
<1>1. Merged(records, rows) \subseteq Row
  BY DEF Merged, SyncTypeOK
<1>2. IsFiniteSet(Merged(records, rows))
  <2>1. IsFiniteSet({r \in records : \A n \in rows : r.id # n.id})
    BY FS_Subset DEF SyncTypeOK
  <2> QED
    BY <2>1, FS_Union DEF Merged
<1> QED
  BY <1>1, <1>2 DEF SaveRecords, SyncTypeOK

LEMMA MarkType ==
    ASSUME SyncTypeOK, NEW provider \in Provider,
           NEW outcome \in {"ok", "error", "disabled"}, NEW rows,
           Mark(provider, outcome, rows)
    PROVE  SyncTypeOK'
<1>1. day \in Nat
  BY DEF SyncTypeOK
<1>2. ASSUME NEW p \in DOMAIN status'
      PROVE  /\ p \in Provider
             /\ status'[p].outcome \in {"ok", "error", "disabled"}
             /\ status'[p].day \in 0..day
  <2>1. CASE p = provider
    BY <1>1, <1>2, <2>1 DEF Mark
  <2>2. CASE p # provider
    BY <1>2, <2>2 DEF Mark, SyncTypeOK
  <2> QED
    BY <2>1, <2>2
<1> QED
  BY <1>2 DEF Mark, SyncTypeOK

\* A provider that a sync is at.
LEMMA AtProvider ==
    ASSUME ControlTypeOK, NEW t \in Task, at[t] <= Len(Order)
    PROVE  Order[at[t]] \in Provider /\ at[t] + 1 \in 1..(Len(Order) + 1)
BY SyncWritesAre DEF ControlTypeOK

LEMMA SyncTypeStep ==
    ASSUME SyncTypeOK, ControlTypeOK, LoopTypeOK, [Next]_vars
    PROVE  SyncTypeOK'
<1>1. CASE UNCHANGED syncVars
  BY <1>1 DEF syncVars, SyncTypeOK
<1>2. ASSUME NEW r \in Run, CallAnswered(r) \/ LookedUp(r) PROVE SyncTypeOK'
  BY <1>2, SaveType, CallRowType DEF CallAnswered, LookedUp
<1>3. ASSUME NEW t \in Task, Skip(t) \/ AskGoogle(t) \/ ProviderRefuses(t)
      PROVE  SyncTypeOK'
  <2>1. at[t] <= Len(Order)
    BY <1>3 DEF Skip, AskGoogle, ProviderRefuses
  <2> QED
    BY <1>3, <2>1, AtProvider, MarkType DEF Skip, AskGoogle, ProviderRefuses
<1>4. ASSUME NEW t \in Task, WriteFirst(t) PROVE SyncTypeOK'
  <2>1. SaveRecords(answer[t])
    BY <1>4, SyncWritesAre DEF WriteFirst, SyncWrite
  <2> QED
    BY <2>1, SaveType DEF ControlTypeOK
<1>5. ASSUME NEW t \in Task, WriteSecond(t) PROVE SyncTypeOK'
  <2>1. Mark(Order[at[t]], "ok", {r.id : r \in answer[t]})
    BY <1>5, SyncWritesAre DEF WriteSecond, SyncWrite
  <2>2. at[t] <= Len(Order)
    BY <1>5, SyncWritesAre DEF WriteSecond, Moves, LoopTypeOK
  <2> QED
    BY <2>1, <2>2, AtProvider, MarkType
<1>6. CASE Crash
  <2>1. DOMAIN NoStatus = {} /\ IsFiniteSet({})
    BY FS_EmptySet DEF NoStatus
  <2> QED
    BY <1>6, <2>1 DEF Crash, SyncCrash, SyncTypeOK
<1>7. CASE Tomorrow
  <2>1. day' \in 0..MaxDay /\ 0..day \subseteq 0..day'
    BY <1>7, BookkeepingAssumption DEF Tomorrow, DayPasses, SyncTypeOK
  <2> QED
    BY <1>7, <2>1 DEF Tomorrow, DayPasses, SyncTypeOK
<1> QED
  BY <1>1, <1>2, <1>3, <1>4, <1>5, <1>6, <1>7, SyncEffects

\* A task that goes on has its place, its loop and its answer well typed.
LEMMA TaskMoves ==
    ASSUME TypeOK, NEW t \in Task, NEW from, NEW to \in Pc, Moves(t, from, to),
           Has(t), loop' \in {t, Nobody},
           loop' = t => to \notin AtRest \cup {"lookup", "wait"},
           at' = at \/ at' = [at EXCEPT ![t] = @ + 1],
           at'[t] \in 1..(Len(Order) + 1),
           to \in {"wait", "records", "status"} => at'[t] <= Len(Order),
           answer' = [answer EXCEPT ![t] = answer'[t]],
           answer'[t] \in SUBSET Row /\ IsFiniteSet(answer'[t]),
           answer'[t] # {} => loop' = t /\ to \in {"records", "status"}
    PROVE  /\ pc' \in [Task \cup Thread -> Pc]
           /\ at' \in [Task -> 1..(Len(Order) + 1)]
           /\ answer' \in [Task -> SUBSET Row] /\ \A u \in Task : IsFiniteSet(answer'[u])
           /\ loop' \in Task \cup {Nobody}
           /\ LoopTypeOK'
<1> USE DEF TypeOK
<1>1. /\ pc' \in [Task \cup Thread -> Pc]
      /\ pc'[t] = to
      /\ \A y \in Task \cup Thread : y # t => pc'[y] = pc[y]
  BY MovesFacts
<1>2. at' \in [Task -> 1..(Len(Order) + 1)] /\ \A u \in Task : u # t => at'[u] = at[u]
  BY DEF ControlTypeOK
<1>3. /\ answer' \in [Task -> SUBSET Row]
      /\ \A u \in Task : u # t => answer'[u] = answer[u]
      /\ \A u \in Task : IsFiniteSet(answer'[u])
  BY DEF ControlTypeOK
<1>4. loop' \in Task \cup {Nobody}
  OBVIOUS
<1>5. Nobody \notin Task
  BY BookkeepingAssumption DEF Task
<1>6. \A u \in Task : u # t => answer'[u] = {}
  BY <1>3, <1>5 DEF LoopTypeOK, Has
<1>7. \A u \in Task : pc'[u] \in {"wait", "records", "status"} => at'[u] <= Len(Order)
  BY <1>1, <1>2 DEF LoopTypeOK
<1>8. loop' # Nobody => pc'[loop'] \notin AtRest \cup {"lookup", "wait"}
  BY <1>1
<1>9. \A u \in Task : answer'[u] # {} => loop' = u /\ pc'[u] \in {"records", "status"}
  BY <1>1, <1>6
<1> QED
  BY <1>1, <1>2, <1>3, <1>4, <1>7, <1>8, <1>9 DEF LoopTypeOK

\* An actor of the memory that goes on and has no answer at hand.
LEMMA ActorMoves ==
    ASSUME TypeOK, NEW x \in Task \cup Thread,
           NEW from \in {"idle", "ingest"}, NEW to \in {"ingest", "done", "failed", "next"},
           Moves(x, from, to),
           UNCHANGED <<at, answer>>,
           \/ loop' = loop /\ loop # x
           \/ loop' = loop /\ to \in {"ingest", "next"}
           \/ loop' = Nobody /\ loop \in {Nobody, x}
           \/ loop' = x /\ x \in Task /\ Has(x) /\ to \in {"ingest", "next"}
    PROVE  /\ pc' \in [Task \cup Thread -> Pc]
           /\ loop' \in Task \cup {Nobody}
           /\ LoopTypeOK'
<1> USE DEF TypeOK
<1>1. /\ pc' \in [Task \cup Thread -> Pc]
      /\ pc[x] = from /\ pc'[x] = to
      /\ \A y \in Task \cup Thread : y # x => pc'[y] = pc[y]
  <2>1. to \in Pc
    BY DEF Pc
  <2> QED
    BY <2>1, MovesFacts
<1>2. loop' \in Task \cup {Nobody}
  BY DEF ControlTypeOK
<1>3. Nobody \notin Task
  BY BookkeepingAssumption DEF Task
<1>4. x \in Task => answer[x] = {}
  BY <1>1 DEF LoopTypeOK
<1>5. \A u \in Task : u # x /\ answer[u] # {} => loop = u
  BY DEF LoopTypeOK
<1>6. loop' # Nobody => pc'[loop'] \notin AtRest \cup {"lookup", "wait"}
  BY <1>1, <1>2 DEF LoopTypeOK, AtRest
<1>7. \A u \in Task : answer'[u] # {} => loop' = u /\ pc'[u] \in {"records", "status"}
  BY <1>1, <1>3, <1>4, <1>5 DEF LoopTypeOK, Has
<1>8. \A u \in Task : pc'[u] \in {"wait", "records", "status"} => at'[u] <= Len(Order)
  BY <1>1 DEF LoopTypeOK
<1> QED
  BY <1>1, <1>2, <1>6, <1>7, <1>8 DEF LoopTypeOK

\* The steps of a sync.
LEMMA SyncStepType ==
    ASSUME TypeOK, NEW t \in Task, SyncStep(t)
    PROVE  ControlTypeOK' /\ LoopTypeOK'
<1> USE SyncWritesAre DEF TypeOK, Keeps, Releases
<1>1. at[t] \in 1..5 /\ answer[t] \in SUBSET Row /\ IsFiniteSet(answer[t])
  BY DEF ControlTypeOK
<1>2. {} \in SUBSET Row /\ IsFiniteSet({})
  BY FS_EmptySet
<1>3. answer = [answer EXCEPT ![t] = answer[t]]
  BY DEF ControlTypeOK
<1>4. pc[t] \in {"idle", "next", "wait"} => answer[t] = {}
  BY DEF LoopTypeOK
<1>5. ASSUME UNCHANGED <<generated, stored, reported, crashes>>,
             range' \in [Task -> Ranges],
             pc' \in [Task \cup Thread -> Pc],
             at' \in [Task -> 1..(Len(Order) + 1)],
             answer' \in [Task -> SUBSET Row] /\ \A u \in Task : IsFiniteSet(answer'[u]),
             loop' \in Task \cup {Nobody}
      PROVE  ControlTypeOK'
  BY <1>5 DEF ControlTypeOK
<1>15. range' \in [Task -> Ranges]
  <2>1. CASE StartSync(t)
    BY <2>1 DEF StartSync, ControlTypeOK
  <2>2. CASE ~StartSync(t)
    <3>1. range' = range
      BY <2>2 DEF SyncStep, Skip, AskProvider, AskGoogle, ProviderAnswers, ProviderRefuses,
                  WriteFirst, WriteSecond, SyncDone
    <3> QED
      BY <3>1 DEF ControlTypeOK
  <2> QED
    BY <2>1, <2>2
<1> USE DEF Pc, AtRest
<1>6. CASE StartSync(t)
  <2> USE <1>6 DEF StartSync
  <2>1. answer'[t] = {} /\ answer[t] = {}
    BY <1>4 DEF Moves
  <2>2. Has(t) /\ Moves(t, "idle", "next") /\ at' = at /\ loop' = t
    OBVIOUS
  <2>3. answer' = [answer EXCEPT ![t] = answer'[t]]
    BY <1>3
  <2>8. /\ pc' \in [Task \cup Thread -> Pc]
        /\ at' \in [Task -> 1..(Len(Order) + 1)]
        /\ answer' \in [Task -> SUBSET Row] /\ \A u \in Task : IsFiniteSet(answer'[u])
        /\ loop' \in Task \cup {Nobody}
        /\ LoopTypeOK'
    <3> HIDE <1>6 DEF StartSync
    <3> QED
      BY <1>1, <1>2, <2>1, <2>2, <2>3, TaskMoves
  <2> QED
    BY <1>5, <1>15, <2>8
<1>7. CASE Skip(t)
  <2> USE <1>7 DEF Skip
  <2>1. answer'[t] = answer[t] /\ pc[t] = "next"
    BY DEF Moves
  <2>2. at'[t] = at[t] + 1 /\ at'[t] \in 1..(Len(Order) + 1)
    BY <1>1 DEF ControlTypeOK
  <2> QED
    BY <1>1, <1>2, <1>3, <1>4, <1>5, <1>15, <2>1, <2>2, TaskMoves
<1>8. CASE AskProvider(t)
  <2> USE <1>8 DEF AskProvider
  <2>1. answer'[t] = answer[t] /\ answer[t] = {} /\ at'[t] = at[t]
    BY <1>4 DEF Moves
  <2>2. loop' # t
    BY BookkeepingAssumption DEF Task
  <2>3. /\ Has(t) /\ Moves(t, "next", "wait") /\ at' = at /\ loop' \in {t, Nobody}
        /\ at[t] <= Len(Order)
    OBVIOUS
  <2>4. answer' = [answer EXCEPT ![t] = answer'[t]]
    BY <1>3
  <2>8. /\ pc' \in [Task \cup Thread -> Pc]
        /\ at' \in [Task -> 1..(Len(Order) + 1)]
        /\ answer' \in [Task -> SUBSET Row] /\ \A u \in Task : IsFiniteSet(answer'[u])
        /\ loop' \in Task \cup {Nobody}
        /\ LoopTypeOK'
    <3>1. answer'[t] \in SUBSET Row /\ IsFiniteSet(answer'[t]) /\ answer'[t] = {}
      BY <1>2, <2>1
    <3>2. at'[t] \in 1..(Len(Order) + 1) /\ at'[t] <= Len(Order)
      BY <1>1, <2>1, <2>3
    <3> HIDE <1>8 DEF AskProvider
    <3> QED
      BY <2>2, <2>3, <2>4, <3>1, <3>2, TaskMoves
  <2> QED
    BY <1>5, <1>15, <2>8
<1>9. CASE AskGoogle(t)
  <2> USE <1>9 DEF AskGoogle
  <2>1. PICK rows \in Answers(Order[at[t]], range[t]) : answer' = [answer EXCEPT ![t] = rows]
    OBVIOUS
  <2>2. rows \in SUBSET Row /\ IsFiniteSet(rows)
    BY AtProvider, AnswersType DEF ControlTypeOK
  <2>3. /\ answer'[t] \in SUBSET Row /\ IsFiniteSet(answer'[t])
        /\ answer' = [answer EXCEPT ![t] = answer'[t]]
    BY <2>1, <2>2 DEF ControlTypeOK
  <2>4. /\ Has(t) /\ Moves(t, "next", "records") /\ loop' = t
        /\ at' = at /\ at[t] <= Len(Order)
    OBVIOUS
  <2>7. at'[t] \in 1..(Len(Order) + 1) /\ at'[t] <= Len(Order)
    BY <1>1, <2>4
  <2>8. /\ pc' \in [Task \cup Thread -> Pc]
        /\ at' \in [Task -> 1..(Len(Order) + 1)]
        /\ answer' \in [Task -> SUBSET Row] /\ \A u \in Task : IsFiniteSet(answer'[u])
        /\ loop' \in Task \cup {Nobody}
        /\ LoopTypeOK'
    BY <1>1, <2>3, <2>4, <2>7, TaskMoves
  <2> QED
    BY <1>5, <1>15, <2>8
<1>10. CASE ProviderAnswers(t)
  <2> USE <1>10 DEF ProviderAnswers
  <2>1. PICK rows \in Answers(Order[at[t]], range[t]) : answer' = [answer EXCEPT ![t] = rows]
    OBVIOUS
  <2>2. at[t] <= Len(Order)
    BY DEF LoopTypeOK, Moves
  <2>3. rows \in SUBSET Row /\ IsFiniteSet(rows)
    BY <2>2, AtProvider, AnswersType DEF ControlTypeOK
  <2>4. /\ answer'[t] \in SUBSET Row /\ IsFiniteSet(answer'[t])
        /\ answer' = [answer EXCEPT ![t] = answer'[t]]
    BY <2>1, <2>3 DEF ControlTypeOK
  <2>5. Has(t) /\ Moves(t, "wait", "records") /\ loop' = t /\ at' = at
    OBVIOUS
  <2>7. at'[t] \in 1..(Len(Order) + 1) /\ at'[t] <= Len(Order)
    BY <1>1, <2>2, <2>5
  <2>8. /\ pc' \in [Task \cup Thread -> Pc]
        /\ at' \in [Task -> 1..(Len(Order) + 1)]
        /\ answer' \in [Task -> SUBSET Row] /\ \A u \in Task : IsFiniteSet(answer'[u])
        /\ loop' \in Task \cup {Nobody}
        /\ LoopTypeOK'
    BY <1>1, <2>4, <2>5, <2>7, TaskMoves
  <2> QED
    BY <1>5, <1>15, <2>8
<1>11. CASE ProviderRefuses(t)
  <2> USE <1>11 DEF ProviderRefuses
  <2>1. answer'[t] = {} /\ answer' = [answer EXCEPT ![t] = answer'[t]]
    BY DEF ControlTypeOK
  <2>2. at'[t] = at[t] + 1 /\ at'[t] \in 1..(Len(Order) + 1)
    BY <1>1 DEF ControlTypeOK
  <2>3. Moves(t, pc[t], "next")
    BY DEF Moves
  <2> QED
    BY <1>1, <1>2, <1>5, <1>15, <2>1, <2>2, <2>3, TaskMoves
<1>12. CASE WriteFirst(t)
  <2> USE <1>12 DEF WriteFirst
  <2>1. answer'[t] = answer[t] /\ at[t] <= Len(Order)
    BY DEF Moves, LoopTypeOK
  <2> QED
    BY <1>1, <1>2, <1>3, <1>5, <1>15, <2>1, TaskMoves
<1>13. CASE WriteSecond(t)
  <2> USE <1>13 DEF WriteSecond
  <2>1. answer'[t] = {} /\ answer' = [answer EXCEPT ![t] = answer'[t]]
    BY DEF ControlTypeOK
  <2>2. at[t] <= Len(Order)
    BY DEF LoopTypeOK, Moves
  <2>3. at'[t] = at[t] + 1 /\ at'[t] \in 1..(Len(Order) + 1)
    BY <1>1, <2>2 DEF ControlTypeOK
  <2> QED
    BY <1>1, <1>2, <1>5, <1>15, <2>1, <2>3, TaskMoves
<1>14. CASE SyncDone(t)
  <2> USE <1>14 DEF SyncDone
  <2>1. answer'[t] = answer[t] /\ answer[t] = {} /\ at'[t] = at[t]
    BY <1>4 DEF Moves
  <2>2. loop' # t
    BY BookkeepingAssumption DEF Task
  <2>3. Has(t) /\ Moves(t, "next", "done") /\ at' = at /\ loop' \in {t, Nobody}
    OBVIOUS
  <2>4. /\ answer' = [answer EXCEPT ![t] = answer'[t]]
        /\ answer'[t] \in SUBSET Row /\ IsFiniteSet(answer'[t])
        /\ at'[t] \in 1..(Len(Order) + 1)
    BY <1>1, <1>3
  <2>8. /\ pc' \in [Task \cup Thread -> Pc]
        /\ at' \in [Task -> 1..(Len(Order) + 1)]
        /\ answer' \in [Task -> SUBSET Row] /\ \A u \in Task : IsFiniteSet(answer'[u])
        /\ loop' \in Task \cup {Nobody}
        /\ LoopTypeOK'
    BY <1>1, <2>1, <2>2, <2>3, <2>4, TaskMoves
  <2> QED
    BY <1>5, <1>15, <2>8
<1> QED
  BY <1>6, <1>7, <1>8, <1>9, <1>10, <1>11, <1>12, <1>13, <1>14 DEF SyncStep

\* A run between its last call and its ingestion.
LEMMA RunMoves ==
    ASSUME TypeOK, NEW r \in Run, NEW from \in {"idle", "lookup", "finish"},
           NEW to \in {"lookup", "finish", "ingest"}, Moves(r, from, to), Has(r),
           UNCHANGED <<at, answer>>,
           loop' = Nobody \/ (loop' = r /\ to # "lookup")
    PROVE  /\ pc' \in [Task \cup Thread -> Pc]
           /\ loop' \in Task \cup {Nobody}
           /\ LoopTypeOK'
<1> USE DEF TypeOK
<1>1. r \in Task /\ Nobody # r /\ to \in Pc /\ to \notin AtRest \cup {"wait"}
  BY BookkeepingAssumption DEF Task, Pc, AtRest
<1>2. answer[r] = {} /\ answer = [answer EXCEPT ![r] = answer[r]]
  BY <1>1 DEF Moves, LoopTypeOK, ControlTypeOK
<1>3. at[r] \in 1..(Len(Order) + 1) /\ IsFiniteSet(answer[r]) /\ answer[r] \in SUBSET Row
  BY <1>1 DEF ControlTypeOK
<1>4. answer'[r] = {} /\ answer' = [answer EXCEPT ![r] = answer'[r]]
  BY <1>2
<1>5. at' = at /\ at'[r] \in 1..(Len(Order) + 1)
  BY <1>3
<1>6. answer'[r] \in SUBSET Row /\ IsFiniteSet(answer'[r])
  BY <1>2, <1>3
<1>7. /\ loop' \in {r, Nobody}
      /\ loop' = r => to \notin AtRest \cup {"lookup", "wait"}
      /\ to \notin {"wait", "records", "status"}
  BY <1>1
<1> QED
  BY <1>1, <1>4, <1>5, <1>6, <1>7, TaskMoves

LEMMA ControlTypeStep ==
    ASSUME TypeOK, [Next]_vars
    PROVE  ControlTypeOK' /\ LoopTypeOK'
<1> USE DEF TypeOK
<1>1. CASE UNCHANGED vars
  BY <1>1 DEF vars, controls, ControlTypeOK, LoopTypeOK
<1>2. ASSUME NEW t \in Task, SyncStep(t) PROVE ControlTypeOK' /\ LoopTypeOK'
  BY <1>2, SyncStepType
<1>3. ASSUME NEW r \in Run, CallAnswered(r) PROVE ControlTypeOK' /\ LoopTypeOK'
  <2>1. /\ pc' \in [Task \cup Thread -> Pc]
        /\ loop' \in Task \cup {Nobody}
        /\ LoopTypeOK'
    BY <1>3, RunMoves DEF CallAnswered, Keeps, Releases
  <2> QED
    BY <1>3, <2>1 DEF CallAnswered, ControlTypeOK
<1>11. ASSUME NEW r \in Run, LookedUp(r) PROVE ControlTypeOK' /\ LoopTypeOK'
  <2>1. /\ pc' \in [Task \cup Thread -> Pc]
        /\ loop' \in Task \cup {Nobody}
        /\ LoopTypeOK'
    BY <1>11, RunMoves DEF LookedUp, Keeps
  <2> QED
    BY <1>11, <2>1 DEF LookedUp, ControlTypeOK
<1>4. ASSUME NEW r \in Run, Finalize(r) PROVE ControlTypeOK' /\ LoopTypeOK'
  <2>1. /\ pc' \in [Task \cup Thread -> Pc]
        /\ loop' \in Task \cup {Nobody}
        /\ LoopTypeOK'
    BY <1>4, RunMoves DEF Finalize, Keeps
  <2> QED
    BY <1>4, <2>1 DEF Finalize, ControlTypeOK
<1>5. ASSUME NEW x, Adds(x) PROVE ControlTypeOK' /\ LoopTypeOK'
  BY <1>5 DEF Adds, controls, ControlTypeOK, LoopTypeOK
<1>6. ASSUME NEW x \in Run \cup Thread, AddsInVain(x) PROVE ControlTypeOK' /\ LoopTypeOK'
  <2>1. /\ pc' \in [Task \cup Thread -> Pc]
        /\ loop' \in Task \cup {Nobody}
        /\ LoopTypeOK'
    BY <1>6, ActorMoves DEF AddsInVain, Task
  <2> QED
    BY <1>6, <2>1 DEF AddsInVain, ControlTypeOK
<1>7. ASSUME NEW x \in Run \cup Thread, Ingested(x) PROVE ControlTypeOK' /\ LoopTypeOK'
  <2>1. inserted[x] \subseteq Item
    BY BookkeepingAssumption DEF MemoryTypeOK
  <2>2. x \in Thread => loop # x
    BY BookkeepingAssumption DEF ControlTypeOK, Task
  <2>3. /\ pc' \in [Task \cup Thread -> Pc]
        /\ loop' \in Task \cup {Nobody}
        /\ LoopTypeOK'
    BY <1>7, <2>2, ActorMoves DEF Ingested, Task, Has, Keeps, Releases
  <2> QED
    BY <1>7, <2>1, <2>3 DEF Ingested, ControlTypeOK
<1>8. ASSUME NEW t \in Thread, OpenMemory(t) PROVE ControlTypeOK' /\ LoopTypeOK'
  <2>1. /\ pc' \in [Task \cup Thread -> Pc]
        /\ loop' \in Task \cup {Nobody}
        /\ LoopTypeOK'
    BY <1>8, ActorMoves DEF OpenMemory
  <2> QED
    BY <1>8, <2>1 DEF OpenMemory, ControlTypeOK
<1>9. CASE Crash
  <2>1. crashes' \in 0..MaxCrashes
    BY <1>9, BookkeepingAssumption DEF Crash, ControlTypeOK
  <2>2. pc' \in [Task \cup Thread -> Pc]
    BY <1>9 DEF Crash, ControlTypeOK, Pc
  <2>3. answer' \in [Task -> SUBSET Row] /\ \A u \in Task : answer'[u] = {}
    BY <1>9 DEF Crash
  <2>4. \A u \in Task : IsFiniteSet(answer'[u])
    BY <2>3, FS_EmptySet
  <2>5. ControlTypeOK'
    BY <1>9, <2>1, <2>2, <2>3, <2>4 DEF Crash, ControlTypeOK, Releases
  <2>6. \A u \in Task : pc'[u] \notin {"wait", "records", "status"}
    BY <1>9 DEF Crash, AtRest
  <2> QED
    BY <1>9, <2>3, <2>5, <2>6 DEF Crash, Releases, LoopTypeOK
<1>10. CASE Tomorrow
  BY <1>10 DEF Tomorrow, controls, ControlTypeOK, LoopTypeOK
<1> QED
  BY <1>1, <1>2, <1>3, <1>4, <1>5, <1>6, <1>7, <1>8, <1>9, <1>10, <1>11
     DEF Next, RunStep, ThreadStep

\* The model's state is what its comments say it is, however many runs, syncs
\* and threads there are.
THEOREM TypeCorrect == Spec => []TypeOK
<1>1. Init => TypeOK
  <2> SUFFICES ASSUME Init PROVE TypeOK
    OBVIOUS
  <2>1. MemoryTypeOK
    <3>1. [f \in File |-> [made |-> FALSE, lines |-> {}, tail |-> FALSE, swallowed |-> {}]]
             \in [File -> MemoryFile]
      BY DEF MemoryFile
    <3>2. <<>> \in Seq(Line)
      OBVIOUS
    <3>3. cuts \in BOOLEAN /\ interrupted \in BOOLEAN
      BY DEF Init, MemoryInit
    <3> QED
      BY <3>1, <3>2, <3>3 DEF Init, MemoryInit, MemoryTypeOK
  <2>2. SyncTypeOK
    <3>1. DOMAIN NoStatus = {} /\ IsFiniteSet({})
      BY FS_EmptySet DEF NoStatus
    <3>2. tornRecords \in BOOLEAN
      BY DEF Init, SyncInit
    <3>3. day \in 0..MaxDay
      BY BookkeepingAssumption DEF Init, SyncInit
    <3> QED
      BY <3>1, <3>2, <3>3 DEF Init, SyncInit, SyncTypeOK
  <2>3. pc \in [Task \cup Thread -> Pc] /\ \A x \in Task \cup Thread : pc[x] \in {"idle", "done"}
    BY DEF Init, Pc
  <2>4. answer \in [Task -> SUBSET Row] /\ \A t \in Task : answer[t] = {} /\ IsFiniteSet(answer[t])
    BY FS_EmptySet DEF Init
  <2>5. at \in [Task -> 1..(Len(Order) + 1)]
    BY SyncWritesAre DEF Init
  <2>7. ControlTypeOK
    <3>1. crashes \in 0..MaxCrashes
      BY BookkeepingAssumption DEF Init
    <3>2. range \in [Task -> Ranges]
      BY BookkeepingAssumption DEF Init
    <3> QED
      BY <2>3, <2>4, <2>5, <3>1, <3>2 DEF Init, ControlTypeOK
  <2>6. LoopTypeOK
    BY <2>3, <2>4 DEF Init, LoopTypeOK
  <2> QED
    BY <2>1, <2>2, <2>6, <2>7 DEF TypeOK
<1>2. TypeOK /\ [Next]_vars => TypeOK'
  BY MemoryStep, SyncTypeStep, ControlTypeStep DEF TypeOK
<1> QED
  BY <1>1, <1>2, PTL DEF Spec

----------------------------------------------------------------------------
(* No row is lost. *)

LEMMA KeptStep == RecordsAreKept /\ [Next]_vars => RecordsAreKept'
<1> SUFFICES ASSUME RecordsAreKept, [Next]_vars PROVE RecordsAreKept'
  OBVIOUS
<1>1. CASE UNCHANGED syncVars
  BY <1>1 DEF syncVars, RecordsAreKept
<1>2. ASSUME NEW r \in Run, CallAnswered(r) \/ LookedUp(r) PROVE RecordsAreKept'
  BY <1>2, SaveKeepsIds DEF CallAnswered, LookedUp
<1>3. ASSUME NEW t \in Task, Skip(t) \/ AskGoogle(t) \/ ProviderRefuses(t)
      PROVE  RecordsAreKept'
  BY <1>3 DEF Skip, AskGoogle, ProviderRefuses, Mark, RecordsAreKept
<1>4. ASSUME NEW t \in Task, WriteFirst(t) \/ WriteSecond(t) PROVE RecordsAreKept'
  <2>1. PICK what, rows : SyncWrite(Order[at[t]], what, rows)
    BY <1>4 DEF WriteFirst, WriteSecond
  <2>2. CASE SaveRecords(rows)
    BY <2>2, SaveKeepsIds
  <2>3. CASE Mark(Order[at[t]], "ok", {r.id : r \in rows})
    BY <2>3 DEF Mark, RecordsAreKept
  <2> QED
    BY <2>1, <2>2, <2>3 DEF SyncWrite
<1>5. CASE Crash
  BY <1>5 DEF Crash, SyncCrash, RecordsAreKept
<1>6. CASE Tomorrow
  BY <1>6 DEF Tomorrow, DayPasses, RecordsAreKept
<1> QED
  BY <1>1, <1>2, <1>3, <1>4, <1>5, <1>6, SyncEffects

\* What was kept is kept until the file is torn.
LEMMA KeptGrows ==
    ASSUME RecordsAreKept, [Next]_vars
    PROVE  (kept \subseteq kept' /\ tornRecords' = tornRecords) \/ tornRecords'
<1>1. CASE UNCHANGED syncVars
  BY <1>1 DEF syncVars
<1>2. ASSUME NEW r \in Run, CallAnswered(r) \/ LookedUp(r)
      PROVE  kept \subseteq kept' /\ tornRecords' = tornRecords
  BY <1>2, SaveKeepsIds DEF CallAnswered, LookedUp
<1>3. ASSUME NEW t \in Task, Skip(t) \/ AskGoogle(t) \/ ProviderRefuses(t)
      PROVE  kept' = kept /\ tornRecords' = tornRecords
  BY <1>3 DEF Skip, AskGoogle, ProviderRefuses, Mark
<1>4. ASSUME NEW t \in Task, WriteFirst(t) \/ WriteSecond(t)
      PROVE  kept \subseteq kept' /\ tornRecords' = tornRecords
  BY <1>4 DEF WriteFirst, WriteSecond, SyncWrite, SaveRecords, Mark
<1>5. CASE Crash
  BY <1>5 DEF Crash, SyncCrash
<1>6. CASE Tomorrow
  BY <1>6 DEF Tomorrow, DayPasses
<1> QED
  BY <1>1, <1>2, <1>3, <1>4, <1>5, <1>6, SyncEffects

\* Whatever the runs, syncs and threads do, a row that was saved can be read
\* until a crash tears records.json.
THEOREM RecordsKept == Spec => []RecordsAreKept
<1>1. Init => RecordsAreKept
  BY DEF Init, SyncInit, RecordsAreKept
<1> QED
  BY <1>1, KeptStep, PTL DEF Spec
----------------------------------------------------------------------------
(* What a stored run's last call used. *)

\* What a live run has behind it, by where it stands: its response is stored
\* from the answer on, and the lookup of a generation before the run finishes.
Answered == {"lookup", "finish"}
UsageInv ==
    ~tornRecords =>
        \A r \in Run :
            /\ pc[r] \in Answered \/ r \in stored => CallRow(r, 1).id \in kept
            /\ r \in generated /\ (pc[r] = "finish" \/ r \in stored) => CallRow(r, 2).id \in kept

\* A run at rest before its call has no generation and no record yet.
StartInv ==
    \A r \in Run : /\ pc[r] = "idle" => r \notin generated \cup stored
                   /\ pc[r] \in Answered => r \notin stored

LEMMA IdsOfOne == \A row : Ids({row}) = {row.id}
BY DEF Ids

\* The controls of the steps that write no call's row and save no record.
LEMMA NoNewAnswer ==
    ASSUME ControlTypeOK, [Next]_vars,
           \A r \in Run : ~CallAnswered(r) /\ ~LookedUp(r) /\ ~Finalize(r)
    PROVE  /\ UNCHANGED <<generated, stored>>
           /\ \A r \in Run : pc'[r] \in Answered \cup {"idle"} => pc[r] = pc'[r]
<1> DEFINE Same == /\ UNCHANGED <<generated, stored>>
                   /\ \A r \in Run : pc'[r] \in Answered \cup {"idle"} => pc[r] = pc'[r]
<1> USE DEF Answered
<1>1. CASE UNCHANGED vars
  BY <1>1 DEF vars, controls
<1>2. ASSUME NEW x \in Run \cup Thread, AddsInVain(x) PROVE Same
  BY <1>2 DEF AddsInVain, Moves, ControlTypeOK, Task
<1>3. ASSUME NEW x \in Run \cup Thread, Adds(x) \/ Ingested(x) PROVE Same
  BY <1>3 DEF Adds, Ingested, Moves, controls, ControlTypeOK, Task
<1>4. ASSUME NEW t \in Task, SyncStep(t) PROVE Same
  BY <1>4 DEF SyncStep, StartSync, Skip, AskProvider, AskGoogle, ProviderAnswers,
              ProviderRefuses, WriteFirst, WriteSecond, SyncDone, Moves, SyncWrites, ControlTypeOK, Task
<1>5. ASSUME NEW t \in Thread, OpenMemory(t) PROVE Same
  BY <1>5 DEF OpenMemory, Moves, ControlTypeOK, Task
<1>6. CASE Crash
  BY <1>6 DEF Crash, AtRest, Task
<1>7. CASE Tomorrow
  BY <1>7 DEF Tomorrow, controls
<1> QED
  BY <1>1, <1>2, <1>3, <1>4, <1>5, <1>6, <1>7 DEF Next, RunStep, ThreadStep

LEMMA StartStep ==
    ASSUME TypeOK, StartInv, [Next]_vars
    PROVE  StartInv'
<1> USE DEF Answered, TypeOK
<1>1. ASSUME NEW r \in Run, CallAnswered(r) PROVE StartInv'
  <2>1. UNCHANGED stored /\ generated' \subseteq generated \cup {r} /\ pc[r] = "idle"
    BY <1>1 DEF CallAnswered, Moves
  <2>2. \A q \in Run : q # r => pc'[q] = pc[q]
    BY <1>1 DEF CallAnswered, Moves, ControlTypeOK, Task
  <2>3. pc'[r] \in Answered
    BY <1>1 DEF CallAnswered, Moves, ControlTypeOK, Task
  <2>4. r \notin stored
    BY <2>1 DEF StartInv
  <2> QED
    BY <2>1, <2>2, <2>3, <2>4 DEF StartInv
<1>2. ASSUME NEW r \in Run, LookedUp(r) PROVE StartInv'
  BY <1>2 DEF LookedUp, Moves, StartInv, ControlTypeOK, Task
<1>3. ASSUME NEW r \in Run, Finalize(r) PROVE StartInv'
  BY <1>3 DEF Finalize, Moves, StartInv, ControlTypeOK, Task
<1>4. ASSUME \A r \in Run : ~CallAnswered(r) /\ ~LookedUp(r) /\ ~Finalize(r) PROVE StartInv'
  BY <1>4, NoNewAnswer DEF StartInv
<1> QED
  BY <1>1, <1>2, <1>3, <1>4

LEMMA UsageStep ==
    ASSUME TypeOK, StartInv, RecordsAreKept, UsageInv, [Next]_vars
    PROVE  UsageInv'
<1>1. ASSUME NEW r \in Run, CallAnswered(r) PROVE UsageInv'
  <2>1. SaveRecords({CallRow(r, 1)}) /\ UNCHANGED stored /\ r \notin stored \cup generated
    BY <1>1 DEF CallAnswered, Moves, StartInv
  <2>2. kept \subseteq kept' /\ CallRow(r, 1).id \in kept' /\ UNCHANGED tornRecords
    BY <2>1, SaveKeepsIds, IdsOfOne
  <2>3. /\ \A q \in Run : q # r => pc'[q] = pc[q]
        /\ generated' \subseteq generated \cup {r}
        /\ r \in generated' => pc'[r] # "finish"
    BY <1>1, <2>1 DEF CallAnswered, Moves, TypeOK, ControlTypeOK, Task
  <2> QED
    BY <2>1, <2>2, <2>3 DEF UsageInv, CallRow
<1>2. ASSUME NEW r \in Run, LookedUp(r) PROVE UsageInv'
  <2>1. /\ SaveRecords({CallRow(r, 2)}) /\ pc[r] \in Answered
        /\ UNCHANGED <<stored, generated>>
    BY <1>2 DEF LookedUp, Moves, Answered
  <2>2. kept \subseteq kept' /\ CallRow(r, 2).id \in kept' /\ UNCHANGED tornRecords
    BY <2>1, SaveKeepsIds, IdsOfOne
  <2>3. \A q \in Run : q # r => pc'[q] = pc[q]
    BY <1>2 DEF LookedUp, Moves, TypeOK, ControlTypeOK, Task
  <2> QED
    BY <2>1, <2>2, <2>3 DEF UsageInv, CallRow
<1>3. ASSUME NEW r \in Run, Finalize(r) PROVE UsageInv'
  <2>1. /\ pc[r] = "finish" /\ pc'[r] = "ingest"
        /\ \A q \in Run : q # r => pc'[q] = pc[q]
        /\ UNCHANGED <<kept, tornRecords, generated>> /\ stored' = stored \cup {r}
    BY <1>3 DEF Finalize, Moves, syncVars, TypeOK, ControlTypeOK, Task
  <2> QED
    BY <2>1 DEF UsageInv, CallRow, Answered
<1>4. ASSUME \A r \in Run : ~CallAnswered(r) /\ ~LookedUp(r) /\ ~Finalize(r) PROVE UsageInv'
  <2>1. (kept \subseteq kept' /\ tornRecords' = tornRecords) \/ tornRecords'
    BY KeptGrows
  <2>2. /\ UNCHANGED <<generated, stored>>
        /\ \A r \in Run : pc'[r] \in Answered => pc[r] = pc'[r]
    BY <1>4, NoNewAnswer DEF TypeOK
  <2> QED
    BY <2>1, <2>2 DEF UsageInv, CallRow, Answered
<1> QED
  BY <1>1, <1>2, <1>3, <1>4

\* A record that a client finds has the usage of its call behind it and, when
\* the answer named a generation, the row of its lookup, however runs, syncs
\* and crashes interleave.
THEOREM UsageBehindRecords == Spec => []StoredRunsHaveUsage
<1>1. Init => StartInv /\ RecordsAreKept /\ UsageInv
  <2> SUFFICES ASSUME Init PROVE StartInv /\ RecordsAreKept /\ UsageInv
    OBVIOUS
  <2>1. \A r \in Run : pc[r] \notin Answered
    BY DEF Init, Task, Answered
  <2>2. generated = {} /\ stored = {} /\ kept = {} /\ records = {}
    BY DEF Init, SyncInit
  <2> QED
    BY <2>1, <2>2 DEF RecordsAreKept, UsageInv, StartInv, Answered
<1>2. TypeOK /\ RecordsAreKept /\ UsageInv => StoredRunsHaveUsage
  <2> SUFFICES ASSUME TypeOK, RecordsAreKept, UsageInv, ~tornRecords, NEW r \in stored
               PROVE  /\ \E q \in records : q.id = CallRow(r, 1).id
                      /\ r \in generated => \E q \in records : q.id = CallRow(r, 2).id
    BY DEF StoredRunsHaveUsage
  <2>1. r \in Run
    BY DEF TypeOK, ControlTypeOK
  <2>2. CallRow(r, 1).id \in kept /\ (r \in generated => CallRow(r, 2).id \in kept)
    BY <2>1 DEF UsageInv
  <2> QED
    BY <2>2 DEF RecordsAreKept
<1> QED
  BY <1>1, <1>2, TypeCorrect, KeptStep, StartStep, UsageStep, PTL DEF Spec

----------------------------------------------------------------------------
(* What a status says. *)

\* The rows that a status counts are kept, and those that the next status will
\* count have been saved before it is written.
StatusInv ==
    ~tornRecords =>
        /\ \A p \in DOMAIN status : status[p].rows \subseteq kept
        /\ \A t \in Task : pc[t] = "status" => Ids(answer[t]) \subseteq kept

\* A status that is written changes no other one.
LEMMA MarkRows ==
    ASSUME NEW provider, NEW outcome, NEW rows, Mark(provider, outcome, rows),
           StatusInv, ~tornRecords, rows \subseteq kept
    PROVE  /\ \A p \in DOMAIN status' : status'[p].rows \subseteq kept'
           /\ UNCHANGED <<kept, tornRecords>>
<1>1. ASSUME NEW p \in DOMAIN status' PROVE status'[p].rows \subseteq kept
  <2>1. CASE p = provider
    BY <1>1, <2>1 DEF Mark
  <2>2. CASE p # provider
    BY <1>1, <2>2 DEF Mark, StatusInv
  <2> QED
    BY <2>1, <2>2
<1> QED
  BY <1>1 DEF Mark

LEMMA StatusStep ==
    ASSUME TypeOK, RecordsAreKept, StatusInv, [Next]_vars
    PROVE  StatusInv'
<1> SUFFICES ASSUME ~tornRecords'
             PROVE  /\ \A p \in DOMAIN status' : status'[p].rows \subseteq kept'
                    /\ \A t \in Task : pc'[t] = "status" => Ids(answer'[t]) \subseteq kept'
  BY DEF StatusInv, Ids
<1>1. kept \subseteq kept' /\ ~tornRecords
  BY KeptGrows
<1> DEFINE SameStatus == status' = status
           SameAnswers == \A t \in Task : pc'[t] = "status" => pc[t] = "status" /\ answer'[t] = answer[t]
<1>2. CASE SameStatus /\ SameAnswers
  BY <1>1, <1>2 DEF StatusInv
<1>3. ASSUME NEW t \in Task, Skip(t) \/ AskGoogle(t) \/ ProviderRefuses(t)
      PROVE  /\ \A p \in DOMAIN status' : status'[p].rows \subseteq kept'
             /\ \A u \in Task : pc'[u] = "status" => Ids(answer'[u]) \subseteq kept'
  <2>1. \E outcome : Mark(Order[at[t]], outcome, {})
    BY <1>3 DEF Skip, AskGoogle, ProviderRefuses
  <2>2. \A u \in Task : pc'[u] = "status" => u # t /\ pc[u] = "status" /\ answer'[u] = answer[u]
    BY <1>3, SyncWritesAre DEF Skip, AskGoogle, ProviderRefuses, Moves, TypeOK, ControlTypeOK
  <2> QED
    BY <1>1, <2>1, <2>2, MarkRows DEF StatusInv
<1>4. ASSUME NEW t \in Task, WriteFirst(t)
      PROVE  /\ \A p \in DOMAIN status' : status'[p].rows \subseteq kept'
             /\ \A u \in Task : pc'[u] = "status" => Ids(answer'[u]) \subseteq kept'
  <2>1. SaveRecords(answer[t]) /\ answer' = answer
    BY <1>4, SyncWritesAre DEF WriteFirst, SyncWrite
  <2>2. Ids(answer[t]) \subseteq kept' /\ status' = status
    BY <2>1, SaveKeepsIds
  <2>3. \A u \in Task : pc'[u] = "status" => u = t \/ pc[u] = "status"
    BY <1>4 DEF WriteFirst, Moves, TypeOK, ControlTypeOK
  <2> QED
    BY <1>1, <2>1, <2>2, <2>3 DEF StatusInv
<1>5. ASSUME NEW t \in Task, WriteSecond(t)
      PROVE  /\ \A p \in DOMAIN status' : status'[p].rows \subseteq kept'
             /\ \A u \in Task : pc'[u] = "status" => Ids(answer'[u]) \subseteq kept'
  <2>1. Mark(Order[at[t]], "ok", {r.id : r \in answer[t]}) /\ pc[t] = "status"
    BY <1>5, SyncWritesAre DEF WriteSecond, SyncWrite, Moves
  <2>2. {r.id : r \in answer[t]} \subseteq kept
    BY <1>1, <2>1 DEF StatusInv, Ids
  <2>3. \A u \in Task : pc'[u] = "status" => u # t /\ pc[u] = "status" /\ answer'[u] = answer[u]
    BY <1>5 DEF WriteSecond, Moves, TypeOK, ControlTypeOK
  <2>4. \A p \in DOMAIN status' : status'[p].rows \subseteq kept'
    BY <1>1, <2>1, <2>2, MarkRows
  <2> QED
    BY <1>1, <2>3, <2>4 DEF StatusInv
<1>6. CASE Crash
  <2>1. \A t \in Task : pc'[t] # "status"
    BY <1>6 DEF Crash, AtRest
  <2>2. status' = status \/ status' = NoStatus
    BY <1>6 DEF Crash, SyncCrash
  <2>3. DOMAIN NoStatus = {}
    BY DEF NoStatus
  <2> QED
    BY <1>1, <2>1, <2>2, <2>3 DEF StatusInv
<1>7. CASE UNCHANGED vars
  BY <1>2, <1>7 DEF vars, controls, syncVars
<1>8. CASE Tomorrow
  BY <1>2, <1>8 DEF Tomorrow, DayPasses, controls
<1>9. ASSUME NEW x \in Task \cup Thread,
             \/ AddsInVain(x) \/ Adds(x) \/ Ingested(x) \/ OpenMemory(x) \/ Finalize(x)
      PROVE  SameStatus /\ SameAnswers
  BY <1>9 DEF Finalize, AddsInVain, Adds, Ingested, OpenMemory, Moves, controls, syncVars,
              TypeOK, ControlTypeOK
<1>10. ASSUME NEW r \in Run, CallAnswered(r) \/ LookedUp(r)
       PROVE  SameStatus /\ SameAnswers
  BY <1>10 DEF CallAnswered, LookedUp, SaveRecords, Moves, Task, TypeOK, ControlTypeOK
<1>11. ASSUME NEW t \in Task, StartSync(t) \/ AskProvider(t) \/ ProviderAnswers(t) \/ SyncDone(t)
       PROVE  SameStatus /\ SameAnswers
  BY <1>11, SyncWritesAre DEF StartSync, AskProvider, ProviderAnswers, SyncDone, Moves,
                              syncVars, TypeOK, ControlTypeOK
<1> QED
  BY <1>2, <1>3, <1>4, <1>5, <1>6, <1>7, <1>8, <1>9, <1>10, <1>11
     DEF Next, RunStep, SyncStep, ThreadStep, Task

\* A status never counts rows that are not there, also after a crash between
\* the two writes of a sync.
THEOREM StatusHasRows == Spec => []OkStatusHasRows
<1>1. Init => RecordsAreKept /\ StatusInv
  <2> SUFFICES ASSUME Init PROVE RecordsAreKept /\ StatusInv
    OBVIOUS
  <2>1. DOMAIN status = {}
    BY DEF Init, SyncInit, NoStatus
  <2>2. \A t \in Task : pc[t] # "status"
    BY DEF Init
  <2> QED
    BY <2>1, <2>2 DEF Init, SyncInit, RecordsAreKept, StatusInv
<1>2. RecordsAreKept /\ StatusInv => OkStatusHasRows
  BY DEF RecordsAreKept, StatusInv, OkStatusHasRows
<1> QED
  BY <1>1, <1>2, TypeCorrect, KeptStep, StatusStep, PTL DEF Spec

----------------------------------------------------------------------------
(* Memory. *)

\* What an ingestion says it added is in the project's file, and nothing is
\* glued to a torn line unless a write was cut short.
Held == memory["project"].lines \cup memory["project"].swallowed
HeldInv ==
    /\ reported \subseteq Held
    /\ \A a \in Actor : inserted[a] \subseteq Held
    /\ ~cuts => \A f \in File : ~memory[f].tail /\ memory[f].swallowed = {}

\* The parts of a step that concern the memory.
LEMMA MemoryEffects ==
    ASSUME [Next]_vars
    PROVE  \/ UNCHANGED memoryVars /\ UNCHANGED reported
           \/ \E x \in Actor : Ingested(x)
           \/ \E x \in Actor : Adds(x) \/ AddsInVain(x)
           \/ \E x \in Actor : \E lines : Open(x, lines) /\ UNCHANGED <<memory, reported>>
           \/ Crash
<1>1. Run \subseteq Actor /\ Thread \subseteq Actor
  BY BookkeepingAssumption
<1>2. CASE UNCHANGED vars
  BY <1>2 DEF vars, controls, memoryVars
<1>3. ASSUME NEW t \in Task, SyncStep(t)
      PROVE  UNCHANGED memoryVars /\ UNCHANGED reported
  BY <1>3 DEF SyncStep, StartSync, Skip, AskProvider, AskGoogle, ProviderAnswers,
              ProviderRefuses, WriteFirst, WriteSecond, SyncDone
<1>4. ASSUME NEW r \in Run, CallAnswered(r) \/ LookedUp(r)
      PROVE  UNCHANGED memoryVars /\ UNCHANGED reported
  BY <1>4 DEF CallAnswered, LookedUp
<1>5. ASSUME NEW r \in Run, Finalize(r)
      PROVE  \E lines : Open(r, lines) /\ UNCHANGED <<memory, reported>>
  BY <1>5 DEF Finalize
<1>6. ASSUME NEW t \in Thread, OpenMemory(t)
      PROVE  \E lines : Open(t, lines) /\ UNCHANGED <<memory, reported>>
  BY <1>6 DEF OpenMemory
<1>7. Tomorrow => UNCHANGED memoryVars /\ UNCHANGED reported
  BY DEF Tomorrow, controls
<1> QED
  BY <1>1, <1>2, <1>3, <1>4, <1>5, <1>6, <1>7 DEF Next, RunStep, ThreadStep

\* The line an actor writes next.
LEMMA NextLine ==
    ASSUME MemoryTypeOK, NEW a \in Actor, work[a] # <<>>
    PROVE  /\ work[a] \in Seq(Line)
           /\ Head(work[a]).file \in File /\ Head(work[a]).item \in Item
<1>1. work[a] \in Seq(Line)
  BY DEF MemoryTypeOK
<1>2. Head(work[a]) \in Line
  BY <1>1
<1> QED
  BY <1>1, <1>2 DEF Line

\* What an append leaves of a file.
LEMMA AppendFacts ==
    ASSUME NEW file \in MemoryFile, NEW item \in Item
    PROVE  /\ Made(file).lines = file.lines /\ Made(file).swallowed = file.swallowed
           /\ WithTail(file).lines = file.lines /\ WithTail(file).swallowed = file.swallowed
           /\ WithLine(file, item).made /\ ~WithLine(file, item).tail
           /\ WithLine(file, item).lines \cup WithLine(file, item).swallowed
                  = file.lines \cup file.swallowed \cup {item}
           /\ ~file.tail => /\ WithLine(file, item).lines = file.lines \cup {item}
                            /\ WithLine(file, item).swallowed = file.swallowed
BY DEF Made, WithTail, WithLine, MemoryFile

LEMMA HeldStep ==
    ASSUME TypeOK, HeldInv, [Next]_vars
    PROVE  HeldInv'
<1> USE DEF TypeOK
<1>1. CASE UNCHANGED memoryVars /\ UNCHANGED reported
  BY <1>1 DEF HeldInv, Held, memoryVars
<1>2. ASSUME NEW x \in Actor, Ingested(x) PROVE HeldInv'
  BY <1>2 DEF Ingested, HeldInv, Held, memoryVars
<1>3. ASSUME NEW x \in Actor, Adds(x) PROVE HeldInv'
  <2>1. /\ work[x] # <<>>
        /\ memory' = [memory EXCEPT ![Head(work[x]).file] = WithLine(@, Head(work[x]).item)]
        /\ UNCHANGED <<reported, cuts>>
    BY <1>3 DEF Adds, AddItem, controls
  <2> DEFINE file == Head(work[x]).file
             item == Head(work[x]).item
  <2>2. file \in File /\ item \in Item
    BY <2>1, NextLine
  <2>3. memory'[file] = WithLine(memory[file], item) /\ \A f \in File : f # file => memory'[f] = memory[f]
    BY <2>1, <2>2 DEF MemoryTypeOK
  <2>4. \A f \in File : memory[f] \in MemoryFile
    BY DEF MemoryTypeOK
  <2>5. /\ memory[file].lines \cup memory[file].swallowed \cup {item}
              = memory'[file].lines \cup memory'[file].swallowed
        /\ ~memory'[file].tail
        /\ ~memory[file].tail => memory'[file].swallowed = memory[file].swallowed
    BY <2>2, <2>3, <2>4 DEF WithLine, MemoryFile
  <2>6. Held \subseteq Held' /\ (file = "project" => item \in Held')
    BY <2>3, <2>5 DEF Held, File
  <2>7. \A a \in Actor : inserted'[a] \subseteq inserted[a] \cup IF file = "project" /\ a = x THEN {item} ELSE {}
    BY <1>3 DEF Adds, AddItem, MemoryTypeOK
  <2>8. ~cuts' => \A f \in File : ~memory'[f].tail /\ memory'[f].swallowed = {}
    BY <2>1, <2>2, <2>3, <2>5 DEF HeldInv
  <2> QED
    BY <2>1, <2>6, <2>7, <2>8 DEF HeldInv
<1>4. ASSUME NEW x \in Actor, AddsInVain(x) PROVE HeldInv'
  <2> DEFINE f == Head(work[x]).file
             item == Head(work[x]).item
  <2>1. /\ work[x] # <<>> /\ inserted' = inserted /\ reported' = reported
        /\ cuts' = (cuts \/ \E g \in File : memory'[g].tail)
        /\ \/ \E file \in {memory[f], Made(memory[f]), WithTail(memory[f])} :
                 memory' = [memory EXCEPT ![f] = file]
           \/ memory' = [memory EXCEPT ![f] = WithLine(@, item)]
    BY <1>4 DEF AddsInVain, AddItemRaises
  <2>2. f \in File /\ \A g \in File : memory[g] \in MemoryFile
    BY <2>1, NextLine DEF MemoryTypeOK
  <2>3. /\ \A g \in File : g # f => memory'[g] = memory[g]
        /\ \/ memory'[f] \in {memory[f], Made(memory[f]), WithTail(memory[f])}
           \/ memory'[f] = WithLine(memory[f], item)
    BY <2>1, <2>2 DEF MemoryTypeOK
  <2>4. /\ memory[f].lines \cup memory[f].swallowed
               \subseteq memory'[f].lines \cup memory'[f].swallowed
        /\ ~memory[f].tail => memory'[f].swallowed = memory[f].swallowed
    <3>1. item \in Item /\ memory[f] \in MemoryFile
      BY <2>1, <2>2, NextLine
    <3>2. CASE memory'[f] \in {memory[f], Made(memory[f]), WithTail(memory[f])}
      BY <3>1, <3>2, AppendFacts
    <3>3. CASE memory'[f] = WithLine(memory[f], item)
      BY <3>1, <3>3, AppendFacts
    <3> QED
      BY <2>3, <3>2, <3>3
  <2>5. Held \subseteq Held'
    BY <2>3, <2>4 DEF Held, File
  <2>6. ~cuts' => \A g \in File : ~memory'[g].tail /\ memory'[g].swallowed = {}
    BY <2>1, <2>2, <2>3, <2>4 DEF HeldInv
  <2> QED
    BY <2>1, <2>5, <2>6 DEF HeldInv
<1>5. ASSUME NEW x \in Actor, NEW lines, Open(x, lines), UNCHANGED <<memory, reported>>
      PROVE  HeldInv'
  BY <1>5 DEF Open, HeldInv, Held, MemoryTypeOK
<1>6. CASE Crash
  <2>1. \A f \in File : memory'[f] \in {memory[f], Made(memory[f]), WithTail(memory[f])}
    BY <1>6 DEF Crash, MemoryCrash
  <2>2. \A f \in File : /\ memory'[f].lines = memory[f].lines
                         /\ memory'[f].swallowed = memory[f].swallowed
    BY <2>1 DEF Made, WithTail, MemoryTypeOK, MemoryFile
  <2>3. Held' = Held
    BY <2>2 DEF Held, File
  <2>4. UNCHANGED <<inserted, reported>> /\ cuts' = (cuts \/ \E f \in File : memory'[f].tail)
    BY <1>6 DEF Crash, MemoryCrash
  <2>5. ~cuts' => \A f \in File : ~memory'[f].tail /\ memory'[f].swallowed = {}
    BY <2>2, <2>4 DEF HeldInv
  <2> QED
    BY <2>3, <2>4, <2>5 DEF HeldInv
<1> QED
  BY <1>1, <1>2, <1>3, <1>4, <1>5, <1>6, MemoryEffects

\* No interleaving of runs and threads loses an item that an answer or a
\* record names; only a torn line swallows the one that follows it.
THEOREM ItemsAreKept == Spec => []MemoryKeepsItems
<1>1. Init => HeldInv
  BY DEF Init, MemoryInit, HeldInv, Held, File
<1>2. HeldInv => MemoryKeepsItems
  BY DEF HeldInv, Held, MemoryKeepsItems
<1> QED
  BY <1>1, <1>2, TypeCorrect, HeldStep, PTL DEF Spec

----------------------------------------------------------------------------
(* The core rules. *)

\* The rules that an actor has still to add.
Pending(a) == {work[a][i].item.n : i \in {j \in DOMAIN work[a] : work[a][j].file = "global"}}
IsLine(n) == \E item \in memory["global"].lines : item.n = n

\* While no seeding was interrupted, the file has no torn line; when it is made
\* each rule is in it or somebody has it at hand; before that, who has one at
\* hand has them all.  Nobody opens the memory with lines left to add.
RuleInv ==
    /\ \A a \in Actor : pc[a] # "ingest" => work[a] = <<>>
    /\ ~interrupted =>
        /\ ~memory["global"].tail
        /\ memory["global"].made =>
               \A n \in 1..Rules : IsLine(n) \/ \E a \in Actor : n \in Pending(a)
        /\ ~memory["global"].made =>
               \A a \in Actor : Pending(a) = {} \/ 1..Rules \subseteq Pending(a)

\* The tail of a sequence has all of it but its head.
LEMMA TailElements ==
    ASSUME NEW S, NEW s \in Seq(S), s # <<>>
    PROVE  /\ 1 \in DOMAIN s /\ Head(s) = s[1]
           /\ \A i \in DOMAIN s : i # 1 => i - 1 \in DOMAIN Tail(s) /\ Tail(s)[i - 1] = s[i]
           /\ \A i \in DOMAIN Tail(s) : i + 1 \in DOMAIN s /\ Tail(s)[i] = s[i + 1]
OBVIOUS

\* Who has no rule among the lines has none at hand.
LEMMA NoneAtHand ==
    ASSUME NEW a \in Actor
    PROVE  ~HasRules(work[a]) <=> Pending(a) = {}
BY DEF HasRules, Pending

\* The rules at hand before and after the first line is written.
LEMMA HeadRule ==
    ASSUME MemoryTypeOK, NEW x \in Actor, work[x] # <<>>
    PROVE  LET file == Head(work[x]).file
               left == {Tail(work[x])[i].item.n :
                            i \in {j \in DOMAIN Tail(work[x]) : Tail(work[x])[j].file = "global"}}
           IN  /\ left \subseteq Pending(x)
               /\ Pending(x) \subseteq left \cup (IF file = "global" THEN {Head(work[x]).item.n} ELSE {})
               /\ file = "global" => Head(work[x]).item.n \in Pending(x)
<1> DEFINE file == Head(work[x]).file
           left == {Tail(work[x])[i].item.n :
                        i \in {j \in DOMAIN Tail(work[x]) : Tail(work[x])[j].file = "global"}}
<1>1. work[x] \in Seq(Line)
  BY NextLine
<1>2. /\ \A i \in DOMAIN work[x] :
             i # 1 => i - 1 \in DOMAIN Tail(work[x]) /\ Tail(work[x])[i - 1] = work[x][i]
      /\ \A i \in DOMAIN Tail(work[x]) :
             i + 1 \in DOMAIN work[x] /\ Tail(work[x])[i] = work[x][i + 1]
      /\ 1 \in DOMAIN work[x] /\ Head(work[x]) = work[x][1]
  BY <1>1, TailElements
<1>3. ASSUME NEW i \in DOMAIN work[x], work[x][i].file = "global", i # 1
      PROVE  work[x][i].item.n \in left
  BY <1>2, <1>3
<1>4. \A i \in DOMAIN Tail(work[x]) : Tail(work[x])[i].file = "global" =>
          Tail(work[x])[i].item.n \in Pending(x)
  BY <1>2 DEF Pending
<1>5. left \subseteq Pending(x)
  BY <1>4
<1>6. Pending(x) \subseteq left \cup (IF file = "global" THEN {Head(work[x]).item.n} ELSE {})
  BY <1>2, <1>3 DEF Pending
<1>7. file = "global" => Head(work[x]).item.n \in Pending(x)
  BY <1>2 DEF Pending
<1> QED
  BY <1>5, <1>6, <1>7

LEMMA RuleStep ==
    ASSUME TypeOK, RuleInv, [Next]_vars
    PROVE  RuleInv'
<1> USE DEF TypeOK
<1>1. \A x \in Actor : x \in Task \cup Thread
  BY BookkeepingAssumption DEF Task
<1>2. ASSUME NEW a \in Actor PROVE pc'[a] # "ingest" => work'[a] = <<>>
  <2>1. CASE Crash
    BY <2>1 DEF Crash, MemoryCrash
  <2>2. ASSUME NEW x \in Actor, Adds(x) PROVE pc'[a] # "ingest" => work'[a] = <<>>
    BY <2>2 DEF Adds, AddItem, controls, RuleInv, MemoryTypeOK
  <2>3. ASSUME NEW x \in Actor, AddsInVain(x) PROVE pc'[a] # "ingest" => work'[a] = <<>>
    BY <1>1, <2>3 DEF AddsInVain, AddItemRaises, Moves, RuleInv, MemoryTypeOK, ControlTypeOK
  <2>4. ASSUME NEW x \in Actor, Ingested(x) PROVE pc'[a] # "ingest" => work'[a] = <<>>
    BY <1>1, <2>4 DEF Ingested, memoryVars, Moves, RuleInv, ControlTypeOK
  <2>5. ASSUME NEW x \in Actor, Finalize(x) \/ OpenMemory(x)
        PROVE  pc'[a] # "ingest" => work'[a] = <<>>
    BY <1>1, <2>5 DEF Finalize, OpenMemory, Open, Moves, RuleInv, MemoryTypeOK, ControlTypeOK
  <2>6. ASSUME NEW t \in Task, SyncStep(t) PROVE pc'[a] # "ingest" => work'[a] = <<>>
    <3>1. pc[t] # "ingest" /\ UNCHANGED work
      BY <2>6, SyncWritesAre
         DEF SyncStep, StartSync, Skip, AskProvider, AskGoogle, ProviderAnswers,
             ProviderRefuses, WriteFirst, WriteSecond, SyncDone, Moves, memoryVars
    <3>2. pc'[a] = pc[a] \/ a = t
      BY <1>1, <2>6
         DEF SyncStep, StartSync, Skip, AskProvider, AskGoogle, ProviderAnswers,
             ProviderRefuses, WriteFirst, WriteSecond, SyncDone, Moves, ControlTypeOK
    <3> QED
      BY <3>1, <3>2 DEF RuleInv
  <2>7. ASSUME NEW r \in Run, CallAnswered(r) \/ LookedUp(r)
        PROVE  pc'[a] # "ingest" => work'[a] = <<>>
    BY <1>1, <2>7 DEF CallAnswered, LookedUp, memoryVars, Moves, RuleInv, ControlTypeOK
  <2>8. Tomorrow \/ UNCHANGED vars => UNCHANGED <<pc, work>>
    BY DEF Tomorrow, vars, controls, memoryVars
  <2>9. Run \subseteq Actor /\ Thread \subseteq Actor
    BY BookkeepingAssumption
  <2> QED
    BY <2>1, <2>2, <2>3, <2>4, <2>5, <2>6, <2>7, <2>8, <2>9
       DEF Next, RunStep, ThreadStep, RuleInv
<1> DEFINE Is == memory["global"].made
           Covered == Is => \A n \in 1..Rules : IsLine(n) \/ \E a \in Actor : n \in Pending(a)
           All == ~Is => \A a \in Actor : Pending(a) = {} \/ 1..Rules \subseteq Pending(a)
           Whole == ~memory["global"].tail /\ Covered /\ All
<1>4. ~interrupted => Whole
  BY DEF RuleInv
<1>5. ASSUME Whole, memory'["global"] = memory["global"],
             \A a \in Actor : Pending(a)' = Pending(a)
      PROVE  Whole'
  <2>1. \A n : IsLine(n)' = IsLine(n)
    BY <1>5 DEF IsLine
  <2> QED
    BY <1>5, <2>1
\* A line that is written whole, after which its actor goes on or stops.
<1>6. ASSUME NEW x \in Actor, work[x] # <<>>, Whole,
             memory' = [memory EXCEPT ![Head(work[x]).file] = WithLine(@, Head(work[x]).item)],
             \A a \in Actor : a # x => work'[a] = work[a],
             \/ work'[x] = Tail(work[x])
             \/ work'[x] = <<>> /\ ~HasRules(Tail(work[x]))
      PROVE  Whole'
  <2> DEFINE left == {Tail(work[x])[i].item.n :
                          i \in {j \in DOMAIN Tail(work[x]) : Tail(work[x])[j].file = "global"}}
  <2>7. PICK file, item : file = Head(work[x]).file /\ item = Head(work[x]).item
    OBVIOUS
  <2>1. file \in File
    BY <1>6, <2>7, NextLine
  <2>2. /\ left \subseteq Pending(x)
        /\ Pending(x) \subseteq left \cup (IF file = "global" THEN {item.n} ELSE {})
        /\ file = "global" => item.n \in Pending(x)
    BY <1>6, <2>7, HeadRule
  <2>3. Pending(x)' = left
    <3>1. CASE work'[x] = Tail(work[x])
      BY <3>1 DEF Pending
    <3>2. CASE work'[x] = <<>> /\ ~HasRules(Tail(work[x]))
      <4>1. left = {}
        BY <3>2 DEF HasRules
      <4>2. Pending(x)' = {}
        BY <3>2 DEF Pending
      <4> QED
        BY <4>1, <4>2
    <3> QED
      BY <1>6, <3>1, <3>2
  <2>4. \A a \in Actor : a # x => Pending(a)' = Pending(a)
    BY <1>6 DEF Pending
  <2> HIDE DEF left
  <2>5. CASE file = "project"
    <3>1. memory'["global"] = memory["global"]
      BY <1>6, <2>5, <2>7 DEF MemoryTypeOK, File
    <3>2. Pending(x)' = Pending(x)
      BY <2>2, <2>3, <2>5
    <3> QED
      BY <1>5, <1>6, <2>4, <3>1, <3>2
  <2>6. CASE file = "global"
    <3>1. memory'["global"] = WithLine(memory["global"], item)
      BY <1>6, <2>6, <2>7 DEF MemoryTypeOK, File
    <3>2. /\ Is' /\ ~memory'["global"].tail
          /\ memory'["global"].lines = memory["global"].lines \cup {item}
      <4>1. memory["global"] \in MemoryFile /\ item \in Item /\ ~memory["global"].tail
        BY <1>6, <2>7, NextLine DEF MemoryTypeOK, File
      <4> QED
        BY <3>1, <4>1, AppendFacts
    <3>3. IsLine(item.n)' /\ \A n : IsLine(n) => IsLine(n)'
      BY <3>2 DEF IsLine
    <3>4. ASSUME NEW n \in 1..Rules
          PROVE  IsLine(n)' \/ \E a \in Actor : n \in Pending(a)'
      <4>1. IsLine(n) \/ \E a \in Actor : n \in Pending(a)
        <5>1. item.n \in Pending(x)
          BY <2>2, <2>6
        <5>2. CASE Is
          BY <1>6, <5>2
        <5>3. CASE ~Is
          BY <1>6, <5>1, <5>3
        <5> QED
          BY <5>2, <5>3
      <4> QED
        BY <2>2, <2>3, <2>4, <2>6, <3>3, <4>1
    <3> QED
      BY <3>2, <3>4, Zenon
  <2> QED
    BY <2>1, <2>5, <2>6 DEF File
<1>3. ASSUME ~interrupted' PROVE Whole'
  <2>1. CASE UNCHANGED memoryVars
    <3>1. \A a \in Actor : Pending(a)' = Pending(a)
      BY <2>1 DEF Pending, memoryVars
    <3>2. memory' = memory /\ ~interrupted
      BY <1>3, <2>1 DEF memoryVars
    <3> QED
      BY <1>4, <1>5, <3>1, <3>2
  <2>2. ASSUME NEW x \in Actor, Adds(x) PROVE Whole'
    <3>1. /\ work[x] # <<>> /\ ~interrupted
          /\ memory' = [memory EXCEPT ![Head(work[x]).file] = WithLine(@, Head(work[x]).item)]
          /\ work' = [work EXCEPT ![x] = Tail(work[x])]
      BY <1>3, <2>2 DEF Adds, AddItem, Left
    <3>2. work'[x] = Tail(work[x]) /\ \A a \in Actor : a # x => work'[a] = work[a]
      BY <3>1 DEF MemoryTypeOK
    <3> QED
      BY <1>4, <1>6, <3>1, <3>2
  <2>3. ASSUME NEW x \in Actor, AddsInVain(x) PROVE Whole'
    <3>1. /\ work[x] # <<>> /\ ~interrupted
          /\ work'[x] = <<>> /\ \A a \in Actor : a # x => work'[a] = work[a]
      BY <1>3, <2>3 DEF AddsInVain, AddItemRaises, MemoryTypeOK
    <3> DEFINE f == Head(work[x]).file
    <3>2. CASE /\ \E file : memory' = [memory EXCEPT ![f] = file]
               /\ ~HasRules(work[x])
      <4>1. Pending(x) = {} /\ Pending(x)' = {}
        BY <3>1, <3>2, NoneAtHand DEF Pending
      <4>2. \A a \in Actor : Pending(a)' = Pending(a)
        BY <3>1, <4>1 DEF Pending
      <4>3. f # "global"
        BY <3>1, <4>1, HeadRule
      <4>4. memory'["global"] = memory["global"]
        BY <3>2, <4>3 DEF MemoryTypeOK, File
      <4> QED
        BY <1>4, <1>5, <3>1, <4>2, <4>4
    <3>3. CASE /\ memory' = [memory EXCEPT ![f] = WithLine(@, Head(work[x]).item)]
               /\ ~HasRules(Tail(work[x]))
      BY <1>4, <1>6, <3>1, <3>3
    <3> QED
      BY <1>3, <2>3, <3>2, <3>3 DEF AddsInVain, AddItemRaises, Left
  <2>4. ASSUME NEW x \in Actor, NEW lines \in Seq(Line), Open(x, lines),
               UNCHANGED memory, pc[x] # "ingest"
        PROVE  Whole'
    <3>1. work[x] = <<>> /\ Pending(x) = {}
      BY <2>4 DEF RuleInv, Pending
    <3>2. work'[x] = Seeds(x) \o lines /\ \A a \in Actor : a # x => work'[a] = work[a]
      BY <2>4 DEF Open, MemoryTypeOK
    <3>3. \A a \in Actor : a # x => Pending(a)' = Pending(a)
      BY <3>2 DEF Pending
    <3>4. Whole /\ \A n : IsLine(n)' = IsLine(n)
      BY <1>3, <1>4, <2>4 DEF Open, IsLine
    <3>5. CASE Is
      BY <2>4, <3>1, <3>3, <3>4, <3>5
    <3>6. CASE ~Is
      <4>1. Rules \in Nat
        BY BookkeepingAssumption
      <4> DEFINE s == [i \in 1..Rules |-> [file |-> "global", item |-> [n |-> i, run |-> NoRun, by |-> x]]]
      <4>2. Seeds(x) = s /\ s \in Seq(Line)
        BY <3>6, SeedsType DEF Seeds
      <4>3. Len(s) = Rules
        BY <4>1, <4>2
      <4>4. \A i \in 1..Rules : i \in DOMAIN (s \o lines) /\ (s \o lines)[i] = s[i]
        BY <2>4, <4>1, <4>2, <4>3
      <4>5. ASSUME NEW i \in 1..Rules
            PROVE  /\ i \in DOMAIN work'[x]
                   /\ work'[x][i].file = "global" /\ work'[x][i].item.n = i
        <5>1. i \in DOMAIN work'[x] /\ work'[x][i] = s[i]
          <6>1. work'[x] = s \o lines
            BY <3>2, <4>2, Zenon
          <6> HIDE DEF s
          <6> QED
            BY <4>4, <6>1
        <5>2. s[i].file = "global" /\ s[i].item.n = i
          OBVIOUS
        <5> QED
          BY <5>1, <5>2
      <4>6. 1..Rules \subseteq Pending(x)'
        BY <4>5 DEF Pending
      <4> QED
        BY <2>4, <3>3, <3>4, <3>6, <4>6
    <3> QED
      BY <3>5, <3>6
  <2>5. CASE Crash
    <3>1. ~interrupted /\ \A a \in Actor : ~HasRules(work[a]) /\ work'[a] = <<>>
      BY <1>3, <2>5 DEF Crash, MemoryCrash
    <3>2. \A a \in Actor : Pending(a)' = Pending(a)
      <4>1. \A a \in Actor : Pending(a) = {}
        BY <3>1, NoneAtHand
      <4>2. \A a \in Actor : Pending(a)' = {}
        BY <3>1 DEF Pending
      <4> QED
        BY <4>1, <4>2
    <3>3. \A a \in Actor : work[a] # <<>> => Head(work[a]).file # "global"
      BY <3>1, NoneAtHand, HeadRule
    <3>4. memory'["global"] = memory["global"]
      BY <2>5, <3>3 DEF Crash, MemoryCrash, File
    <3> QED
      BY <1>4, <1>5, <3>1, <3>2, <3>4
  <2>6. ASSUME NEW x \in Actor, Ingested(x) PROVE UNCHANGED memoryVars
    BY <2>6 DEF Ingested
  <2>7. ASSUME NEW r \in Run, Finalize(r) PROVE Whole'
    <3>1. r \in Actor
      BY BookkeepingAssumption
    <3>2. pc[r] = "finish" /\ Open(r, Ingestion(r, r)) /\ UNCHANGED memory
      BY <2>7 DEF Finalize, Moves
    <3>3. Ingestion(r, r) \in Seq(Line)
      BY <3>1, IngestionType
    <3> QED
      BY <2>4, <3>1, <3>2, <3>3
  <2>8. ASSUME NEW t \in Thread, OpenMemory(t) PROVE Whole'
    <3>1. t \in Actor /\ stored \subseteq Run
      BY BookkeepingAssumption DEF ControlTypeOK
    <3>2. pc[t] = "idle" /\ UNCHANGED memory
      BY <2>8 DEF OpenMemory, Moves
    <3>3. PICK lines \in Seq(Line) : Open(t, lines)
      <4>1. CASE Open(t, <<>>)
        <5>1. <<>> \in Seq(Line)
          OBVIOUS
        <5> QED
          BY <4>1, <5>1
      <4>2. ASSUME NEW r \in stored, Open(t, Ingestion(r, t))
            PROVE  \E lines \in Seq(Line) : Open(t, lines)
        BY <3>1, <4>2, IngestionType
      <4> QED
        BY <2>8, <4>1, <4>2 DEF OpenMemory
    <3> QED
      BY <2>4, <3>1, <3>2, <3>3
  <2>9. ASSUME NEW t \in Task, SyncStep(t) PROVE UNCHANGED memoryVars
    BY <2>9 DEF SyncStep, StartSync, Skip, AskProvider, AskGoogle, ProviderAnswers,
                ProviderRefuses, WriteFirst, WriteSecond, SyncDone
  <2>10. ASSUME NEW r \in Run, CallAnswered(r) \/ LookedUp(r) PROVE UNCHANGED memoryVars
    BY <2>10 DEF CallAnswered, LookedUp
  <2>11. Tomorrow \/ UNCHANGED vars => UNCHANGED memoryVars
    BY DEF Tomorrow, vars
  <2>12. Run \subseteq Actor /\ Thread \subseteq Actor
    BY BookkeepingAssumption
  <2> QED
    BY <2>1, <2>2, <2>3, <2>5, <2>6, <2>7, <2>8, <2>9, <2>10, <2>11, <2>12
       DEF Next, RunStep, ThreadStep
<1> QED
  BY <1>2, <1>3 DEF RuleInv

\* However many first requests seed the global file at once, no rule is left
\* out when they are through, unless one of them stopped before its last rule.
THEOREM RulesAreComplete == Spec => []CoreRulesComplete
<1>1. Init => RuleInv
  <2> SUFFICES ASSUME Init PROVE RuleInv
    OBVIOUS
  <2>1. \A a \in Actor : Pending(a) = {}
    BY DEF Init, MemoryInit, Pending
  <2> QED
    BY <2>1 DEF Init, MemoryInit, RuleInv, File
<1>2. RuleInv => CoreRulesComplete
  <2> SUFFICES ASSUME RuleInv, memory["global"].made, ~interrupted,
                      \A a \in Actor : ~HasRules(work[a]),
                      NEW n \in 1..Rules
               PROVE  \E item \in memory["global"].lines : item.n = n
    BY DEF CoreRulesComplete
  <2>1. \A a \in Actor : Pending(a) = {}
    BY NoneAtHand
  <2> QED
    BY <2>1 DEF RuleInv, IsLine
<1> QED
  BY <1>1, <1>2, TypeCorrect, RuleStep, PTL DEF Spec
=============================================================================

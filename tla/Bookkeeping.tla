---------------------------- MODULE Bookkeeping ----------------------------
(***************************************************************************)
(* What happens around the last call of a live run, to OpenRouter, and     *)
(* after it: the usage of the call is stored and its generation is looked  *)
(* up, the run's record is saved, its memory is ingested and the record    *)
(* saved again, and the official usage is synced before the client has its *)
(* answer.  Other clients sync by hand and read or ingest memory in        *)
(* threads.                                                                *)
(*                                                                         *)
(* Runs and syncs by hand share the event loop and give it up only while   *)
(* they wait for a provider; threads run at any time; the server may die.  *)
(* What a disk that refuses the usage row or the record does to the run is *)
(* in RunEngine.                                                           *)
(***************************************************************************)
EXTENDS MemoryStore, UsageSync

CONSTANTS
    Sync,        \* POST /api/official-usage/sync
    Thread,      \* the requests of api/memory.py
    Nobody,      \* nobody holds the event loop
    Scenarios,   \* who takes part: the others of these never come
    IOFaults,    \* TRUE: an append to a memory file may raise
    MaxCrashes   \* bound on the crashes

ASSUME BookkeepingAssumption ==
    /\ Actor = Run \cup Thread
    /\ Nobody \notin Run \cup Sync \cup Thread /\ NoRun \notin Run
    /\ Thread \cap (Run \cup Sync) = {}
    /\ Enabled \subseteq Provider
    /\ Rules \in Nat \ {0} /\ Kinds \in Nat \ {0} /\ Results \in Nat \ {0}
    /\ Window \in Ranges /\ Window \in Nat /\ Ranges \subseteq 1..Window
    /\ MaxDay \in Nat /\ MaxCrashes \in Nat
    /\ IOFaults \in BOOLEAN

Task == Run \cup Sync

VARIABLES
    pc,          \* Task \cup Thread -> where it stands
    at,          \* Task -> the provider its sync is at, in Order
    range,       \* Task -> the range its sync is for
    answer,      \* Task -> the rows of that provider's answer
    loop,        \* who holds the event loop
    generated,   \* runs whose last answer has a generation id
    stored,      \* runs that have a record
    reported,    \* memory ids in a record or in an answer to an ingestion
    crashes      \* how often the server died

controls == <<pc, at, range, answer, loop, generated, stored, reported, crashes>>
vars == <<memoryVars, syncVars, controls>>

Pc == {"idle", "lookup", "finish", "ingest", "next", "wait", "records", "status",
       "done", "failed", "lost"}
AtRest == {"idle", "done", "failed", "lost"}

\* A row of records.json: its id, and the day and the result it is about.
Row == [id : Provider \X (Nat \cup Run) \X Nat, of : Nat \X Nat]

SyncTypeOK ==
    /\ records \in SUBSET Row /\ IsFiniteSet(records)
    /\ \A p \in DOMAIN status : /\ p \in Provider
                                /\ status[p].outcome \in {"ok", "error", "disabled"}
                                /\ status[p].day \in 0..day
    /\ day \in 0..MaxDay
    /\ tornRecords \in BOOLEAN

ControlTypeOK ==
    /\ pc \in [Task \cup Thread -> Pc]
    /\ at \in [Task -> 1..(Len(Order) + 1)]
    /\ range \in [Task -> Ranges]
    /\ answer \in [Task -> SUBSET Row] /\ \A t \in Task : IsFiniteSet(answer[t])
    /\ loop \in Task \cup {Nobody}
    /\ generated \subseteq Run /\ stored \subseteq Run
    /\ reported \subseteq Item
    /\ crashes \in 0..MaxCrashes

\* Who holds the loop is neither at rest nor waiting, and rows are at hand
\* only between an answer and its second write, at a provider of the order.
LoopTypeOK ==
    /\ loop # Nobody => pc[loop] \notin AtRest \cup {"lookup", "wait"}
    /\ \A t \in Task : answer[t] # {} => loop = t /\ pc[t] \in {"records", "status"}
    /\ \A t \in Task : pc[t] \in {"wait", "records", "status"} => at[t] <= Len(Order)

TypeOK == MemoryTypeOK /\ SyncTypeOK /\ ControlTypeOK /\ LoopTypeOK

Init ==
    /\ MemoryInit /\ SyncInit
    /\ \E present \in Scenarios :
          pc = [x \in Task \cup Thread |-> IF x \in present THEN "idle" ELSE "done"]
    /\ at = [t \in Task |-> 1]
    /\ range = [t \in Task |-> Window]
    /\ answer = [t \in Task |-> {}]
    /\ loop = Nobody
    /\ generated = {} /\ stored = {} /\ reported = {}
    /\ crashes = 0

Moves(x, from, to) == pc[x] = from /\ pc' = [pc EXCEPT ![x] = to]

\* A task has the event loop, and keeps it until it waits or ends.
Has(t) == loop \in {Nobody, t}
Keeps(t) == loop' = t
Releases == loop' = Nobody

----------------------------------------------------------------------------
(* The last call of a live run, and its record. *)

\* generate_with_provider: the answer's usage is stored; an answer with a
\* generation id is looked up.
CallAnswered(r) ==
    /\ Has(r)
    /\ SaveRecords({CallRow(r, 1)})
    /\ \/ Moves(r, "idle", "lookup") /\ Releases /\ generated' = generated \cup {r}
       \/ Moves(r, "idle", "finish") /\ Keeps(r) /\ UNCHANGED generated
    /\ UNCHANGED <<memoryVars, at, range, answer, stored, reported, crashes>>

\* Mutant: a lookup that fails leaves no row.
LookedUpOrNot(r) ==
    /\ Has(r) /\ Moves(r, "lookup", "finish") /\ Keeps(r)
    /\ \E rows \in {{}, {CallRow(r, 2)}} : SaveRecords(rows)
    /\ UNCHANGED <<memoryVars, at, range, answer, generated, stored, reported, crashes>>

\* sync_openrouter_generation: the lookup's row, synced or pending.
LookedUp(r) ==
    /\ Has(r) /\ Moves(r, "lookup", "finish") /\ Keeps(r)
    /\ SaveRecords({CallRow(r, 2)})
    /\ UNCHANGED <<memoryVars, at, range, answer, generated, stored, reported, crashes>>

\* _finalize_run saves the record and begins to ingest it.
Finalize(r) ==
    /\ Has(r) /\ Moves(r, "finish", "ingest") /\ Keeps(r)
    /\ stored' = stored \cup {r}
    /\ Open(r, Ingestion(r, r))
    /\ UNCHANGED <<memory, syncVars, at, range, answer, generated, reported, crashes>>

----------------------------------------------------------------------------
(* Memory. *)

\* GET of api/memory.py: MemoryStore() and nothing to add; POST ingest of a
\* run that has a record.
OpenMemory(t) ==
    /\ Moves(t, "idle", "ingest")
    /\ \/ Open(t, <<>>)
       \/ \E r \in stored : Open(t, Ingestion(r, t))
    /\ UNCHANGED <<memory, syncVars, at, range, answer, loop, generated, stored, reported, crashes>>

Adds(x) ==
    /\ pc[x] = "ingest"
    /\ x \in Task => Has(x)
    /\ AddItem(x)
    /\ UNCHANGED <<syncVars, controls>>

\* The client has an error; the record of a run stays as it was.
AddsInVain(x) ==
    /\ IOFaults
    /\ Moves(x, "ingest", "failed")
    /\ AddItemRaises(x)
    /\ loop' = IF loop = x THEN Nobody ELSE loop
    /\ UNCHANGED <<syncVars, at, range, answer, generated, stored, reported, crashes>>

\* An ingestion names what it has added: in its answer, or in the record that
\* _finalize_run saves again before the sync begins.
Ingested(x) ==
    /\ work[x] = <<>>
    /\ reported' = reported \cup inserted[x]
    /\ \/ x \in Thread /\ Moves(x, "ingest", "done") /\ UNCHANGED loop
       \/ x \in Run /\ Has(x) /\ CooldownElapsed /\ Moves(x, "ingest", "next") /\ Keeps(x)
       \/ x \in Run /\ Has(x) /\ ~CooldownElapsed /\ Moves(x, "ingest", "done") /\ Releases
    /\ UNCHANGED <<memoryVars, syncVars, at, range, answer, generated, stored, crashes>>

----------------------------------------------------------------------------
(* sync_all. *)

StartSync(s) ==
    /\ s \in Sync /\ Has(s) /\ Moves(s, "idle", "next") /\ Keeps(s)
    /\ \E w \in Ranges : range' = [range EXCEPT ![s] = w]
    /\ UNCHANGED <<memoryVars, syncVars, at, answer, generated, stored, reported, crashes>>

\* Mutant: a provider that is not configured is tried again.
SkipForEver(t) ==
    /\ Has(t) /\ Moves(t, "next", "next") /\ Keeps(t)
    /\ at[t] <= Len(Order) /\ Order[at[t]] \notin Enabled
    /\ Mark(Order[at[t]], "disabled", {})
    /\ UNCHANGED <<memoryVars, at, range, answer, generated, stored, reported, crashes>>

\* A provider that is not configured has its status written at once.
Skip(t) ==
    /\ Has(t) /\ Moves(t, "next", "next") /\ Keeps(t)
    /\ at[t] <= Len(Order) /\ Order[at[t]] \notin Enabled
    /\ Mark(Order[at[t]], "disabled", {})
    /\ at' = [at EXCEPT ![t] = @ + 1]
    /\ UNCHANGED <<memoryVars, range, answer, generated, stored, reported, crashes>>

AskProvider(t) ==
    /\ Has(t) /\ Moves(t, "next", "wait") /\ Releases
    /\ at[t] <= Len(Order) /\ Order[at[t]] \in Enabled /\ Waits(Order[at[t]])
    /\ UNCHANGED <<memoryVars, syncVars, at, range, answer, generated, stored, reported, crashes>>

\* The tables of the billing export are found, which the status says, and
\* queried.
AskGoogle(t) ==
    /\ Has(t) /\ Moves(t, "next", SyncWrites[1]) /\ Keeps(t)
    /\ at[t] <= Len(Order) /\ Order[at[t]] \in Enabled /\ ~Waits(Order[at[t]])
    /\ Mark(Order[at[t]], "ok", {})
    /\ \E rows \in Answers(Order[at[t]], range[t]) : answer' = [answer EXCEPT ![t] = rows]
    /\ UNCHANGED <<memoryVars, at, range, generated, stored, reported, crashes>>

ProviderAnswers(t) ==
    /\ Has(t) /\ Moves(t, "wait", SyncWrites[1]) /\ Keeps(t)
    /\ \E rows \in Answers(Order[at[t]], range[t]) : answer' = [answer EXCEPT ![t] = rows]
    /\ UNCHANGED <<memoryVars, syncVars, at, range, generated, stored, reported, crashes>>

\* An error, a refusal or the timeout, or of Google no table or no result: the
\* rows stay, the status says so.
ProviderRefuses(t) ==
    /\ Has(t) /\ pc[t] \in {"next", "wait", SyncWrites[1]} /\ pc' = [pc EXCEPT ![t] = "next"]
    /\ at[t] <= Len(Order) /\ Order[at[t]] \in Enabled
    /\ pc[t] # "wait" => ~Waits(Order[at[t]])
    /\ Keeps(t)
    /\ Mark(Order[at[t]], "error", {})
    /\ answer' = [answer EXCEPT ![t] = {}]
    /\ at' = [at EXCEPT ![t] = @ + 1]
    /\ UNCHANGED <<memoryVars, range, generated, stored, reported, crashes>>

WriteFirst(t) ==
    /\ Has(t) /\ Moves(t, SyncWrites[1], SyncWrites[2]) /\ Keeps(t)
    /\ SyncWrite(Order[at[t]], SyncWrites[1], answer[t])
    /\ UNCHANGED <<memoryVars, at, range, answer, generated, stored, reported, crashes>>

WriteSecond(t) ==
    /\ Has(t) /\ Moves(t, SyncWrites[2], "next") /\ Keeps(t)
    /\ SyncWrite(Order[at[t]], SyncWrites[2], answer[t])
    /\ answer' = [answer EXCEPT ![t] = {}]
    /\ at' = [at EXCEPT ![t] = @ + 1]
    /\ UNCHANGED <<memoryVars, range, generated, stored, reported, crashes>>

SyncDone(t) ==
    /\ Has(t) /\ at[t] > Len(Order) /\ Moves(t, "next", "done") /\ Releases
    /\ UNCHANGED <<memoryVars, syncVars, at, range, answer, generated, stored, reported, crashes>>

----------------------------------------------------------------------------
\* The server dies and comes back; nothing is repaired.
Crash ==
    /\ crashes < MaxCrashes /\ \E x \in Task \cup Thread : pc[x] \notin AtRest
    /\ MemoryCrash /\ SyncCrash
    /\ pc' = [x \in Task \cup Thread |-> IF pc[x] \in AtRest THEN pc[x] ELSE "lost"]
    /\ Releases
    /\ answer' = [t \in Task |-> {}]
    /\ crashes' = crashes + 1
    /\ UNCHANGED <<at, range, generated, stored, reported>>

Tomorrow == DayPasses /\ UNCHANGED <<memoryVars, controls>>

RunStep(r) == CallAnswered(r) \/ LookedUp(r) \/ Finalize(r) \/ Adds(r) \/ Ingested(r)
SyncStep(t) ==
    \/ StartSync(t) \/ Skip(t) \/ AskProvider(t) \/ AskGoogle(t) \/ ProviderAnswers(t)
    \/ ProviderRefuses(t) \/ WriteFirst(t) \/ WriteSecond(t) \/ SyncDone(t)
ThreadStep(t) == Adds(t) \/ Ingested(t)

Next ==
    \/ \E r \in Run : RunStep(r) \/ AddsInVain(r)
    \/ \E t \in Task : SyncStep(t)
    \/ \E t \in Thread : OpenMemory(t) \/ ThreadStep(t) \/ AddsInVain(t)
    \/ Crash
    \/ Tomorrow

Spec == Init /\ [][Next]_vars

\* The loop goes on with whoever holds it; httpx gives up after 30 s, and the
\* lookup answers or gives up in the same way.
Goes(t) == pc[t] \notin AtRest /\ (SyncStep(t) \/ (t \in Run /\ RunStep(t)))
FairSpec ==
    /\ Spec
    /\ \A t \in Task : SF_vars(Goes(t))
    /\ \A t \in Thread : WF_vars(ThreadStep(t))

----------------------------------------------------------------------------
(* Properties. *)

\* A memory item that a record or an answer names can be read back, whoever
\* else appends, unless it was glued to a line that a crash or a full disk
\* had cut short.
MemoryKeepsItems ==
    /\ reported \subseteq memory["project"].lines \cup memory["project"].swallowed
    /\ ~cuts => \A f \in File : memory[f].swallowed = {}

\* Once the global file is there and nobody is adding rules to it, it has all
\* core rules, unless a seeding was interrupted: several first requests may seed
\* it twice, or find it half made, but never leave out a rule.  A seeding that
\* stops before its last rule, within an append or between two, by a crash or
\* an append or index that raises, is not made good: the file is there.
CoreRulesComplete ==
    /\ memory["global"].made /\ ~interrupted
    /\ \A a \in Actor : ~HasRules(work[a])
    => \A n \in 1..Rules : \E item \in memory["global"].lines : item.n = n

\* A row of records.json is there until the file is torn: no sync, of any
\* provider and however it overlaps with a run, loses what a run was charged.
RecordsAreKept == kept \subseteq {r.id : r \in records}

\* Whoever finds a live run's record finds what its last call used and, when
\* the answer named a generation, its lookup, found or still pending, unless
\* records.json was torn: both are stored before the record is.
StoredRunsHaveUsage ==
    ~tornRecords =>
        \A r \in stored :
            /\ \E q \in records : q.id = CallRow(r, 1).id
            /\ r \in generated => \E q \in records : q.id = CallRow(r, 2).id

\* The rows that a status says were synced are there, also when the server
\* died while they were written, if records.json is whole.
OkStatusHasRows ==
    \A p \in DOMAIN status :
        ~tornRecords => status[p].rows \subseteq {r.id : r \in records}

\* The rows of OpenAI's bill, which are summed up, have each of its results
\* once.
OfficialTotalsCountOnce ==
    \A r, q \in {row \in records : row.id[1] = "openai"} : r.of = q.of => r = q

\* Who waits for a provider or adds to memory comes to an end: no run waits
\* for a sync for ever.
TasksEnd ==
    \A x \in Task \cup Thread : (pc[x] \notin AtRest) ~> (pc[x] \in AtRest)
=============================================================================

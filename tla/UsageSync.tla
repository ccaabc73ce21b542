----------------------------- MODULE UsageSync -----------------------------
(***************************************************************************)
(* The usage records of the providers (records.json) and the state of the  *)
(* official syncs (status.json).  Both files are read, changed and written *)
(* as a whole, on the event loop and without a wait in between; the syncs  *)
(* wait for the answers of OpenAI, OpenRouter and Exa.  A file that was    *)
(* torn by a crash reads as an empty one.                                  *)
(*                                                                         *)
(* Time is counted in days: a sync's status is younger than the cooldown   *)
(* on the day on which it was written and older afterwards, and the range  *)
(* of the bill moves on by a day.  The range "all", whose answer OpenAI    *)
(* cuts at 31 days, is left out.                                           *)
(***************************************************************************)
EXTENDS Naturals, Sequences, FiniteSets

CONSTANTS
    Enabled,     \* the providers whose official sync is configured
    Ranges,      \* the ranges that a client may ask for, in days
    Window,      \* the range when none is named
    Results,     \* how many results a day of OpenAI's bill may have
    MaxDay       \* bound on the days that pass

VARIABLES
    records,     \* records.json
    status,      \* status.json
    day,         \* today
    kept,        \* the ids saved since records.json was last torn
    tornRecords  \* TRUE once records.json was torn

syncVars == <<records, status, day, kept, tornRecords>>

\* sync_all, in its order.  Google is queried without giving up the loop.
Order == <<"openai", "openrouter", "google", "exa">>
Provider == {"openai", "openrouter", "google", "exa"}
Waits(provider) == provider # "google"

NoStatus == <<>>

SyncInit ==
    /\ records = {} /\ kept = {}
    /\ status = NoStatus
    /\ day = 0 /\ tornRecords = FALSE

\* A number that no row of the provider has: uuid4, or the time of the sync.
New(provider) == Cardinality({r \in records : r.id[1] = provider})

\* The results that OpenAI may have for the last w days: <<day, which>>.
Bill(w) == ((day + Window - w)..(day + Window - 1)) \X (1..Results)

\* len(records): how many results of the answer, of whatever day, come first.
Place(results, r) ==
    Cardinality({q \in results : q[1] < r[1] \/ (q[1] = r[1] /\ q[2] < r[2])})

\* _normalize_cost_records: a row for each result, whose id has the bounds of
\* its day and its place in the answer.  The list of token counts, numbered
\* in the same way, is left out.
OpenAIRows(results) ==
    {[id |-> <<"openai", r[1], Place(results, r)>>, of |-> r] : r \in results}

\* What a provider may answer for the last w days: any of OpenAI's results, so
\* that two answers of one day may differ; new ids for OpenRouter's balance and
\* for Google's rows, if it has any; for what an Exa key cost an id of the range.
Answers(provider, w) ==
    CASE provider = "openai" -> {OpenAIRows(results) : results \in SUBSET Bill(w)}
      [] provider = "google" -> {{}, {[id |-> <<"google", New("google"), 0>>, of |-> <<day, 0>>]}}
      [] provider = "openrouter" -> {{[id |-> <<"openrouter", New("openrouter"), 0>>, of |-> <<day, 0>>]}}
      [] provider = "exa" -> {{[id |-> <<"exa", w, 0>>, of |-> <<day, 0>>]}}

\* Mutant: the new rows replace all rows of their provider.
MergedByProvider(old, new) ==
    {r \in old : \A n \in new : r.id[1] # n.id[1]} \cup new

\* by_id of save_records: a row replaces the row with its id.
Merged(old, new) == {r \in old : \A n \in new : r.id # n.id} \cup new

\* save_records.
SaveRecords(rows) ==
    /\ records' = Merged(records, rows)
    /\ kept' = kept \cup {r.id : r \in rows}
    /\ UNCHANGED <<status, day, tornRecords>>

\* What a call of a run leaves: the usage of its response (1) and the row of
\* its generation lookup (2), found or pending.
CallRow(run, source) == [id |-> <<"openrouter", run, source>>, of |-> <<0, 0>>]

\* Mutant: the time of the status is that of another zone.
MarkAhead(provider, outcome, rows) ==
    /\ status' = [p \in DOMAIN status \cup {provider} |->
                     IF p = provider THEN [outcome |-> outcome, day |-> day + 1, rows |-> rows]
                     ELSE status[p]]
    /\ UNCHANGED <<records, day, kept, tornRecords>>

\* update_status: last_synced_at is now whatever the outcome, and the message
\* says how many rows were synced.
Mark(provider, outcome, rows) ==
    /\ status' = [p \in DOMAIN status \cup {provider} |->
                     IF p = provider THEN [outcome |-> outcome, day |-> day, rows |-> rows]
                     ELSE status[p]]
    /\ UNCHANGED <<records, day, kept, tornRecords>>

\* _cooldown_elapsed.
CooldownElapsed == \A p \in DOMAIN status : status[p].day # day

\* Mutant: the status is written before the rows it speaks of.
StatusFirst == <<"status", "records">>

\* The order of the writes when an answer has come.
SyncWrites == <<"records", "status">>

\* One of the two writes for an answer.
SyncWrite(provider, what, rows) ==
    \/ what = "records" /\ SaveRecords(rows)
    \/ what = "status" /\ Mark(provider, "ok", {r.id : r \in rows})

DayPasses ==
    /\ day < MaxDay
    /\ day' = day + 1
    /\ UNCHANGED <<records, status, kept, tornRecords>>

\* The process dies and may leave one of the files torn.
SyncCrash ==
    /\ \/ UNCHANGED <<records, status, kept, tornRecords>>
       \/ records' = {} /\ kept' = {} /\ tornRecords' = TRUE /\ UNCHANGED status
       \/ status' = NoStatus /\ UNCHANGED <<records, kept, tornRecords>>
    /\ UNCHANGED day
=============================================================================

------------------------------ MODULE Approvals ------------------------------
(***************************************************************************)
(* The approval cards: POST /api/runs asks for them, people decide them,   *)
(* and a later POST that names approved cards starts the run.              *)
(*                                                                         *)
(* A card is one JSON file of the approval folder.  start_run works on the *)
(* event loop and awaits nothing until its run executes, so two attempts   *)
(* never interleave; decide_approval is a plain function that FastAPI runs *)
(* in a thread, so decisions interleave with attempts and with one another *)
(* at every file operation.  write_text truncates the file, then writes.   *)
(***************************************************************************)
EXTENDS FiniteSets, Naturals, Functions

CONSTANTS
    Attempt,     \* POSTs to /api/runs
    PayloadOf,   \* Attempt -> the run it asks for
    Decision,    \* POSTs to /api/approvals/{id}/decision
    MaxCards,    \* bound: cards ever created
    MaxIds,      \* bound: approval ids of one POST
    Subject,     \* pairs of command and project
    Crashes,     \* TRUE: the server may die and be started again
    Nobody       \* no attempt

\* Approval ids, numbered as they are created.
Card == 1..MaxCards

\* The keyword rules of risk_policy, and those whose actions v1 never runs.
KeywordType ==
    {"package_install", "deployment", "external_api", "web_search", "customer_messaging",
     "social_posting", "payment_integration", "sensitive_file", "dangerous_command",
     "large_overwrite", "human_approval_marker", "unknown_model"}
Blocked == KeywordType \ {"web_search", "human_approval_marker", "unknown_model"}
FlagType ==
    {"live_mode", "expensive_ceo_model", "run_cost_limit", "live_coding_model",
     "real_coding_repair_attempt"}
Type == KeywordType \cup FlagType

\* Of the payload: what it runs, its flags, and the keyword rules whose words
\* its command contains, some of them with a negative phrase beside them.
Payload == [subject : Subject, live : BOOLEAN, ceo : BOOLEAN, over_limit : BOOLEAN,
            coding : BOOLEAN, repair : BOOLEAN,
            words : SUBSET KeywordType, negated : SUBSET KeywordType]

\* evaluate_approval_needs, one request of each type (_dedupe).
Needs(payload) ==
    {t \in FlagType :
        \/ t = "live_mode" /\ payload.live
        \/ t = "expensive_ceo_model" /\ payload.ceo
        \/ t = "run_cost_limit" /\ payload.over_limit
        \/ t = "live_coding_model" /\ payload.coding
        \/ t = "real_coding_repair_attempt" /\ payload.live /\ payload.repair}
    \cup (payload.words \ payload.negated)

ASSUME ApprovalsAssumption ==
    /\ \A a \in Attempt : PayloadOf[a] \in Payload
    /\ MaxCards \in Nat /\ MaxIds \in Nat
    /\ Nobody \notin Attempt
    /\ Crashes \in BOOLEAN

VARIABLES
    file,      \* Card -> what its file holds
    loop,      \* the attempt that owns the event loop, or Nobody
    attempt,   \* Attempt -> its progress
    decision,  \* Decision -> its progress
    saved      \* Card -> the decided forms that were ever saved of it

vars == <<file, loop, attempt, decision, saved>>

NoFile == [status |-> "none"]
Torn == [status |-> "torn"]
Verdict == {"approved", "rejected"}
CardFile == [status : {"pending"} \cup Verdict, type : Type, subject : Subject]

\* refused: an HTTP error; lost: the server died.
Answer == {"started", "approval_required", "refused", "lost"}
AttemptState ==
    [pc : {"idle", "reading"} \cup Answer,
     ids : SUBSET Card,       \* approval_ids
     left : SUBSET Card,      \* those still to be read
     types : SUBSET Type]     \* types of the valid ones
DecisionState ==
    [pc : {"idle", "read", "truncated", "answered", "refused", "lost"},
     card : Card \cup {0}, verdict : Verdict, copy : CardFile \cup {NoFile}]

TypeOK ==
    /\ file \in [Card -> CardFile \cup {NoFile, Torn}]
    /\ loop \in Attempt \cup {Nobody}
    /\ attempt \in [Attempt -> AttemptState]
    /\ decision \in [Decision -> DecisionState]
    /\ saved \in [Card -> SUBSET CardFile]

Init ==
    /\ file = [c \in Card |-> NoFile]
    /\ loop = Nobody
    /\ attempt = [a \in Attempt |-> [pc |-> "idle", ids |-> {}, left |-> {}, types |-> {}]]
    /\ decision = [d \in Decision |->
           [pc |-> "idle", card |-> 0, verdict |-> "rejected", copy |-> NoFile]]
    /\ saved = [c \in Card |-> {}]

----------------------------------------------------------------------------
(* POST /api/runs. *)

\* An answered attempt keeps its ids only when they started a run.
Answers(a, answer) ==
    /\ attempt' = [attempt EXCEPT ![a] =
           [pc |-> answer, ids |-> IF answer = "started" THEN @.ids ELSE {},
            left |-> {}, types |-> {}]]
    /\ loop' = Nobody

\* require_or_create: nothing to approve, or the named cards are looked up.
Post(a) ==
    /\ attempt[a].pc = "idle"
    /\ loop = Nobody
    /\ \/ /\ Needs(PayloadOf[a]) = {}
          /\ Answers(a, "started")
       \/ /\ Needs(PayloadOf[a]) # {}
          /\ \E ids \in {S \in SUBSET Card : Cardinality(S) <= MaxIds} :
                attempt' = [attempt EXCEPT ![a] =
                    [pc |-> "reading", ids |-> ids, left |-> ids, types |-> {}]]
          /\ loop' = a
    /\ UNCHANGED <<file, decision, saved>>

\* Mutant of Matches: only a pending card is turned away.
MatchesUnlessPending(card, a) ==
    card.status # "pending" /\ card.subject = PayloadOf[a].subject

Matches(card, a) ==
    card.status = "approved" /\ card.subject = PayloadOf[a].subject

\* _validated_approvals_by_type reads the next card; a wrong one ends it.
ReadCard(a) ==
    /\ attempt[a].pc = "reading"
    /\ \E c \in attempt[a].left :
        \/ /\ ~(file[c] \in CardFile /\ Matches(file[c], a))
           /\ Answers(a, "refused")
        \/ /\ file[c] \in CardFile
           /\ Matches(file[c], a)
           /\ attempt' = [attempt EXCEPT ![a].left = @ \ {c}, ![a].types = @ \cup {file[c].type}]
           /\ UNCHANGED loop
    /\ UNCHANGED <<file, decision, saved>>

Missing(a) == Needs(PayloadOf[a]) \ attempt[a].types

\* Mutant of StartOrBlock: the block on actions v1 does not execute is gone.
StartUnblocked(a) ==
    /\ attempt[a].pc = "reading" /\ attempt[a].left = {}
    /\ Missing(a) = {}
    /\ Answers(a, "started")
    /\ UNCHANGED <<file, decision, saved>>

\* Everything needed is approved: the run starts, unless v1 does not execute
\* what one of the cards approves.
StartOrBlock(a) ==
    /\ attempt[a].pc = "reading" /\ attempt[a].left = {}
    /\ Missing(a) = {}
    /\ Answers(a, IF attempt[a].types \cap Blocked = {} THEN "started" ELSE "refused")
    /\ UNCHANGED <<file, decision, saved>>

\* Mutant of AskForApproval: ids are numbered afresh for each attempt, so an
\* earlier attempt's cards are written over.
AskWithReusedIds(a) ==
    /\ attempt[a].pc = "reading" /\ attempt[a].left = {}
    /\ Missing(a) # {}
    /\ LET new == 1..Cardinality(Missing(a)) IN
       /\ new \subseteq Card
       /\ \E typeOf \in Bijection(new, Missing(a)) :
             file' = [c \in Card |->
                 IF c \in new
                 THEN [status |-> "pending", type |-> typeOf[c],
                       subject |-> PayloadOf[a].subject]
                 ELSE file[c]]
    /\ Answers(a, "approval_required")
    /\ UNCHANGED <<decision, saved>>

\* Something is missing: create_many writes a card for each missing type.  A
\* new card's id is known to nobody before the answer.
AskForApproval(a) ==
    /\ attempt[a].pc = "reading" /\ attempt[a].left = {}
    /\ Missing(a) # {}
    /\ LET used == Cardinality({c \in Card : file[c] # NoFile})
           new == (used + 1)..(used + Cardinality(Missing(a)))
       IN
       /\ new \subseteq Card
       /\ \E typeOf \in Bijection(new, Missing(a)) :
             file' = [c \in Card |->
                 IF c \in new
                 THEN [status |-> "pending", type |-> typeOf[c],
                       subject |-> PayloadOf[a].subject]
                 ELSE file[c]]
    /\ Answers(a, "approval_required")
    /\ UNCHANGED <<decision, saved>>

----------------------------------------------------------------------------
(* POST /api/approvals/{id}/decision. *)

\* Mutant of ReadForDecision: the card is opened for writing before its status
\* is looked at.
ReadTruncating(d) ==
    /\ decision[d].pc = "idle"
    /\ \E c \in Card, verdict \in Verdict :
        /\ file[c] \in CardFile
        /\ file' = [file EXCEPT ![c] = Torn]
        /\ decision' = [decision EXCEPT ![d] =
               [pc |-> IF file[c].status = "pending" THEN "truncated" ELSE "refused",
                card |-> c, verdict |-> verdict, copy |-> file[c]]]
    /\ UNCHANGED <<loop, attempt, saved>>

\* decide: the card is read and must be pending.
ReadForDecision(d) ==
    /\ decision[d].pc = "idle"
    /\ \E c \in Card, verdict \in Verdict :
        \/ file[c].status # "pending" /\ decision' = [decision EXCEPT ![d].pc = "refused"]
        \/ /\ file[c].status = "pending"
           /\ decision' = [decision EXCEPT ![d] =
                  [pc |-> "read", card |-> c, verdict |-> verdict, copy |-> file[c]]]
    /\ UNCHANGED <<file, loop, attempt, saved>>

\* save: the file is truncated, then written from the copy.
Truncate(d) ==
    /\ decision[d].pc = "read"
    /\ file' = [file EXCEPT ![decision[d].card] = Torn]
    /\ decision' = [decision EXCEPT ![d].pc = "truncated"]
    /\ UNCHANGED <<loop, attempt, saved>>

\* Mutant of Save: the decision is saved without the card it decides.
SaveVerdictOnly(d) ==
    /\ decision[d].pc = "truncated"
    /\ LET updated == [status |-> decision[d].verdict] IN
       /\ file' = [file EXCEPT ![decision[d].card] = updated]
       /\ saved' = [saved EXCEPT ![decision[d].card] = @ \cup {updated}]
    /\ decision' = [decision EXCEPT ![d].pc = "answered"]
    /\ UNCHANGED <<loop, attempt>>

Save(d) ==
    /\ decision[d].pc = "truncated"
    /\ LET updated == [decision[d].copy EXCEPT !.status = decision[d].verdict] IN
       /\ file' = [file EXCEPT ![decision[d].card] = updated]
       /\ saved' = [saved EXCEPT ![decision[d].card] = @ \cup {updated}]
    /\ decision' = [decision EXCEPT ![d].pc = "answered"]
    /\ UNCHANGED <<loop, attempt>>

\* The server dies and comes back: the files are as they were left, whoever
\* waited for an answer has none.
Crash ==
    /\ Crashes
    /\ attempt' = [a \in Attempt |->
           IF attempt[a].pc = "reading"
           THEN [pc |-> "lost", ids |-> {}, left |-> {}, types |-> {}] ELSE attempt[a]]
    /\ decision' = [d \in Decision |->
           IF decision[d].pc \in {"read", "truncated"}
           THEN [decision[d] EXCEPT !.pc = "lost"] ELSE decision[d]]
    /\ loop' = Nobody
    /\ UNCHANGED <<file, saved>>

Quiet ==
    /\ \A a \in Attempt : attempt[a].pc \in Answer
    /\ \A d \in Decision : decision[d].pc \notin {"idle", "read", "truncated"}
    /\ UNCHANGED vars

AttemptStep(a) == ReadCard(a) \/ StartOrBlock(a) \/ AskForApproval(a)
DecisionStep(d) == Truncate(d) \/ Save(d)

Next ==
    \/ \E a \in Attempt : Post(a) \/ AttemptStep(a)
    \/ \E d \in Decision : ReadForDecision(d) \/ DecisionStep(d)
    \/ Crash
    \/ Quiet

Spec == Init /\ [][Next]_vars

----------------------------------------------------------------------------
(* Properties. *)

\* A rejected card is never of use: no run starts on the strength of ids one
\* of which has only ever been rejected (even a card the run does not need).
RejectedCardsStopRuns ==
    \A a \in Attempt : attempt[a].pc = "started" =>
        \A c \in attempt[a].ids : \E card \in saved[c] : card.status = "approved"

\* A card's decision is on disk, and nothing else: whenever no decision is
\* between truncating and writing it, and no crash cut one short, the file
\* holds a verdict somebody gave, or is pending because nobody gave one.
VerdictsAreKept ==
    \A c \in Card : file[c] \in CardFile =>
        /\ file[c].status = "pending" => saved[c] = {}
        /\ file[c].status \in Verdict => file[c] \in saved[c]

\* An unreadable card is one whose decision is being written, or one whose
\* writer died: then it stays unreadable and no run can use it.
TornOnlyByWriters ==
    \A c \in Card : file[c] = Torn =>
        \E d \in Decision : decision[d].card = c /\ decision[d].pc \in {"truncated", "lost"}

\* "Approval is already approved/rejected": a decided card is not decided
\* again the other way.
DecidedOnce == \A c \in Card : Cardinality(saved[c]) <= 1

\* "... for this run": an approval lets one run start.
ApprovalIsForOneRun ==
    \A a, b \in Attempt :
        /\ a # b
        /\ attempt[a].pc = "started" /\ attempt[b].pc = "started"
        => attempt[a].ids \cap attempt[b].ids = {}

\* What humans have granted, whatever happened to the card afterwards.
Granted ==
    {<<card.subject, card.type>> :
        card \in {card \in UNION {saved[c] : c \in Card} : card.status = "approved"}}

Gate ==
    INSTANCE ApprovalGate WITH
        Forbidden <- Blocked,
        SubjectOf <- [a \in Attempt |-> PayloadOf[a].subject],
        NeedsOf <- [a \in Attempt |-> Needs(PayloadOf[a])],
        granted <- Granted,
        started <- {a \in Attempt : attempt[a].pc = "started"}

\* A run starts only when each approval it needs was given for its command
\* and project, and never when it needs an action that v1 does not execute.
ApprovalsGateRuns == Gate!Spec
=============================================================================

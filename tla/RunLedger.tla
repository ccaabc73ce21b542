----------------------------- MODULE RunLedger -----------------------------
(***************************************************************************)
(* What the run engine promises about the money of a run: providers charge *)
(* it only while it is open; a charge is posted to the usage log with the  *)
(* answer, or the log has a failure row for it; a run that has a record    *)
(* has no charge of which the log says nothing; and no run stays open.     *)
(***************************************************************************)
EXTENDS Naturals

CONSTANT Cost     \* what one answer may cost

VARIABLES
    stage,        \* "new", "open", "kept" (it has a record) or "dropped"
    spent,        \* what providers have charged
    posted,       \* what the usage log's success rows say
    flagged       \* the usage log has a failure row

vars == <<stage, spent, posted, flagged>>

Init ==
    /\ stage = "new"
    /\ spent = 0
    /\ posted = 0
    /\ flagged = FALSE

Open ==
    /\ stage = "new"
    /\ stage' = "open"
    /\ UNCHANGED <<spent, posted, flagged>>

\* An answer is charged: posted, flagged, or both.
Charge ==
    /\ stage = "open"
    /\ \E cost \in Cost :
        /\ spent' = spent + cost
        /\ \/ posted' = posted + cost /\ flagged' \in {flagged, TRUE}
           \/ posted' = posted /\ flagged'
    /\ stage' \in {"open", "dropped"}

\* A call fails without a charge.
Flag ==
    /\ stage = "open"
    /\ flagged'
    /\ stage' \in {"open", "dropped"}
    /\ UNCHANGED <<spent, posted>>

\* A charge of which the log says nothing ends the run.
Lose ==
    /\ stage = "open"
    /\ \E cost \in Cost : spent' = spent + cost
    /\ stage' = "dropped"
    /\ UNCHANGED <<posted, flagged>>

Keep ==
    /\ stage = "open"
    /\ posted = spent \/ flagged
    /\ stage' = "kept"
    /\ UNCHANGED <<spent, posted, flagged>>

Drop ==
    /\ stage \in {"new", "open"}
    /\ stage' = "dropped"
    /\ UNCHANGED <<spent, posted, flagged>>

Next == Open \/ Charge \/ Flag \/ Lose \/ Keep \/ Drop

Spec == Init /\ [][Next]_vars /\ WF_vars(stage = "open" /\ (Keep \/ Drop))
=============================================================================

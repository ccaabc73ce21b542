---------------------------- MODULE ApprovalGate ----------------------------
(***************************************************************************)
(* What the approvals promise: a run that needs human approval starts only *)
(* after every kind of approval it needs was granted for its command and   *)
(* project, and a run that needs a forbidden action never starts.          *)
(***************************************************************************)
CONSTANTS
    Attempt,      \* requests to start a run
    Subject,      \* a command on a project
    Type,         \* kinds of approval
    Forbidden,    \* kinds of action that are not executed, approved or not
    SubjectOf,    \* Attempt -> Subject
    NeedsOf       \* Attempt -> SUBSET Type

VARIABLES
    granted,      \* what humans have approved so far
    started       \* the attempts whose run was started

vars == <<granted, started>>

Init == granted = {} /\ started = {}

Grant(subject, type) ==
    /\ granted' = granted \cup {<<subject, type>>}
    /\ UNCHANGED started

StartRun(a) ==
    /\ a \notin started
    /\ \A type \in NeedsOf[a] : <<SubjectOf[a], type>> \in granted
    /\ NeedsOf[a] \cap Forbidden = {}
    /\ started' = started \cup {a}
    /\ UNCHANGED granted

Next ==
    \/ \E subject \in Subject, type \in Type : Grant(subject, type)
    \/ \E a \in Attempt : StartRun(a)

Spec == Init /\ [][Next]_vars
=============================================================================

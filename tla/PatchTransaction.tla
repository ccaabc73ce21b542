-------------------------- MODULE PatchTransaction --------------------------
(***************************************************************************)
(* What the coding agent promises its project: a run is a transaction on   *)
(* the files.  It plans a set of paths of its scope, and in one step either*)
(* all of them change or none does.  Two things weaken it: a repair may    *)
(* adopt further paths, which a rollback does not take back; and a write   *)
(* that raises breaks the transaction, within its own paths.               *)
(***************************************************************************)
EXTENDS Naturals

CONSTANTS
    Run,      \* the transactions
    Item,     \* the paths
    Value,    \* what a path can hold
    ScopeOf   \* Run -> SUBSET Item

VARIABLES
    store,    \* Item -> Value, as the other runs may rely on it
    stage,    \* Run -> how far the transaction is
    plan,     \* Run -> the paths it is going to change
    extra     \* Run -> the paths its repair has adopted beyond the plan

vars == <<store, stage, plan, extra>>

Stage == {"idle", "open", "planned", "committed", "cancelled", "broken"}

Init ==
    /\ store \in [Item -> Value]
    /\ stage = [r \in Run |-> "idle"]
    /\ plan = [r \in Run |-> {}]
    /\ extra = [r \in Run |-> {}]

Begin(r) ==
    /\ stage[r] = "idle"
    /\ stage' = [stage EXCEPT ![r] = "open"]
    /\ UNCHANGED <<store, plan, extra>>

Propose(r, S) ==
    /\ stage[r] = "open"
    /\ S \subseteq ScopeOf[r]
    /\ stage' = [stage EXCEPT ![r] = "planned"]
    /\ plan' = [plan EXCEPT ![r] = S]
    /\ UNCHANGED <<store, extra>>

\* Once, a planned transaction extends itself.
Adopt(r, S) ==
    /\ stage[r] = "planned"
    /\ extra[r] = {}
    /\ S \subseteq ScopeOf[r] \ plan[r]
    /\ extra' = [extra EXCEPT ![r] = S]
    /\ UNCHANGED <<store, stage, plan>>

\* The transaction ends and the paths of S, and no others, get new values.
Ends(r, outcome, S) ==
    /\ stage' = [stage EXCEPT ![r] = outcome]
    /\ store' \in [Item -> Value]
    /\ S = {p \in Item : store'[p] # store[p]}
    /\ UNCHANGED <<plan, extra>>

\* Every planned path changes, and adopted ones may.
Commit(r) ==
    /\ stage[r] = "planned"
    /\ \E S \in SUBSET extra[r] : Ends(r, "committed", plan[r] \cup S)

\* No planned path changes; the adopted ones are not taken back.
Cancel(r) ==
    /\ stage[r] \in {"idle", "open", "planned"}
    /\ Ends(r, "cancelled", extra[r])

\* A write raised: any of its paths may have changed.
Break(r) ==
    /\ stage[r] = "planned"
    /\ \E S \in SUBSET (plan[r] \cup extra[r]) : Ends(r, "broken", S)

Decide(r) == Commit(r) \/ (stage[r] # "idle" /\ Cancel(r)) \/ Break(r)

Next ==
    \E r \in Run :
        \/ Begin(r) \/ Commit(r) \/ Cancel(r) \/ Break(r)
        \/ \E S \in SUBSET ScopeOf[r] : Propose(r, S) \/ Adopt(r, S)

\* A transaction that has begun is decided.
Spec == Init /\ [][Next]_vars /\ \A r \in Run : WF_vars(Decide(r))
=============================================================================

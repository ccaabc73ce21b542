---------------------------- MODULE PlanPipeline ----------------------------
(***************************************************************************)
(* What the two phases of the Business Builder promise: a run publishes a  *)
(* plan or a prototype, once and as a whole, and nothing changes it later; *)
(* a prototype is the page of a plan that was published before for the     *)
(* same project, and has no forbidden word.                                *)
(***************************************************************************)
CONSTANTS
    Request,      \* runs
    None,         \* nothing published
    Requests,     \* what the runs may be asked: a project and a source of each,
    NoPayload,    \* or nothing
    Package,      \* plans
    PageOf(_),    \* the page that is made of a plan
    Forbidden     \* what no page may contain

VARIABLES
    asked,        \* one of Requests
    plans,        \* Request -> its published plan or None
    pages         \* Request -> its published prototype or None

vars == <<asked, plans, pages>>

Init ==
    /\ asked \in Requests
    /\ plans = [r \in Request |-> None]
    /\ pages = [r \in Request |-> None]

MayPublish(r) == asked[r] # NoPayload /\ plans[r] = None /\ pages[r] = None

\* The plan may be any package.
PublishPlan(r) ==
    /\ MayPublish(r)
    /\ plans'[r] \in Package
    /\ plans' = [plans EXCEPT ![r] = plans'[r]]
    /\ UNCHANGED <<asked, pages>>

PublishPrototype(r) ==
    /\ MayPublish(r)
    /\ LET source == asked[r].source
       IN  /\ source \in Request /\ plans[source] # None
           /\ asked[source].project = asked[r].project
           /\ PageOf(plans[source]) \cap Forbidden = {}
           /\ pages' = [pages EXCEPT ![r] = PageOf(plans[source])]
    /\ UNCHANGED <<asked, plans>>

Next == \E r \in Request : PublishPlan(r) \/ PublishPrototype(r)

Spec == Init /\ [][Next]_vars
=============================================================================

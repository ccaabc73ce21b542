---------------------------- MODULE MCApprovals ----------------------------
(* Model values and bounds for Approvals. *)
EXTENDS Approvals, TLC

CONSTANTS a1, a2, a3, a4, d1, d2, d3, site, shop

Plain == [subject |-> site, live |-> FALSE, ceo |-> FALSE, over_limit |-> FALSE,
          coding |-> FALSE, repair |-> FALSE, words |-> {}, negated |-> {}]

\* A live coding run and a command about deployment on another project, each
\* posted twice: the second POST may name the cards that the first asked for.
LiveCoding == [Plain EXCEPT !.live = TRUE, !.coding = TRUE]
Deploying == [Plain EXCEPT !.subject = shop, !.words = {"deployment", "external_api"},
                           !.negated = {"external_api"}]
EachTwice ==
    (a1 :> LiveCoding) @@ (a2 :> LiveCoding) @@ (a3 :> Deploying) @@ (a4 :> Deploying)

\* Attempts with the same payload are interchangeable, and so are decisions.
Symmetry ==
    Permutations({a1, a2}) \cup Permutations({a3, a4}) \cup Permutations({d1, d2})

\* One kind of approval, several runs: a live run posted three times.
Live == [Plain EXCEPT !.live = TRUE]
LiveThrice == (a1 :> Live) @@ (a2 :> Live) @@ (a3 :> Live)
=============================================================================

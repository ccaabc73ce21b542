--------------------------- MODULE MCBookkeeping ---------------------------
(* Who meets whom in Bookkeeping. *)
EXTENDS Bookkeeping

CONSTANTS r1, r2, s1, t1, t2

\* Runs that overlap, a run and a sync by hand, a run and a request for memory,
\* and the first two requests for memory of a new server.
Meetings == {{r1, r2}, {r1, s1}, {r1, t1}, {t1, t2}}
=============================================================================

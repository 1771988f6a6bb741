--------------------------- MODULE MCRateLimiter ---------------------------
(***************************************************************************)
(* Instances of RateLimiter and DetailFetchPool for TLC.                   *)
(***************************************************************************)
EXTENDS DetailFetchPool

CONSTANTS c1, c2, c3

\* The default "1:40,10:400,60:2400" scaled down, with a longer window that
\* binds: two calls per second, three in two seconds.
TightWindows == <<[size |-> 1, limit |-> 2], [size |-> 2, limit |-> 3]>>

OneRetry == <<1>>

MCMessageIDs == <<c1, c2, c3>>
===========================================================================

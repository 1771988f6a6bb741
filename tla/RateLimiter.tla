---------------------------- MODULE RateLimiter ----------------------------
(***************************************************************************)
(* The Redis sliding-window limiter in front of the Gmail and OpenAI APIs, *)
(* as the concurrent calls of one namespace meet it: retry.DoWithCondition *)
(* around Limiter.Wait and the API request, the Lua script that counts and *)
(* decides, and the reloading of a script that Redis has lost.             *)
(*                                                                         *)
(* Time is kept as ages in whole seconds: age 0 is the current second, and *)
(* Tick makes everything one second older.  A key of the script lives for  *)
(* the largest window plus one second, so with MaxDelay at most 1 no key   *)
(* that the script still reads has expired, and expiry is left out.        *)
(***************************************************************************)
EXTENDS Naturals, Sequences, FiniteSetsExt

CONSTANTS
    Callers,   \* concurrent API calls (one goroutine each)
    NoCaller,  \* scriptCacheMu is free
    Windows,   \* the configured windows in order: size in seconds, limit
    Backoff,   \* retry.DefaultBackoff in seconds
    MaxDelay,  \* seconds that may pass between clock.Now and the script
    MaxRestarts, \* bound on the restarts of Redis within its largest window
    Faults     \* "api_retryable", "redis_error", "redis_restart", "canceled"

ASSUME CallersAssumption == NoCaller \notin Callers
ASSUME WindowsAssumption ==
    Windows \in Seq([size : Nat \ {0}, limit : Nat \ {0}]) /\ Windows # <<>>
ASSUME BackoffAssumption == Backoff \in Seq(Nat)
ASSUME DelayAssumption == MaxDelay \in {0, 1}
ASSUME RestartsAssumption == MaxRestarts \in Nat
ASSUME LimiterFaultsAssumption ==
    Faults \subseteq {"api_retryable", "redis_error", "redis_restart", "canceled"}

VARIABLES
    counts,   \* Redis: age of a second -> its counter
    loaded,   \* Redis knows the script
    cached,   \* the client's scriptCache has its SHA
    scriptMu, \* holder of scriptCacheMu during a reload
    pc,       \* where each call is
    stamp,    \* age of the clock value it holds
    timer,    \* seconds left of its sleep or backoff
    attempt,  \* attempts of DoWithCondition made so far
    \* What is observed of them, per age; no step depends on it but for the
    \* bound on restarts, and a restart of Redis does not take it back.
    admitted, \* the calls let through with a stamp of that second
    late,     \* those of them let through when that second was over
    restarts  \* the restarts of Redis in that second

observed == <<admitted, late, restarts>>
redis == <<counts, loaded, cached, scriptMu, observed>>
caller == <<pc, stamp, timer, attempt>>
vars == <<redis, caller>>

largestWindow == Max({Windows[i].size : i \in DOMAIN Windows})
Ages == 0..(largestWindow + MaxDelay - 1)
Stamped == {"script", "load", "recheck", "retry"}
PCs == {"wait", "call", "done"} \union Stamped

TypeOK ==
    /\ counts \in [Ages -> Nat]
    /\ admitted \in [Ages -> Nat] /\ late \in [Ages -> Nat] /\ restarts \in [Ages -> Nat]
    /\ loaded \in BOOLEAN
    /\ cached \in BOOLEAN
    /\ scriptMu \in Callers \union {NoCaller}
    /\ pc \in [Callers -> PCs]
    /\ stamp \in [Callers -> 0..MaxDelay]
    /\ timer \in [Callers -> Nat]
    /\ attempt \in [Callers -> 0..Len(Backoff)]

\* The calls have reached Wait for the first time; a restarted Redis may or
\* may not know the script.
Init ==
    /\ counts = [a \in Ages |-> 0]
    /\ admitted = counts /\ late = counts /\ restarts = counts
    /\ loaded \in BOOLEAN
    /\ cached = FALSE
    /\ scriptMu = NoCaller
    /\ pc = [c \in Callers |-> "wait"]
    /\ stamp = [c \in Callers |-> 0]
    /\ timer = [c \in Callers |-> 0]
    /\ attempt = [c \in Callers |-> 0]

---------------------------------------------------------------------------
(* The script.                                                             *)

\* sumWindow at the second that is now of age "at".
sumWindow(f, at, size) ==
    LET total[n \in 0..size] == IF n = 0 THEN 0 ELSE total[n - 1] + f[at + n - 1]
    IN  total[size]

\* The windows, in order, that the attempt itself pushes over their limit.
Exceeded(f, at) ==
    {i \in DOMAIN Windows : sumWindow(f, at, Windows[i].size) > Windows[i].limit}

Incremented(c) == [counts EXCEPT ![stamp[c]] = @ + 1]

Goto(c, label) == pc' = [pc EXCEPT ![c] = label]

LetThrough(c) ==
    /\ admitted' = [admitted EXCEPT ![stamp[c]] = @ + 1]
    /\ late' = IF stamp[c] > 0 THEN [late EXCEPT ![stamp[c]] = @ + 1] ELSE late

Unlocked(c) == IF scriptMu = c THEN NoCaller ELSE scriptMu

\* Mutant: only the first window is looked at.
RunScriptFirstWindow(c) ==
    LET over == Exceeded(Incremented(c), stamp[c]) \intersect {1} IN
    /\ counts' = Incremented(c)
    /\ IF over = {}
       THEN /\ LetThrough(c)
            /\ Goto(c, "call")
            /\ UNCHANGED timer
       ELSE /\ timer' = [timer EXCEPT ![c] = Windows[Min(over)].size]
            /\ Goto(c, "wait")
            /\ UNCHANGED <<admitted, late>>
    /\ stamp' = [stamp EXCEPT ![c] = 0]
    /\ scriptMu' = Unlocked(c)
    /\ cached' = TRUE
    /\ UNCHANGED <<loaded, attempt, restarts>>

(***************************************************************************)
(* The script runs: the attempt is counted, and stays counted when it is   *)
(* rejected.  The caller goes on to the API, or sleeps for the size of the *)
(* first window that is over its limit.                                    *)
(***************************************************************************)
RunScript(c) ==
    LET over == Exceeded(Incremented(c), stamp[c]) IN
    /\ counts' = Incremented(c)
    /\ IF over = {}
       THEN /\ LetThrough(c)
            /\ Goto(c, "call")
            /\ UNCHANGED timer
       ELSE /\ timer' = [timer EXCEPT ![c] = Windows[Min(over)].size]
            /\ Goto(c, "wait")
            /\ UNCHANGED <<admitted, late>>
    /\ stamp' = [stamp EXCEPT ![c] = 0]
    /\ scriptMu' = Unlocked(c)
    /\ cached' = TRUE
    /\ UNCHANGED <<loaded, attempt, restarts>>

---------------------------------------------------------------------------
(* Limiter.Wait and EvalScript.                                            *)

\* An iteration of Wait's loop takes the time.
ReadClock(c) ==
    /\ pc[c] = "wait" /\ timer[c] = 0
    /\ Goto(c, "script")
    /\ UNCHANGED <<redis, stamp, timer, attempt>>

\* The first EVALSHA; NOSCRIPT leads to the reload.
EvalSha(c) ==
    /\ pc[c] = "script"
    /\ IF loaded
       THEN RunScript(c)
       ELSE Goto(c, "load") /\ UNCHANGED <<redis, stamp, timer, attempt>>

LockScriptCache(c) ==
    /\ pc[c] = "load" /\ scriptMu = NoCaller
    /\ scriptMu' = c
    /\ Goto(c, "recheck")
    /\ UNCHANGED <<counts, observed, loaded, cached, stamp, timer, attempt>>

\* Under the lock: someone may have loaded it meanwhile, otherwise SCRIPT LOAD.
LoadScript(c) ==
    /\ pc[c] = "recheck"
    /\ IF cached /\ loaded
       THEN RunScript(c)
       ELSE /\ loaded' = TRUE /\ cached' = TRUE
            /\ Goto(c, "retry")
            /\ UNCHANGED <<counts, observed, scriptMu, stamp, timer, attempt>>

\* The call is over without the API having been asked again.
GiveUp(c) ==
    /\ Goto(c, "done")
    /\ stamp' = [stamp EXCEPT ![c] = 0]
    /\ timer' = [timer EXCEPT ![c] = 0]
    /\ scriptMu' = Unlocked(c)

\* Mutant: the error return leaves scriptCacheMu locked.
EvalShaAgainKeepsLock(c) ==
    /\ pc[c] = "retry"
    /\ IF loaded
       THEN RunScript(c)
       ELSE /\ Goto(c, "done")
            /\ stamp' = [stamp EXCEPT ![c] = 0]
            /\ UNCHANGED <<redis, timer, attempt>>

\* The EVALSHA after the load; a second NOSCRIPT is an error.
EvalShaAgain(c) ==
    /\ pc[c] = "retry"
    /\ IF loaded
       THEN RunScript(c)
       ELSE GiveUp(c) /\ UNCHANGED <<counts, observed, loaded, cached, attempt>>

\* Redis cannot be reached, or its reply is lost after the script has run.
\* Neither client retries an error of the limiter.
RedisError(c) ==
    /\ "redis_error" \in Faults
    /\ pc[c] \in {"script", "recheck", "retry"}
    /\ counts' \in {counts} \union IF loaded THEN {Incremented(c)} ELSE {}
    /\ GiveUp(c)
    /\ UNCHANGED <<observed, loaded, cached, attempt>>

\* The context ends during the sleep or the backoff.
Canceled(c) ==
    /\ "canceled" \in Faults
    /\ pc[c] = "wait" /\ timer[c] > 0
    /\ GiveUp(c)
    /\ UNCHANGED <<counts, observed, loaded, cached, attempt>>

---------------------------------------------------------------------------
(* DoWithCondition around it.                                              *)

\* The request succeeds or fails for good.
Return(c) ==
    /\ pc[c] = "call"
    /\ Goto(c, "done")
    /\ UNCHANGED <<redis, stamp, timer, attempt>>

\* 429 or 5xx: after the backoff the operation, Wait included, starts again.
RetryCall(c) ==
    /\ "api_retryable" \in Faults
    /\ pc[c] = "call"
    /\ attempt[c] < Len(Backoff)
    /\ attempt' = [attempt EXCEPT ![c] = @ + 1]
    /\ timer' = [timer EXCEPT ![c] = Backoff[attempt[c] + 1]]
    /\ Goto(c, "wait")
    /\ UNCHANGED <<redis, stamp>>

---------------------------------------------------------------------------
(* Time and Redis.                                                         *)

Older(f) == [a \in Ages |-> IF a = 0 THEN 0 ELSE f[a - 1]]

\* A second passes; a call that holds the time reaches Redis within MaxDelay.
Tick ==
    /\ \A c \in Callers : pc[c] \in Stamped => stamp[c] < MaxDelay
    /\ counts' = Older(counts)
    /\ admitted' = Older(admitted) /\ late' = Older(late) /\ restarts' = Older(restarts)
    /\ stamp' = [c \in Callers |-> IF pc[c] \in Stamped THEN stamp[c] + 1 ELSE 0]
    /\ timer' = [c \in Callers |-> IF timer[c] > 0 THEN timer[c] - 1 ELSE 0]
    /\ UNCHANGED <<loaded, cached, scriptMu, pc, attempt>>

\* Redis restarts empty: no counters, no script.  What it has let through
\* stays let through.
RedisRestart ==
    /\ "redis_restart" \in Faults
    /\ sumWindow(restarts, 0, largestWindow) < MaxRestarts
    /\ restarts' = [restarts EXCEPT ![0] = @ + 1]
    /\ counts' = [a \in Ages |-> 0]
    /\ loaded' = FALSE
    /\ UNCHANGED <<admitted, late, cached, scriptMu, caller>>

EvalScript(c) == EvalSha(c) \/ LockScriptCache(c) \/ LoadScript(c) \/ EvalShaAgain(c)

Call(c) == ReadClock(c) \/ EvalScript(c) \/ Return(c)

Next ==
    \/ \E c \in Callers : Call(c) \/ RedisError(c) \/ Canceled(c) \/ RetryCall(c)
    \/ Tick
    \/ RedisRestart

Spec == Init /\ [][Next]_vars

---------------------------------------------------------------------------
(* Properties.                                                             *)

Admitted(at, size) == sumWindow(admitted, at, size)

\* Of a window's calls, those that its last second did not see: they were let
\* through for an earlier second when that one was over.
Late(at, size) == sumWindow(late, at + 1, size - 1)

\* The restarts of Redis since the window began.
Restarts(at, size) == sumWindow(restarts, 0, at + size)

(***************************************************************************)
(* A window lets no more calls through than its limit (rate_limit.lua:15:  *)
(* the script "rejects the call if any configured window would exceed its  *)
(* limit"), and its limit again for each restart of Redis, which forgets   *)
(* its counters.  Only calls that were late, having read the clock before  *)
(* the second turned, can come on top, and never in a window of one        *)
(* second.  Rejected attempts, reloads of the script, retries and errors   *)
(* of Redis never let more through.                                        *)
(***************************************************************************)
WindowsHold ==
    \A i \in DOMAIN Windows : \A at \in 0..MaxDelay :
        LET size == Windows[i].size IN
        Admitted(at, size) <=
            Windows[i].limit * (1 + Restarts(at, size)) + Late(at, size)

(***************************************************************************)
(* Late calls are few: as long as Redis does not restart, a window lets at *)
(* most twice its limit through.                                           *)
(***************************************************************************)
DelayedWindowsHold ==
    \A i \in DOMAIN Windows : \A at \in 0..MaxDelay :
        Admitted(at, Windows[i].size) <= 2 * Windows[i].limit
---------------------------------------------------------------------------
(* The inductive invariant.                                                *)

(***************************************************************************)
(* One call at a time reloads the script, and it holds scriptCacheMu; as   *)
(* long as Redis does not restart, no second has let through more calls    *)
(* than it has counted for it.                                             *)
(***************************************************************************)
LimiterInv ==
    /\ TypeOK
    /\ \A c \in Callers : scriptMu = c <=> pc[c] \in {"recheck", "retry"}
    /\ "redis_restart" \notin Faults => \A a \in Ages : admitted[a] <= counts[a]

(***************************************************************************)
(* The beginning of every window is within its limit, by the restarts and  *)
(* late calls it has seen, and what Redis has not counted of it is what it *)
(* has forgotten or was late.                                              *)
(***************************************************************************)
WindowsInv ==
    \A i \in DOMAIN Windows : \A at \in 0..MaxDelay : \A n \in 1..Windows[i].size :
        LET limit == Windows[i].limit IN
        /\ Admitted(at, n) <= limit * (1 + Restarts(at, n)) + Late(at, n)
        /\ Admitted(at, n) <=
              sumWindow(counts, at, n) + limit * Restarts(at, n) + Late(at, n)
===========================================================================

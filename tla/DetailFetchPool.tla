-------------------------- MODULE DetailFetchPool --------------------------
(***************************************************************************)
(* fetchGmailDetailsConcurrently: at most maxGmailDetailFetchWorkers       *)
(* goroutines take message indexes from an unbuffered channel and put the  *)
(* result of each call into its place, while the caller sends the indexes, *)
(* closes the channel and waits for the workers.  The calls are those of   *)
(* RateLimiter, which may hold them back, make them repeat or fail.        *)
(*                                                                         *)
(* analyzeEmailsConcurrently is the instance with a worker for each item.  *)
(***************************************************************************)
EXTENDS RateLimiter

CONSTANTS
    messageIDs,                  \* the messages in order, one call for each
    maxGmailDetailFetchWorkers,
    NoMessage                    \* no result yet, no job

ASSUME MessagesAssumption ==
    /\ messageIDs \in Seq(Callers)
    /\ \A i, j \in DOMAIN messageIDs : messageIDs[i] = messageIDs[j] => i = j
ASSUME WorkersAssumption == maxGmailDetailFetchWorkers \in Nat \ {0}

VARIABLES
    next,     \* the index the caller sends next
    closed,   \* the channel is closed
    busy,     \* the indexes some worker is at; the other workers receive
    results,  \* results[idx]: the message whose result it is
    returned  \* wg.Wait is over

pool == <<next, closed, busy, results, returned>>
poolVars == <<vars, pool>>

workerCount == Min({Len(messageIDs), maxGmailDetailFetchWorkers})

PoolInit ==
    /\ Init
    /\ next = 1
    /\ closed = FALSE
    /\ busy = {}
    /\ results = [i \in DOMAIN messageIDs |-> NoMessage]
    /\ returned = (messageIDs = <<>>)

\* The calls that a worker is in.
Started == {messageIDs[i] : i \in busy}

\* A send and a receive on the unbuffered channel, which happen together.
TakeJob ==
    /\ next <= Len(messageIDs)
    /\ Cardinality(busy) < workerCount
    /\ busy' = busy \union {next}
    /\ next' = next + 1
    /\ UNCHANGED <<vars, closed, results, returned>>

\* GetGmailDetail is back, with a message or an error.
StoreResult(idx) ==
    /\ idx \in busy
    /\ pc[messageIDs[idx]] = "done"
    /\ results' = [results EXCEPT ![idx] = messageIDs[idx]]
    /\ busy' = busy \ {idx}
    /\ UNCHANGED <<vars, next, closed, returned>>

CloseJobs ==
    /\ next > Len(messageIDs) /\ ~closed
    /\ closed' = TRUE
    /\ UNCHANGED <<vars, next, busy, results, returned>>

\* Mutant: the caller waits for the channel only.
WaitGroupForgotten ==
    /\ closed /\ ~returned
    /\ returned' = TRUE
    /\ UNCHANGED <<vars, next, closed, busy, results>>

\* Workers that find the channel closed end; with the last one wg.Wait does.
WaitGroupDone ==
    /\ closed /\ ~returned
    /\ busy = {}
    /\ returned' = TRUE
    /\ UNCHANGED <<vars, next, closed, busy, results>>

PoolCall(c) == c \in Started /\ Call(c) /\ UNCHANGED pool

PoolStep ==
    \/ TakeJob
    \/ \E idx \in DOMAIN messageIDs : StoreResult(idx)
    \/ CloseJobs
    \/ WaitGroupDone

PoolNext ==
    \/ \E c \in Callers :
         \/ PoolCall(c)
         \/ /\ c \in Started
            /\ RedisError(c) \/ Canceled(c) \/ RetryCall(c)
            /\ UNCHANGED pool
    \/ (Tick \/ RedisRestart) /\ UNCHANGED pool
    \/ PoolStep

PoolSpec == PoolInit /\ [][PoolNext]_poolVars

\* Time passes and every goroutine that can run does; no failure is relied on.
FairPoolSpec ==
    /\ PoolSpec
    /\ WF_poolVars(Tick /\ UNCHANGED pool)
    /\ \A c \in Callers : WF_poolVars(PoolCall(c))
    /\ WF_poolVars(PoolStep)

---------------------------------------------------------------------------
(* Properties.                                                             *)

(***************************************************************************)
(* When the fetch returns, every place holds the result of its own         *)
(* message, in whichever order the calls ended.                            *)
(***************************************************************************)
ResultsComplete ==
    returned => \A i \in DOMAIN messageIDs : results[i] = messageIDs[i]

(***************************************************************************)
(* The fetch returns: no call waits for ever for the limiter               *)
(* (limiter.go:67: Wait "blocks until the limiter allows the next          *)
(* request") or for the lock of the script cache, and neither caller nor   *)
(* workers wait for ever for one another on the channel.                   *)
(***************************************************************************)
FetchReturns == <>returned
---------------------------------------------------------------------------
(* The inductive invariant.                                                *)

\* An index that was sent is with a worker, or its result is in its place.
PoolInv ==
    /\ next \in 1..(Len(messageIDs) + 1)
    /\ closed \in BOOLEAN /\ returned \in BOOLEAN
    /\ busy \subseteq DOMAIN messageIDs
    /\ results \in [DOMAIN messageIDs -> Callers \union {NoMessage}]
    /\ \A i \in DOMAIN messageIDs : i < next => i \in busy \/ results[i] = messageIDs[i]
    /\ closed => next > Len(messageIDs)
    /\ returned => next > Len(messageIDs) /\ busy = {}
===========================================================================

---------------------------- MODULE AuthSessions ----------------------------
(***************************************************************************)
(* Login sessions: LoginTokens, Refresh and Logout of                      *)
(* auth/application/session_tokens.go on the table auth_refresh_tokens.    *)
(* A refresh token is used up by Refresh, which stores its replacement and *)
(* revokes it in one transaction.  The same cookie may be sent by several  *)
(* requests at once (two tabs, a retry, a logout during a refresh), and    *)
(* nothing but the row locks of the transaction orders them.               *)
(*                                                                         *)
(* A request creates at most one token and lends it its name.              *)
(***************************************************************************)

CONSTANTS
    Users,
    Requests,  \* login, refresh and logout requests, and the tokens they create
    None,      \* no user, no request, no token
    Faults     \* "error": a call fails; "lost_reply": after its effect

ASSUME NoneAssumption == None \notin Users /\ None \notin Requests
ASSUME SessionFaultsAssumption == Faults \subseteq {"error", "lost_reply"}

VARIABLES
    status,      \* token -> its committed row: absent, live or revoked
    owner,       \* token -> user_id of the row
    replacedBy,  \* token -> replaced_by_token_id of the row
    expired,     \* tokens past their expires_at
    held,        \* tokens that reached a client, which may send them again
    lock,        \* token -> the request whose transaction has updated its row
    pc,          \* where each request is
    presented,   \* the token in its cookie
    session      \* token -> the login its chain of replacements began with

rows == <<status, owner, replacedBy>>
vars == <<rows, expired, held, lock, pc, presented, session>>

\* Inside the transaction of a rotation: SELECT done; rows written.
Rotating == {"replace", "commit"}
PCs == {"idle", "select", "logout", "done", "failed"} \union Rotating

TypeOK ==
    /\ status \in [Requests -> {"absent", "live", "revoked"}]
    /\ owner \in [Requests -> Users \union {None}]
    /\ replacedBy \in [Requests -> Requests \union {None}]
    /\ expired \subseteq Requests
    /\ held \subseteq Requests
    /\ lock \in [Requests -> Requests \union {None}]
    /\ pc \in [Requests -> PCs]
    /\ presented \in [Requests -> Requests \union {None}]
    /\ session \in [Requests -> Requests \union {None}]

Init ==
    /\ status = [t \in Requests |-> "absent"]
    /\ owner = [t \in Requests |-> None]
    /\ replacedBy = [t \in Requests |-> None]
    /\ expired = {}
    /\ held = {}
    /\ lock = [t \in Requests |-> None]
    /\ pc = [r \in Requests |-> "idle"]
    /\ presented = [r \in Requests |-> None]
    /\ session = [t \in Requests |-> None]

---------------------------------------------------------------------------

Goto(r, label) == pc' = [pc EXCEPT ![r] = label]

\* The request has taken effect; its token reaches the client unless the
\* reply is lost or a later part of the handler (signing the access token,
\* reading the cookie settings) fails.
Delivered(r) ==
    \/ Goto(r, "done") /\ held' = held \union {r}
    \/ Faults # {} /\ Goto(r, "failed") /\ UNCHANGED held

\* LoginTokens, with the right password: CreateRefreshToken.
LoginTokens(r, u) ==
    /\ pc[r] = "idle"
    /\ status' = [status EXCEPT ![r] = "live"]
    /\ owner' = [owner EXCEPT ![r] = u]
    /\ session' = [session EXCEPT ![r] = r]
    /\ Delivered(r)
    /\ UNCHANGED <<replacedBy, expired, lock, presented>>

\* refreshTokenTTL passes.
Expire(t) ==
    /\ status[t] = "live" /\ t \notin expired
    /\ expired' = expired \union {t}
    /\ UNCHANGED <<rows, held, lock, pc, presented, session>>

\* Refresh: FindActiveRefreshTokenByDigest, outside the transaction.  The
\* time it compares with is used again in the transaction.
Refresh(r, t) ==
    /\ pc[r] = "idle" /\ t \in held
    /\ presented' = [presented EXCEPT ![r] = t]
    /\ Goto(r, IF status[t] = "live" /\ t \notin expired THEN "select" ELSE "failed")
    /\ UNCHANGED <<rows, expired, held, lock, session>>

\* Mutant: the transaction relies on the lookup before it.
SelectCurrentUnchecked(r) ==
    /\ pc[r] = "select"
    /\ Goto(r, "replace")
    /\ UNCHANGED <<rows, expired, held, lock, presented, session>>

\* RotateRefreshToken: the SELECT, which locks nothing, finds the token
\* still active.
SelectCurrent(r) ==
    /\ pc[r] = "select"
    /\ Goto(r, IF status[presented[r]] = "live" THEN "replace" ELSE "failed")
    /\ UNCHANGED <<rows, expired, held, lock, presented, session>>

\* INSERT of the replacement and UPDATE of the current row by id.  The
\* UPDATE waits for the row lock and does not ask whether the token is
\* still active.  Others see neither before the commit.
ReplaceCurrent(r) ==
    /\ pc[r] = "replace" /\ lock[presented[r]] = None
    /\ lock' = [lock EXCEPT ![presented[r]] = r]
    /\ Goto(r, "commit")
    /\ UNCHANGED <<rows, expired, held, presented, session>>

\* Mutant: INSERT and UPDATE are no transaction, and the UPDATE fails.
CommitInsertOnly(r) ==
    LET t == presented[r] IN
    /\ pc[r] = "commit"
    /\ status' = [status EXCEPT ![r] = "live"]
    /\ owner' = [owner EXCEPT ![r] = owner[t]]
    /\ session' = [session EXCEPT ![r] = session[t]]
    /\ lock' = [lock EXCEPT ![t] = None]
    /\ Delivered(r)
    /\ UNCHANGED <<replacedBy, expired, presented>>

CommitRotation(r) ==
    LET t == presented[r] IN
    /\ pc[r] = "commit"
    /\ status' = [status EXCEPT ![t] = "revoked", ![r] = "live"]
    /\ owner' = [owner EXCEPT ![r] = owner[t]]
    /\ replacedBy' = [replacedBy EXCEPT ![t] = r]
    /\ session' = [session EXCEPT ![r] = session[t]]
    /\ lock' = [lock EXCEPT ![t] = None]
    /\ Delivered(r)
    /\ UNCHANGED <<expired, presented>>

\* Mutant: the transaction is left open after an error.
RefreshFailsOpen(r) ==
    /\ "error" \in Faults
    /\ pc[r] \in {"select"} \union Rotating
    /\ Goto(r, "failed")
    /\ UNCHANGED <<rows, expired, held, lock, presented, session>>

\* Mutant: a rotation that failed is tried again, as often as it fails.
RefreshFailsRetries(r) ==
    /\ "error" \in Faults
    /\ pc[r] \in {"select"} \union Rotating
    /\ lock' = [t \in Requests |-> IF lock[t] = r THEN None ELSE lock[t]]
    /\ Goto(r, "select")
    /\ UNCHANGED <<rows, expired, held, presented, session>>

\* A statement of Refresh errors, and the transaction is rolled back.
RefreshFails(r) ==
    /\ "error" \in Faults
    /\ pc[r] \in {"select"} \union Rotating
    /\ lock' = [t \in Requests |-> IF lock[t] = r THEN None ELSE lock[t]]
    /\ Goto(r, "failed")
    /\ UNCHANGED <<rows, expired, held, presented, session>>

Logout(r, t) ==
    /\ pc[r] = "idle" /\ t \in held
    /\ presented' = [presented EXCEPT ![r] = t]
    /\ Goto(r, "logout")
    /\ UNCHANGED <<rows, expired, held, lock, session>>

\* UPDATE ... WHERE revoked_at IS NULL, which waits for the row lock; that
\* no row matches is no error.
RevokeRefreshTokenByDigest(r) ==
    LET t == presented[r] IN
    /\ pc[r] = "logout" /\ lock[t] = None
    /\ \/ /\ status' = [status EXCEPT ![t] = "revoked"]
          /\ Goto(r, "done") \/ (Faults # {} /\ Goto(r, "failed"))
       \/ "error" \in Faults /\ Goto(r, "failed") /\ UNCHANGED status
    /\ UNCHANGED <<owner, replacedBy, expired, held, lock, presented, session>>

\* The steps a request takes by itself once it has arrived.
Proceed(r) ==
    \/ SelectCurrent(r) \/ ReplaceCurrent(r) \/ CommitRotation(r)
    \/ RevokeRefreshTokenByDigest(r)

Finished ==
    /\ \A r \in Requests : pc[r] \in {"done", "failed"}
    /\ UNCHANGED vars

Next ==
    \/ \E r \in Requests, u \in Users : LoginTokens(r, u)
    \/ \E r, t \in Requests : Refresh(r, t) \/ Logout(r, t)
    \/ \E r \in Requests : Proceed(r) \/ RefreshFails(r)
    \/ \E t \in Requests : Expire(t)
    \/ Finished

Spec == Init /\ [][Next]_vars

\* A request that has arrived is carried on; no failure is relied on.
FairSpec == Spec /\ \A r \in Requests : WF_vars(Proceed(r))
---------------------------------------------------------------------------
(* Properties.                                                             *)

(***************************************************************************)
(* A stored token began a session, or replaced a token of the same session *)
(* and user that is revoked: however requests with one cookie interleave   *)
(* and wherever they fail, no rotation leaves the old token usable beside  *)
(* the new one, and a session never changes hands.                         *)
(***************************************************************************)
ChainsAreSound ==
    \A t \in Requests : status[t] # "absent" =>
        /\ owner[t] \in Users /\ owner[t] = owner[session[t]]
        /\ session[t] # t =>
             /\ session[t] = session[presented[t]]
             /\ status[presented[t]] = "revoked"

\* A session in which no token is active and no rotation has passed its
\* SELECT.
Ended(s) ==
    /\ status[s] # "absent"
    /\ \A t \in Requests : session[t] = s => status[t] # "live"
    /\ \A r \in Requests : pc[r] \in Rotating => session[presented[r]] # s

(***************************************************************************)
(* An ended session stays ended: whoever still holds one of its tokens, or *)
(* has looked one up before it was revoked, gets no new one.  This is what *)
(* the second check of revoked_at, inside the transaction, is for.  While  *)
(* a rotation is past that check a logout does not end the session.        *)
(***************************************************************************)
EndedStaysEnded == [][\A s \in Requests : Ended(s) => Ended(s)']_vars

(***************************************************************************)
(* Every request is answered, also when it waits for the row lock of a     *)
(* rotation that fails.                                                    *)
(***************************************************************************)
RequestsAnswered ==
    \A r \in Requests :
        pc[r] \in {"select", "logout"} ~> pc[r] \in {"done", "failed"}
---------------------------------------------------------------------------
(* The inductive invariant.                                                *)

\* Requests and rows keep step: a token is stored by the request that is
\* over, and a presented token is a stored one.
RowsTrackRequests ==
    /\ \A t \in Requests :
         /\ status[t] # "absent" => pc[t] \in {"done", "failed"} /\ session[t] \in Requests
         /\ status[t] = "absent" => session[t] = None
         /\ pc[t] \in {"select", "logout"} \union Rotating =>
              presented[t] \in Requests /\ status[presented[t]] # "absent"
    /\ \A t \in held : status[t] # "absent"

\* Only a rotation that has written its rows holds a lock, on its token.
LocksHeld ==
    \A t \in Requests : \A r \in Requests :
        lock[t] = r <=> pc[r] = "commit" /\ presented[r] = t

\* The chain of a token is complete down to a login.
SessionsStored ==
    \A t \in Requests : status[t] # "absent" =>
        /\ status[session[t]] # "absent" /\ session[session[t]] = session[t]
        /\ session[t] # t =>
             /\ presented[t] \in Requests /\ status[presented[t]] # "absent"

(***************************************************************************)
(* Rows, locks and open transactions stay in step, and every chain of      *)
(* replacements leads back to a login.                                     *)
(***************************************************************************)
SessionInv ==
    /\ TypeOK
    /\ RowsTrackRequests
    /\ LocksHeld
    /\ SessionsStored
    /\ ChainsAreSound
=============================================================================

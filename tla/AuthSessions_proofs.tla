------------------------ MODULE AuthSessions_proofs ------------------------
(***************************************************************************)
(* For any number of users and requests and under every fault: rotation    *)
(* never leaves a used token active, sessions do not change hands, and a   *)
(* session that has ended is not revived.                                  *)
(***************************************************************************)
EXTENDS AuthSessions, TLAPS

\* Before the first login there are no rows and no locks.
LEMMA InitInv == Init => SessionInv
BY NoneAssumption
DEF Init, SessionInv, TypeOK, PCs, RowsTrackRequests, Rotating, LocksHeld, SessionsStored, ChainsAreSound

(***************************************************************************)
(* A step that moves one request and writes neither rows nor sessions      *)
(* keeps the invariant, given what it does to the locks.                   *)
(***************************************************************************)
LEMMA RowsUntouched ==
    ASSUME SessionInv, NEW r \in Requests,
           UNCHANGED <<status, owner, session, held>>,
           pc' \in [Requests -> PCs],
           \A q \in Requests \ {r} : pc'[q] = pc[q] /\ presented'[q] = presented[q],
           status[r] = "absent",
           pc'[r] \in {"select", "logout"} \union Rotating =>
             presented'[r] \in Requests /\ status[presented'[r]] # "absent"
    PROVE  RowsTrackRequests' /\ SessionsStored' /\ ChainsAreSound'
<1>1. RowsTrackRequests'
  BY DEF SessionInv, RowsTrackRequests
<1>2. \A t \in Requests : status[t] # "absent" => presented'[t] = presented[t]
  OBVIOUS
<1>3. SessionsStored'
  BY <1>2 DEF SessionInv, SessionsStored
<1>4. ChainsAreSound'
  BY <1>2 DEF SessionInv, ChainsAreSound
<1> QED
  BY <1>1, <1>3, <1>4

\* The two requests that bring a cookie.
LEMMA ArriveInv ==
    ASSUME SessionInv, NEW r \in Requests, NEW t \in Requests, Refresh(r, t) \/ Logout(r, t)
    PROVE  SessionInv'
<1> USE DEF Refresh, Logout, Goto, rows
<1>1. TypeOK'
  BY DEF SessionInv, TypeOK, PCs
<1>2. /\ pc' \in [Requests -> PCs] /\ pc[r] = "idle"
      /\ pc'[r] \in {"select", "logout", "failed"}
      /\ presented'[r] = t /\ status[t] # "absent"
      /\ \A q \in Requests \ {r} : pc'[q] = pc[q] /\ presented'[q] = presented[q]
  BY DEF SessionInv, TypeOK, PCs, RowsTrackRequests
<1>3. status[r] = "absent"
  BY <1>2 DEF SessionInv, RowsTrackRequests
<1>4. RowsTrackRequests' /\ SessionsStored' /\ ChainsAreSound'
  BY <1>2, <1>3, RowsUntouched
<1>5. LocksHeld'
  BY <1>2 DEF SessionInv, LocksHeld
<1> QED
  BY <1>1, <1>4, <1>5 DEF SessionInv

\* The steps of Refresh up to its commit, and its failure.
LEMMA RotateInv ==
    ASSUME SessionInv, NEW r \in Requests,
           SelectCurrent(r) \/ ReplaceCurrent(r) \/ RefreshFails(r)
    PROVE  SessionInv'
<1> USE DEF SelectCurrent, ReplaceCurrent, RefreshFails, Goto, rows
<1>1. TypeOK'
  BY DEF SessionInv, TypeOK, PCs, Rotating
<1>2. /\ pc' \in [Requests -> PCs] /\ pc[r] \in {"select"} \union Rotating
      /\ pc'[r] \in {"failed"} \union Rotating
      /\ presented' = presented
      /\ \A q \in Requests \ {r} : pc'[q] = pc[q]
  BY DEF SessionInv, TypeOK, PCs, Rotating
<1>3. status[r] = "absent" /\ presented[r] \in Requests /\ status[presented[r]] # "absent"
  BY <1>2 DEF SessionInv, RowsTrackRequests, Rotating
<1>4. RowsTrackRequests' /\ SessionsStored' /\ ChainsAreSound'
  BY <1>2, <1>3, RowsUntouched
<1>5. LocksHeld'
  <2>1. CASE SelectCurrent(r)
    BY <2>1 DEF SessionInv, TypeOK, LocksHeld
  <2>2. CASE ReplaceCurrent(r)
    BY <1>3, <2>2, NoneAssumption DEF SessionInv, TypeOK, LocksHeld
  <2>3. CASE RefreshFails(r)
    BY <2>3, NoneAssumption DEF SessionInv, TypeOK, LocksHeld
  <2> QED
    BY <2>1, <2>2, <2>3
<1> QED
  BY <1>1, <1>4, <1>5 DEF SessionInv

\* A login begins a session of its own.
LEMMA LoginInv ==
    ASSUME SessionInv, NEW r \in Requests, NEW u \in Users, LoginTokens(r, u)
    PROVE  SessionInv'
<1> USE DEF LoginTokens, Delivered, Goto
<1>1. TypeOK'
  BY DEF SessionInv, TypeOK, PCs
<1>2. /\ pc[r] = "idle" /\ pc'[r] \in {"done", "failed"}
      /\ \A q \in Requests \ {r} : pc'[q] = pc[q]
      /\ status'[r] = "live" /\ owner'[r] = u /\ session'[r] = r
      /\ \A q \in Requests \ {r} :
           status'[q] = status[q] /\ owner'[q] = owner[q] /\ session'[q] = session[q]
      /\ held' \subseteq held \union {r}
      /\ UNCHANGED <<presented, lock>>
  BY DEF SessionInv, TypeOK
<1>3. status[r] = "absent"
  BY <1>2 DEF SessionInv, RowsTrackRequests
<1> HIDE DEF LoginTokens
<1>4. RowsTrackRequests'
  BY <1>2, <1>3 DEF SessionInv, TypeOK, RowsTrackRequests, Rotating
<1>5. LocksHeld'
  BY <1>2 DEF SessionInv, LocksHeld
<1>6. \A q \in Requests \ {r} : status'[q] # "absent" =>
        session[q] \in Requests \ {r}
  BY <1>2, <1>3 DEF SessionInv, RowsTrackRequests, SessionsStored
<1>7. SessionsStored'
  BY <1>2, <1>3, <1>6 DEF SessionInv, SessionsStored
<1>8. ChainsAreSound'
  BY <1>2, <1>3, <1>6 DEF SessionInv, SessionsStored, ChainsAreSound
<1> QED
  BY <1>1, <1>4, <1>5, <1>7, <1>8 DEF SessionInv

\* The replacement joins the session of the token it revokes.
LEMMA CommitInv ==
    ASSUME SessionInv, NEW r \in Requests, CommitRotation(r)
    PROVE  SessionInv'
<1> DEFINE t == presented[r]
<1>1. pc[r] = "commit" /\ t \in Requests /\ status[t] # "absent" /\ status[r] = "absent"
  BY DEF SessionInv, RowsTrackRequests, Rotating, CommitRotation
<1>2. t # r /\ owner[t] \in Users /\ session[t] \in Requests \ {r}
  BY <1>1 DEF SessionInv, RowsTrackRequests, SessionsStored, ChainsAreSound
<1>3. /\ pc'[r] \in {"done", "failed"}
      /\ \A q \in Requests \ {r} : pc'[q] = pc[q]
      /\ status'[r] = "live" /\ owner'[r] = owner[t] /\ session'[r] = session[t]
      /\ \A q \in Requests \ {r} : owner'[q] = owner[q] /\ session'[q] = session[q]
      /\ status'[t] = "revoked"
      /\ \A q \in Requests \ {r, t} : status'[q] = status[q]
      /\ held' \subseteq held \union {r}
      /\ lock' = [lock EXCEPT ![t] = None]
      /\ UNCHANGED presented
  BY <1>1, <1>2 DEF SessionInv, TypeOK, CommitRotation, Delivered, Goto
<1>4. TypeOK'
  BY <1>1, <1>2 DEF SessionInv, TypeOK, PCs, CommitRotation, Delivered, Goto
<1>5. \A q \in Requests \ {r} : status'[q] # "absent" <=> status[q] # "absent"
  BY <1>1, <1>3
<1>6. RowsTrackRequests'
  BY <1>1, <1>2, <1>3, <1>5 DEF SessionInv, TypeOK, RowsTrackRequests, Rotating
<1>7. LocksHeld'
  BY <1>1, <1>3, NoneAssumption DEF SessionInv, TypeOK, LocksHeld
<1>8. \A q \in Requests \ {r} : status[q] # "absent" => session[q] \in Requests \ {r}
  BY <1>1 DEF SessionInv, RowsTrackRequests, SessionsStored
<1>9. SessionsStored'
  BY <1>1, <1>2, <1>3, <1>5, <1>8 DEF SessionInv, SessionsStored
<1>10. ChainsAreSound'
  <2>1. ASSUME NEW q \in Requests \ {r}, status[q] # "absent", session[q] # q
        PROVE  presented[q] \in Requests \ {r}
    BY <1>1, <2>1 DEF SessionInv, SessionsStored
  <2>2. \A q \in Requests \ {r} : status[q] = "revoked" => status'[q] = "revoked"
    BY <1>3
  <2> QED
    BY <1>1, <1>2, <1>3, <1>5, <1>8, <2>1, <2>2 DEF SessionInv, ChainsAreSound
<1> QED
  BY <1>4, <1>6, <1>7, <1>9, <1>10 DEF SessionInv

\* Logout revokes one token.
LEMMA RevokeInv ==
    ASSUME SessionInv, NEW r \in Requests, RevokeRefreshTokenByDigest(r)
    PROVE  SessionInv'
<1> USE DEF RevokeRefreshTokenByDigest, Goto
<1>1. pc[r] = "logout" /\ presented[r] \in Requests /\ status[presented[r]] # "absent" /\ status[r] = "absent"
  BY DEF SessionInv, RowsTrackRequests, Rotating
<1>2. TypeOK'
  BY <1>1 DEF SessionInv, TypeOK, PCs
<1>3. /\ pc'[r] \in {"done", "failed"}
      /\ \A q \in Requests \ {r} : pc'[q] = pc[q]
      /\ \A q \in Requests : status'[q] # "absent" <=> status[q] # "absent"
      /\ \A q \in Requests : status[q] = "revoked" => status'[q] = "revoked"
      /\ UNCHANGED <<owner, session, held, lock, presented>>
  BY <1>1 DEF SessionInv, TypeOK
<1> HIDE DEF RevokeRefreshTokenByDigest
<1>4. RowsTrackRequests'
  BY <1>1, <1>3 DEF SessionInv, TypeOK, RowsTrackRequests, Rotating
<1>5. LocksHeld'
  BY <1>1, <1>3 DEF SessionInv, LocksHeld
<1>6. SessionsStored'
  BY <1>3 DEF SessionInv, RowsTrackRequests, SessionsStored
<1>7. ChainsAreSound'
  BY <1>3 DEF SessionInv, SessionsStored, ChainsAreSound
<1> QED
  BY <1>2, <1>4, <1>5, <1>6, <1>7 DEF SessionInv

\* Every step keeps the inductive invariant.
LEMMA NextInv == SessionInv /\ [Next]_vars => SessionInv'
<1> SUFFICES ASSUME SessionInv, [Next]_vars PROVE SessionInv'
  OBVIOUS
<1>1. ASSUME NEW t \in Requests, Expire(t) PROVE SessionInv'
  BY <1>1 DEF Expire, rows, SessionInv, TypeOK, RowsTrackRequests, LocksHeld, SessionsStored, ChainsAreSound
<1>2. CASE UNCHANGED vars
  BY <1>2 DEF vars, rows, SessionInv, TypeOK, RowsTrackRequests, LocksHeld, SessionsStored, ChainsAreSound
<1> QED
  BY <1>1, <1>2, LoginInv, ArriveInv, RotateInv, CommitInv, RevokeInv DEF Next, Proceed, Finished

(***************************************************************************)
(* The transaction of RotateRefreshToken, LoginTokens and Logout keep the  *)
(* rows, their locks and the open requests in step.                        *)
(***************************************************************************)
THEOREM SessionInvariance == Spec => []SessionInv
BY InitInv, NextInv, PTL DEF Spec

(***************************************************************************)
(* Every stored token is of a login, or replaced by RotateRefreshToken a   *)
(* token of the same session and user that is revoked.                     *)
(***************************************************************************)
THEOREM ChainsSound == Spec => []ChainsAreSound
<1>1. SessionInv => ChainsAreSound
  BY DEF SessionInv
<1> QED
  BY <1>1, SessionInvariance, PTL

\* One step does not revive an ended session.
LEMMA EndedStep ==
    ASSUME SessionInv, [Next]_vars, NEW s \in Requests, Ended(s)
    PROVE  Ended(s)'
<1>1. /\ status[s] # "absent" /\ pc[s] \in {"done", "failed"}
      /\ \A t \in Requests : session[t] = s => status[t] # "live"
      /\ \A q \in Requests : pc[q] \in Rotating => session[presented[q]] # s
  BY DEF Ended, SessionInv, RowsTrackRequests
<1>2. ASSUME NEW r \in Requests, NEW u \in Users, LoginTokens(r, u) PROVE Ended(s)'
  BY <1>1, <1>2 DEF LoginTokens, Delivered, Goto, Ended, Rotating, SessionInv, TypeOK, RowsTrackRequests
<1>3. ASSUME NEW r \in Requests, NEW t \in Requests, Refresh(r, t) \/ Logout(r, t) PROVE Ended(s)'
  BY <1>1, <1>3 DEF Refresh, Logout, Goto, rows, Ended, Rotating, SessionInv, TypeOK
<1>4. ASSUME NEW r \in Requests, SelectCurrent(r) PROVE Ended(s)'
  BY <1>1, <1>4 DEF SelectCurrent, Goto, rows, Ended, Rotating, SessionInv, TypeOK, RowsTrackRequests
<1>5. ASSUME NEW r \in Requests, ReplaceCurrent(r) \/ RefreshFails(r) PROVE Ended(s)'
  BY <1>1, <1>5 DEF ReplaceCurrent, RefreshFails, Goto, rows, Ended, Rotating, SessionInv, TypeOK
<1>6. ASSUME NEW r \in Requests, CommitRotation(r) PROVE Ended(s)'
  <2>1. pc[r] = "commit" /\ presented[r] \in Requests /\ session[presented[r]] # s
    BY <1>1, <1>6 DEF CommitRotation, SessionInv, RowsTrackRequests, Rotating
  <2> QED
    BY <1>1, <1>6, <2>1 DEF CommitRotation, Delivered, Goto, Ended, Rotating, SessionInv, TypeOK, RowsTrackRequests
<1>7. ASSUME NEW r \in Requests, RevokeRefreshTokenByDigest(r) PROVE Ended(s)'
  BY <1>1, <1>7 DEF RevokeRefreshTokenByDigest, Goto, Ended, Rotating, SessionInv, TypeOK, RowsTrackRequests
<1>8. ASSUME NEW t \in Requests, Expire(t) PROVE Ended(s)'
  BY <1>1, <1>8 DEF Expire, rows, Ended
<1>9. CASE UNCHANGED vars
  BY <1>1, <1>9 DEF vars, rows, Ended
<1> QED
  BY <1>2, <1>3, <1>4, <1>5, <1>6, <1>7, <1>8, <1>9 DEF Next, Proceed, Finished

(***************************************************************************)
(* Once no token of a session is active and no rotation has passed the     *)
(* SELECT of RotateRefreshToken, no request gets a token of it again.      *)
(***************************************************************************)
THEOREM SessionsStayEnded == Spec => EndedStaysEnded
<1>1. SessionInv /\ [Next]_vars => [\A s \in Requests : Ended(s) => Ended(s)']_vars
  BY EndedStep
<1> QED
  BY <1>1, SessionInvariance, PTL DEF Spec, EndedStaysEnded
=============================================================================

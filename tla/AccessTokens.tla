---------------------------- MODULE AccessTokens ----------------------------
(***************************************************************************)
(* Who gets past AuthMiddleware.Authenticate.  A login issues an access    *)
(* token to any account with the right password, verified or not, also to  *)
(* one whose registration is still running or about to be undone.  The     *)
(* token names the user id and nothing else, and is not stored; so the     *)
(* middleware looks the user up for every request.  Registrations, resends *)
(* and verifications go on meanwhile.                                      *)
(*                                                                         *)
(* One client is enough: what a token admits to depends on no other token. *)
(* Signatures and passwords are taken as right.                            *)
(***************************************************************************)
EXTENDS ResendLimit

VARIABLE access   \* the client: whether its token is in a request, and its claims

accessVars == <<vars, disturbed, access>>

NoAccess == [at |-> "none", UserID |-> None]

AccessInit == ResendInit /\ access = NoAccess

GetUserByID(id) == user[id]

\* The user is found by the address; nothing asks whether it is verified.
authenticateUser(u) == user[u] # "absent"

\* LoginTokens, with the refresh token left to AuthSessions.
issueAccessToken(u) ==
    /\ access.at = "none" /\ authenticateUser(u)
    /\ access' = [at |-> "issued", UserID |-> u]
    /\ UNCHANGED resendVars

\* Mutant: the address is what has to be verified, by whichever account.
AuthenticateAddress ==
    /\ access.at = "issued"
    /\ access' = [access EXCEPT !.at =
         IF \E u \in Requests : user[u] = "verified" /\ address[u] = address[access.UserID]
         THEN "admitted" ELSE @]
    /\ UNCHANGED resendVars

\* Every route behind the middleware requires a verified address: the ones
\* requiresEmailVerification skips are routed without it.  An error of
\* GetUserByID is answered like an unknown user.
Authenticate ==
    /\ access.at = "issued"
    /\ access' = [access EXCEPT !.at =
         IF GetUserByID(access.UserID) = "verified" THEN "admitted" ELSE @]
    /\ UNCHANGED resendVars

\* The handler behind the middleware has answered.
Handled ==
    /\ access.at = "admitted"
    /\ access' = [access EXCEPT !.at = "issued"]
    /\ UNCHANGED resendVars

\* tokenTTL passes.
AccessExpires ==
    /\ access.at = "issued"
    /\ access' = NoAccess
    /\ UNCHANGED resendVars

AccessNext ==
    \/ ResendNext /\ UNCHANGED access
    \/ \E u \in Requests : issueAccessToken(u)
    \/ Authenticate \/ Handled \/ AccessExpires

AccessSpec == AccessInit /\ [][AccessNext]_accessVars

---------------------------------------------------------------------------
(* Properties.                                                             *)

(***************************************************************************)
(* A request that the middleware let through acts for an account that was  *)
(* verified with a link mailed to that very account, although the token    *)
(* was issued before, and although the account may be deleted meanwhile by *)
(* its registration and its address registered again.                      *)
(***************************************************************************)
AdmittedByOwnLink ==
    access.at = "admitted" =>
      /\ user[access.UserID] # "unverified"
      /\ \E r \in Requests :
           /\ acct[r] = access.UserID /\ r # access.UserID
           /\ resend[r] = NoWindow /\ pc[r] \in {"done", "failed"}
           /\ <<held[r].token, access.UserID>> \in mailed
---------------------------------------------------------------------------
(* The inductive invariant.                                                *)

\* A request to VerifyEmail has followed a link mailed to user u.
VerifierKnown(u) ==
    \E r \in Requests :
        /\ acct[r] = u /\ r # u
        /\ resend[r] = NoWindow /\ pc[r] \in {"done", "failed"}
        /\ <<held[r].token, u>> \in mailed

(***************************************************************************)
(* Every verified account has a request that verified it, and an admitted  *)
(* one had one when it was let through and is past its creation.           *)
(***************************************************************************)
AdmissionInv ==
    /\ VerificationInv
    /\ access \in [at : {"none", "issued", "admitted"}, UserID : Requests \union {None}]
    /\ access.at # "none" => access.UserID \in Requests
    /\ \A r \in Requests : pc[r] \in {"idle", "consume"} => resend[r] = NoWindow
    /\ \A u \in Requests : user[u] = "verified" => VerifierKnown(u)
    /\ access.at = "admitted" =>
         /\ pc[access.UserID] \notin {"idle", "create"}
         /\ user[access.UserID] # "unverified" /\ VerifierKnown(access.UserID)
=============================================================================

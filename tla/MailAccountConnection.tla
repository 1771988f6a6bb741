----------------------- MODULE MailAccountConnection -----------------------
(***************************************************************************)
(* Linking Gmail accounts: Authorize, Callback and Disconnect of           *)
(* mailaccountconnection/application/usecase.go on the email_credentials   *)
(* table.  A callback is a request with several database calls and two     *)
(* calls to Google in between and no transaction around them; requests     *)
(* interleave, are sent twice, and fail anywhere.                          *)
(***************************************************************************)
EXTENDS Naturals

CONSTANTS
    Users,
    Addresses,  \* normalized Gmail addresses
    States,     \* OAuth states, as random values each issued at most once
    Callbacks,  \* callback requests; one names the tokens it obtains, too
    Nobody,     \* no user, no token, no address
    Faults      \* "error": a call fails; "lost_reply": after its effect

ASSUME NobodyAssumption == Nobody \notin Users /\ Nobody \notin Callbacks
ASSUME ConnectionFaultsAssumption == Faults \subseteq {"error", "lost_reply"}

VARIABLES
    issuedTo,  \* state -> the user who called Authorize, or Nobody
    pending,   \* states whose pending row is in the table
    expired,   \* states past their expires_at
    creds,     \* <<user, address>> -> the credential row
    lastID,    \* AUTO_INCREMENT of the table
    pc,        \* where each callback is
    user,      \* its authenticated user
    state,     \* the state in its body
    addr,      \* the address Google reports
    refresh,   \* TRUE if the token comes with a refresh token
    existing   \* the row it has read

request == <<user, state>>
token == <<addr, refresh>>
vars == <<issuedTo, pending, expired, creds, lastID, pc, request, token, existing>>

Keys == Users \X Addresses
Row == [id : Nat, access : Callbacks \union {Nobody}, refresh : Callbacks \union {Nobody}]
NoRow == [id |-> 0, access |-> Nobody, refresh |-> Nobody]
Validated == {"exchange", "lookup", "create", "update", "linked"}
PCs == {"idle", "find", "consume", "failed"} \union Validated

TypeOK ==
    /\ issuedTo \in [States -> Users \union {Nobody}]
    /\ pending \subseteq States
    /\ expired \subseteq States
    /\ creds \in [Keys -> Row]
    /\ lastID \in Nat
    /\ pc \in [Callbacks -> PCs]
    /\ user \in [Callbacks -> Users]
    /\ state \in [Callbacks -> States]
    /\ addr \in [Callbacks -> Addresses \union {Nobody}]
    /\ refresh \in [Callbacks -> BOOLEAN]
    /\ existing \in [Callbacks -> Row]

\* The user and the state of a request have any value.
Init ==
    /\ issuedTo = [s \in States |-> Nobody]
    /\ pending = {}
    /\ expired = {}
    /\ creds = [k \in Keys |-> NoRow]
    /\ lastID = 0
    /\ pc = [c \in Callbacks |-> "idle"]
    /\ user \in [Callbacks -> Users]
    /\ state \in [Callbacks -> States]
    /\ addr = [c \in Callbacks |-> Nobody]
    /\ refresh = [c \in Callbacks |-> FALSE]
    /\ existing = [c \in Callbacks |-> NoRow]

---------------------------------------------------------------------------

Goto(c, label) == pc' = [pc EXCEPT ![c] = label]

\* A call whose effect took place returns, or its reply is lost.
Replied(c, label) ==
    \/ Goto(c, label)
    \/ "lost_reply" \in Faults /\ Goto(c, "failed")

\* Authorize: a new state, with its pending row.
Authorize(u, s) ==
    /\ issuedTo[s] = Nobody
    /\ issuedTo' = [issuedTo EXCEPT ![s] = u]
    /\ pending' = pending \union {s}
    /\ UNCHANGED <<expired, creds, lastID, pc, request, token, existing>>

\* GmailOAuthStateTTL passes before the state is used.
Expire(s) ==
    /\ s \in pending \ expired
    /\ expired' = expired \union {s}
    /\ UNCHANGED <<issuedTo, pending, creds, lastID, pc, request, token, existing>>

\* A request arrives, with the state of any user or with one never issued.
StartCallback(c) ==
    /\ pc[c] = "idle"
    /\ Goto(c, "find")
    /\ UNCHANGED <<issuedTo, pending, expired, creds, lastID, request, token, existing>>

\* Mutant: the state is not compared with the user.
FindPendingStateOfAnyone(c) ==
    /\ pc[c] = "find"
    /\ Goto(c, IF state[c] \in pending \ expired THEN "consume" ELSE "failed")
    /\ UNCHANGED <<issuedTo, pending, expired, creds, lastID, request, token, existing>>

\* Step 1: the pending row exists, is the user's and has not expired.
FindPendingStateByState(c) ==
    /\ pc[c] = "find"
    /\ Goto(c, IF state[c] \in pending \ expired /\ issuedTo[state[c]] = user[c]
               THEN "consume" ELSE "failed")
    /\ UNCHANGED <<issuedTo, pending, expired, creds, lastID, request, token, existing>>

\* Mutant: RowsAffected is not looked at.
ConsumePendingStateUnchecked(c) ==
    /\ pc[c] = "consume"
    /\ pending' = pending \ {state[c]}
    /\ Replied(c, "exchange")
    /\ UNCHANGED <<issuedTo, expired, creds, lastID, request, token, existing>>

\* Step 2: DELETE of the pending row; no row deleted is an error.
ConsumePendingState(c) ==
    /\ pc[c] = "consume"
    /\ pending' = pending \ {state[c]}
    /\ IF state[c] \in pending THEN Replied(c, "exchange") ELSE Goto(c, "failed")
    /\ UNCHANGED <<issuedTo, expired, creds, lastID, request, token, existing>>

\* Steps 3 and 4: Google answers with tokens and the address they are for.
Exchange(c) ==
    /\ pc[c] = "exchange"
    /\ \E a \in Addresses : addr' = [addr EXCEPT ![c] = a]
    /\ \E b \in BOOLEAN : refresh' = [refresh EXCEPT ![c] = b]
    /\ Goto(c, "lookup")
    /\ UNCHANGED <<issuedTo, pending, expired, creds, lastID, request, existing>>

Key(c) == <<user[c], addr[c]>>

\* Where the row that was found, or its absence, leads.
Branch(c, row) ==
    IF row.id # 0 THEN "update" ELSE IF refresh[c] THEN "create" ELSE "failed"

\* Mutant: the address is not part of the lookup.
FindCredentialByUser(c) ==
    /\ pc[c] = "lookup"
    /\ \E a \in Addresses :
         LET row == creds[<<user[c], a>>] IN
         existing' = [existing EXCEPT ![c] = row] /\ Goto(c, Branch(c, row))
    /\ UNCHANGED <<issuedTo, pending, expired, creds, lastID, request, token>>

\* Step 5, and the check that a first link brings a refresh token.
FindCredentialByUserAndGmail(c) ==
    /\ pc[c] = "lookup"
    /\ existing' = [existing EXCEPT ![c] = creds[Key(c)]]
    /\ Goto(c, Branch(c, creds[Key(c)]))
    /\ UNCHANGED <<issuedTo, pending, expired, creds, lastID, request, token>>

\* Step 8a: INSERT; the unique key on user, type and address may refuse it.
CreateCredential(c) ==
    /\ pc[c] = "create"
    /\ lastID' = lastID + 1
    /\ IF creds[Key(c)].id = 0
       THEN /\ creds' = [creds EXCEPT ![Key(c)] =
                           [id |-> lastID + 1, access |-> c, refresh |-> c]]
            /\ Replied(c, "linked")
       ELSE Goto(c, "failed") /\ UNCHANGED creds
    /\ UNCHANGED <<issuedTo, pending, expired, request, token, existing>>

(***************************************************************************)
(* Step 8b: UPDATE of both tokens by id.  Without a new refresh token the  *)
(* one that was read is written back.  That no row matches is no error.    *)
(***************************************************************************)
UpdateCredentialTokens(c) ==
    LET row == [id |-> existing[c].id, access |-> c,
                refresh |-> IF refresh[c] THEN c ELSE existing[c].refresh]
    IN
    /\ pc[c] = "update"
    /\ creds' = [k \in Keys |-> IF creds[k].id = row.id THEN row ELSE creds[k]]
    /\ Replied(c, "linked")
    /\ UNCHANGED <<issuedTo, pending, expired, lastID, request, token, existing>>

\* A database call, Google or the vault fails without effect.
CallbackFails(c) ==
    /\ "error" \in Faults
    /\ pc[c] \notin {"idle", "linked", "failed"}
    /\ Goto(c, "failed")
    /\ UNCHANGED <<issuedTo, pending, expired, creds, lastID, request, token, existing>>

\* The user removes one of their connections.
Disconnect(k) ==
    /\ creds[k].id # 0
    /\ creds' = [creds EXCEPT ![k] = NoRow]
    /\ UNCHANGED <<issuedTo, pending, expired, lastID, pc, request, token, existing>>

Callback(c) ==
    \/ StartCallback(c) \/ FindPendingStateByState(c) \/ ConsumePendingState(c)
    \/ Exchange(c) \/ FindCredentialByUserAndGmail(c)
    \/ CreateCredential(c) \/ UpdateCredentialTokens(c) \/ CallbackFails(c)

Finished ==
    /\ \A c \in Callbacks : pc[c] \in {"linked", "failed"}
    /\ UNCHANGED vars

Next ==
    \/ \E u \in Users, s \in States : Authorize(u, s)
    \/ \E s \in States : Expire(s)
    \/ \E c \in Callbacks : Callback(c)
    \/ \E k \in Keys : Disconnect(k)
    \/ Finished

Spec == Init /\ [][Next]_vars
---------------------------------------------------------------------------
(* Properties.                                                             *)

(***************************************************************************)
(* A state opens the way to Google once, for the user it was issued to:    *)
(* of two requests with one state, however they interleave and wherever    *)
(* one fails, at most one gets past ConsumePendingState, and none gets     *)
(* past it any more afterwards.                                            *)
(***************************************************************************)
StateUsedOnce ==
    \A c \in Callbacks : pc[c] \in Validated =>
        /\ issuedTo[state[c]] = user[c]
        /\ state[c] \notin pending
        /\ \A d \in Callbacks : pc[d] \in Validated /\ state[d] = state[c] => d = c

(***************************************************************************)
(* The tokens of a connection were obtained for its user and its address,  *)
(* also when connections are removed and linked again between the read and *)
(* the write of another callback.                                          *)
(***************************************************************************)
TokensMatchConnection ==
    \A k \in Keys : creds[k].id # 0 =>
        \A t \in {creds[k].access, creds[k].refresh} :
            t \in Callbacks /\ Key(t) = k
---------------------------------------------------------------------------
(* The inductive invariant.                                                *)

\* A callback deletes only a pending row that it found to be its user's.
ConsumesOwnState ==
    \A c \in Callbacks : pc[c] = "consume" => issuedTo[state[c]] = user[c]

\* Google's answer comes before the table is asked.
AddressKnown ==
    \A c \in Callbacks : pc[c] \in {"lookup", "create", "update"} => addr[c] \in Addresses

\* Row ids are handed out once, and never change hands.
IdsUnique ==
    /\ \A k \in Keys : creds[k].id <= lastID
    /\ \A j, k \in Keys : creds[j].id = creds[k].id /\ creds[k].id # 0 => j = k

\* What a callback has read was its own row, and if the id is still in the
\* table it is still that row.
ReadOwnRow ==
    \A c \in Callbacks : pc[c] = "update" =>
        /\ existing[c].id # 0 /\ existing[c].id <= lastID
        /\ \A k \in Keys : creds[k].id = existing[c].id => k = Key(c)
        /\ existing[c].refresh \in Callbacks /\ Key(existing[c].refresh) = Key(c)

\* Who obtained tokens that are stored or about to be stored is past
\* Exchange, so that its address is settled.
Settled == {"lookup", "create", "update", "linked", "failed"}

TokensSettled ==
    /\ \A k \in Keys : \A t \in {creds[k].access, creds[k].refresh} :
         t \in Callbacks => pc[t] \in Settled
    /\ \A c \in Callbacks : pc[c] = "update" /\ existing[c].refresh \in Callbacks =>
         pc[existing[c].refresh] \in Settled

(***************************************************************************)
(* What every interleaving of callbacks, removals and failures keeps: the  *)
(* use of states, the ownership of tokens, and that a row read earlier can *)
(* only be overwritten by the callback of the same user and address.       *)
(***************************************************************************)
ConnectionInv ==
    /\ TypeOK
    /\ StateUsedOnce
    /\ ConsumesOwnState
    /\ AddressKnown
    /\ TokensMatchConnection
    /\ IdsUnique
    /\ ReadOwnRow
    /\ TokensSettled
===========================================================================

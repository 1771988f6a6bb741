------------------------- MODULE EmailVerification -------------------------
(***************************************************************************)
(* Registration and verification of addresses: Register,                   *)
(* ResendVerificationEmail and VerifyEmail of auth/application on the      *)
(* tables users (unique address) and email_verification_tokens (one row    *)
(* per user).  None of them holds a transaction across its calls, and      *)
(* Register undoes what it did when a later call fails, ignoring errors.   *)
(*                                                                         *)
(* A request creates at most one user, one token row and one token, and    *)
(* lends each its name; it also stands for the time it reads the clock.    *)
(***************************************************************************)
EXTENDS Naturals

CONSTANTS
    Addresses,
    Requests,
    None,                     \* no address, user, row, token or time
    maxResendCountPerWindow,
    Faults  \* "error": a call errors; "mail_lost": a mail is delivered and its
            \* sending errors; "lost_reply": a write errors after its effect;
            \* "undo_error": a call of the compensation errors

ASSUME VerificationNoneAssumption == None \notin Addresses /\ None \notin Requests
ASSUME ResendAssumption == maxResendCountPerWindow \in Nat \ {0}
ASSUME VerificationFaultsAssumption ==
    Faults \subseteq {"error", "mail_lost", "lost_reply", "undo_error"}

VARIABLES
    user,      \* user -> its row: absent, unverified or verified
    tokens,    \* user -> its row of email_verification_tokens
    expired,   \* tokens past their expires_at
    elapsed,   \* times resendVerificationWindow or more ago
    mailed,    \* pairs of a token and the user it was mailed to
    pc,        \* where each request is
    address,   \* the address in a registration
    acct,      \* the user a request is about; of a registration, itself
    held,      \* id and token of the row in tokenToUse
    fresh,     \* createdNewToken
    resend     \* windowStartedAt and nextResendCount

vars == <<user, tokens, expired, elapsed, mailed, pc, address, acct, held, fresh, resend>>

Name == Requests \union {None}
Counts == 0 .. maxResendCountPerWindow
Window == [start : Name, count : Counts]
NoWindow == [start |-> None, count |-> 0]
TokenRow == [id : Name, token : Name, consumed : BOOLEAN, window : Window]
NoRow == [id |-> None, token |-> None, consumed |-> FALSE, window |-> NoWindow]
NoToken == [id |-> None, token |-> None]

\* After CreateUser, before the answer.
Registering == {"active", "upsert", "readback", "send", "undo_token", "undo_user"}
PCs == {"idle", "create", "latest", "window", "consume", "done", "failed"} \union Registering

TypeOK ==
    /\ user \in [Requests -> {"absent", "unverified", "verified"}]
    /\ tokens \in [Requests -> TokenRow]
    /\ expired \subseteq Requests /\ elapsed \subseteq Requests
    /\ mailed \subseteq Requests \X Requests
    /\ pc \in [Requests -> PCs]
    /\ address \in [Requests -> Addresses \union {None}]
    /\ acct \in [Requests -> Name]
    /\ held \in [Requests -> [id : Name, token : Name]]
    /\ fresh \in [Requests -> BOOLEAN]
    /\ resend \in [Requests -> Window]

Init ==
    /\ user = [u \in Requests |-> "absent"]
    /\ tokens = [u \in Requests |-> NoRow]
    /\ expired = {} /\ elapsed = {} /\ mailed = {}
    /\ pc = [r \in Requests |-> "idle"]
    /\ address = [r \in Requests |-> None]
    /\ acct = [r \in Requests |-> None]
    /\ held = [r \in Requests |-> NoToken]
    /\ fresh = [r \in Requests |-> FALSE]
    /\ resend = [r \in Requests |-> NoWindow]
---------------------------------------------------------------------------

Goto(r, label) == pc' = [pc EXCEPT ![r] = label]

IsRegistration(r) == acct[r] = r

Taken(a) == \E u \in Requests : user[u] # "absent" /\ address[u] = a

\* Where an error leads: a registration deletes the user it has created.
OnError(r) ==
    IF IsRegistration(r) /\ pc[r] \in Registering THEN "undo_user" ELSE "failed"

\* A write was applied, and its reply arrives or is lost.
Applied(r, label) ==
    Goto(r, label) \/ ("lost_reply" \in Faults /\ Goto(r, OnError(r)))

\* Register up to GetUserByEmail.
Register(r, a) ==
    /\ pc[r] = "idle"
    /\ address' = [address EXCEPT ![r] = a]
    /\ acct' = [acct EXCEPT ![r] = r]
    /\ Goto(r, IF Taken(a) THEN "failed" ELSE "create")
    /\ UNCHANGED <<user, tokens, expired, elapsed, mailed, held, fresh, resend>>

\* Mutant: the address is unique only by the lookup before.
CreateUserWithoutKey(r) ==
    /\ pc[r] = "create"
    /\ user' = [user EXCEPT ![r] = "unverified"] /\ Applied(r, "active")
    /\ UNCHANGED <<tokens, expired, elapsed, mailed, address, acct, held, fresh, resend>>

\* The unique key refuses an address that was taken meanwhile.
CreateUser(r) ==
    /\ pc[r] = "create"
    /\ IF Taken(address[r])
         THEN Goto(r, "failed") /\ UNCHANGED user
         ELSE user' = [user EXCEPT ![r] = "unverified"] /\ Applied(r, "active")
    /\ UNCHANGED <<tokens, expired, elapsed, mailed, address, acct, held, fresh, resend>>

\* ResendVerificationEmail of a user with the right password: GetUserByEmail.
ResendVerificationEmail(r, u) ==
    /\ pc[r] = "idle" /\ user[u] # "absent"
    /\ acct' = [acct EXCEPT ![r] = u]
    /\ Goto(r, IF user[u] = "unverified" THEN "latest" ELSE "failed")
    /\ UNCHANGED <<user, tokens, expired, elapsed, mailed, address, held, fresh, resend>>

\* Mutant: the window of a token that has expired is not looked at.
GetLatestTokenIfActive(r) ==
    LET w == tokens[acct[r]].window
        open == w.start # None /\ w.start \notin elapsed
                /\ tokens[acct[r]].token \notin expired
    IN
    /\ pc[r] = "latest"
    /\ IF open /\ w.count >= maxResendCountPerWindow
         THEN Goto(r, "failed") /\ UNCHANGED resend
         ELSE /\ Goto(r, "active")
              /\ resend' = [resend EXCEPT ![r] =
                   IF open THEN [w EXCEPT !.count = @ + 1] ELSE [start |-> r, count |-> 1]]
    /\ UNCHANGED <<user, tokens, expired, elapsed, mailed, address, acct, held, fresh>>

\* GetLatestTokenForUser and the limit.  The clock has been read before: a
\* read after something has run out, with the earlier time, sees what a read
\* before it would have seen.
GetLatestTokenForUser(r) ==
    LET w == tokens[acct[r]].window
        open == w.start # None /\ w.start \notin elapsed
    IN
    /\ pc[r] = "latest"
    /\ IF open /\ w.count >= maxResendCountPerWindow
         THEN Goto(r, "failed") /\ UNCHANGED resend
         ELSE /\ Goto(r, "active")
              /\ resend' = [resend EXCEPT ![r] =
                   IF open THEN [w EXCEPT !.count = @ + 1] ELSE [start |-> r, count |-> 1]]
    /\ UNCHANGED <<user, tokens, expired, elapsed, mailed, address, acct, held, fresh>>

\* GetActiveTokenForUser: an active token is used again.
GetActiveTokenForUser(r) ==
    LET row == tokens[acct[r]] IN
    /\ pc[r] = "active"
    /\ IF row.id # None /\ ~row.consumed /\ row.token \notin expired
         THEN Goto(r, "send") /\ held' = [held EXCEPT ![r] = [id |-> row.id, token |-> row.token]]
         ELSE Goto(r, "upsert") /\ UNCHANGED held
    /\ UNCHANGED <<user, tokens, expired, elapsed, mailed, address, acct, fresh, resend>>

\* CreateEmailVerificationToken: the upsert keeps the id of an existing row
\* and clears its window.
CreateEmailVerificationToken(r) ==
    LET u == acct[r]
        id == IF tokens[u].id = None THEN r ELSE tokens[u].id
    IN
    /\ pc[r] = "upsert"
    /\ tokens' = [tokens EXCEPT ![u] =
         [id |-> id, token |-> r, consumed |-> FALSE, window |-> NoWindow]]
    /\ held' = [held EXCEPT ![r] = [id |-> id, token |-> None]]
    /\ Applied(r, "readback")
    /\ UNCHANGED <<user, expired, elapsed, mailed, address, acct, fresh, resend>>

\* Mutant: the row is read back without its user.
RetrieveAnyToken(r) ==
    /\ pc[r] = "readback"
    /\ \E u \in Requests :
         /\ tokens[u].id # None
         /\ held' = [held EXCEPT ![r] = [id |-> tokens[u].id, token |-> tokens[u].token]]
    /\ Goto(r, "send")
    /\ fresh' = [fresh EXCEPT ![r] = TRUE]
    /\ UNCHANGED <<user, tokens, expired, elapsed, mailed, address, acct, resend>>

\* Its second statement reads the row, by user and id, with whatever token it
\* has by now.
RetrieveToken(r) ==
    LET row == tokens[acct[r]] IN
    /\ pc[r] = "readback"
    /\ IF row.id = held[r].id
         THEN /\ Goto(r, "send")
              /\ held' = [held EXCEPT ![r].token = row.token]
              /\ fresh' = [fresh EXCEPT ![r] = TRUE]
         ELSE Goto(r, OnError(r)) /\ UNCHANGED <<held, fresh>>
    /\ UNCHANGED <<user, tokens, expired, elapsed, mailed, address, acct, resend>>

\* A call before the mail, or one of VerifyEmail, errors without effect.
CallFails(r) ==
    /\ "error" \in Faults
    /\ pc[r] \in {"create", "latest", "active", "upsert", "readback", "window", "consume"}
    /\ Goto(r, OnError(r))
    /\ UNCHANGED <<user, tokens, expired, elapsed, mailed, address, acct, held, fresh, resend>>

\* SendVerificationEmail.
Send(r) ==
    /\ pc[r] = "send"
    /\ mailed' = mailed \union {<<held[r].token, acct[r]>>}
    /\ Goto(r, IF IsRegistration(r) THEN "done" ELSE "window")
    /\ UNCHANGED <<user, tokens, expired, elapsed, address, acct, held, fresh, resend>>

\* Mutant: only the token is removed.
SendFailsKeepsUser(r) ==
    /\ pc[r] = "send" /\ Faults \intersect {"error", "mail_lost"} # {}
    /\ Goto(r, "failed")
    /\ UNCHANGED <<user, tokens, expired, elapsed, mailed, address, acct, held, fresh, resend>>

\* The mailer errors, perhaps after delivery; a registration, and a resend
\* that wrote a token, delete the row.
SendFails(r) ==
    /\ pc[r] = "send"
    /\ \/ "error" \in Faults /\ UNCHANGED mailed
       \/ "mail_lost" \in Faults /\ mailed' = mailed \union {<<held[r].token, acct[r]>>}
    /\ Goto(r, IF IsRegistration(r) \/ fresh[r] THEN "undo_token" ELSE "failed")
    /\ UNCHANGED <<user, tokens, expired, elapsed, address, acct, held, fresh, resend>>

DeleteTokenByID(r) ==
    /\ pc[r] = "undo_token"
    /\ \/ tokens' = [u \in Requests |-> IF tokens[u].id = held[r].id THEN NoRow ELSE tokens[u]]
       \/ "undo_error" \in Faults /\ UNCHANGED tokens
    /\ Goto(r, OnError(r))
    /\ UNCHANGED <<user, expired, elapsed, mailed, address, acct, held, fresh, resend>>

DeleteUserByID(r) ==
    /\ pc[r] = "undo_user"
    /\ \/ user' = [user EXCEPT ![r] = "absent"]
       \/ "undo_error" \in Faults /\ UNCHANGED user
    /\ Goto(r, "failed")
    /\ UNCHANGED <<tokens, expired, elapsed, mailed, address, acct, held, fresh, resend>>

\* The window carried since GetLatestTokenForUser is written to the row.
UpdateVerificationEmailResendWindow(r) ==
    /\ pc[r] = "window"
    /\ tokens' = [u \in Requests |-> IF tokens[u].id = held[r].id
                                     THEN [tokens[u] EXCEPT !.window = resend[r]] ELSE tokens[u]]
    /\ Applied(r, "done")
    /\ UNCHANGED <<user, expired, elapsed, mailed, address, acct, held, fresh, resend>>

\* VerifyEmail with the token of a mail: GetEmailVerificationToken.
VerifyEmail(r, t) ==
    /\ pc[r] = "idle"
    /\ \/ \E u \in Requests :
            /\ tokens[u].id # None /\ tokens[u].token = t
            /\ ~tokens[u].consumed /\ t \notin expired
            /\ acct' = [acct EXCEPT ![r] = u]
            /\ held' = [held EXCEPT ![r] = [id |-> tokens[u].id, token |-> t]]
            /\ Goto(r, "consume")
       \/ /\ \A u \in Requests : tokens[u].id # None /\ tokens[u].token = t =>
                tokens[u].consumed \/ t \in expired
          /\ Goto(r, "failed") /\ UNCHANGED <<acct, held>>
    /\ UNCHANGED <<user, tokens, expired, elapsed, mailed, address, fresh, resend>>

\* Mutant: the user is found again by the address.
ConsumeForAddress(r) ==
    LET a == address[acct[r]] IN
    /\ pc[r] = "consume"
    /\ user' = [u \in Requests |->
         IF user[u] # "absent" /\ address[u] = a THEN "verified" ELSE user[u]]
    /\ Applied(r, "done")
    /\ UNCHANGED <<tokens, expired, elapsed, mailed, address, acct, held, fresh, resend>>

\* The row with the id read before is consumed, whatever token it has now;
\* when the user is gone, the transaction is rolled back.
ConsumeTokenAndVerifyUser(r) ==
    /\ pc[r] = "consume"
    /\ IF user[acct[r]] = "absent"
         THEN Goto(r, "failed") /\ UNCHANGED <<user, tokens>>
         ELSE /\ user' = [user EXCEPT ![acct[r]] = "verified"]
              /\ tokens' = [u \in Requests |-> IF tokens[u].id = held[r].id
                              THEN [tokens[u] EXCEPT !.consumed = TRUE] ELSE tokens[u]]
              /\ Applied(r, "done")
    /\ UNCHANGED <<expired, elapsed, mailed, address, acct, held, fresh, resend>>

\* Three hours, or resendVerificationWindow, pass.
TimePasses ==
    /\ \/ \E u \in Requests :
            /\ tokens[u].id # None /\ tokens[u].token \notin expired
            /\ expired' = expired \union {tokens[u].token} /\ UNCHANGED elapsed
       \/ \E u \in Requests :
            /\ tokens[u].window.start \in Requests \ elapsed
            /\ elapsed' = elapsed \union {tokens[u].window.start} /\ UNCHANGED expired
    /\ UNCHANGED <<user, tokens, mailed, pc, address, acct, held, fresh, resend>>

Proceed(r) ==
    \/ CreateUser(r) \/ GetLatestTokenForUser(r) \/ GetActiveTokenForUser(r)
    \/ CreateEmailVerificationToken(r) \/ RetrieveToken(r) \/ CallFails(r)
    \/ Send(r) \/ SendFails(r) \/ DeleteTokenByID(r) \/ DeleteUserByID(r)
    \/ UpdateVerificationEmailResendWindow(r) \/ ConsumeTokenAndVerifyUser(r)

Finished ==
    /\ \A r \in Requests : pc[r] \in {"done", "failed"}
    /\ UNCHANGED vars

Next ==
    \/ \E r \in Requests, a \in Addresses : Register(r, a)
    \/ \E r, u \in Requests : ResendVerificationEmail(r, u)
    \/ \E r, t, u \in Requests : <<t, u>> \in mailed /\ VerifyEmail(r, t)
    \/ \E r \in Requests : Proceed(r)
    \/ TimePasses
    \/ Finished

Spec == Init /\ [][Next]_vars
---------------------------------------------------------------------------
(* Properties.                                                             *)

(***************************************************************************)
(* A registration that was answered has its account, nobody else has one   *)
(* with its address, and a link to it was mailed: neither a concurrent     *)
(* registration nor the undoing of one removes it or makes a second.       *)
(***************************************************************************)
AnsweredAccountIsTheOnlyOne ==
    \A r \in Requests : IsRegistration(r) /\ pc[r] = "done" =>
        /\ user[r] # "absent"
        /\ \A u \in Requests \ {r} : user[u] # "absent" => address[u] # address[r]
        /\ \E t \in Requests : <<t, r>> \in mailed

(***************************************************************************)
(* An account is verified only by a link that was made for it and mailed   *)
(* to it.  A link of an earlier, undone registration of the same address,  *)
(* or one whose row was replaced or deleted meanwhile, verifies no other.  *)
(***************************************************************************)
LinkVerifiesItsAccount ==
    \A u \in Requests : user[u] = "verified" =>
        \E t \in Requests : acct[t] = u /\ <<t, u>> \in mailed

(***************************************************************************)
(* A registration that failed leaves no account, so that the address can   *)
(* be registered again, unless CreateUser's reply was lost or the          *)
(* compensation failed as well.                                            *)
(***************************************************************************)
FailedRegistrationLeavesNothing ==
    \A r \in Requests : IsRegistration(r) /\ pc[r] = "failed" => user[r] = "absent"
---------------------------------------------------------------------------
(* The inductive invariant.                                                *)

\* A user row belongs to a registration past CreateUser.
UsersTrackRegistrations ==
    \A u \in Requests :
        /\ user[u] # "absent" =>
             /\ IsRegistration(u) /\ address[u] \in Addresses
             /\ pc[u] \in Registering \union {"done", "failed"}
        /\ IsRegistration(u) => pc[u] \notin {"idle", "latest", "window", "consume"}
        /\ pc[u] = "create" => IsRegistration(u) /\ address[u] \in Addresses
        /\ IsRegistration(u) /\ pc[u] \in Registering => user[u] # "absent"

\* No two users have the same address.
AddressesUnique ==
    \A u, v \in Requests :
        user[u] # "absent" /\ user[v] # "absent" /\ address[u] = address[v] => u = v

\* Requests are about accounts; a stored, used or mailed token was made by a
\* request about the same account.
TokensTrackAccounts ==
    /\ \A r \in Requests : pc[r] \notin {"idle", "failed"} => acct[r] \in Requests
    /\ \A r \in Requests : pc[r] = "idle" => acct[r] = None
    /\ \A r \in Requests : acct[r] # None => IsRegistration(acct[r])
    /\ \A u \in Requests : tokens[u].id # None =>
         tokens[u].token \in Requests /\ acct[tokens[u].token] = u
    /\ \A r \in Requests : pc[r] = "readback" => held[r].id # None
    /\ \A r \in Requests : pc[r] = "send" =>
         held[r].token \in Requests /\ acct[held[r].token] = acct[r]
    /\ \A t, u \in Requests : <<t, u>> \in mailed => acct[t] = u
    /\ \A r \in Requests : pc[r] = "consume" => <<held[r].token, acct[r]>> \in mailed

(***************************************************************************)
(* Accounts, token rows, mails and open requests stay in step.             *)
(***************************************************************************)
VerificationInv ==
    /\ TypeOK
    /\ UsersTrackRegistrations
    /\ AddressesUnique
    /\ TokensTrackAccounts
    /\ LinkVerifiesItsAccount
    /\ AnsweredAccountIsTheOnlyOne
=============================================================================

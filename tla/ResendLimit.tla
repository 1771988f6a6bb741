---------------------------- MODULE ResendLimit ----------------------------
(***************************************************************************)
(* The limit of ResendVerificationEmail: maxResendCountPerWindow           *)
(* successful resends in resendVerificationWindow.  The window lives in    *)
(* the row of the token, is read at the beginning of a resend and written  *)
(* at its end, and the upsert of a new token clears it in between.         *)
(*                                                                         *)
(* The specification is EmailVerification with a history of what the limit *)
(* does not withstand: requests of one account that overlap, and a resend  *)
(* that fails after its upsert has cleared the window.                     *)
(***************************************************************************)
EXTENDS EmailVerification, FiniteSets

ASSUME RequestsAssumption == IsFiniteSet(Requests)

VARIABLE disturbed   \* the accounts this has happened to

resendVars == <<vars, disturbed>>

\* A registration or a resend between its first and its last call.
Sending == {"latest", "window"} \union Registering

\* With the id of the row in hand.
Holding == {"readback", "send", "undo_token", "window"}

Overlapping ==
    {u \in Requests :
       Cardinality({r \in Requests : acct'[r] = u /\ pc'[r] \in Sending}) > 1}

\* Accounts of requests that fail and leave their own new token in the row,
\* without a window, or have deleted the row.
Forgotten ==
    {u \in Requests : \E r \in Requests :
       /\ acct[r] = u /\ pc[r] # "failed" /\ pc'[r] = "failed"
       /\ tokens'[u].token \in {r, None}}

ResendInit == Init /\ disturbed = {}

ResendNext == Next /\ disturbed' = disturbed \union Overlapping \union Forgotten

ResendSpec == ResendInit /\ [][ResendNext]_resendVars

---------------------------------------------------------------------------
(* Properties.                                                             *)

\* The successful resends of account u whose window is open.
OpenResends(u) ==
    {r \in Requests : /\ acct[r] = u /\ ~IsRegistration(r) /\ pc[r] = "done"
                      /\ resend[r].start # None /\ resend[r].start \notin elapsed}

(***************************************************************************)
(* No account gets more successful resends in open windows than the limit, *)
(* whatever expires, is verified, fails to be sent or is registered        *)
(* meanwhile (resend_verification_email.go:21: the "fixed window rate      *)
(* limit applies only to successful resend operations"), unless its        *)
(* requests overlapped or one of them failed after it replaced the token.  *)
(***************************************************************************)
ResendsLimited ==
    \A u \in Requests \ disturbed : Cardinality(OpenResends(u)) <= maxResendCountPerWindow
---------------------------------------------------------------------------
(* The inductive invariant.                                                *)

Senders(u) == {r \in Requests : acct[r] = u /\ pc[r] \in Sending}

\* The open resends of account u are those of window w, which counts them.
Counted(u, w) ==
    /\ \A r \in OpenResends(u) : resend[r].start = w.start
    /\ Cardinality(OpenResends(u)) <= w.count

\* While the row of account u is not the one a request about it is replacing,
\* its window counts the open resends; what a resend carries counts one more.
LimitTracked(u) ==
    /\ \A q, r \in Senders(u) : q = r
    /\ (\A s \in Senders(u) : pc[s] = "latest" \/ tokens[u].token # s) =>
         Counted(u, tokens[u].window)
    /\ \A s \in Senders(u) :
         /\ pc[s] \in Holding => held[s].id = tokens[u].id
         /\ IsRegistration(s) => OpenResends(u) = {}
         /\ ~IsRegistration(s) /\ pc[s] # "latest" =>
              Counted(u, resend[s]) /\ Cardinality(OpenResends(u)) < resend[s].count

\* Rows, and the ids of rows that requests hold, are of their accounts; only
\* created accounts have rows and requests; only resends have a window.
RowsTracked ==
    /\ \A r \in Requests : pc[r] \in {"idle", "create", "consume"} => resend[r] = NoWindow
    /\ \A u \in Requests :
         /\ tokens[u].id # None => acct[tokens[u].id] = u
         /\ tokens[u].id # None \/ (\E q \in Requests \ {u} : acct[q] = u) =>
              pc[u] \notin {"idle", "create"}
    /\ \A r \in Requests : pc[r] \in Holding =>
         held[r].id \in Requests /\ acct[held[r].id] = acct[r]

(***************************************************************************)
(* Rows stay with their accounts, and the limit is tracked for every       *)
(* account that was not disturbed.                                         *)
(***************************************************************************)
ResendInv ==
    /\ VerificationInv
    /\ RowsTracked
    /\ \A u \in Requests \ disturbed : LimitTracked(u)
===========================================================================

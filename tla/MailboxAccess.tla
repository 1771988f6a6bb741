--------------------------- MODULE MailboxAccess ---------------------------
(***************************************************************************)
(* Whose mailbox a workflow reads.  A run names a user and a connection    *)
(* id, and looks the connection up three times: for the account shown in   *)
(* its history (resolveConnectionSnapshot), for the ConnectionRef its      *)
(* emails are stored under (FindUsableConnection), and for the tokens of   *)
(* its Gmail session (GmailSessionBuilder.Build).  Between any two of them *)
(* connections may be removed, linked again and given other tokens, and    *)
(* other runs build sessions from the same client.                         *)
(***************************************************************************)
EXTENDS MailAccountConnection

CONSTANT Runs   \* runs of workflows

VARIABLE
    run     \* each run: where it is, its command and what it has read

accessVars == <<vars, run>>

\* account: account_identifier of the history; ref: that of ConnectionRef;
\* tokens: the access and refresh token of its Gmail session.
NoRun == [at |-> "idle", user |-> Nobody, connection |-> 0,
          account |-> Nobody, ref |-> Nobody, tokens |-> {}]

AccessInit ==
    /\ Init
    /\ run = [r \in Runs |-> NoRun]

\* The addresses of the connection with this id if the user owns it; ids
\* are unique, so there is at most one.  Pending rows are not connections.
FindCredentialByIDAndUser(id, u) == {a \in Addresses : id # 0 /\ creds[<<u, a>>].id = id}

\* The command of a request has any user and any connection id; without
\* the user's connection there is no run.
resolveConnectionSnapshot(r, u, id) ==
    /\ run[r].at = "idle"
    /\ \E a \in FindCredentialByIDAndUser(id, u) :
         run' = [run EXCEPT ![r] = [NoRun EXCEPT !.at = "queued", !.user = u,
                                      !.connection = id, !.account = a]]
    /\ UNCHANGED vars

RefuseRun(r, u, id) ==
    /\ run[r].at = "idle"
    /\ FindCredentialByIDAndUser(id, u) = {}
    /\ UNCHANGED accessVars

FindUsableConnection(r) ==
    /\ run[r].at = "queued"
    /\ \E a \in FindCredentialByIDAndUser(run[r].connection, run[r].user) :
         run' = [run EXCEPT ![r].at = "build", ![r].ref = a]
    /\ UNCHANGED vars

\* Mutant: the session is put into the one client all runs share.
BuildSharedClient(r) ==
    /\ run[r].at = "build"
    /\ \E a \in FindCredentialByIDAndUser(run[r].connection, run[r].user) :
         LET row == creds[<<run[r].user, a>>] IN
         run' = [q \in Runs |->
                   IF q = r \/ run[q].at = "open"
                   THEN [run[q] EXCEPT !.at = "open",
                                       !.tokens = {row.access, row.refresh}]
                   ELSE run[q]]
    /\ UNCHANGED vars

\* SetClient returns a client of its own for the session.
Build(r) ==
    /\ run[r].at = "build"
    /\ \E a \in FindCredentialByIDAndUser(run[r].connection, run[r].user) :
         LET row == creds[<<run[r].user, a>>] IN
         run' = [run EXCEPT ![r].at = "open",
                            ![r].tokens = {row.access, row.refresh}]
    /\ UNCHANGED vars

\* The connection is gone, or a call fails: the fetch stage errors.
FetchErrors(r) ==
    /\ run[r].at \in {"queued", "build"}
    /\ \/ FindCredentialByIDAndUser(run[r].connection, run[r].user) = {}
       \/ "error" \in Faults
    /\ run' = [run EXCEPT ![r] = NoRun]
    /\ UNCHANGED vars

\* The mails have been read; the next run may begin.
CloseSession(r) ==
    /\ run[r].at = "open"
    /\ run' = [run EXCEPT ![r] = NoRun]
    /\ UNCHANGED vars

RunStep(r) ==
    \/ \E u \in Users, id \in 0..lastID :
         resolveConnectionSnapshot(r, u, id) \/ RefuseRun(r, u, id)
    \/ FindUsableConnection(r) \/ Build(r) \/ FetchErrors(r) \/ CloseSession(r)

AccessNext ==
    \/ Next /\ UNCHANGED run
    \/ \E r \in Runs : RunStep(r)

AccessSpec == AccessInit /\ [][AccessNext]_accessVars

---------------------------------------------------------------------------
(* Properties.                                                             *)

(***************************************************************************)
(* The mailbox a run has open is the one its user linked under the address *)
(* its history shows and its emails are stored under, although the three   *)
(* lookups may see three different states of the connection.               *)
(***************************************************************************)
RunReadsItsAccount ==
    \A r \in Runs : run[r].at = "open" =>
        /\ run[r].ref = run[r].account
        /\ \A t \in run[r].tokens : Key(t) = <<run[r].user, run[r].account>>
---------------------------------------------------------------------------
(* The inductive invariant.                                                *)

RunRecord ==
    [at : {"idle", "queued", "build", "open"}, user : Users \union {Nobody},
     connection : Nat, account : Addresses \union {Nobody},
     ref : Addresses \union {Nobody}, tokens : SUBSET Callbacks]

\* If the connection of run r is still in the table, it is still that of its
\* user and account; the tokens of a session are settled ones of that account.
FollowsConnection(r) ==
    LET key == <<run[r].user, run[r].account>> IN
    run[r].at # "idle" =>
        /\ run[r].user \in Users
        /\ run[r].connection # 0 /\ run[r].connection <= lastID
        /\ \A k \in Keys : creds[k].id = run[r].connection => k = key
        /\ run[r].at # "queued" => run[r].ref = run[r].account
        /\ \A t \in run[r].tokens : pc[t] \in Settled /\ Key(t) = key

(***************************************************************************)
(* Whatever is linked, removed and linked again, the connection id of a    *)
(* run never names another user's or address's row.                        *)
(***************************************************************************)
AccessInv ==
    /\ ConnectionInv
    /\ run \in [Runs -> RunRecord]
    /\ \A r \in Runs : FollowsConnection(r)
===========================================================================

---------------------- MODULE EmailVerification_proofs ----------------------
(***************************************************************************)
(* For any number of addresses and requests and under every fault: an      *)
(* answered registration keeps the only account of its address, only its   *)
(* own links verify an account and admit to it, and resends keep to their  *)
(* limit (EmailVerification, ResendLimit and AccessTokens).                *)
(***************************************************************************)
EXTENDS AccessTokens, FiniteSetTheorems, TLAPS

\* Before the first request both tables are empty.
LEMMA InitInv == Init => VerificationInv
<1> SUFFICES ASSUME Init PROVE VerificationInv
  OBVIOUS
<1>1. NoRow \in TokenRow /\ NoRow.id = None /\ NoWindow \in Window
  BY ResendAssumption DEF NoRow, TokenRow, NoWindow, Window, Counts, Name
<1>2. TypeOK
  BY <1>1 DEF Init, TypeOK, PCs, Registering, Name, NoToken
<1>3. UsersTrackRegistrations /\ AddressesUnique /\ LinkVerifiesItsAccount /\ AnsweredAccountIsTheOnlyOne
  BY VerificationNoneAssumption
  DEF Init, UsersTrackRegistrations, AddressesUnique, LinkVerifiesItsAccount, AnsweredAccountIsTheOnlyOne,
      IsRegistration
<1>4. TokensTrackAccounts
  BY <1>1 DEF Init, TokensTrackAccounts
<1> QED
  BY <1>2, <1>3, <1>4 DEF VerificationInv

(***************************************************************************)
(* A step of a request that writes neither users nor addresses, mails at   *)
(* most more, and is answered as a registration only with a mail, keeps    *)
(* what the invariant says of accounts.                                    *)
(***************************************************************************)
LEMMA AccountsUntouched ==
    ASSUME VerificationInv, NEW r \in Requests,
           UNCHANGED <<user, address, acct>>,
           mailed \subseteq mailed',
           pc' \in [Requests -> PCs],
           \A q \in Requests \ {r} : pc'[q] = pc[q],
           pc[r] \notin {"idle", "done", "failed"}, pc'[r] \notin {"idle", "create"},
           IsRegistration(r) =>
             /\ pc[r] \in Registering \/ pc'[r] \notin Registering
             /\ pc'[r] \notin {"latest", "window", "consume"},
           user[r] # "absent" => pc'[r] \in Registering \union {"done", "failed"},
           pc'[r] = "done" /\ IsRegistration(r) =>
             user[r] # "absent" /\ \E t \in Requests : <<t, r>> \in mailed'
    PROVE  /\ UsersTrackRegistrations' /\ AddressesUnique'
           /\ LinkVerifiesItsAccount' /\ AnsweredAccountIsTheOnlyOne'
<1>1. UsersTrackRegistrations'
  BY DEF VerificationInv, UsersTrackRegistrations, IsRegistration
<1>2. AddressesUnique' /\ LinkVerifiesItsAccount'
  BY DEF VerificationInv, AddressesUnique, LinkVerifiesItsAccount
<1>3. AnsweredAccountIsTheOnlyOne'
  BY DEF VerificationInv, AnsweredAccountIsTheOnlyOne, AddressesUnique, IsRegistration
<1> QED
  BY <1>1, <1>2, <1>3

\* A request about an account that is under way is a registration past
\* CreateUser, a resend or a verification.
LEMMA RegistrationSteps ==
    ASSUME VerificationInv, NEW r \in Requests, user[r] # "absent"
    PROVE  IsRegistration(r) /\ pc[r] \in Registering \union {"done", "failed"}
BY DEF VerificationInv, UsersTrackRegistrations

\* A request that begins keeps what the invariant says of tokens and mails.
LEMMA TokensUntouched ==
    ASSUME VerificationInv, NEW r \in Requests, UNCHANGED <<tokens, mailed>>,
           acct' \in [Requests -> Name],
           \A q \in Requests \ {r} : pc'[q] = pc[q] /\ acct'[q] = acct[q] /\ held'[q] = held[q],
           pc[r] = "idle", pc'[r] \notin {"idle", "readback", "send"},
           pc'[r] # "failed" => acct'[r] \in Requests,
           acct'[r] # None => acct'[acct'[r]] = acct'[r],
           pc'[r] = "consume" => <<held'[r].token, acct'[r]>> \in mailed
    PROVE  TokensTrackAccounts'
<1>1. acct[r] = None
  BY DEF VerificationInv, TokensTrackAccounts
<1>2. \A t \in Requests : acct[t] \in Requests => acct'[t] = acct[t]
  BY <1>1, VerificationNoneAssumption
<1>3. \A q \in Requests : acct'[q] # None => acct'[acct'[q]] = acct'[q]
  <2>1. ASSUME NEW q \in Requests \ {r}, acct'[q] # None
        PROVE  acct'[acct'[q]] = acct'[q]
    <3>1. acct'[q] = acct[q] /\ acct[q] \in Requests /\ acct[acct[q]] = acct[q]
      BY <2>1 DEF VerificationInv, TypeOK, Name, TokensTrackAccounts, IsRegistration
    <3> QED
      BY <1>2, <3>1
  <2> QED
    BY <2>1
<1>4. ASSUME NEW u \in Requests, tokens[u].id # None
      PROVE  tokens[u].token \in Requests /\ acct'[tokens[u].token] = u
  BY <1>2, <1>4 DEF VerificationInv, TokensTrackAccounts
<1>5. ASSUME NEW q \in Requests, pc'[q] = "send"
      PROVE  held'[q].token \in Requests /\ acct'[held'[q].token] = acct'[q]
  <2>1. q # r /\ pc[q] = "send" /\ held'[q] = held[q] /\ acct'[q] = acct[q]
    BY <1>5
  <2>2. acct[q] \in Requests /\ held[q].token \in Requests /\ acct[held[q].token] = acct[q]
    BY <2>1 DEF VerificationInv, TokensTrackAccounts
  <2> QED
    BY <1>2, <2>1, <2>2
<1>6. \A t, u \in Requests : <<t, u>> \in mailed => acct'[t] = u
  BY <1>2 DEF VerificationInv, TokensTrackAccounts
<1>7. \A q \in Requests :
        /\ pc'[q] = "readback" => held'[q].id # None
        /\ pc'[q] = "consume" => <<held'[q].token, acct'[q]>> \in mailed
  BY DEF VerificationInv, TokensTrackAccounts
<1>8. \A q \in Requests :
        /\ pc'[q] \notin {"idle", "failed"} => acct'[q] \in Requests
        /\ pc'[q] = "idle" => acct'[q] = None
  BY DEF VerificationInv, TokensTrackAccounts
<1> QED
  BY <1>3, <1>4, <1>5, <1>6, <1>7, <1>8 DEF TokensTrackAccounts, IsRegistration

\* So does a request under way that only moves.
LEMMA RequestMoves ==
    ASSUME VerificationInv, NEW r \in Requests, UNCHANGED <<tokens, mailed, acct, held>>,
           \A q \in Requests \ {r} : pc'[q] = pc[q],
           pc[r] \notin {"idle", "done", "failed"},
           pc'[r] \notin {"idle", "readback", "send", "consume"}
    PROVE  TokensTrackAccounts'
BY DEF VerificationInv, TokensTrackAccounts, IsRegistration

\* Register: the request becomes a registration.
LEMMA RegisterInv ==
    ASSUME VerificationInv, NEW r \in Requests, NEW a \in Addresses, Register(r, a)
    PROVE  VerificationInv'
<1> USE DEF Register, Goto
<1>1. TypeOK'
  BY DEF VerificationInv, TypeOK, PCs, Name
<1>2. /\ pc[r] = "idle" /\ pc'[r] \in {"create", "failed"} /\ acct'[r] = r /\ address'[r] = a
      /\ acct[r] = None /\ user[r] = "absent"
      /\ \A q \in Requests \ {r} : pc'[q] = pc[q] /\ acct'[q] = acct[q] /\ address'[q] = address[q]
  BY DEF VerificationInv, TypeOK, UsersTrackRegistrations, TokensTrackAccounts, Registering
<1> HIDE DEF Register
<1>3. UNCHANGED <<user, tokens, mailed, held>>
  BY DEF Register
<1>4. UsersTrackRegistrations'
  BY <1>2, <1>3 DEF VerificationInv, UsersTrackRegistrations, IsRegistration, Registering
<1>5. AddressesUnique'
  BY <1>2, <1>3 DEF VerificationInv, AddressesUnique
<1>6. \A t \in Requests, u \in Requests : acct[t] = u => acct'[t] = u
  BY <1>2, VerificationNoneAssumption
<1>7. LinkVerifiesItsAccount'
  BY <1>3, <1>6 DEF VerificationInv, LinkVerifiesItsAccount
<1>8. AnsweredAccountIsTheOnlyOne'
  BY <1>2, <1>3 DEF VerificationInv, AnsweredAccountIsTheOnlyOne, IsRegistration
<1>9. TokensTrackAccounts'
  <2>1. acct'[acct'[r]] = acct'[r] /\ acct'[r] \in Requests
    BY <1>2
  <2> QED
    BY <1>1, <1>2, <1>3, <2>1, TokensUntouched DEF TypeOK
<1> QED
  BY <1>1, <1>4, <1>5, <1>7, <1>8, <1>9 DEF VerificationInv

\* A resend begins; it is about another request's account.
LEMMA ResendRequestInv ==
    ASSUME VerificationInv, NEW r \in Requests, NEW u \in Requests, ResendVerificationEmail(r, u)
    PROVE  VerificationInv'
<1> USE DEF ResendVerificationEmail, Goto
<1>1. TypeOK'
  BY DEF VerificationInv, TypeOK, PCs, Name
<1>2. /\ pc[r] = "idle" /\ pc'[r] \in {"latest", "failed"} /\ acct'[r] = u /\ u # r /\ acct[u] = u
      /\ acct[r] = None /\ user[r] = "absent"
      /\ \A q \in Requests \ {r} : pc'[q] = pc[q] /\ acct'[q] = acct[q]
  BY DEF VerificationInv, TypeOK, UsersTrackRegistrations, TokensTrackAccounts, Registering, IsRegistration
<1> HIDE DEF ResendVerificationEmail
<1>3. UNCHANGED <<user, tokens, mailed, held, address>>
  BY DEF ResendVerificationEmail
<1>4. UsersTrackRegistrations'
  BY <1>2, <1>3 DEF VerificationInv, UsersTrackRegistrations, IsRegistration
<1>5. AddressesUnique'
  BY <1>3 DEF VerificationInv, AddressesUnique
<1>6. \A t \in Requests, v \in Requests : acct[t] = v => acct'[t] = v
  BY <1>2, VerificationNoneAssumption
<1>7. LinkVerifiesItsAccount'
  BY <1>3, <1>6 DEF VerificationInv, LinkVerifiesItsAccount
<1>8. AnsweredAccountIsTheOnlyOne'
  BY <1>2, <1>3 DEF VerificationInv, AnsweredAccountIsTheOnlyOne, IsRegistration
<1>9. TokensTrackAccounts'
  <2>1. acct'[acct'[r]] = acct'[r] /\ acct'[r] \in Requests
    BY <1>2 DEF VerificationInv, UsersTrackRegistrations, IsRegistration
  <2> QED
    BY <1>1, <1>2, <1>3, <2>1, TokensUntouched DEF TypeOK
<1> QED
  BY <1>1, <1>4, <1>5, <1>7, <1>8, <1>9 DEF VerificationInv

\* The token a verification finds is of the account it was mailed to.
LEMMA VerifyInv ==
    ASSUME VerificationInv, NEW r \in Requests, NEW t \in Requests, NEW u \in Requests,
           <<t, u>> \in mailed, VerifyEmail(r, t)
    PROVE  VerificationInv'
<1>1. pc[r] = "idle" /\ UNCHANGED <<user, tokens, expired, elapsed, mailed, address, fresh, resend>>
  BY DEF VerifyEmail
<1>2. acct[r] = None /\ user[r] = "absent" /\ acct[t] = u /\ acct[u] = u /\ u # r
  <2>1. acct[r] = None /\ acct[t] = u
    BY <1>1 DEF VerificationInv, TokensTrackAccounts
  <2>2. user[r] = "absent"
    BY <1>1 DEF VerificationInv, UsersTrackRegistrations, Registering
  <2>3. acct[u] = u
    BY <2>1, VerificationNoneAssumption DEF VerificationInv, TokensTrackAccounts, IsRegistration
  <2> QED
    BY <2>1, <2>2, <2>3, VerificationNoneAssumption
<1>3. \/ pc' = [pc EXCEPT ![r] = "failed"] /\ acct' = acct /\ held' = held
      \/ \E v \in Requests :
           /\ tokens[v].id # None /\ tokens[v].token = t
           /\ pc' = [pc EXCEPT ![r] = "consume"]
           /\ acct' = [acct EXCEPT ![r] = v]
           /\ held' = [held EXCEPT ![r] = [id |-> tokens[v].id, token |-> t]]
  BY Zenon DEF VerifyEmail, Goto
<1>4. \A v \in Requests : tokens[v].id # None /\ tokens[v].token = t => v = u
  BY <1>2 DEF VerificationInv, TokensTrackAccounts
<1>5. \/ pc' = [pc EXCEPT ![r] = "failed"] /\ acct' = acct /\ held' = held
      \/ /\ pc' = [pc EXCEPT ![r] = "consume"] /\ tokens[u].id # None
         /\ acct' = [acct EXCEPT ![r] = u]
         /\ held' = [held EXCEPT ![r] = [id |-> tokens[u].id, token |-> t]]
  BY <1>3, <1>4
<1>6. TypeOK'
  BY <1>1, <1>5 DEF VerificationInv, TypeOK, TokenRow, Name, PCs
<1>7. /\ pc'[r] \in {"consume", "failed"} /\ acct'[r] # r
      /\ \A q \in Requests \ {r} : pc'[q] = pc[q] /\ acct'[q] = acct[q] /\ held'[q] = held[q]
      /\ pc'[r] = "consume" => acct'[r] = u /\ held'[r].token = t
      /\ pc'[r] = "failed" => acct'[r] = None
  BY <1>2, <1>5, VerificationNoneAssumption DEF VerificationInv, TypeOK
<1>8. \A q \in Requests, v \in Requests : acct[q] = v => acct'[q] = v
  BY <1>2, <1>7, VerificationNoneAssumption
<1>9. UsersTrackRegistrations'
  BY <1>1, <1>2, <1>7 DEF VerificationInv, UsersTrackRegistrations, IsRegistration
<1>10. AddressesUnique' /\ LinkVerifiesItsAccount'
  BY <1>1, <1>8 DEF VerificationInv, AddressesUnique, LinkVerifiesItsAccount
<1>11. AnsweredAccountIsTheOnlyOne'
  BY <1>1, <1>7 DEF VerificationInv, AnsweredAccountIsTheOnlyOne, IsRegistration
<1>12. TokensTrackAccounts'
  <2>1. acct'[r] # None => acct'[acct'[r]] = acct'[r]
    BY <1>2, <1>7, <1>8
  <2> QED
    BY <1>1, <1>6, <1>7, <2>1, TokensUntouched DEF TypeOK
<1> QED
  BY <1>6, <1>9, <1>10, <1>11, <1>12 DEF VerificationInv

\* The unique key keeps addresses apart.
LEMMA CreateUserInv ==
    ASSUME VerificationInv, NEW r \in Requests, CreateUser(r)
    PROVE  VerificationInv'
<1>1. /\ pc[r] = "create" /\ pc'[r] \in {"active", "failed"}
      /\ pc' \in [Requests -> PCs]
      /\ \A q \in Requests \ {r} : pc'[q] = pc[q]
      /\ UNCHANGED <<tokens, expired, elapsed, mailed, address, acct, held, fresh, resend>>
  BY DEF VerificationInv, TypeOK, CreateUser, Applied, OnError, Goto, PCs, Registering
<1>2. \/ user' = user /\ pc'[r] = "failed"
      \/ user' = [user EXCEPT ![r] = "unverified"] /\ ~Taken(address[r])
  BY DEF VerificationInv, TypeOK, CreateUser, Goto
<1>3. user[r] = "absent"
  BY <1>1, RegistrationSteps DEF Registering
<1>4. TypeOK'
  BY <1>1, <1>2 DEF VerificationInv, TypeOK
<1>5. TokensTrackAccounts'
  BY <1>1, RequestMoves
<1>7. \A q \in Requests \ {r} : user'[q] = user[q]
  BY <1>2 DEF VerificationInv, TypeOK
<1>8. user'[r] # "absent" => IsRegistration(r) /\ address[r] \in Addresses
  BY <1>1 DEF VerificationInv, UsersTrackRegistrations
<1>9. pc'[r] = "active" => user'[r] # "absent"
  BY <1>2 DEF VerificationInv, TypeOK
<1>10. UsersTrackRegistrations'
  BY <1>1, <1>3, <1>7, <1>8, <1>9 DEF VerificationInv, UsersTrackRegistrations, IsRegistration, Registering
<1>11. \A q \in Requests \ {r} : user'[r] # "absent" /\ user[q] # "absent" => address[q] # address[r]
  BY <1>2, <1>3 DEF Taken
<1>12. AddressesUnique'
  BY <1>1, <1>7, <1>11 DEF VerificationInv, AddressesUnique
<1>13. LinkVerifiesItsAccount'
  BY <1>1, <1>2, <1>3, <1>7 DEF VerificationInv, TypeOK, LinkVerifiesItsAccount
<1>14. AnsweredAccountIsTheOnlyOne'
  BY <1>1, <1>7, <1>11 DEF VerificationInv, AnsweredAccountIsTheOnlyOne, IsRegistration
<1> QED
  BY <1>4, <1>5, <1>10, <1>12, <1>13, <1>14 DEF VerificationInv

\* Steps that only read, and errors: GetLatestTokenForUser and CallFails.
LEMMA MoveInv ==
    ASSUME VerificationInv, NEW r \in Requests, GetLatestTokenForUser(r) \/ CallFails(r)
    PROVE  VerificationInv'
<1>1. /\ pc[r] \in {"create", "latest", "active", "upsert", "readback", "window", "consume"}
      /\ pc'[r] \in {"active", "undo_user", "failed"}
      /\ pc' \in [Requests -> PCs]
      /\ \A q \in Requests \ {r} : pc'[q] = pc[q]
      /\ UNCHANGED <<user, tokens, expired, elapsed, mailed, address, acct, held, fresh>>
  BY DEF VerificationInv, TypeOK, GetLatestTokenForUser, CallFails, OnError, Goto, PCs, Registering
<1>2. /\ pc'[r] = "undo_user" => IsRegistration(r) /\ pc[r] \in Registering
      /\ pc'[r] = "active" => pc[r] = "latest"
  BY DEF VerificationInv, TypeOK, GetLatestTokenForUser, CallFails, OnError, Goto
<1>3. resend' \in [Requests -> Window]
  <2>1. CASE CallFails(r)
    BY <2>1 DEF VerificationInv, TypeOK, CallFails
  <2>2. CASE GetLatestTokenForUser(r)
    <3> DEFINE w == tokens[acct[r]].window
    <3>1. acct[r] \in Requests /\ w \in Window
      BY <2>2 DEF VerificationInv, TypeOK, TokensTrackAccounts, GetLatestTokenForUser, TokenRow
    <3>2. w.count < maxResendCountPerWindow => [w EXCEPT !.count = @ + 1] \in Window
      BY <3>1, ResendAssumption DEF Window, Counts
    <3>3. [start |-> r, count |-> 1] \in Window
      BY ResendAssumption DEF Window, Counts, Name
    <3>4. \/ resend' = resend
          \/ resend' = [resend EXCEPT ![r] = [start |-> r, count |-> 1]]
          \/ /\ resend' = [resend EXCEPT ![r] = [w EXCEPT !.count = @ + 1]]
             /\ ~(w.count >= maxResendCountPerWindow)
      BY <2>2 DEF GetLatestTokenForUser
    <3>5. w.count \in Nat /\ maxResendCountPerWindow \in Nat
      BY <3>1, ResendAssumption DEF Window, Counts
    <3>6. resend' = resend \/ \E x \in Window : resend' = [resend EXCEPT ![r] = x]
      <4>1. CASE ~(w.count >= maxResendCountPerWindow)
        <5>1. [w EXCEPT !.count = @ + 1] \in Window
          BY <3>2, <3>5, <4>1
        <5> QED
          BY <3>3, <3>4, <5>1
      <4>2. CASE w.count >= maxResendCountPerWindow
        BY <3>3, <3>4, <4>2
      <4> QED
        BY <4>1, <4>2
    <3>7. resend \in [Requests -> Window]
      BY DEF VerificationInv, TypeOK
    <3> HIDE DEF w
    <3> QED
      BY <3>6, <3>7
  <2> QED
    BY <2>1, <2>2
<1>4. TypeOK'
  BY <1>1, <1>3 DEF VerificationInv, TypeOK
<1>5. TokensTrackAccounts'
  BY <1>1, RequestMoves
<1>6. /\ UsersTrackRegistrations' /\ AddressesUnique'
      /\ LinkVerifiesItsAccount' /\ AnsweredAccountIsTheOnlyOne'
  BY <1>1, <1>2, RegistrationSteps, AccountsUntouched
  DEF VerificationInv, UsersTrackRegistrations, Registering
<1> QED
  BY <1>4, <1>5, <1>6 DEF VerificationInv

\* A registration or resend takes over the active token of its account.
LEMMA GetActiveInv ==
    ASSUME VerificationInv, NEW r \in Requests, GetActiveTokenForUser(r)
    PROVE  VerificationInv'
<1> DEFINE row == tokens[acct[r]]
<1>1. /\ pc[r] = "active" /\ pc'[r] \in {"send", "upsert"}
      /\ pc' \in [Requests -> PCs]
      /\ \A q \in Requests \ {r} : pc'[q] = pc[q] /\ held'[q] = held[q]
      /\ UNCHANGED <<user, tokens, expired, elapsed, mailed, address, acct, fresh, resend>>
  BY DEF VerificationInv, TypeOK, GetActiveTokenForUser, Goto, PCs, Registering
<1>2. acct[r] \in Requests /\ row \in TokenRow
  BY <1>1 DEF VerificationInv, TypeOK, TokensTrackAccounts
<1>3. pc'[r] = "send" => row.id # None /\ held'[r] = [id |-> row.id, token |-> row.token]
  BY DEF VerificationInv, TypeOK, GetActiveTokenForUser, Goto
<1>4. TypeOK'
  <2>1. held' \in [Requests -> [id : Name, token : Name]]
    BY <1>2 DEF VerificationInv, TypeOK, GetActiveTokenForUser, TokenRow
  <2> QED
    BY <1>1, <2>1 DEF VerificationInv, TypeOK
<1>5. pc'[r] = "send" => held'[r].token \in Requests /\ acct[held'[r].token] = acct[r]
  BY <1>2, <1>3 DEF VerificationInv, TokensTrackAccounts
<1> HIDE DEF row
<1>6. TokensTrackAccounts'
  BY <1>1, <1>5 DEF VerificationInv, TokensTrackAccounts, IsRegistration
<1>7. /\ UsersTrackRegistrations' /\ AddressesUnique'
      /\ LinkVerifiesItsAccount' /\ AnsweredAccountIsTheOnlyOne'
  BY <1>1, AccountsUntouched DEF Registering
<1> QED
  BY <1>4, <1>6, <1>7 DEF VerificationInv

\* The upsert puts a token of the request into the row of its account.
LEMMA UpsertInv ==
    ASSUME VerificationInv, NEW r \in Requests, CreateEmailVerificationToken(r)
    PROVE  VerificationInv'
<1> DEFINE u == acct[r]
           id == IF tokens[u].id = None THEN r ELSE tokens[u].id
           new == [id |-> id, token |-> r, consumed |-> FALSE, window |-> NoWindow]
<1>1. /\ pc[r] = "upsert" /\ pc'[r] \in {"readback", "undo_user", "failed"}
      /\ pc'[r] = "undo_user" => IsRegistration(r)
      /\ pc' \in [Requests -> PCs]
      /\ \A q \in Requests \ {r} : pc'[q] = pc[q]
      /\ UNCHANGED <<user, expired, elapsed, mailed, address, acct, fresh, resend>>
  BY DEF VerificationInv, TypeOK, CreateEmailVerificationToken, Applied, OnError, Goto, PCs, Registering
<1>2. u \in Requests /\ tokens[u] \in TokenRow
  BY <1>1 DEF VerificationInv, TypeOK, TokensTrackAccounts
<1>3. id \in Requests /\ id # None
  BY <1>2, VerificationNoneAssumption DEF TokenRow, Name
<1>4. /\ tokens' = [tokens EXCEPT ![u] = new]
      /\ held' = [held EXCEPT ![r] = [id |-> id, token |-> None]]
  BY DEF CreateEmailVerificationToken
<1> HIDE DEF id
<1>5. new \in TokenRow /\ new.id # None /\ new.token = r
  BY <1>3, ResendAssumption DEF TokenRow, Name, NoWindow, Window, Counts
<1> HIDE DEF new
<1>6. TypeOK'
  BY <1>1, <1>2, <1>3, <1>4, <1>5 DEF VerificationInv, TypeOK, Name
<1>7. /\ \A v \in Requests : tokens'[v] = IF v = u THEN new ELSE tokens[v]
      /\ \A q \in Requests \ {r} : held'[q] = held[q]
      /\ held'[r].id # None
  BY <1>2, <1>3, <1>4 DEF VerificationInv, TypeOK
<1>8. TokensTrackAccounts'
  BY <1>1, <1>2, <1>5, <1>7 DEF VerificationInv, TokensTrackAccounts, IsRegistration
<1>9. /\ UsersTrackRegistrations' /\ AddressesUnique'
      /\ LinkVerifiesItsAccount' /\ AnsweredAccountIsTheOnlyOne'
  BY <1>1, AccountsUntouched DEF Registering
<1> QED
  BY <1>6, <1>8, <1>9 DEF VerificationInv

\* What is read back is a token of the request's own account.
LEMMA RetrieveInv ==
    ASSUME VerificationInv, NEW r \in Requests, RetrieveToken(r)
    PROVE  VerificationInv'
<1> DEFINE row == tokens[acct[r]]
<1>1. /\ pc[r] = "readback" /\ pc'[r] \in {"send", "undo_user", "failed"}
      /\ pc'[r] = "undo_user" => IsRegistration(r)
      /\ pc' \in [Requests -> PCs]
      /\ \A q \in Requests \ {r} : pc'[q] = pc[q]
      /\ UNCHANGED <<user, tokens, expired, elapsed, mailed, address, acct, resend>>
  BY DEF VerificationInv, TypeOK, RetrieveToken, OnError, Goto, PCs, Registering
<1>2. acct[r] \in Requests /\ row \in TokenRow /\ held[r].id # None
  BY <1>1 DEF VerificationInv, TypeOK, TokensTrackAccounts
<1>3. \/ held' = held /\ fresh' = fresh /\ pc'[r] # "send"
      \/ /\ row.id = held[r].id
         /\ held' = [held EXCEPT ![r].token = row.token]
         /\ fresh' = [fresh EXCEPT ![r] = TRUE]
  BY DEF VerificationInv, TypeOK, RetrieveToken, OnError, Goto
<1>4. /\ pc'[r] = "send" => row.id # None /\ held'[r].token = row.token
      /\ \A q \in Requests \ {r} : held'[q] = held[q]
  BY <1>2, <1>3 DEF VerificationInv, TypeOK
<1>5. row.token \in Name
  BY <1>2 DEF TokenRow
<1>6. pc'[r] = "send" => held'[r].token \in Requests /\ acct[held'[r].token] = acct[r]
  BY <1>2, <1>4 DEF VerificationInv, TokensTrackAccounts
<1> HIDE DEF row
<1>7. TypeOK'
  <2>1. held \in [Requests -> [id : Name, token : Name]]
    BY DEF VerificationInv, TypeOK
  <2>2. held' \in [Requests -> [id : Name, token : Name]]
    BY <1>3, <1>5, <2>1
  <2>3. fresh' \in [Requests -> BOOLEAN]
    BY <1>3 DEF VerificationInv, TypeOK
  <2> QED
    BY <1>1, <2>2, <2>3 DEF VerificationInv, TypeOK
<1>8. TokensTrackAccounts'
  BY <1>1, <1>4, <1>6 DEF VerificationInv, TokensTrackAccounts, IsRegistration
<1>9. /\ UsersTrackRegistrations' /\ AddressesUnique'
      /\ LinkVerifiesItsAccount' /\ AnsweredAccountIsTheOnlyOne'
  BY <1>1, AccountsUntouched DEF Registering
<1> QED
  BY <1>7, <1>8, <1>9 DEF VerificationInv

\* The mail goes to the account its token was made for.
LEMMA SendInv ==
    ASSUME VerificationInv, NEW r \in Requests, Send(r) \/ SendFails(r)
    PROVE  VerificationInv'
<1>1. /\ pc[r] = "send" /\ pc'[r] \in {"done", "window", "undo_token", "failed"}
      /\ pc' \in [Requests -> PCs]
      /\ \A q \in Requests \ {r} : pc'[q] = pc[q]
      /\ UNCHANGED <<user, tokens, expired, elapsed, address, acct, held, fresh, resend>>
      /\ mailed' = mailed \/ mailed' = mailed \union {<<held[r].token, acct[r]>>}
  BY DEF VerificationInv, TypeOK, Send, SendFails, Goto, PCs, Registering
<1>2. /\ IsRegistration(r) => pc'[r] # "window"
      /\ pc'[r] = "done" => mailed' = mailed \union {<<held[r].token, acct[r]>>} /\ IsRegistration(r)
  BY DEF VerificationInv, TypeOK, Send, SendFails, Goto
<1>3. /\ acct[r] \in Requests /\ held[r].token \in Requests /\ acct[held[r].token] = acct[r]
      /\ IsRegistration(r) => user[r] # "absent"
      /\ user[r] # "absent" => IsRegistration(r)
  BY <1>1 DEF VerificationInv, TokensTrackAccounts, UsersTrackRegistrations, Registering
<1>4. TypeOK'
  BY <1>1, <1>3 DEF VerificationInv, TypeOK
<1>5. TokensTrackAccounts'
  BY <1>1, <1>3 DEF VerificationInv, TokensTrackAccounts, IsRegistration
<1>6. pc'[r] = "done" /\ IsRegistration(r) => \E t \in Requests : <<t, r>> \in mailed'
  BY <1>2, <1>3 DEF IsRegistration
<1>7. mailed \subseteq mailed'
  BY <1>1
<1>8. /\ UsersTrackRegistrations' /\ AddressesUnique'
      /\ LinkVerifiesItsAccount' /\ AnsweredAccountIsTheOnlyOne'
  BY <1>1, <1>2, <1>3, <1>6, <1>7, AccountsUntouched DEF Registering
<1> QED
  BY <1>4, <1>5, <1>8 DEF VerificationInv

\* Deleting a token row, or writing its window, changes no token.
LEMMA TokenRowInv ==
    ASSUME VerificationInv, NEW r \in Requests,
           DeleteTokenByID(r) \/ UpdateVerificationEmailResendWindow(r)
    PROVE  VerificationInv'
<1>1. /\ pc[r] \in {"undo_token", "window"} /\ pc'[r] \in {"undo_user", "done", "failed"}
      /\ pc[r] = "window" => pc'[r] \in {"done", "failed"}
      /\ pc[r] = "undo_token" => pc'[r] # "done"
      /\ pc'[r] = "undo_user" => IsRegistration(r)
      /\ pc' \in [Requests -> PCs]
      /\ \A q \in Requests \ {r} : pc'[q] = pc[q]
      /\ UNCHANGED <<user, expired, elapsed, mailed, address, acct, held, fresh, resend>>
  BY DEF VerificationInv, TypeOK, DeleteTokenByID, UpdateVerificationEmailResendWindow, UsersTrackRegistrations,
         Applied, OnError, Goto, PCs, Registering
<1>2. NoRow \in TokenRow /\ NoRow.id = None
  BY ResendAssumption DEF NoRow, TokenRow, NoWindow, Window, Counts, Name
<1>3. /\ tokens' \in [Requests -> TokenRow]
      /\ \A v \in Requests : tokens'[v].id # None =>
           tokens[v].id # None /\ tokens'[v].token = tokens[v].token
  <2>1. \A v \in Requests : tokens[v] \in TokenRow /\ resend[r] \in Window
    BY DEF VerificationInv, TypeOK
  <2>2. CASE DeleteTokenByID(r)
    BY <1>2, <2>1, <2>2 DEF VerificationInv, TypeOK, DeleteTokenByID
  <2>3. CASE UpdateVerificationEmailResendWindow(r)
    <3>1. ASSUME NEW v \in Requests
          PROVE  /\ [tokens[v] EXCEPT !.window = resend[r]] \in TokenRow
                 /\ [tokens[v] EXCEPT !.window = resend[r]].id = tokens[v].id
                 /\ [tokens[v] EXCEPT !.window = resend[r]].token = tokens[v].token
      BY <2>1 DEF TokenRow
    <3> QED
      BY <2>1, <2>3, <3>1 DEF UpdateVerificationEmailResendWindow
  <2> QED
    BY <2>2, <2>3
<1>4. TypeOK'
  BY <1>1, <1>3 DEF VerificationInv, TypeOK
<1>5. TokensTrackAccounts'
  BY <1>1, <1>3 DEF VerificationInv, TokensTrackAccounts, IsRegistration
<1>6. IsRegistration(r) => pc[r] = "undo_token"
  BY <1>1 DEF VerificationInv, UsersTrackRegistrations
<1>7. /\ UsersTrackRegistrations' /\ AddressesUnique'
      /\ LinkVerifiesItsAccount' /\ AnsweredAccountIsTheOnlyOne'
  BY <1>1, <1>6, AccountsUntouched DEF Registering
<1> QED
  BY <1>4, <1>5, <1>7 DEF VerificationInv

\* A registration deletes its own user only, before it is answered.
LEMMA DeleteUserInv ==
    ASSUME VerificationInv, NEW r \in Requests, DeleteUserByID(r)
    PROVE  VerificationInv'
<1>1. /\ pc[r] = "undo_user" /\ pc'[r] = "failed"
      /\ pc' \in [Requests -> PCs]
      /\ \A q \in Requests \ {r} : pc'[q] = pc[q] /\ user'[q] = user[q]
      /\ user'[r] \in {user[r], "absent"} /\ user' \in [Requests -> {"absent", "unverified", "verified"}]
      /\ UNCHANGED <<tokens, expired, elapsed, mailed, address, acct, held, fresh, resend>>
  BY DEF VerificationInv, TypeOK, DeleteUserByID, Goto, PCs
<1>2. TypeOK'
  BY <1>1 DEF VerificationInv, TypeOK
<1>3. TokensTrackAccounts'
  BY <1>1, RequestMoves
<1>4. \A q \in Requests : user'[q] # "absent" => user'[q] = user[q]
  BY <1>1
<1>5. UsersTrackRegistrations'
  BY <1>1, <1>4 DEF VerificationInv, UsersTrackRegistrations, IsRegistration, Registering
<1>6. AddressesUnique' /\ LinkVerifiesItsAccount'
  <2>1. AddressesUnique'
    BY <1>1, <1>4 DEF VerificationInv, AddressesUnique
  <2>2. LinkVerifiesItsAccount'
    BY <1>1, <1>4 DEF VerificationInv, LinkVerifiesItsAccount
  <2> QED
    BY <2>1, <2>2
<1>7. AnsweredAccountIsTheOnlyOne'
  BY <1>1, <1>4 DEF VerificationInv, AnsweredAccountIsTheOnlyOne, IsRegistration
<1> QED
  BY <1>2, <1>3, <1>5, <1>6, <1>7 DEF VerificationInv

\* The account that is verified is the one the presented token was mailed to.
LEMMA ConsumeInv ==
    ASSUME VerificationInv, NEW r \in Requests, ConsumeTokenAndVerifyUser(r)
    PROVE  VerificationInv'
<1> DEFINE u == acct[r]
<1>1. /\ pc[r] = "consume" /\ pc'[r] \in {"done", "failed"}
      /\ pc' \in [Requests -> PCs]
      /\ \A q \in Requests \ {r} : pc'[q] = pc[q]
      /\ UNCHANGED <<expired, elapsed, mailed, address, acct, held, fresh, resend>>
  BY DEF VerificationInv, TypeOK, ConsumeTokenAndVerifyUser, Applied, OnError, Goto, PCs, Registering
<1>2. u \in Requests /\ <<held[r].token, u>> \in mailed
  BY <1>1 DEF VerificationInv, TokensTrackAccounts
<1>3. held[r].token \in Requests
  BY <1>2 DEF VerificationInv, TypeOK
<1>4. acct[held[r].token] = u /\ ~IsRegistration(r)
  BY <1>1, <1>2, <1>3 DEF VerificationInv, TokensTrackAccounts, UsersTrackRegistrations
<1>5. \/ user' = user /\ tokens' = tokens
      \/ /\ user[u] # "absent" /\ user' = [user EXCEPT ![u] = "verified"]
         /\ tokens' = [v \in Requests |-> IF tokens[v].id = held[r].id
                          THEN [tokens[v] EXCEPT !.consumed = TRUE] ELSE tokens[v]]
  BY DEF ConsumeTokenAndVerifyUser
<1>6. /\ tokens' \in [Requests -> TokenRow]
      /\ \A v \in Requests : tokens'[v].id = tokens[v].id /\ tokens'[v].token = tokens[v].token
  <2>1. ASSUME NEW v \in Requests
        PROVE  /\ tokens[v] \in TokenRow
               /\ [tokens[v] EXCEPT !.consumed = TRUE] \in TokenRow
               /\ [tokens[v] EXCEPT !.consumed = TRUE].id = tokens[v].id
               /\ [tokens[v] EXCEPT !.consumed = TRUE].token = tokens[v].token
    BY DEF VerificationInv, TypeOK, TokenRow
  <2>2. tokens \in [Requests -> TokenRow]
    BY DEF VerificationInv, TypeOK
  <2>3. CASE tokens' = tokens
    BY <2>2, <2>3
  <2>4. CASE tokens' = [v \in Requests |-> IF tokens[v].id = held[r].id
                           THEN [tokens[v] EXCEPT !.consumed = TRUE] ELSE tokens[v]]
    BY <2>1, <2>4
  <2> QED
    BY <1>5, <2>3, <2>4
<1>7. /\ user' \in [Requests -> {"absent", "unverified", "verified"}]
      /\ \A v \in Requests : user'[v] # "absent" <=> user[v] # "absent"
      /\ \A v \in Requests \ {u} : user'[v] = user[v]
  BY <1>2, <1>5 DEF VerificationInv, TypeOK
<1>8. TypeOK'
  BY <1>1, <1>6, <1>7 DEF VerificationInv, TypeOK
<1>9. TokensTrackAccounts'
  BY <1>1, <1>6 DEF VerificationInv, TokensTrackAccounts, IsRegistration
<1>10. UsersTrackRegistrations'
  BY <1>1, <1>4, <1>7 DEF VerificationInv, UsersTrackRegistrations, IsRegistration
<1>11. AddressesUnique'
  BY <1>1, <1>7 DEF VerificationInv, AddressesUnique
<1>12. LinkVerifiesItsAccount'
  BY <1>1, <1>2, <1>3, <1>4, <1>7 DEF VerificationInv, LinkVerifiesItsAccount
<1>13. AnsweredAccountIsTheOnlyOne'
  BY <1>1, <1>4, <1>7 DEF VerificationInv, AnsweredAccountIsTheOnlyOne, IsRegistration
<1> QED
  BY <1>8, <1>9, <1>10, <1>11, <1>12, <1>13 DEF VerificationInv

\* The invariant does not depend on what has run out.
LEMMA ClockInv ==
    ASSUME VerificationInv, expired' \subseteq Requests, elapsed' \subseteq Requests,
           UNCHANGED <<user, tokens, mailed, pc, address, acct, held, fresh, resend>>
    PROVE  VerificationInv'
<1>1. TypeOK'
  BY DEF VerificationInv, TypeOK
<1>2. UsersTrackRegistrations' /\ AddressesUnique'
  BY DEF VerificationInv, UsersTrackRegistrations, AddressesUnique, IsRegistration
<1>3. TokensTrackAccounts'
  BY DEF VerificationInv, TokensTrackAccounts, IsRegistration
<1>4. LinkVerifiesItsAccount' /\ AnsweredAccountIsTheOnlyOne'
  BY DEF VerificationInv, LinkVerifiesItsAccount, AnsweredAccountIsTheOnlyOne, IsRegistration
<1> QED
  BY <1>1, <1>2, <1>3, <1>4 DEF VerificationInv

\* Every step keeps the inductive invariant.
LEMMA NextInv == VerificationInv /\ [Next]_vars => VerificationInv'
<1> SUFFICES ASSUME VerificationInv, [Next]_vars PROVE VerificationInv'
  OBVIOUS
<1>1. ASSUME NEW r \in Requests, Proceed(r) PROVE VerificationInv'
  BY <1>1, CreateUserInv, MoveInv, GetActiveInv, UpsertInv, RetrieveInv, SendInv, TokenRowInv,
     DeleteUserInv, ConsumeInv
  DEF Proceed
<1>2. CASE TimePasses
  <2>1. expired' \subseteq Requests /\ elapsed' \subseteq Requests
    <3>1. \A u \in Requests : tokens[u].id # None => tokens[u].token \in Requests
      BY DEF VerificationInv, TokensTrackAccounts
    <3> QED
      BY <1>2, <3>1 DEF TimePasses, VerificationInv, TypeOK
  <2> QED
    BY <1>2, <2>1, ClockInv DEF TimePasses
<1>3. CASE UNCHANGED vars
  BY <1>3, ClockInv DEF vars, VerificationInv, TypeOK
<1> QED
  BY <1>1, <1>2, <1>3, RegisterInv, ResendRequestInv, VerifyInv DEF Next, Finished

(***************************************************************************)
(* Register, ResendVerificationEmail and VerifyEmail keep users, token     *)
(* rows, mails and open requests in step, whatever fails.                  *)
(***************************************************************************)
THEOREM VerificationInvariance == Spec => []VerificationInv
BY InitInv, NextInv, PTL DEF Spec

(***************************************************************************)
(* A registration that Register has answered keeps the only account of its *)
(* address.                                                                *)
(***************************************************************************)
THEOREM AnsweredAccounts == Spec => []AnsweredAccountIsTheOnlyOne
<1>1. VerificationInv => AnsweredAccountIsTheOnlyOne
  BY DEF VerificationInv
<1> QED
  BY <1>1, VerificationInvariance, PTL

(***************************************************************************)
(* VerifyEmail verifies an account only by a link made for it and mailed   *)
(* to it.                                                                  *)
(***************************************************************************)
THEOREM LinksVerifyOwnAccount == Spec => []LinkVerifiesItsAccount
<1>1. VerificationInv => LinkVerifiesItsAccount
  BY DEF VerificationInv
<1> QED
  BY <1>1, VerificationInvariance, PTL

(***************************************************************************)
(* When no reply is lost and no compensation errors, a Register that       *)
(* failed has left no account.                                             *)
(***************************************************************************)
THEOREM FailedRegistrations ==
    ASSUME Faults \intersect {"lost_reply", "undo_error"} = {}
    PROVE  Spec => []FailedRegistrationLeavesNothing
<1>1. Init => FailedRegistrationLeavesNothing
  BY DEF Init, FailedRegistrationLeavesNothing
<1>2. VerificationInv /\ FailedRegistrationLeavesNothing /\ [Next]_vars => FailedRegistrationLeavesNothing'
  <2> SUFFICES ASSUME VerificationInv, FailedRegistrationLeavesNothing, [Next]_vars
               PROVE  FailedRegistrationLeavesNothing'
    OBVIOUS
  <2>1. /\ \A r \in Requests : pc[r] = "create" \/ pc[r] = "idle" => user[r] = "absent"
        /\ \A r \in Requests : user[r] # "absent" => IsRegistration(r)
    BY DEF VerificationInv, UsersTrackRegistrations, Registering
  <2>2. ASSUME NEW r \in Requests, pc'[r] = "failed", IsRegistration(r)'
        PROVE  user'[r] = "absent"
    <3>1. CASE \E q \in Requests, a \in Addresses : Register(q, a)
      BY <2>1, <2>2, <3>1 DEF Register, Goto, FailedRegistrationLeavesNothing, IsRegistration, VerificationInv, TypeOK
    <3>2. CASE \E q, u \in Requests : ResendVerificationEmail(q, u)
      BY <2>1, <2>2, <3>2 DEF ResendVerificationEmail, Goto, FailedRegistrationLeavesNothing, IsRegistration, VerificationInv, TypeOK
    <3>3. CASE \E q, t, u \in Requests : <<t, u>> \in mailed /\ VerifyEmail(q, t)
      BY <2>1, <2>2, <3>3 DEF VerifyEmail, Goto, FailedRegistrationLeavesNothing, IsRegistration, VerificationInv, TypeOK
    <3>4. CASE \E q \in Requests : CreateUser(q)
      BY <2>1, <2>2, <3>4 DEF CreateUser, Applied, Goto, FailedRegistrationLeavesNothing, IsRegistration, VerificationInv, TypeOK
    <3>5. CASE \E q \in Requests : DeleteUserByID(q)
      BY <2>2, <3>5 DEF DeleteUserByID, Goto, FailedRegistrationLeavesNothing, IsRegistration, VerificationInv, TypeOK
    <3>6. CASE \E q \in Requests : ConsumeTokenAndVerifyUser(q)
      BY <2>2, <3>6 DEF ConsumeTokenAndVerifyUser, Applied, OnError, Goto, FailedRegistrationLeavesNothing, IsRegistration,
         VerificationInv, TypeOK, UsersTrackRegistrations, TokensTrackAccounts
    <3>7. CASE \E q \in Requests :
                 \/ GetLatestTokenForUser(q) \/ GetActiveTokenForUser(q)
                 \/ CreateEmailVerificationToken(q) \/ RetrieveToken(q) \/ CallFails(q)
                 \/ Send(q) \/ SendFails(q) \/ DeleteTokenByID(q)
                 \/ UpdateVerificationEmailResendWindow(q)
      <4>1. PICK q \in Requests :
                 \/ GetLatestTokenForUser(q) \/ GetActiveTokenForUser(q)
                 \/ CreateEmailVerificationToken(q) \/ RetrieveToken(q) \/ CallFails(q)
                 \/ Send(q) \/ SendFails(q) \/ DeleteTokenByID(q)
                 \/ UpdateVerificationEmailResendWindow(q)
        BY <3>7
      <4>2. UNCHANGED <<user, acct>> /\ \A p \in Requests \ {q} : pc'[p] = pc[p]
        BY <4>1
        DEF GetLatestTokenForUser, GetActiveTokenForUser, CreateEmailVerificationToken, RetrieveToken, CallFails,
            Send, SendFails, DeleteTokenByID, UpdateVerificationEmailResendWindow, Applied, Goto,
            VerificationInv, TypeOK
      <4>3. pc'[q] = "failed" => pc[q] = "create" \/ ~IsRegistration(q)
        BY <4>1
        DEF GetLatestTokenForUser, GetActiveTokenForUser, CreateEmailVerificationToken, RetrieveToken, CallFails,
            Send, SendFails, DeleteTokenByID, UpdateVerificationEmailResendWindow, Applied, OnError, Goto,
            Registering, VerificationInv, TypeOK, UsersTrackRegistrations
      <4> QED
        BY <2>1, <2>2, <4>2, <4>3 DEF FailedRegistrationLeavesNothing, IsRegistration
    <3>8. CASE TimePasses \/ UNCHANGED vars
      BY <2>2, <3>8 DEF TimePasses, vars, FailedRegistrationLeavesNothing, IsRegistration
    <3> QED
      BY <3>1, <3>2, <3>3, <3>4, <3>5, <3>6, <3>7, <3>8 DEF Next, Proceed, Finished
  <2> QED
    BY <2>2 DEF FailedRegistrationLeavesNothing
<1> QED
  BY <1>1, <1>2, VerificationInvariance, PTL DEF Spec

-----------------------------------------------------------------------------
(* The limit of resends (ResendLimit).                                      *)

SameRow(u) ==
    /\ tokens'[u].id = tokens[u].id /\ tokens'[u].token = tokens[u].token
    /\ tokens'[u].window = tokens[u].window

\* A step of request r leaves the other requests and the other accounts alone.
RequestStep(r) ==
    /\ UNCHANGED <<acct, elapsed>>
    /\ \A q \in Requests \ {r} : pc'[q] = pc[q] /\ held'[q] = held[q] /\ resend'[q] = resend[q]
    /\ \A u \in Requests \ {acct[r]} : SameRow(u)

\* After the step, window w counts the open resends of account u.
CountedAfter(u, w) ==
    /\ \A q \in OpenResends(u)' : resend'[q].start = w.start
    /\ Cardinality(OpenResends(u)') <= w.count

\* Rows have ids of their own account, so that a write by id touches no other.
LEMMA RowOfAccount ==
    ASSUME RowsTracked, NEW r \in Requests, pc[r] \in Holding,
           NEW u \in Requests \ {acct[r]}
    PROVE  tokens[u].id # held[r].id
BY VerificationNoneAssumption DEF RowsTracked

LEMMA OpenResendsFinite ==
    ASSUME NEW u \in Requests
    PROVE  IsFiniteSet(OpenResends(u)) /\ Cardinality(OpenResends(u)) \in Nat
<1>1. OpenResends(u) \subseteq Requests
  BY DEF OpenResends
<1> QED
  BY <1>1, RequestsAssumption, FS_Subset, FS_CardinalityType

\* Windows of rows and requests have counts up to the limit.
LEMMA CountsBounded ==
    ASSUME VerificationInv, NEW u \in Requests
    PROVE  /\ tokens[u].window.count \in Nat /\ resend[u].count \in Nat
           /\ tokens[u].window.count <= maxResendCountPerWindow
           /\ resend[u].count <= maxResendCountPerWindow
<1>1. tokens[u].window \in Window /\ resend[u] \in Window
  BY DEF VerificationInv, TypeOK, TokenRow
<1> QED
  BY <1>1, ResendAssumption DEF Window, Counts

\* Open resends only become fewer by time.
LEMMA CountedFewer ==
    ASSUME NEW u \in Requests, NEW w, w.count \in Nat, Counted(u, w),
           OpenResends(u)' \subseteq OpenResends(u),
           \A q \in OpenResends(u)' : resend'[q] = resend[q]
    PROVE  CountedAfter(u, w)
<1>1. IsFiniteSet(OpenResends(u)) /\ Cardinality(OpenResends(u)) \in Nat
  BY OpenResendsFinite
<1>2. Cardinality(OpenResends(u)') \in Nat /\ Cardinality(OpenResends(u)') <= Cardinality(OpenResends(u))
  BY <1>1, FS_Subset, FS_CardinalityType
<1>3. Cardinality(OpenResends(u)) <= w.count
  BY DEF Counted
<1>4. Cardinality(OpenResends(u)') <= w.count
  BY <1>1, <1>2, <1>3
<1> QED
  BY <1>4 DEF Counted, CountedAfter

\* An account whose row and whose senders stay keeps its limit.
LEMMA LimitKept ==
    ASSUME VerificationInv, NEW u \in Requests, LimitTracked(u), SameRow(u),
           Senders(u)' = Senders(u),
           \A s \in Senders(u) : /\ pc'[s] = pc[s] /\ acct'[s] = acct[s]
                                 /\ held'[s] = held[s] /\ resend'[s] = resend[s],
           OpenResends(u)' \subseteq OpenResends(u),
           \A q \in OpenResends(u)' : resend'[q] = resend[q]
    PROVE  LimitTracked(u)'
<1>1. ASSUME Counted(u, tokens[u].window) PROVE Counted(u, tokens[u].window)'
  <2>1. CountedAfter(u, tokens[u].window)
    BY <1>1, CountsBounded, CountedFewer
  <2> QED
    BY <2>1 DEF CountedAfter, Counted, SameRow
<1>2. ASSUME NEW s \in Senders(u), ~IsRegistration(s), pc[s] # "latest"
      PROVE  Counted(u, resend[s])' /\ Cardinality(OpenResends(u)') < resend[s].count
  <2>1. s \in Requests
    BY DEF Senders
  <2>2. Counted(u, resend[s]) /\ Cardinality(OpenResends(u)) < resend[s].count
    BY <1>2 DEF LimitTracked
  <2>3. CountedAfter(u, resend[s]) /\ resend[s].count \in Nat
    BY <2>1, <2>2, CountsBounded, CountedFewer
  <2>4. /\ Cardinality(OpenResends(u)) \in Nat /\ Cardinality(OpenResends(u)') \in Nat
        /\ Cardinality(OpenResends(u)') <= Cardinality(OpenResends(u))
    BY OpenResendsFinite, FS_Subset, FS_CardinalityType
  <2>5. Cardinality(OpenResends(u)') < resend[s].count
    BY <2>2, <2>3, <2>4
  <2> QED
    BY <2>3, <2>5 DEF CountedAfter, Counted
<1>3. ASSUME NEW s \in Senders(u), IsRegistration(s) PROVE OpenResends(u)' = {}
  BY <1>3 DEF LimitTracked
<1>4. \A s \in Senders(u)' : s \in Senders(u) /\ s \in Requests
  BY DEF Senders
<1>5. \A q, s \in Senders(u)' : q = s
  BY DEF LimitTracked
<1>6. (\A s \in Senders(u)' : pc'[s] = "latest" \/ tokens'[u].token # s) =>
        Counted(u, tokens[u].window)'
  BY <1>1 DEF LimitTracked, SameRow
<1>7. ASSUME NEW s \in Senders(u)'
      PROVE  /\ pc'[s] \in Holding => held'[s].id = tokens'[u].id
             /\ acct'[s] = s => OpenResends(u)' = {}
             /\ acct'[s] # s /\ pc'[s] # "latest" =>
                  Counted(u, resend[s])' /\ Cardinality(OpenResends(u)') < resend'[s].count
  BY <1>2, <1>3, <1>4, <1>7 DEF LimitTracked, SameRow, IsRegistration
<1> QED
  BY <1>5, <1>6, <1>7 DEF LimitTracked, IsRegistration

\* A step of a request about another account.
LEMMA OtherAccountKept ==
    ASSUME VerificationInv, NEW r \in Requests, RequestStep(r),
           NEW u \in Requests \ {acct[r]}, LimitTracked(u)
    PROVE  LimitTracked(u)'
<1>1. Senders(u)' = Senders(u)
  BY DEF RequestStep, Senders
<1>2. /\ OpenResends(u)' = OpenResends(u) /\ \A q \in OpenResends(u)' : resend'[q] = resend[q]
  BY DEF RequestStep, OpenResends, IsRegistration
<1>3. \A s \in Senders(u) : /\ pc'[s] = pc[s] /\ acct'[s] = acct[s]
                            /\ held'[s] = held[s] /\ resend'[s] = resend[s]
  BY DEF RequestStep, Senders
<1> QED
  BY <1>1, <1>2, <1>3, LimitKept DEF RequestStep

\* A step of a registration before CreateUser, or of a verification.
LEMMA NoSenderKept ==
    ASSUME VerificationInv, NEW r \in Requests, RequestStep(r), resend' = resend,
           pc[r] \notin Sending, pc'[r] \notin Sending,
           pc'[r] = "done" => resend[r] = NoWindow,
           NEW u \in Requests, SameRow(u), LimitTracked(u)
    PROVE  LimitTracked(u)'
<1>1. Senders(u)' = Senders(u)
  BY DEF RequestStep, Senders
<1>2. OpenResends(u)' \subseteq OpenResends(u)
  BY DEF RequestStep, OpenResends, IsRegistration, NoWindow
<1>3. \A s \in Senders(u) : /\ pc'[s] = pc[s] /\ acct'[s] = acct[s]
                            /\ held'[s] = held[s] /\ resend'[s] = resend[s]
  BY DEF RequestStep, Senders
<1> QED
  BY <1>1, <1>2, <1>3, LimitKept

\* The sender of an account that is not disturbed is its only one.
LEMMA OnlySender ==
    ASSUME NEW r \in Requests, RequestStep(r), NEW u \in Requests, acct[r] = u,
           pc[r] \in Sending, LimitTracked(u)
    PROVE  /\ Senders(u) = {r}
           /\ Senders(u)' = IF pc'[r] \in Sending THEN {r} ELSE {}
           /\ pc'[r] \notin {"done"} =>
                OpenResends(u)' = OpenResends(u) /\ \A q \in OpenResends(u)' : resend'[q] = resend[q]
<1>1. r \in Senders(u)
  BY DEF Senders
<1>2. Senders(u) = {r}
  BY <1>1 DEF LimitTracked
<1>3. Senders(u)' = IF pc'[r] \in Sending THEN {r} ELSE {}
  BY <1>2 DEF RequestStep, Senders
<1>4. pc[r] # "done"
  BY DEF Sending, Registering
<1>5. pc'[r] # "done" =>
        OpenResends(u)' = OpenResends(u) /\ \A q \in OpenResends(u)' : resend'[q] = resend[q]
  BY <1>4 DEF RequestStep, OpenResends, IsRegistration
<1> QED
  BY <1>2, <1>3, <1>5

\* A sender goes on, with the window it carries and the row it holds.
LEMMA StaysSending ==
    ASSUME VerificationInv, NEW r \in Requests, RequestStep(r), NEW u \in Requests, acct[r] = u,
           pc[r] \in Sending \ {"latest"}, pc'[r] \in Sending \ {"latest"}, LimitTracked(u),
           resend' = resend,
           pc'[r] \in Holding => held'[r].id = tokens'[u].id,
           tokens'[u].token # r =>
             tokens'[u].window = tokens[u].window /\ tokens[u].token # r
    PROVE  LimitTracked(u)'
<1>1. Senders(u) = {r} /\ Senders(u)' = {r}
  BY OnlySender
<1>2. pc'[r] # "done"
  BY DEF Sending, Registering
<1>3. OpenResends(u)' = OpenResends(u) /\ \A q \in OpenResends(u)' : resend'[q] = resend[q]
  BY <1>2, OnlySender
<1>4. acct' = acct
  BY DEF RequestStep
<1>5. IsRegistration(r) => OpenResends(u)' = {}
  BY <1>1, <1>3 DEF LimitTracked
<1>6. ~IsRegistration(r) =>
        CountedAfter(u, resend[r]) /\ Cardinality(OpenResends(u)') < resend[r].count
  BY <1>1, <1>3 DEF LimitTracked, Counted, CountedAfter
<1>7. ASSUME tokens'[u].token # r PROVE CountedAfter(u, tokens'[u].window)
  <2>1. Counted(u, tokens[u].window)
    BY <1>1, <1>7 DEF LimitTracked
  <2> QED
    BY <1>3, <1>7, <2>1 DEF Counted, CountedAfter
<1>8. (\A s \in Senders(u)' : pc'[s] = "latest" \/ tokens'[u].token # s) =>
        Counted(u, tokens[u].window)'
  BY <1>1, <1>7 DEF Counted, CountedAfter
<1>9. ASSUME NEW s \in Senders(u)'
      PROVE  /\ pc'[s] \in Holding => held'[s].id = tokens'[u].id
             /\ acct'[s] = s => OpenResends(u)' = {}
             /\ acct'[s] # s =>
                  Counted(u, resend[s])' /\ Cardinality(OpenResends(u)') < resend'[s].count
  BY <1>1, <1>4, <1>5, <1>6 DEF IsRegistration, Counted, CountedAfter
<1> QED
  BY <1>1, <1>8, <1>9 DEF LimitTracked, IsRegistration

\* A sender fails: its own token is not in the row, so the row has its window.
LEMMA FailsSending ==
    ASSUME VerificationInv, NEW r \in Requests, RequestStep(r), NEW u \in Requests, acct[r] = u,
           pc[r] \in Sending, pc'[r] = "failed", LimitTracked(u), SameRow(u),
           u \notin Forgotten
    PROVE  LimitTracked(u)'
<1>1. Senders(u) = {r} /\ Senders(u)' = {}
  BY OnlySender DEF Sending, Registering
<1>2. OpenResends(u)' = OpenResends(u) /\ \A q \in OpenResends(u)' : resend'[q] = resend[q]
  BY OnlySender
<1>3. tokens'[u].token # r
  BY DEF Forgotten, Sending, Registering
<1>4. Counted(u, tokens[u].window)
  BY <1>1, <1>3 DEF LimitTracked, SameRow
<1>5. CountedAfter(u, tokens'[u].window)
  BY <1>2, <1>4 DEF Counted, CountedAfter, SameRow
<1> QED
  BY <1>1, <1>5 DEF LimitTracked, Counted, CountedAfter

\* What a step has to show.
LimitAfter ==
    /\ RowsTracked'
    /\ \A u \in Requests \ (disturbed \union Overlapping \union Forgotten) : LimitTracked(u)'

LEMMA RowsKept ==
    ASSUME RowsTracked, NEW r \in Requests,
           \A t, v \in Requests : acct[t] = v => acct'[t] = v,
           \A q \in Requests \ {r} : /\ pc'[q] = pc[q] /\ acct'[q] = acct[q]
                                     /\ held'[q] = held[q] /\ resend'[q] = resend[q],
           acct \in [Requests -> Name], acct' \in [Requests -> Name],
           pc'[r] \in {"idle", "create", "consume"} => resend'[r] = NoWindow,
           pc[r] \notin {"idle", "create"} => pc'[r] \notin {"idle", "create"},
           \A u \in Requests : tokens'[u].id # None =>
             /\ tokens'[u].id \in Requests /\ acct[tokens'[u].id] = u
             /\ pc[u] \notin {"idle", "create"},
           acct'[r] \in Requests \ {r} => pc[acct'[r]] \notin {"idle", "create"},
           pc'[r] \in Holding => held'[r].id \in Requests /\ acct[held'[r].id] = acct'[r],
           pc'[r] \in Holding => acct'[r] \in Requests,
           \A q \in Requests : pc[q] \in Holding => acct[q] \in Requests
    PROVE  RowsTracked'
<1>1. \A q \in Requests : pc'[q] \in {"idle", "create", "consume"} => resend'[q] = NoWindow
  BY DEF RowsTracked
<1>2. \A u \in Requests : pc[u] \notin {"idle", "create"} => pc'[u] \notin {"idle", "create"}
  OBVIOUS
<1>3. ASSUME NEW u \in Requests, tokens'[u].id # None
      PROVE  acct'[tokens'[u].id] = u /\ pc'[u] \notin {"idle", "create"}
  BY <1>2, <1>3
<1>4. ASSUME NEW u \in Requests, NEW q \in Requests \ {u}, acct'[q] = u
      PROVE  pc'[u] \notin {"idle", "create"}
  <2>1. CASE q = r
    BY <1>2, <1>4, <2>1
  <2>2. CASE q # r
    BY <1>2, <1>4, <2>2 DEF RowsTracked
  <2> QED
    BY <2>1, <2>2
<1>5. ASSUME NEW q \in Requests, pc'[q] \in Holding
      PROVE  held'[q].id \in Requests /\ acct'[held'[q].id] = acct'[q]
  BY <1>5 DEF RowsTracked
<1> QED
  BY <1>1, <1>3, <1>4, <1>5 DEF RowsTracked

\* A request begins, and sends nothing yet to account u.
LEMMA StartKept ==
    ASSUME VerificationInv, NEW r \in Requests, pc[r] = "idle", pc'[r] # "done",
           UNCHANGED <<tokens, elapsed, resend>>,
           \A q \in Requests \ {r} : pc'[q] = pc[q] /\ acct'[q] = acct[q] /\ held'[q] = held[q],
           NEW u \in Requests, LimitTracked(u),
           acct'[r] # u \/ pc'[r] \notin Sending
    PROVE  LimitTracked(u)'
<1>1. pc[r] \notin Sending /\ pc[r] # "done"
  BY DEF Sending, Registering
<1>2. Senders(u)' = Senders(u) /\ r \notin Senders(u)
  BY <1>1 DEF Senders
<1>3. OpenResends(u)' \subseteq OpenResends(u)
  BY <1>1 DEF OpenResends, IsRegistration
<1>4. \A s \in Senders(u) : /\ pc'[s] = pc[s] /\ acct'[s] = acct[s]
                            /\ held'[s] = held[s] /\ resend'[s] = resend[s]
  BY <1>2 DEF Senders
<1>5. SameRow(u)
  BY DEF SameRow
<1> QED
  BY <1>2, <1>3, <1>4, <1>5, LimitKept

\* What the invariant says of rows and of what requests hold.
LEMMA RowFacts ==
    ASSUME ResendInv
    PROVE  /\ VerificationInv /\ RowsTracked /\ acct \in [Requests -> Name]
           /\ \A q \in Requests : pc[q] \in Holding => acct[q] \in Requests
           /\ \A u \in Requests : tokens[u].id # None =>
                tokens[u].id \in Requests /\ acct[tokens[u].id] = u /\ pc[u] \notin {"idle", "create"}
           /\ \A q \in Requests : acct[q] \in Requests \ {q} => pc[acct[q]] \notin {"idle", "create"}
BY DEF ResendInv, VerificationInv, TypeOK, TokenRow, Name, TokensTrackAccounts, RowsTracked, Holding

LEMMA RegisterLimit ==
    ASSUME ResendInv, NEW r \in Requests, NEW a \in Addresses, Register(r, a)
    PROVE  LimitAfter
<1>1. /\ pc[r] = "idle" /\ pc'[r] \in {"create", "failed"} /\ acct'[r] = r
      /\ \A q \in Requests \ {r} : pc'[q] = pc[q] /\ acct'[q] = acct[q]
      /\ UNCHANGED <<tokens, elapsed, resend, held>>
      /\ acct[r] = None /\ acct' \in [Requests -> Name] /\ acct \in [Requests -> Name]
  BY DEF ResendInv, VerificationInv, TypeOK, TokensTrackAccounts, Register, Goto, Name
<1>2. \A t, v \in Requests : acct[t] = v => acct'[t] = v
  BY <1>1, VerificationNoneAssumption
<1>3. pc'[r] \notin Holding /\ resend[r] = NoWindow /\ pc'[r] \notin Sending
  BY <1>1 DEF ResendInv, RowsTracked, Holding, Sending, Registering
<1>4. RowsTracked'
  BY <1>1, <1>2, <1>3, RowFacts, RowsKept
<1>5. ASSUME NEW u \in Requests \ disturbed PROVE LimitTracked(u)'
  BY <1>1, <1>3, StartKept DEF ResendInv
<1> QED
  BY <1>4, <1>5 DEF LimitAfter

\* A resend begins to be a sender of its account, which had none.
LEMMA ResendStartLimit ==
    ASSUME ResendInv, NEW r \in Requests, NEW u \in Requests, ResendVerificationEmail(r, u)
    PROVE  LimitAfter
<1>1. /\ pc[r] = "idle" /\ pc'[r] \in {"latest", "failed"} /\ acct'[r] = u
      /\ \A q \in Requests \ {r} : pc'[q] = pc[q] /\ acct'[q] = acct[q]
      /\ UNCHANGED <<tokens, elapsed, resend, held>>
      /\ acct[r] = None /\ acct' \in [Requests -> Name] /\ user[u] # "absent"
  BY DEF ResendInv, VerificationInv, TypeOK, TokensTrackAccounts, ResendVerificationEmail, Goto, Name
<1>2. \A t, v \in Requests : acct[t] = v => acct'[t] = v
  BY <1>1, VerificationNoneAssumption
<1>3. pc'[r] \notin Holding /\ pc[r] \notin Sending
  BY <1>1 DEF Holding, Sending, Registering
<1>4. pc[u] \notin {"idle", "create"} /\ u # r
  BY <1>1, RegistrationSteps DEF ResendInv, Registering
<1>5. RowsTracked'
  BY <1>1, <1>2, <1>3, <1>4, RowFacts, RowsKept
<1>6. ASSUME NEW v \in Requests \ disturbed, v # u \/ pc'[r] # "latest" PROVE LimitTracked(v)'
  BY <1>1, <1>6, StartKept DEF ResendInv, Sending, Registering
<1>7. ASSUME u \notin disturbed, u \notin Overlapping, pc'[r] = "latest" PROVE LimitTracked(u)'
  <2> DEFINE S == {q \in Requests : acct'[q] = u /\ pc'[q] \in Sending}
  <2>1. r \in S
    BY <1>1, <1>7 DEF Sending
  <2>2. IsFiniteSet(S) /\ Cardinality(S) \in Nat
    BY RequestsAssumption, FS_Subset, FS_CardinalityType
  <2>3. ~(Cardinality(S) > 1)
    BY <1>7 DEF Overlapping
  <2>4. ASSUME NEW q \in S, q # r PROVE FALSE
    <3>1. IsFiniteSet({q}) /\ Cardinality({q}) = 1
      BY FS_Singleton
    <3>2. Cardinality({q} \union {r}) = 2
      <4>1. Cardinality({q} \union {r}) = IF r \in {q} THEN Cardinality({q}) ELSE Cardinality({q}) + 1
        BY <3>1, FS_AddElement
      <4> QED
        BY <2>4, <3>1, <4>1
    <3>3. Cardinality({q} \union {r}) <= Cardinality(S)
      BY <2>1, <2>2, <2>4, FS_Subset
    <3> QED
      BY <2>2, <2>3, <3>2, <3>3
  <2>5. S = {r}
    BY <2>1, <2>4
  <2>6. Senders(u)' = {r} /\ Senders(u) = {}
    BY <1>1, <1>3, <2>5 DEF Senders
  <2>7. Counted(u, tokens[u].window)
    BY <1>7, <2>6 DEF ResendInv, LimitTracked
  <2>8. OpenResends(u)' = OpenResends(u)
    BY <1>1, <1>7 DEF OpenResends, IsRegistration
  <2>9. Counted(u, tokens[u].window)'
    BY <1>1, <2>7, <2>8 DEF Counted
  <2> QED
    BY <1>1, <1>3, <1>4, <1>7, <2>6, <2>9 DEF LimitTracked, IsRegistration
<1> QED
  BY <1>5, <1>6, <1>7 DEF LimitAfter

LEMMA VerifyLimit ==
    ASSUME ResendInv, NEW r \in Requests, NEW t \in Requests, VerifyEmail(r, t)
    PROVE  LimitAfter
<1>1. /\ pc[r] = "idle" /\ UNCHANGED <<tokens, elapsed, resend>>
      /\ acct[r] = None /\ acct \in [Requests -> Name]
  BY DEF ResendInv, VerificationInv, TypeOK, TokensTrackAccounts, VerifyEmail
<1>2. \/ pc' = [pc EXCEPT ![r] = "failed"] /\ acct' = acct /\ held' = held
      \/ \E v \in Requests :
           /\ tokens[v].id # None
           /\ pc' = [pc EXCEPT ![r] = "consume"]
           /\ acct' = [acct EXCEPT ![r] = v]
           /\ held' = [held EXCEPT ![r] = [id |-> tokens[v].id, token |-> t]]
  BY Zenon DEF VerifyEmail, Goto
<1>3. /\ pc'[r] \in {"consume", "failed"} /\ acct' \in [Requests -> Name]
      /\ \A q \in Requests \ {r} : pc'[q] = pc[q] /\ acct'[q] = acct[q] /\ held'[q] = held[q]
      /\ acct'[r] \in Requests => tokens[acct'[r]].id # None
  BY <1>1, <1>2, VerificationNoneAssumption DEF ResendInv, VerificationInv, TypeOK, Name
<1>4. \A q, v \in Requests : acct[q] = v => acct'[q] = v
  BY <1>1, <1>3, VerificationNoneAssumption
<1>5. pc'[r] \notin Holding /\ pc'[r] \notin Sending /\ resend[r] = NoWindow
  BY <1>1, <1>3 DEF ResendInv, RowsTracked, Holding, Sending, Registering
<1>6. RowsTracked'
  BY <1>1, <1>3, <1>4, <1>5, RowFacts, RowsKept
<1>7. ASSUME NEW u \in Requests \ disturbed PROVE LimitTracked(u)'
  BY <1>1, <1>3, <1>5, StartKept DEF ResendInv
<1> QED
  BY <1>6, <1>7 DEF LimitAfter

\* CreateUser: a new account has no row and no resends.
LEMMA CreateUserLimit ==
    ASSUME ResendInv, NEW r \in Requests, CreateUser(r)
    PROVE  LimitAfter
<1>1. /\ pc[r] = "create" /\ pc'[r] \in {"active", "failed"}
      /\ \A q \in Requests \ {r} : pc'[q] = pc[q]
      /\ UNCHANGED <<tokens, elapsed, acct, held, resend>> /\ acct[r] = r
  BY DEF ResendInv, VerificationInv, TypeOK, UsersTrackRegistrations, CreateUser, Applied, OnError, Goto,
         Registering, IsRegistration
<1>2. RequestStep(r) /\ \A u : SameRow(u)
  BY <1>1 DEF RequestStep, SameRow
<1>3. pc'[r] \notin Holding /\ pc[r] \notin Sending
  BY <1>1 DEF Holding, Sending, Registering
<1>4. RowsTracked'
  BY <1>1, <1>3, RowFacts, RowsKept
<1>5. ASSUME NEW u \in Requests \ disturbed, u # r \/ pc'[r] # "active" PROVE LimitTracked(u)'
  <2>1. CASE u # r
    BY <1>1, <1>2, <2>1, OtherAccountKept DEF ResendInv
  <2>2. CASE pc'[r] # "active"
    BY <1>1, <1>2, <1>3, <2>2, NoSenderKept DEF ResendInv, Sending, Registering
  <2> QED
    BY <1>5, <2>1, <2>2
<1>6. ASSUME pc'[r] = "active" PROVE LimitTracked(r)'
  <2>1. \A q \in Requests \ {r} : acct[q] # r
    BY <1>1 DEF ResendInv, RowsTracked
  <2>2. Senders(r)' = {r}
    BY <1>1, <1>6, <2>1 DEF Senders, Sending, Registering
  <2>3. OpenResends(r)' = {}
    BY <1>1, <1>6, <2>1 DEF OpenResends
  <2>4. Cardinality(OpenResends(r)') = 0
    BY <2>3, FS_EmptySet
  <2>5. Counted(r, tokens[r].window)'
    BY <1>1, <2>3, <2>4, CountsBounded DEF Counted, ResendInv
  <2> QED
    BY <1>1, <1>3, <2>2, <2>3, <2>5 DEF LimitTracked, IsRegistration
<1> QED
  BY <1>5, <1>6 , <1>4 DEF LimitAfter

\* The rows after a step of a sender that adds no row.
LEMMA SenderRowsKept ==
    ASSUME ResendInv, NEW r \in Requests, RequestStep(r), pc[r] \in Sending \union {"consume"},
           pc'[r] \notin {"idle", "create", "consume"},
           \A u \in Requests : tokens'[u].id \in {tokens[u].id, None},
           pc'[r] \in Holding =>
             \/ pc[r] \in Holding /\ held'[r].id = held[r].id
             \/ held'[r].id # None /\ held'[r].id = tokens[acct[r]].id
    PROVE  RowsTracked'
<1>1. acct' = acct /\ acct[r] \in Requests /\ pc[r] \notin {"idle", "failed"}
  BY DEF ResendInv, VerificationInv, TokensTrackAccounts, RequestStep, Sending, Registering
<1>2. pc'[r] \in Holding => held'[r].id \in Requests /\ acct[held'[r].id] = acct[r]
  BY <1>1, RowFacts DEF RowsTracked
<1>3. \A u \in Requests : tokens'[u].id # None => tokens'[u].id = tokens[u].id
  OBVIOUS
<1> QED
  BY <1>1, <1>2, <1>3, RowFacts, RowsKept DEF RequestStep

\* GetLatestTokenForUser: the window that is carried counts one more.
LEMMA GetLatestLimit ==
    ASSUME ResendInv, NEW r \in Requests, GetLatestTokenForUser(r)
    PROVE  LimitAfter
<1>1. /\ pc[r] = "latest" /\ pc'[r] \in {"active", "failed"} /\ acct[r] \in Requests
      /\ \A q \in Requests \ {r} : pc'[q] = pc[q] /\ resend'[q] = resend[q]
      /\ UNCHANGED <<tokens, elapsed, acct, held>>
  BY DEF ResendInv, VerificationInv, TypeOK, TokensTrackAccounts, GetLatestTokenForUser, Goto
<1>2. RequestStep(r) /\ \A v : SameRow(v)
  BY <1>1 DEF RequestStep, SameRow
<1>3. pc[r] \in Sending /\ pc'[r] \notin Holding
  BY <1>1 DEF Sending, Holding
<1>4. RowsTracked'
  BY <1>1, <1>2, <1>3, SenderRowsKept
<1>5. ASSUME NEW v \in Requests \ disturbed, v # acct[r] PROVE LimitTracked(v)'
  BY <1>2, <1>5, OtherAccountKept DEF ResendInv
<1>6. ASSUME NEW u \in Requests \ disturbed, u = acct[r], u \notin Forgotten PROVE LimitTracked(u)'
  <2> DEFINE w == tokens[u].window
  <2>1. LimitTracked(u)
    BY <1>1, <1>6 DEF ResendInv
  <2>2. CASE pc'[r] = "failed"
    BY <1>1, <1>2, <1>3, <1>6, <2>1, <2>2, FailsSending DEF ResendInv
  <2>3. CASE pc'[r] = "active"
    <3>1. Senders(u) = {r} /\ Senders(u)' = {r}
      BY <1>1, <1>2, <1>3, <1>6, <2>1, <2>3, OnlySender DEF Sending, Registering
    <3>2. /\ OpenResends(u)' = OpenResends(u)
          /\ \A q \in OpenResends(u)' : q \in Requests /\ resend'[q] = resend[q]
      BY <1>1, <1>2, <1>3, <1>6, <2>1, <2>3, OnlySender DEF OpenResends
    <3>3. Counted(u, w)
      BY <1>1, <2>1, <3>1 DEF LimitTracked
    <3>4. w.count \in Nat /\ Cardinality(OpenResends(u)) \in Nat
      BY <1>1, CountsBounded, OpenResendsFinite DEF ResendInv
    <3>5. CountedAfter(u, resend'[r]) /\ Cardinality(OpenResends(u)') < resend'[r].count
      <4>1. CASE w.start # None /\ w.start \notin elapsed
        <5>1. resend' = [resend EXCEPT ![r] = [w EXCEPT !.count = @ + 1]]
          BY <1>1, <1>6, <2>3, <4>1 DEF GetLatestTokenForUser, Goto, ResendInv, VerificationInv, TypeOK
        <5>2. w \in Window /\ resend \in [Requests -> Window]
          BY <1>1 DEF ResendInv, VerificationInv, TypeOK, TokenRow
        <5>3. resend'[r].start = w.start /\ resend'[r].count = w.count + 1
          BY <5>1, <5>2 DEF Window
        <5>4. Cardinality(OpenResends(u)) <= w.count
          BY <3>3 DEF Counted
        <5>5. Cardinality(OpenResends(u)') < w.count + 1 /\ Cardinality(OpenResends(u)') <= w.count + 1
          BY <3>2, <3>4, <5>4
        <5> QED
          BY <3>2, <3>3, <5>3, <5>5 DEF Counted, CountedAfter
      <4>2. CASE ~(w.start # None /\ w.start \notin elapsed)
        <5>1. resend' = [resend EXCEPT ![r] = [start |-> r, count |-> 1]]
          BY <1>1, <1>6, <2>3, <4>2 DEF GetLatestTokenForUser, Goto, ResendInv, VerificationInv, TypeOK
        <5>2. resend'[r].count = 1
          BY <5>1 DEF ResendInv, VerificationInv, TypeOK
        <5>3. OpenResends(u) = {}
          BY <3>3, <4>2 DEF Counted, OpenResends
        <5>4. Cardinality(OpenResends(u)') = 0
          BY <3>2, <5>3, FS_EmptySet
        <5> QED
          BY <3>2, <5>2, <5>3, <5>4 DEF CountedAfter
      <4> QED
        BY <4>1, <4>2
    <3>6. CountedAfter(u, w)
      BY <3>2, <3>3 DEF Counted, CountedAfter
    <3>7. ~IsRegistration(r)
      BY <1>1 DEF ResendInv, VerificationInv, UsersTrackRegistrations
    <3>8. acct'[r] # r /\ CountedAfter(u, tokens'[u].window)
      BY <1>1, <3>6, <3>7 DEF IsRegistration
    <3> QED
      BY <1>3, <3>1, <3>5, <3>8 DEF LimitTracked, Counted, CountedAfter, IsRegistration
  <2> QED
    BY <1>1, <2>2, <2>3
<1> QED
  BY <1>4, <1>5, <1>6 DEF LimitAfter

\* A sender that writes no row goes on, fails, or is a registration that ends.
LEMMA QuietLimit ==
    ASSUME ResendInv, NEW r \in Requests, UNCHANGED <<tokens, elapsed, acct, resend>>,
           \A q \in Requests \ {r} : pc'[q] = pc[q] /\ held'[q] = held[q],
           pc[r] \in Sending,
           pc'[r] \in (Sending \ {"latest"}) \union {"failed", "done"},
           pc'[r] = "done" => IsRegistration(r),
           pc'[r] \in Sending => pc[r] # "latest",
           pc'[r] \in Holding =>
             \/ pc[r] \in Holding /\ held'[r].id = held[r].id
             \/ held'[r].id # None /\ held'[r].id = tokens[acct[r]].id
    PROVE  LimitAfter
<1>1. RequestStep(r) /\ \A u : SameRow(u)
  BY DEF RequestStep, SameRow
<1>2. pc'[r] \notin {"idle", "create", "consume"}
  BY DEF Sending, Registering
<1>3. RowsTracked'
  BY <1>1, <1>2, SenderRowsKept
<1>4. ASSUME NEW v \in Requests \ disturbed, v # acct[r] PROVE LimitTracked(v)'
  BY <1>1, <1>4, OtherAccountKept DEF ResendInv
<1>5. ASSUME NEW u \in Requests \ disturbed, u = acct[r], u \notin Forgotten PROVE LimitTracked(u)'
  <2>1. LimitTracked(u) /\ VerificationInv
    BY DEF ResendInv
  <2>2. CASE pc'[r] = "failed"
    BY <1>1, <1>5, <2>1, <2>2, FailsSending
  <2>3. CASE pc'[r] \in Sending
    <3>1. r \in Senders(u)
      BY <1>5 DEF Senders
    <3>2. pc'[r] \in Holding => held'[r].id = tokens'[u].id
      BY <1>5, <2>1, <3>1 DEF LimitTracked
    <3>3. pc[r] \in Sending \ {"latest"} /\ pc'[r] \in Sending \ {"latest"}
      BY <2>3 DEF Sending, Registering
    <3> QED
      BY <1>1, <1>5, <2>1, <3>2, <3>3, StaysSending
  <2>4. CASE pc'[r] = "done"
    <3>1. Senders(u) = {r} /\ Senders(u)' = {}
      BY <1>1, <1>5, <2>1, <2>4, OnlySender DEF Sending, Registering
    <3>2. OpenResends(u) = {}
      BY <2>1, <2>4, <3>1 DEF LimitTracked
    <3>3. OpenResends(u)' = {}
      BY <2>4, <3>2 DEF OpenResends, IsRegistration
    <3>4. Cardinality(OpenResends(u)') = 0
      BY <3>3, FS_EmptySet
    <3>5. Counted(u, tokens[u].window)'
      BY <2>1, <3>3, <3>4, CountsBounded DEF Counted
    <3> QED
      BY <3>1, <3>5 DEF LimitTracked
  <2> QED
    BY <2>2, <2>3, <2>4
<1> QED
  BY <1>3, <1>4, <1>5 DEF LimitAfter

\* GetActiveTokenForUser, the second statement of the upsert, and the mail.
LEMMA SendingLimit ==
    ASSUME ResendInv, NEW r \in Requests,
           \/ GetActiveTokenForUser(r) \/ RetrieveToken(r) \/ Send(r) \/ SendFails(r) \/ DeleteUserByID(r)
    PROVE  LimitAfter
<1> USE DEF ResendInv, VerificationInv, TypeOK, Goto
<1>1. CASE GetActiveTokenForUser(r)
  <2>1. /\ pc[r] = "active" /\ pc'[r] \in {"send", "upsert"}
        /\ pc'[r] = "send" => tokens[acct[r]].id # None /\ held'[r].id = tokens[acct[r]].id
        /\ \A q \in Requests \ {r} : pc'[q] = pc[q] /\ held'[q] = held[q]
        /\ UNCHANGED <<tokens, elapsed, acct, resend>>
    BY <1>1 DEF GetActiveTokenForUser
  <2> QED
    BY <2>1, QuietLimit DEF Sending, Registering, Holding
<1>2. CASE RetrieveToken(r)
  <2>1. /\ pc[r] = "readback" /\ pc'[r] \in {"send", "undo_user", "failed"} /\ held'[r].id = held[r].id
        /\ \A q \in Requests \ {r} : pc'[q] = pc[q] /\ held'[q] = held[q]
        /\ UNCHANGED <<tokens, elapsed, acct, resend>>
    BY <1>2 DEF RetrieveToken, OnError
  <2> QED
    BY <2>1, QuietLimit DEF Sending, Registering, Holding
<1>3. CASE Send(r)
  <2>1. /\ pc[r] = "send" /\ pc'[r] \in {"window", "done"} /\ (pc'[r] = "done" => IsRegistration(r))
        /\ \A q \in Requests \ {r} : pc'[q] = pc[q]
        /\ UNCHANGED <<tokens, elapsed, acct, resend, held>>
    BY <1>3 DEF Send
  <2> QED
    BY <2>1, QuietLimit DEF Sending, Registering, Holding
<1>4. CASE SendFails(r)
  <2>1. /\ pc[r] = "send" /\ pc'[r] \in {"undo_token", "failed"}
        /\ \A q \in Requests \ {r} : pc'[q] = pc[q]
        /\ UNCHANGED <<tokens, elapsed, acct, resend, held>>
    BY <1>4 DEF SendFails
  <2> QED
    BY <2>1, QuietLimit DEF Sending, Registering, Holding
<1>5. CASE DeleteUserByID(r)
  <2>1. /\ pc[r] = "undo_user" /\ pc'[r] = "failed"
        /\ \A q \in Requests \ {r} : pc'[q] = pc[q]
        /\ UNCHANGED <<tokens, elapsed, acct, resend, held>>
    BY <1>5 DEF DeleteUserByID
  <2> QED
    BY <2>1, QuietLimit DEF Sending, Registering, Holding
<1> QED
  BY <1>1, <1>2, <1>3, <1>4, <1>5

\* The upsert: the row loses its window to the window its request carries.
LEMMA UpsertLimit ==
    ASSUME ResendInv, NEW r \in Requests, CreateEmailVerificationToken(r)
    PROVE  LimitAfter
<1>1. PICK u \in Requests : u = acct[r]
  BY DEF CreateEmailVerificationToken, ResendInv, VerificationInv, TokensTrackAccounts
<1>2. PICK id \in Requests : id = (IF tokens[u].id = None THEN r ELSE tokens[u].id)
  BY <1>1, RowFacts
<1>3. /\ pc[r] = "upsert" /\ pc'[r] \in {"readback", "undo_user", "failed"}
      /\ \A q \in Requests \ {r} : pc'[q] = pc[q] /\ held'[q] = held[q]
      /\ held'[r].id = id /\ UNCHANGED <<elapsed, acct, resend>>
  BY <1>1, <1>2 DEF CreateEmailVerificationToken, Applied, OnError, Goto, ResendInv, VerificationInv, TypeOK
<1>4. /\ tokens'[u].id = id /\ tokens'[u].token = r
      /\ \A v \in Requests \ {u} : tokens'[v] = tokens[v]
  BY <1>1, <1>2 DEF CreateEmailVerificationToken, ResendInv, VerificationInv, TypeOK
<1>5. RequestStep(r)
  BY <1>1, <1>3, <1>4 DEF RequestStep, SameRow
<1>6. acct[id] = u /\ pc[u] \notin {"idle", "create"}
  BY <1>1, <1>2, <1>3, RowFacts
<1>7. RowsTracked'
  <2>1. \A v \in Requests : tokens'[v].id # None =>
          /\ tokens'[v].id \in Requests /\ acct[tokens'[v].id] = v
          /\ pc[v] \notin {"idle", "create"}
    BY <1>4, <1>6, RowFacts
  <2> QED
    BY <1>1, <1>3, <1>6, <2>1, RowFacts, RowsKept
<1>8. ASSUME NEW v \in Requests \ disturbed, v # u PROVE LimitTracked(v)'
  BY <1>1, <1>5, <1>8, OtherAccountKept DEF ResendInv
<1>9. ASSUME u \notin disturbed, u \notin Forgotten PROVE LimitTracked(u)'
  <2>1. pc'[r] # "failed"
    BY <1>1, <1>3, <1>4, <1>9 DEF Forgotten
  <2>2. pc[r] \in Sending \ {"latest"} /\ pc'[r] \in Sending \ {"latest"}
    BY <1>3, <2>1 DEF Sending, Registering
  <2>3. LimitTracked(u) /\ VerificationInv
    BY <1>9 DEF ResendInv
  <2> QED
    BY <1>1, <1>3, <1>4, <1>5, <2>2, <2>3, StaysSending
<1> QED
  BY <1>7, <1>8, <1>9 DEF LimitAfter

\* The compensation deletes the row of its own account, if any.
LEMMA DeleteTokenLimit ==
    ASSUME ResendInv, NEW r \in Requests, DeleteTokenByID(r)
    PROVE  LimitAfter
<1>1. PICK u \in Requests : u = acct[r]
  BY DEF DeleteTokenByID, ResendInv, VerificationInv, TokensTrackAccounts
<1>2. /\ pc[r] = "undo_token" /\ UNCHANGED <<elapsed, acct, resend, held>>
      /\ pc'[r] = IF IsRegistration(r) THEN "undo_user" ELSE "failed"
      /\ \A q \in Requests \ {r} : pc'[q] = pc[q]
  BY DEF DeleteTokenByID, OnError, Goto, Registering, ResendInv, VerificationInv, TypeOK
<1>3. pc[r] \in Sending \ {"latest"} /\ pc[r] \in Holding /\ pc'[r] \notin Holding
  BY <1>2 DEF Sending, Registering, Holding
<1>4. CASE tokens' = tokens
  BY <1>2, <1>3, <1>4, QuietLimit DEF Sending, Registering
<1>5. CASE tokens' = [v \in Requests |-> IF tokens[v].id = held[r].id THEN NoRow ELSE tokens[v]]
  <2>1. \A v \in Requests \ {u} : SameRow(v)
    BY <1>1, <1>3, <1>5, RowFacts, RowOfAccount DEF SameRow
  <2>2. RequestStep(r)
    BY <1>1, <1>2, <2>1 DEF RequestStep
  <2>3. \A v \in Requests : tokens'[v].id \in {tokens[v].id, None}
    BY <1>5 DEF NoRow
  <2>4. RowsTracked'
    BY <1>2, <1>3, <2>2, <2>3, SenderRowsKept
  <2>5. ASSUME NEW v \in Requests \ disturbed, v # u PROVE LimitTracked(v)'
    BY <1>1, <2>2, <2>5, OtherAccountKept DEF ResendInv
  <2>6. ASSUME u \notin disturbed, u \notin Forgotten PROVE LimitTracked(u)'
    <3>1. LimitTracked(u) /\ r \in Senders(u)
      BY <1>1, <1>3, <2>6 DEF ResendInv, Senders
    <3>2. tokens[u].id = held[r].id
      BY <1>3, <3>1 DEF LimitTracked
    <3>3. tokens'[u] = NoRow
      BY <1>5, <3>2
    <3>4. pc'[r] = "undo_user" /\ IsRegistration(r)
      BY <1>1, <1>2, <2>6, <3>3 DEF Forgotten, NoRow
    <3>5. Senders(u)' = {r} /\ OpenResends(u)' = OpenResends(u)
      BY <1>1, <1>3, <2>2, <3>1, <3>4, OnlySender DEF Sending, Registering
    <3>6. OpenResends(u)' = {}
      BY <3>1, <3>4, <3>5 DEF LimitTracked
    <3>7. Cardinality(OpenResends(u)') = 0
      BY <3>6, FS_EmptySet
    <3>8. tokens'[u].window.count = 0
      BY <3>3 DEF NoRow, NoWindow
    <3>9. Counted(u, tokens[u].window)'
      BY <3>6, <3>7, <3>8 DEF Counted
    <3>10. acct'[r] = r
      BY <1>2, <3>4 DEF IsRegistration
    <3> QED
      BY <1>3, <3>5, <3>6, <3>9, <3>10 DEF LimitTracked, IsRegistration
  <2> QED
    BY <2>4, <2>5, <2>6 DEF LimitAfter
<1> QED
  BY <1>4, <1>5 DEF DeleteTokenByID

\* The window is written back, and counts the resend that is now done.
LEMMA UpdateWindowLimit ==
    ASSUME ResendInv, NEW r \in Requests, UpdateVerificationEmailResendWindow(r)
    PROVE  LimitAfter
<1>1. PICK u \in Requests : u = acct[r]
  BY DEF UpdateVerificationEmailResendWindow, ResendInv, VerificationInv, TokensTrackAccounts
<1>2. /\ pc[r] = "window" /\ pc'[r] \in {"done", "failed"} /\ UNCHANGED <<elapsed, acct, resend, held>>
      /\ \A q \in Requests \ {r} : pc'[q] = pc[q]
      /\ tokens' = [v \in Requests |-> IF tokens[v].id = held[r].id
                                       THEN [tokens[v] EXCEPT !.window = resend[r]] ELSE tokens[v]]
      /\ acct[r] # r
  BY DEF UpdateVerificationEmailResendWindow, Applied, OnError, Goto, Registering, ResendInv, VerificationInv,
         TypeOK, UsersTrackRegistrations, IsRegistration
<1>3. pc[r] \in Sending \ {"latest"} /\ pc[r] \in Holding /\ pc'[r] \notin Holding /\ pc'[r] \notin Sending
  BY <1>2 DEF Sending, Registering, Holding
<1>4. \A v \in Requests \ {u} : SameRow(v)
  BY <1>1, <1>2, <1>3, RowFacts, RowOfAccount DEF SameRow
<1>5. RequestStep(r)
  BY <1>1, <1>2, <1>4 DEF RequestStep
<1>6. \A v \in Requests : tokens'[v].id \in {tokens[v].id, None}
  <2>1. tokens \in [Requests -> TokenRow]
    BY DEF ResendInv, VerificationInv, TypeOK
  <2> QED
    BY <1>2, <2>1 DEF TokenRow
<1>7. RowsTracked'
  BY <1>2, <1>3, <1>5, <1>6, SenderRowsKept
<1>8. ASSUME NEW v \in Requests \ disturbed, v # u PROVE LimitTracked(v)'
  BY <1>1, <1>5, <1>8, OtherAccountKept DEF ResendInv
<1>9. ASSUME u \notin disturbed PROVE LimitTracked(u)'
  <2>1. LimitTracked(u) /\ r \in Senders(u)
    BY <1>1, <1>3, <1>9 DEF ResendInv, Senders
  <2>2. tokens[u].id = held[r].id
    BY <1>3, <2>1 DEF LimitTracked
  <2>3. tokens'[u].window = resend[r]
    <3>1. tokens[u] \in TokenRow
      BY DEF ResendInv, VerificationInv, TypeOK
    <3>2. tokens'[u] = [tokens[u] EXCEPT !.window = resend[r]]
      BY <1>2, <2>2
    <3> QED
      BY <3>1, <3>2 DEF TokenRow
  <2>4. Senders(u)' = {}
    BY <1>1, <1>3, <1>5, <2>1, OnlySender
  <2>5. Counted(u, resend[r]) /\ Cardinality(OpenResends(u)) < resend[r].count
    BY <1>2, <1>3, <2>1 DEF LimitTracked, IsRegistration
  <2>6. OpenResends(u)' \subseteq OpenResends(u) \union {r}
    BY <1>2 DEF OpenResends, IsRegistration
  <2>7. \A q \in OpenResends(u)' : resend'[q].start = resend[r].start
    BY <1>2, <2>5, <2>6 DEF Counted
  <2>8. Cardinality(OpenResends(u)') <= resend[r].count
    <3>1. IsFiniteSet(OpenResends(u)) /\ Cardinality(OpenResends(u)) \in Nat
      BY OpenResendsFinite
    <3>2. /\ IsFiniteSet(OpenResends(u) \union {r})
          /\ Cardinality(OpenResends(u) \union {r}) =
               IF r \in OpenResends(u) THEN Cardinality(OpenResends(u)) ELSE Cardinality(OpenResends(u)) + 1
      BY <3>1, FS_AddElement
    <3>3. /\ Cardinality(OpenResends(u)') \in Nat
          /\ Cardinality(OpenResends(u)') <= Cardinality(OpenResends(u) \union {r})
      BY <2>6, <3>2, FS_Subset, FS_CardinalityType
    <3>4. resend[r].count \in Nat
      BY CountsBounded DEF ResendInv
    <3> QED
      BY <2>5, <3>1, <3>2, <3>3, <3>4
  <2>9. Counted(u, tokens[u].window)'
    BY <2>3, <2>7, <2>8 DEF Counted
  <2> QED
    BY <2>4, <2>9 DEF LimitTracked
<1> QED
  BY <1>7, <1>8, <1>9 DEF LimitAfter

\* A call fails, before the mail, or outside a registration or a resend.
LEMMA CallFailsLimit ==
    ASSUME ResendInv, NEW r \in Requests, CallFails(r)
    PROVE  LimitAfter
<1>1. /\ pc[r] \in {"create", "latest", "active", "upsert", "readback", "window", "consume"}
      /\ pc'[r] \in {"undo_user", "failed"}
      /\ pc'[r] = "undo_user" => pc[r] \in Registering
      /\ \A q \in Requests \ {r} : pc'[q] = pc[q]
      /\ UNCHANGED <<tokens, elapsed, acct, resend, held>>
  BY DEF CallFails, OnError, Goto, ResendInv, VerificationInv, TypeOK
<1>2. CASE pc[r] \in Sending
  BY <1>1, <1>2, QuietLimit DEF Sending, Registering, Holding
<1>3. CASE pc[r] \notin Sending
  <2>1. RequestStep(r) /\ \A u : SameRow(u)
    BY <1>1 DEF RequestStep, SameRow
  <2>2. pc'[r] = "failed" /\ pc'[r] \notin Sending /\ pc'[r] \notin Holding
    BY <1>1, <1>3 DEF Sending, Registering, Holding
  <2>3. acct[r] \in Requests
    BY <1>1 DEF ResendInv, VerificationInv, TokensTrackAccounts
  <2>4. RowsTracked'
    BY <1>1, <2>2, <2>3, RowFacts, RowsKept
  <2>5. ASSUME NEW u \in Requests \ disturbed PROVE LimitTracked(u)'
    BY <1>1, <1>3, <2>1, <2>2, NoSenderKept DEF ResendInv
  <2> QED
    BY <2>4, <2>5 DEF LimitAfter
<1> QED
  BY <1>2, <1>3

\* A verification marks a row and leaves its window.
LEMMA ConsumeLimit ==
    ASSUME ResendInv, NEW r \in Requests, ConsumeTokenAndVerifyUser(r)
    PROVE  LimitAfter
<1>1. /\ pc[r] = "consume" /\ pc'[r] \in {"done", "failed"} /\ UNCHANGED <<elapsed, acct, resend, held>>
      /\ \A q \in Requests \ {r} : pc'[q] = pc[q]
      /\ \/ tokens' = tokens
         \/ tokens' = [u \in Requests |-> IF tokens[u].id = held[r].id
                          THEN [tokens[u] EXCEPT !.consumed = TRUE] ELSE tokens[u]]
  BY DEF ConsumeTokenAndVerifyUser, Applied, OnError, Goto, Registering, ResendInv, VerificationInv, TypeOK
<1>2. \A u \in Requests : SameRow(u)
  <2>1. tokens \in [Requests -> TokenRow]
    BY DEF ResendInv, VerificationInv, TypeOK
  <2> QED
    BY <1>1, <2>1 DEF SameRow, TokenRow
<1>3. RequestStep(r)
  BY <1>1, <1>2 DEF RequestStep
<1>4. /\ pc[r] \notin Sending /\ pc'[r] \notin Sending /\ pc'[r] \notin Holding
      /\ resend[r] = NoWindow /\ acct[r] \in Requests
  BY <1>1 DEF Sending, Registering, Holding, ResendInv, RowsTracked, VerificationInv, TokensTrackAccounts
<1>5. \A u \in Requests : tokens'[u].id = tokens[u].id
  BY <1>2 DEF SameRow
<1>6. RowsTracked'
  BY <1>1, <1>3, <1>4, <1>5, SenderRowsKept
<1>7. ASSUME NEW u \in Requests \ disturbed PROVE LimitTracked(u)'
  BY <1>1, <1>2, <1>3, <1>4, NoSenderKept DEF ResendInv
<1> QED
  BY <1>6, <1>7 DEF LimitAfter

\* Time passes: windows close.
LEMMA ClockLimit ==
    ASSUME ResendInv, UNCHANGED <<tokens, pc, acct, held, resend>>, elapsed \subseteq elapsed'
    PROVE  LimitAfter
<1>1. RowsTracked'
  BY DEF ResendInv, RowsTracked
<1>2. ASSUME NEW u \in Requests \ disturbed PROVE LimitTracked(u)'
  <2>1. Senders(u)' = Senders(u) /\ SameRow(u)
    BY DEF Senders, SameRow
  <2>2. OpenResends(u)' \subseteq OpenResends(u)
    BY DEF OpenResends, IsRegistration
  <2> QED
    BY <2>1, <2>2, LimitKept DEF ResendInv
<1> QED
  BY <1>1, <1>2 DEF LimitAfter

LEMMA ResendNextInv ==
    ASSUME ResendInv, [ResendNext]_resendVars
    PROVE  ResendInv'
<1>1. CASE UNCHANGED resendVars
  <2>1. LimitAfter /\ UNCHANGED vars /\ disturbed' = disturbed
    BY <1>1, ClockLimit DEF resendVars, vars
  <2>2. VerificationInv'
    BY <2>1, NextInv DEF ResendInv
  <2>3. ASSUME NEW u \in Requests \ disturbed PROVE LimitTracked(u)'
    <3>1. Senders(u)' = Senders(u) /\ SameRow(u) /\ OpenResends(u)' = OpenResends(u)
      BY <2>1 DEF Senders, SameRow, OpenResends, IsRegistration, vars
    <3> QED
      BY <2>1, <3>1, LimitKept DEF ResendInv, vars
  <2> QED
    BY <2>1, <2>2, <2>3 DEF ResendInv, LimitAfter
<1>2. CASE ResendNext
  <2>1. LimitAfter
    <3>1. ASSUME NEW r \in Requests, NEW a \in Addresses, Register(r, a) PROVE LimitAfter
      BY <3>1, RegisterLimit
    <3>2. ASSUME NEW r \in Requests, NEW u \in Requests, ResendVerificationEmail(r, u) PROVE LimitAfter
      BY <3>2, ResendStartLimit
    <3>3. ASSUME NEW r \in Requests, NEW t \in Requests, VerifyEmail(r, t) PROVE LimitAfter
      BY <3>3, VerifyLimit
    <3>4. ASSUME NEW r \in Requests, Proceed(r) PROVE LimitAfter
      BY <3>4, CreateUserLimit, GetLatestLimit, SendingLimit, UpsertLimit, DeleteTokenLimit, UpdateWindowLimit,
         CallFailsLimit, ConsumeLimit
      DEF Proceed
    <3>5. CASE TimePasses \/ Finished
      BY <3>5, ClockLimit DEF TimePasses, Finished, vars
    <3> QED
      BY <1>2, <3>1, <3>2, <3>3, <3>4, <3>5 DEF ResendNext, Next
  <2>2. VerificationInv'
    BY <1>2, NextInv DEF ResendInv, ResendNext
  <2>3. disturbed' = disturbed \union Overlapping \union Forgotten
    BY <1>2 DEF ResendNext
  <2> QED
    BY <2>1, <2>2, <2>3 DEF ResendInv, LimitAfter
<1> QED
  BY <1>1, <1>2

(***************************************************************************)
(* Whatever requests, faults and time do, the window of an account that    *)
(* was not disturbed, in its row or carried by its one running request,    *)
(* counts the successful resends whose window is open.                     *)
(***************************************************************************)
THEOREM ResendInvariance == ResendSpec => []ResendInv
<1>1. ResendInit => ResendInv
  <2> SUFFICES ASSUME ResendInit PROVE ResendInv
    OBVIOUS
  <2>1. VerificationInv
    BY InitInv DEF ResendInit
  <2>2. RowsTracked
    BY VerificationNoneAssumption DEF ResendInit, Init, RowsTracked, NoRow, Holding
  <2>3. ASSUME NEW u \in Requests PROVE LimitTracked(u)
    <3>1. Senders(u) = {} /\ OpenResends(u) = {}
      BY VerificationNoneAssumption DEF ResendInit, Init, Senders, OpenResends
    <3>2. Cardinality(OpenResends(u)) = 0
      BY <3>1, FS_EmptySet
    <3> QED
      BY <2>1, <3>1, <3>2, CountsBounded DEF LimitTracked, Counted
  <2> QED
    BY <2>1, <2>2, <2>3 DEF ResendInv
<1>2. ResendInv /\ [ResendNext]_resendVars => ResendInv'
  BY ResendNextInv
<1> QED
  BY <1>1, <1>2, PTL DEF ResendSpec

(***************************************************************************)
(* No account gets more successful resends in open windows than            *)
(* maxResendCountPerWindow, for any limit, unless its requests overlapped  *)
(* or one failed after it replaced the token.                              *)
(***************************************************************************)
THEOREM ResendsAreLimited == ResendSpec => []ResendsLimited
<1>1. ResendInv => ResendsLimited
  <2> SUFFICES ASSUME ResendInv, NEW u \in Requests \ disturbed
               PROVE  Cardinality(OpenResends(u)) <= maxResendCountPerWindow
    BY DEF ResendsLimited
  <2>1. LimitTracked(u) /\ VerificationInv
    BY DEF ResendInv
  <2>2. Cardinality(OpenResends(u)) \in Nat /\ maxResendCountPerWindow \in Nat
    BY OpenResendsFinite, ResendAssumption
  <2>3. CASE Counted(u, tokens[u].window)
    BY <2>1, <2>2, <2>3, CountsBounded DEF Counted
  <2>4. CASE ~Counted(u, tokens[u].window)
    <3>1. PICK s \in Senders(u) : pc[s] # "latest"
      BY <2>1, <2>4 DEF LimitTracked
    <3>2. s \in Requests
      BY DEF Senders
    <3>3. CASE IsRegistration(s)
      BY <2>1, <2>2, <3>1, <3>3, FS_EmptySet DEF LimitTracked
    <3>4. CASE ~IsRegistration(s)
      BY <2>1, <2>2, <3>1, <3>2, <3>4, CountsBounded DEF LimitTracked
    <3> QED
      BY <3>3, <3>4
  <2> QED
    BY <2>3, <2>4
<1> QED
  BY <1>1, ResendInvariance, PTL

-----------------------------------------------------------------------------
(* Who gets past the middleware (AccessTokens).                             *)

\* What a step of the requests can do to what an admission relies on.
RequestsMove ==
    /\ \A r \in Requests : pc[r] \notin {"idle", "create"} => pc'[r] \notin {"idle", "create"}
    /\ \A r \in Requests : pc[r] \in {"done", "failed"} =>
         pc'[r] = pc[r] /\ acct'[r] = acct[r] /\ held'[r] = held[r] /\ resend'[r] = resend[r]
    /\ mailed \subseteq mailed'
    /\ \A u \in Requests : user'[u] = "unverified" => user[u] = "unverified" \/ pc[u] = "create"
    /\ \A u \in Requests : user'[u] = "verified" =>
         \/ user[u] = "verified"
         \/ \E r \in Requests :
              /\ pc[r] = "consume" /\ acct[r] = u /\ pc'[r] \in {"done", "failed"}
              /\ acct'[r] = u /\ held'[r] = held[r] /\ resend'[r] = resend[r]
    /\ \A r \in Requests : pc'[r] \in {"idle", "consume"} =>
         pc[r] \in {"idle", "consume"} /\ resend'[r] = resend[r]

LEMMA StepMovesRequests ==
    ASSUME VerificationInv, [Next]_vars
    PROVE  RequestsMove
<1>1. TypeOK
  BY DEF VerificationInv
<1>2. ASSUME NEW r \in Requests, NEW a \in Addresses, Register(r, a) PROVE RequestsMove
  BY <1>1, <1>2 DEF Register, Goto, TypeOK, RequestsMove
<1>3. ASSUME NEW r \in Requests, NEW u \in Requests, ResendVerificationEmail(r, u) PROVE RequestsMove
  BY <1>1, <1>3 DEF ResendVerificationEmail, Goto, TypeOK, RequestsMove
<1>4. ASSUME NEW r \in Requests, NEW t \in Requests, VerifyEmail(r, t) PROVE RequestsMove
  BY <1>1, <1>4 DEF VerifyEmail, Goto, TypeOK, RequestsMove
<1>5. ASSUME NEW r \in Requests, CreateUser(r) PROVE RequestsMove
  BY <1>1, <1>5 DEF CreateUser, Applied, OnError, Goto, TypeOK, RequestsMove
<1>6. ASSUME NEW r \in Requests, GetLatestTokenForUser(r) \/ GetActiveTokenForUser(r) PROVE RequestsMove
  BY <1>1, <1>6 DEF GetLatestTokenForUser, GetActiveTokenForUser, Goto, TypeOK, RequestsMove
<1>7. ASSUME NEW r \in Requests, CreateEmailVerificationToken(r) \/ RetrieveToken(r) PROVE RequestsMove
  BY <1>1, <1>7 DEF CreateEmailVerificationToken, RetrieveToken, Applied, OnError, Goto, TypeOK, RequestsMove
<1>8. ASSUME NEW r \in Requests, CallFails(r) PROVE RequestsMove
  BY <1>1, <1>8 DEF CallFails, OnError, Goto, TypeOK, RequestsMove
<1>9. ASSUME NEW r \in Requests, Send(r) \/ SendFails(r) PROVE RequestsMove
  BY <1>1, <1>9 DEF Send, SendFails, Goto, TypeOK, RequestsMove
<1>10. ASSUME NEW r \in Requests, DeleteTokenByID(r) \/ UpdateVerificationEmailResendWindow(r)
       PROVE  RequestsMove
  BY <1>1, <1>10 DEF DeleteTokenByID, UpdateVerificationEmailResendWindow, Applied, OnError, Goto, TypeOK, RequestsMove
<1>11. ASSUME NEW r \in Requests, DeleteUserByID(r) PROVE RequestsMove
  BY <1>1, <1>11 DEF DeleteUserByID, Goto, TypeOK, RequestsMove
<1>12. ASSUME NEW r \in Requests, ConsumeTokenAndVerifyUser(r) PROVE RequestsMove
  <2>1. pc[r] = "consume" /\ acct[r] \in Requests
    BY <1>12 DEF ConsumeTokenAndVerifyUser, VerificationInv, TokensTrackAccounts
  <2>2. /\ pc'[r] \in {"done", "failed"} /\ \A q \in Requests \ {r} : pc'[q] = pc[q]
        /\ UNCHANGED <<mailed, acct, held, resend>>
    BY <1>1, <1>12, <2>1 DEF ConsumeTokenAndVerifyUser, Applied, OnError, Goto, TypeOK, Registering
  <2>3. \A u \in Requests : user'[u] = user[u] \/ (u = acct[r] /\ user'[u] = "verified")
    BY <1>1, <1>12 DEF ConsumeTokenAndVerifyUser, TypeOK
  <2> QED
    BY <2>1, <2>2, <2>3 DEF RequestsMove
<1>13. ASSUME UNCHANGED <<user, mailed, pc, acct, held, resend>> PROVE RequestsMove
  BY <1>13 DEF RequestsMove
<1> QED
  BY <1>2, <1>3, <1>4, <1>5, <1>6, <1>7, <1>8, <1>9, <1>10, <1>11, <1>12, <1>13
  DEF Next, Proceed, TimePasses, Finished, vars

\* An account stays verified by the request that verified it.
LEMMA VerifierStays ==
    ASSUME RequestsMove, NEW u \in Requests, VerifierKnown(u)
    PROVE  VerifierKnown(u)'
BY DEF RequestsMove, VerifierKnown

\* Registrations, resends and verifications keep what an admission relies on.
LEMMA AdmissionKept ==
    ASSUME AdmissionInv, [Next]_vars, access' = access
    PROVE  AdmissionInv'
<1>1. VerificationInv' /\ RequestsMove
  BY NextInv, StepMovesRequests DEF AdmissionInv
<1>2. \A r \in Requests : pc'[r] \in {"idle", "consume"} => resend'[r] = NoWindow
  BY <1>1 DEF AdmissionInv, RequestsMove
<1>3. ASSUME NEW u \in Requests, user'[u] = "verified" PROVE VerifierKnown(u)'
  <2>1. CASE user[u] = "verified"
    BY <1>1, <2>1, VerifierStays DEF AdmissionInv
  <2>2. CASE user[u] # "verified"
    <3>1. PICK r \in Requests :
            /\ pc[r] = "consume" /\ acct[r] = u /\ pc'[r] \in {"done", "failed"}
            /\ acct'[r] = u /\ held'[r] = held[r] /\ resend'[r] = resend[r]
      BY <1>1, <1>3, <2>2 DEF RequestsMove
    <3>2. resend[r] = NoWindow /\ <<held[r].token, u>> \in mailed
      BY <3>1 DEF AdmissionInv, VerificationInv, TokensTrackAccounts
    <3>3. r # u
      BY <3>1 DEF AdmissionInv, VerificationInv, UsersTrackRegistrations, IsRegistration
    <3> QED
      BY <1>1, <3>1, <3>2, <3>3 DEF VerifierKnown, RequestsMove
  <2> QED
    BY <2>1, <2>2
<1>4. ASSUME access.at = "admitted"
      PROVE  /\ pc'[access.UserID] \notin {"idle", "create"}
             /\ user'[access.UserID] # "unverified" /\ VerifierKnown(access.UserID)'
  <2>1. PICK u \in Requests : u = access.UserID
    BY <1>4 DEF AdmissionInv
  <2>2. pc[u] \notin {"idle", "create"} /\ user[u] # "unverified" /\ VerifierKnown(u)
    BY <1>4, <2>1 DEF AdmissionInv
  <2>3. pc'[u] \notin {"idle", "create"} /\ user'[u] # "unverified"
    BY <1>1, <2>2 DEF RequestsMove
  <2>4. VerifierKnown(u)'
    BY <1>1, <2>2, VerifierStays
  <2> QED
    BY <2>1, <2>3, <2>4 DEF VerifierKnown
<1> QED
  BY <1>1, <1>2, <1>3, <1>4 DEF AdmissionInv

\* A step of the client: it is let through only as a verified account.
LEMMA ClientStepInv ==
    ASSUME AdmissionInv, UNCHANGED vars,
           access' \in [at : {"none", "issued", "admitted"}, UserID : Requests \union {None}],
           access'.at # "none" => access'.UserID \in Requests,
           access'.at = "admitted" => user[access'.UserID] = "verified"
    PROVE  AdmissionInv'
<1>1. /\ VerificationInv' /\ user' = user /\ pc' = pc /\ resend' = resend
      /\ \A u : VerifierKnown(u)' <=> VerifierKnown(u)
  BY NextInv DEF AdmissionInv, vars, VerifierKnown
<1>2. ASSUME NEW u \in Requests, user[u] = "verified"
      PROVE  pc[u] \notin {"idle", "create"} /\ VerifierKnown(u)
  BY <1>2 DEF AdmissionInv, VerificationInv, UsersTrackRegistrations, Registering
<1>3. access'.at = "admitted" =>
        /\ pc'[access'.UserID] \notin {"idle", "create"}
        /\ user'[access'.UserID] # "unverified" /\ VerifierKnown(access.UserID)'
  <2> SUFFICES ASSUME access'.at = "admitted"
               PROVE  /\ pc'[access'.UserID] \notin {"idle", "create"}
                      /\ user'[access'.UserID] # "unverified" /\ VerifierKnown(access.UserID)'
    OBVIOUS
  <2>1. PICK u \in Requests : u = access'.UserID
    OBVIOUS
  <2>2. pc[u] \notin {"idle", "create"} /\ VerifierKnown(u) /\ user[u] = "verified"
    BY <1>2, <2>1
  <2>3. VerifierKnown(u)'
    BY <1>1, <2>2
  <2> QED
    BY <1>1, <2>1, <2>2, <2>3 DEF VerifierKnown
<1> QED
  BY <1>1, <1>2, <1>3 DEF AdmissionInv

LEMMA AdmissionNextInv ==
    ASSUME AdmissionInv, [AccessNext]_accessVars
    PROVE  AdmissionInv'
<1>1. CASE ResendNext /\ UNCHANGED access
  BY <1>1, AdmissionKept DEF ResendNext
<1>2. ASSUME NEW u \in Requests, issueAccessToken(u) PROVE AdmissionInv'
  BY <1>2, ClientStepInv DEF issueAccessToken, resendVars
<1>3. CASE Authenticate
  <2>1. /\ access'.UserID = access.UserID /\ access'.at \in {"issued", "admitted"}
        /\ access'.at = "admitted" => user[access.UserID] = "verified"
        /\ access' \in [at : {"none", "issued", "admitted"}, UserID : Requests \union {None}]
        /\ access.UserID \in Requests /\ UNCHANGED vars
    BY <1>3 DEF Authenticate, GetUserByID, AdmissionInv, resendVars
  <2> QED
    BY <2>1, ClientStepInv
<1>4. CASE Handled
  BY <1>4, ClientStepInv DEF Handled, AdmissionInv, resendVars
<1>5. CASE AccessExpires
  BY <1>5, ClientStepInv DEF AccessExpires, NoAccess, AdmissionInv, resendVars
<1>6. CASE UNCHANGED accessVars
  BY <1>6, AdmissionKept DEF accessVars
<1> QED
  BY <1>1, <1>2, <1>3, <1>4, <1>5, <1>6 DEF AccessNext

(***************************************************************************)
(* Tokens that outlive the state they were issued in, deletions by failed  *)
(* registrations and new registrations of the same address do not separate *)
(* a verified account from the link that verified it.                      *)
(***************************************************************************)
THEOREM AdmissionInvariance == AccessSpec => []AdmissionInv
<1>1. AccessInit => AdmissionInv
  <2> SUFFICES ASSUME AccessInit PROVE AdmissionInv
    OBVIOUS
  <2>1. VerificationInv
    BY InitInv DEF AccessInit, ResendInit
  <2> QED
    BY <2>1 DEF AccessInit, ResendInit, Init, NoAccess, AdmissionInv
<1>2. AdmissionInv /\ [AccessNext]_accessVars => AdmissionInv'
  BY AdmissionNextInv
<1> QED
  BY <1>1, <1>2, PTL DEF AccessSpec

(***************************************************************************)
(* A request that AuthMiddleware lets through acts for an account that a   *)
(* link mailed to it has verified.                                         *)
(***************************************************************************)
THEOREM AdmittedByLink == AccessSpec => []AdmittedByOwnLink
<1>1. AdmissionInv => AdmittedByOwnLink
  BY DEF AdmissionInv, VerifierKnown, AdmittedByOwnLink
<1> QED
  BY <1>1, AdmissionInvariance, PTL

(***************************************************************************)
(* Logins and requests behind the middleware write nothing that            *)
(* registrations, resends and verifications read, so that what is proved   *)
(* of those alone holds of the composition.                                *)
(***************************************************************************)
THEOREM AccessOnlyReads == AccessSpec => ResendSpec /\ Spec
<1>1. AccessInit => ResendInit /\ Init
  BY DEF AccessInit, ResendInit
<1>2. [AccessNext]_accessVars => [ResendNext]_resendVars /\ [Next]_vars
  BY DEF AccessNext, accessVars, resendVars, ResendNext, issueAccessToken, Authenticate, Handled,
         AccessExpires
<1> QED
  BY <1>1, <1>2, PTL DEF AccessSpec, ResendSpec, Spec
=============================================================================

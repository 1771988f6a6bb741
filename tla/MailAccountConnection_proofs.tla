-------------------- MODULE MailAccountConnection_proofs --------------------
(***************************************************************************)
(* For any number of users, addresses, states and callback requests and    *)
(* under every fault: a state is used once, and stored tokens belong to    *)
(* the user and the address of their connection.                           *)
(***************************************************************************)
EXTENDS MailboxAccess, TLAPS

\* The empty table satisfies the inductive invariant.
LEMMA InitInv == Init => ConnectionInv
<1> SUFFICES ASSUME Init PROVE ConnectionInv
  OBVIOUS
<1>1. TypeOK
  BY NobodyAssumption DEF Init, TypeOK, Row, NoRow, PCs, Validated
<1>2. StateUsedOnce /\ ConsumesOwnState /\ AddressKnown /\ ReadOwnRow
  BY DEF Init, StateUsedOnce, ConsumesOwnState, ReadOwnRow, AddressKnown, Validated
<1>3. TokensMatchConnection /\ IdsUnique /\ TokensSettled
  BY NobodyAssumption DEF Init, TokensMatchConnection, IdsUnique, TokensSettled, NoRow
<1> QED
  BY <1>1, <1>2, <1>3 DEF ConnectionInv

(***************************************************************************)
(* A step that leaves the table of connections, the requests and what was  *)
(* read alone and neither undoes nor reaches a write keeps their part of   *)
(* the invariant.                                                          *)
(***************************************************************************)
LEMMA TableUntouched ==
    ASSUME ConnectionInv, NEW c \in Callbacks,
           UNCHANGED <<creds, lastID, user, addr, existing>>,
           pc' \in [Callbacks -> PCs],
           \A d \in Callbacks \ {c} : pc'[d] = pc[d],
           pc[c] \in Settled => pc'[c] \in Settled,
           pc'[c] \notin {"lookup", "create", "update"}
    PROVE  AddressKnown' /\ TokensMatchConnection' /\ IdsUnique' /\ ReadOwnRow' /\ TokensSettled'
<1>1. TokensMatchConnection'
  BY DEF ConnectionInv, TokensMatchConnection, Key
<1>2. IdsUnique'
  BY DEF ConnectionInv, IdsUnique
<1>3. ReadOwnRow'
  BY DEF ConnectionInv, ReadOwnRow, Key
<1>4. \A t \in Callbacks : pc[t] \in Settled => pc'[t] \in Settled
  OBVIOUS
<1>5. TokensSettled'
  BY <1>4 DEF ConnectionInv, TokensSettled
<1>6. AddressKnown'
  BY DEF ConnectionInv, AddressKnown
<1> QED
  BY <1>1, <1>2, <1>3, <1>5, <1>6

\* A step after ConsumePendingState that leaves states alone keeps their use.
LEMMA StatesUntouched ==
    ASSUME ConnectionInv, NEW c \in Callbacks,
           UNCHANGED <<issuedTo, pending, user, state>>,
           pc' \in [Callbacks -> PCs],
           \A d \in Callbacks \ {c} : pc'[d] = pc[d],
           pc'[c] \in Validated => pc[c] \in Validated,
           pc'[c] # "consume"
    PROVE  StateUsedOnce' /\ ConsumesOwnState'
<1>1. \A d \in Callbacks : pc'[d] \in Validated => pc[d] \in Validated
  OBVIOUS
<1> QED
  BY <1>1 DEF ConnectionInv, StateUsedOnce, ConsumesOwnState

\* Authorize issues a state that no callback has used.
LEMMA AuthorizeInv ==
    ASSUME ConnectionInv, NEW u \in Users, NEW s \in States, Authorize(u, s)
    PROVE  ConnectionInv'
<1> USE DEF ConnectionInv, Authorize, request, token
<1>1. TypeOK'
  BY DEF TypeOK
<1>2. StateUsedOnce' /\ ConsumesOwnState'
  BY NobodyAssumption DEF StateUsedOnce, ConsumesOwnState, TypeOK
<1>3. AddressKnown' /\ TokensMatchConnection' /\ IdsUnique' /\ ReadOwnRow' /\ TokensSettled'
  BY DEF AddressKnown, TokensMatchConnection, IdsUnique, ReadOwnRow, TokensSettled, Key
<1> QED
  BY <1>1, <1>2, <1>3

\* The expiry of a state disturbs nothing.
LEMMA ExpireInv ==
    ASSUME ConnectionInv, NEW s \in States, Expire(s)
    PROVE  ConnectionInv'
<1> USE DEF ConnectionInv, Expire, request, token
<1>1. TypeOK'
  BY DEF TypeOK
<1>2. /\ StateUsedOnce' /\ ConsumesOwnState' /\ AddressKnown' /\ TokensMatchConnection'
      /\ IdsUnique' /\ ReadOwnRow' /\ TokensSettled'
  BY DEF StateUsedOnce, ConsumesOwnState, AddressKnown, TokensMatchConnection, IdsUnique, ReadOwnRow, TokensSettled, Key
<1> QED
  BY <1>1, <1>2

\* Steps that only move a callback: its start, the check of its state, an error.
LEMMA MoveInv ==
    ASSUME ConnectionInv, NEW c \in Callbacks,
           StartCallback(c) \/ FindPendingStateByState(c) \/ CallbackFails(c)
    PROVE  ConnectionInv'
<1> USE DEF StartCallback, FindPendingStateByState, CallbackFails, Goto, request, token
<1>1. TypeOK'
  BY DEF ConnectionInv, TypeOK, PCs
<1>2. pc' \in [Callbacks -> PCs] /\ \A d \in Callbacks \ {c} : pc'[d] = pc[d]
  BY DEF ConnectionInv, TypeOK, PCs
<1>3. /\ pc[c] \in Settled => pc'[c] \in Settled
      /\ pc'[c] \in {"find", "consume", "failed"}
  BY DEF ConnectionInv, TypeOK, Settled
<1>4. StateUsedOnce'
  BY <1>2, <1>3 DEF ConnectionInv, StateUsedOnce, Validated
<1>5. ConsumesOwnState'
  BY DEF ConnectionInv, ConsumesOwnState, TypeOK
<1>6. AddressKnown' /\ TokensMatchConnection' /\ IdsUnique' /\ ReadOwnRow' /\ TokensSettled'
  BY <1>2, <1>3, TableUntouched
<1> QED
  BY <1>1, <1>4, <1>5, <1>6 DEF ConnectionInv

\* The row is deleted by one callback only, which finds it in the table.
LEMMA ConsumeInv ==
    ASSUME ConnectionInv, NEW c \in Callbacks, ConsumePendingState(c)
    PROVE  ConnectionInv'
<1> USE DEF ConsumePendingState, Replied, Goto, request, token
<1>1. TypeOK'
  BY DEF ConnectionInv, TypeOK, PCs, Validated
<1>2. pc' \in [Callbacks -> PCs] /\ \A d \in Callbacks \ {c} : pc'[d] = pc[d]
  BY DEF ConnectionInv, TypeOK, PCs, Validated
<1>3. pc[c] = "consume" /\ pc'[c] \in {"exchange", "failed"}
  BY DEF ConnectionInv, TypeOK
<1>4. StateUsedOnce'
  <2>1. CASE pc'[c] = "exchange"
    <3>1. state[c] \in pending
      BY <2>1 DEF ConnectionInv, TypeOK
    <3>2. \A d \in Callbacks : pc[d] \in Validated => state[d] # state[c]
      BY <3>1 DEF ConnectionInv, StateUsedOnce
    <3> QED
      BY <1>2, <1>3, <3>2 DEF ConnectionInv, StateUsedOnce, ConsumesOwnState, TypeOK
  <2>2. CASE pc'[c] = "failed"
    BY <1>2, <1>3, <2>2 DEF ConnectionInv, StateUsedOnce, Validated
  <2> QED
    BY <1>3, <2>1, <2>2
<1>5. ConsumesOwnState'
  BY <1>2, <1>3 DEF ConnectionInv, ConsumesOwnState
<1>6. AddressKnown' /\ TokensMatchConnection' /\ IdsUnique' /\ ReadOwnRow' /\ TokensSettled'
  BY <1>2, <1>3, TableUntouched DEF Settled
<1> QED
  BY <1>1, <1>4, <1>5, <1>6 DEF ConnectionInv

\* The address is set before any token of this callback is stored.
LEMMA ExchangeInv ==
    ASSUME ConnectionInv, NEW c \in Callbacks, Exchange(c)
    PROVE  ConnectionInv'
<1> USE DEF Exchange, Goto, request
<1>1. TypeOK'
  BY DEF ConnectionInv, TypeOK, PCs, Validated
<1>2. pc' \in [Callbacks -> PCs] /\ \A d \in Callbacks \ {c} : pc'[d] = pc[d]
  BY DEF ConnectionInv, TypeOK, PCs, Validated
<1>3. pc[c] = "exchange" /\ pc'[c] = "lookup"
  BY DEF ConnectionInv, TypeOK
<1>4. StateUsedOnce' /\ ConsumesOwnState'
  BY <1>2, <1>3, StatesUntouched DEF Validated
<1>5. \A t \in Callbacks : pc[t] \in Settled => Key(t)' = Key(t) /\ pc'[t] \in Settled
  BY <1>2, <1>3 DEF ConnectionInv, TypeOK, Settled, Key
<1>6. IdsUnique' /\ AddressKnown'
  BY <1>2, <1>3 DEF ConnectionInv, IdsUnique, AddressKnown, TypeOK
<1>7. TokensMatchConnection'
  BY <1>5 DEF ConnectionInv, TokensMatchConnection, TokensSettled
<1>8. ReadOwnRow'
  <2>1. ASSUME NEW d \in Callbacks, pc'[d] = "update"
        PROVE  pc[d] = "update" /\ pc[d] \in Settled
    BY <1>2, <1>3, <2>1 DEF Settled
  <2> QED
    BY <1>5, <2>1 DEF ConnectionInv, ReadOwnRow, TokensSettled
<1>9. TokensSettled'
  BY <1>2, <1>3, <1>5 DEF ConnectionInv, TokensSettled
<1> QED
  BY <1>1, <1>4, <1>6, <1>7, <1>8, <1>9 DEF ConnectionInv

\* What is read is the callback's own row.
LEMMA FindCredentialInv ==
    ASSUME ConnectionInv, NEW c \in Callbacks, FindCredentialByUserAndGmail(c)
    PROVE  ConnectionInv'
<1> USE DEF FindCredentialByUserAndGmail, Goto, Branch, request, token
<1>1. Key(c) \in Keys
  BY DEF ConnectionInv, TypeOK, AddressKnown, Key, Keys
<1>2. TypeOK'
  BY <1>1 DEF ConnectionInv, TypeOK, PCs, Validated
<1>3. pc' \in [Callbacks -> PCs] /\ \A d \in Callbacks \ {c} : pc'[d] = pc[d]
  BY DEF ConnectionInv, TypeOK, PCs, Validated
<1>4. pc[c] = "lookup" /\ pc'[c] \in {"update", "create", "failed"}
  BY DEF ConnectionInv, TypeOK
<1>5. StateUsedOnce' /\ ConsumesOwnState'
  BY <1>3, <1>4, StatesUntouched DEF Validated
<1>6. AddressKnown' /\ TokensMatchConnection' /\ IdsUnique'
  BY <1>3, <1>4 DEF ConnectionInv, AddressKnown, TokensMatchConnection, IdsUnique, Key
<1>7. pc'[c] = "update" => creds[Key(c)].id # 0
  BY DEF ConnectionInv, TypeOK
<1>8. ReadOwnRow'
  <2>1. SUFFICES ASSUME NEW d \in Callbacks, pc'[d] = "update"
                 PROVE  (/\ existing[d].id # 0 /\ existing[d].id <= lastID
                         /\ \A k \in Keys : creds[k].id = existing[d].id => k = Key(d)
                         /\ existing[d].refresh \in Callbacks
                         /\ Key(existing[d].refresh) = Key(d))'
    BY DEF ReadOwnRow
  <2>2. CASE d = c
    <3>1. existing'[c] = creds[Key(c)]
      BY DEF ConnectionInv, TypeOK
    <3> QED
      BY <1>1, <1>7, <2>1, <2>2, <3>1
      DEF ConnectionInv, TokensMatchConnection, IdsUnique, Key
  <2>3. CASE d # c
    BY <1>3, <2>1, <2>3 DEF ConnectionInv, TypeOK, ReadOwnRow, Key
  <2> QED
    BY <2>2, <2>3
<1>9. TokensSettled'
  <2>1. \A t \in Callbacks : pc[t] \in Settled => pc'[t] \in Settled
    BY <1>3, <1>4 DEF Settled
  <2> QED
    BY <1>1, <1>3, <1>4, <2>1 DEF ConnectionInv, TypeOK, TokensSettled
<1> QED
  BY <1>2, <1>5, <1>6, <1>8, <1>9 DEF ConnectionInv

\* A new row has a new id and the tokens of the callback.
LEMMA CreateInv ==
    ASSUME ConnectionInv, NEW c \in Callbacks, CreateCredential(c)
    PROVE  ConnectionInv'
<1> USE DEF CreateCredential, Replied, Goto, request, token
<1> DEFINE new == [id |-> lastID + 1, access |-> c, refresh |-> c]
<1>1. Key(c) \in Keys
  BY DEF ConnectionInv, TypeOK, AddressKnown, Key, Keys
<1>2. TypeOK'
  <2>1. new \in Row
    BY DEF ConnectionInv, TypeOK, Row
  <2>2. creds' \in [Keys -> Row]
    BY <1>1, <2>1 DEF ConnectionInv, TypeOK
  <2>3. pc' \in [Callbacks -> PCs]
    BY DEF ConnectionInv, TypeOK, PCs, Validated
  <2> QED
    BY <2>2, <2>3 DEF ConnectionInv, TypeOK
<1>3. pc' \in [Callbacks -> PCs] /\ \A d \in Callbacks \ {c} : pc'[d] = pc[d]
  BY DEF ConnectionInv, TypeOK, PCs, Validated
<1>4. pc[c] = "create" /\ pc'[c] \in {"linked", "failed"}
  BY DEF ConnectionInv, TypeOK
<1>5. StateUsedOnce' /\ ConsumesOwnState'
  BY <1>3, <1>4, StatesUntouched DEF Validated
<1>6. \A k \in Keys : creds'[k] = creds[k] \/ (k = Key(c) /\ creds'[k] = new)
  <2>1. creds' = creds \/ creds' = [creds EXCEPT ![Key(c)] = new]
    OBVIOUS
  <2>2. creds \in [Keys -> Row]
    BY DEF ConnectionInv, TypeOK
  <2> HIDE DEF new, CreateCredential
  <2> QED
    BY <1>1, <2>1, <2>2
<1>7. TokensMatchConnection'
  <2>1. \A t \in Callbacks : Key(t)' = Key(t)
    BY DEF Key
  <2>2. new.access = c /\ new.refresh = c
    OBVIOUS
  <2>3. ASSUME NEW k \in Keys, creds'[k].id # 0, NEW t \in {creds'[k].access, creds'[k].refresh}
        PROVE  t \in Callbacks /\ Key(t) = k
    <3>1. CASE creds'[k] = creds[k]
      BY <2>3, <3>1 DEF ConnectionInv, TokensMatchConnection
    <3>2. CASE k = Key(c) /\ creds'[k] = new
      BY <2>2, <2>3, <3>2
    <3> QED
      BY <1>6, <3>1, <3>2
  <2> QED
    BY <2>1, <2>3 DEF TokensMatchConnection
<1>8. IdsUnique' /\ AddressKnown'
  <2>1. lastID \in Nat /\ lastID' = lastID + 1 /\ \A k \in Keys : creds[k].id \in Nat
    BY DEF ConnectionInv, TypeOK, Row
  <2> QED
    BY <1>3, <1>4, <1>6, <2>1 DEF ConnectionInv, IdsUnique, AddressKnown
<1>9. ReadOwnRow'
  <2>1. ASSUME NEW d \in Callbacks, pc'[d] = "update"
        PROVE  d # c /\ pc[d] = "update"
    BY <1>3, <1>4, <2>1
  <2>2. lastID \in Nat /\ lastID' = lastID + 1 /\ \A d \in Callbacks : existing[d].id \in Nat
    BY DEF ConnectionInv, TypeOK, Row
  <2> QED
    BY <1>6, <2>1, <2>2 DEF ConnectionInv, ReadOwnRow, Key
<1>10. TokensSettled'
  <2>1. \A t \in Callbacks : pc[t] \in Settled => pc'[t] \in Settled
    BY <1>3, <1>4 DEF Settled
  <2>2. pc'[c] \in Settled
    BY <1>4 DEF Settled
  <2> QED
    BY <1>3, <1>4, <1>6, <2>1, <2>2 DEF ConnectionInv, TokensSettled
<1> QED
  BY <1>2, <1>5, <1>7, <1>8, <1>9, <1>10 DEF ConnectionInv

\* The row with the id that was read, if there is one, is the callback's own.
LEMMA UpdateInv ==
    ASSUME ConnectionInv, NEW c \in Callbacks, UpdateCredentialTokens(c)
    PROVE  ConnectionInv'
<1> DEFINE row == [id |-> existing[c].id, access |-> c,
                   refresh |-> IF refresh[c] THEN c ELSE existing[c].refresh]
<1>1. /\ pc[c] = "update" /\ row.id = existing[c].id
      /\ creds' = [k \in Keys |-> IF creds[k].id = row.id THEN row ELSE creds[k]]
      /\ Replied(c, "linked")
      /\ UNCHANGED <<issuedTo, pending, expired, lastID, user, state, addr, refresh, existing>>
  BY DEF UpdateCredentialTokens, request, token
<1>2. row \in Row
  BY DEF ConnectionInv, TypeOK, Row
<1>3. pc' \in [Callbacks -> PCs] /\ \A d \in Callbacks \ {c} : pc'[d] = pc[d]
  BY <1>1 DEF ConnectionInv, TypeOK, PCs, Validated, Replied, Goto
<1>4. pc'[c] \in {"linked", "failed"}
  BY <1>1 DEF ConnectionInv, TypeOK, Replied, Goto
<1>5. TypeOK'
  BY <1>1, <1>2, <1>3 DEF ConnectionInv, TypeOK
<1>6. StateUsedOnce' /\ ConsumesOwnState'
  BY <1>1, <1>3, <1>4, StatesUntouched DEF Validated
<1>7. \A k \in Keys :
        \/ creds'[k] = creds[k]
        \/ k = Key(c) /\ creds'[k] = row /\ creds[k].id = row.id
  BY <1>1 DEF ConnectionInv, ReadOwnRow
<1>8. row.access = c /\ row.refresh \in Callbacks /\ Key(row.refresh) = Key(c)
  BY <1>1 DEF ConnectionInv, ReadOwnRow
<1>9. TokensMatchConnection'
  BY <1>1, <1>7, <1>8 DEF ConnectionInv, TokensMatchConnection, Key
<1>10. \A k \in Keys : creds'[k].id = creds[k].id
  BY <1>1, <1>7
<1>11. IdsUnique' /\ AddressKnown'
  BY <1>1, <1>3, <1>4, <1>10 DEF ConnectionInv, IdsUnique, AddressKnown
<1>12. ReadOwnRow'
  <2>1. ASSUME NEW d \in Callbacks, pc'[d] = "update"
        PROVE  pc[d] = "update"
    BY <1>3, <1>4, <2>1
  <2> QED
    BY <1>1, <1>10, <2>1 DEF ConnectionInv, ReadOwnRow, Key
<1>13. TokensSettled'
  <2>1. \A t \in Callbacks : pc[t] \in Settled => pc'[t] \in Settled
    BY <1>3, <1>4 DEF Settled
  <2>2. pc'[row.access] \in Settled /\ pc'[row.refresh] \in Settled
    <3>1. pc'[c] \in Settled
      BY <1>4 DEF Settled
    <3>2. pc[existing[c].refresh] \in Settled /\ existing[c].refresh \in Callbacks
      BY <1>1 DEF ConnectionInv, TokensSettled, ReadOwnRow
    <3> QED
      BY <2>1, <3>1, <3>2
  <2> QED
    BY <1>1, <1>3, <1>4, <1>7, <2>1, <2>2 DEF ConnectionInv, TokensSettled
<1> QED
  BY <1>5, <1>6, <1>9, <1>11, <1>12, <1>13 DEF ConnectionInv

\* Disconnect takes a row, and its id, out of the table for good.
LEMMA DisconnectInv ==
    ASSUME ConnectionInv, NEW k \in Keys, Disconnect(k)
    PROVE  ConnectionInv'
<1> USE DEF Disconnect, request, token
<1>1. NoRow \in Row /\ NoRow.id = 0 /\ NoRow.access = Nobody /\ NoRow.refresh = Nobody
  BY DEF NoRow, Row
<1>2. TypeOK'
  BY <1>1 DEF ConnectionInv, TypeOK
<1>3. \A j \in Keys : creds'[j] = creds[j] \/ creds'[j] = NoRow
  BY DEF ConnectionInv, TypeOK
<1>4. StateUsedOnce' /\ ConsumesOwnState'
  BY DEF ConnectionInv, StateUsedOnce, ConsumesOwnState
<1>5. TokensMatchConnection'
  BY <1>1, <1>3 DEF ConnectionInv, TokensMatchConnection, Key
<1>6. IdsUnique' /\ AddressKnown'
  BY <1>1, <1>3 DEF ConnectionInv, IdsUnique, AddressKnown, TypeOK
<1>7. ReadOwnRow'
  BY <1>1, <1>3 DEF ConnectionInv, ReadOwnRow, Key
<1>8. TokensSettled'
  BY <1>1, <1>3, NobodyAssumption DEF ConnectionInv, TokensSettled
<1> QED
  BY <1>2, <1>4, <1>5, <1>6, <1>7, <1>8 DEF ConnectionInv

\* Every step keeps the inductive invariant.
LEMMA NextInv == ConnectionInv /\ [Next]_vars => ConnectionInv'
<1> SUFFICES ASSUME ConnectionInv, [Next]_vars PROVE ConnectionInv'
  OBVIOUS
<1>1. ASSUME NEW u \in Users, NEW s \in States, Authorize(u, s) PROVE ConnectionInv'
  BY <1>1, AuthorizeInv
<1>2. ASSUME NEW s \in States, Expire(s) PROVE ConnectionInv'
  BY <1>2, ExpireInv
<1>3. ASSUME NEW c \in Callbacks, Callback(c) PROVE ConnectionInv'
  BY <1>3, MoveInv, ConsumeInv, ExchangeInv, FindCredentialInv, CreateInv, UpdateInv
  DEF Callback
<1>4. ASSUME NEW k \in Keys, Disconnect(k) PROVE ConnectionInv'
  BY <1>4, DisconnectInv
<1>5. CASE UNCHANGED vars
  BY <1>5
  DEF vars, request, token, ConnectionInv, TypeOK, StateUsedOnce, ConsumesOwnState,
      AddressKnown, TokensMatchConnection, IdsUnique, ReadOwnRow, TokensSettled, Key
<1> QED
  BY <1>1, <1>2, <1>3, <1>4, <1>5 DEF Next, Finished

(***************************************************************************)
(* Callbacks, removals and failures of mailaccountconnection's use case    *)
(* keep the table, the states and the rows read earlier in step.           *)
(***************************************************************************)
THEOREM ConnectionInvariance == Spec => []ConnectionInv
BY InitInv, NextInv, PTL DEF Spec

(***************************************************************************)
(* ConsumePendingState lets at most one callback per state through, and    *)
(* only one of the user the state was issued to.                           *)
(***************************************************************************)
THEOREM StatesUsedOnce == Spec => []StateUsedOnce
<1>1. ConnectionInv => StateUsedOnce
  BY DEF ConnectionInv
<1> QED
  BY <1>1, ConnectionInvariance, PTL

(***************************************************************************)
(* The tokens stored by CreateCredential and UpdateCredentialTokens are    *)
(* those of the connection's own user and address.                         *)
(***************************************************************************)
THEOREM TokensBelong == Spec => []TokensMatchConnection
<1>1. ConnectionInv => TokensMatchConnection
  BY DEF ConnectionInv
<1> QED
  BY <1>1, ConnectionInvariance, PTL

-----------------------------------------------------------------------------
(* The runs that read mailboxes (MailboxAccess).                            *)

\* What a step of the connections can do to what a run relies on: an id
\* stays with its row, goes, or is a new one, and settled tokens stay.
TableMoves ==
    /\ lastID' >= lastID
    /\ \A k \in Keys : creds'[k].id \in {creds[k].id, 0} \/ creds'[k].id > lastID
    /\ \A t \in Callbacks : pc[t] \in Settled => pc'[t] \in Settled /\ Key(t)' = Key(t)

LEMMA StepMovesTable ==
    ASSUME ConnectionInv, [Next]_vars
    PROVE  TableMoves
<1> USE DEF request, token
<1>1. TypeOK
  BY DEF ConnectionInv
<1>2. ASSUME UNCHANGED <<creds, lastID, pc, user, addr>> PROVE TableMoves
  BY <1>1, <1>2 DEF TableMoves, TypeOK, Row, Key
<1>3. ASSUME NEW c \in Callbacks, Callback(c) PROVE TableMoves
  <2>1. user' = user
    BY <1>3 DEF Callback, StartCallback, FindPendingStateByState, ConsumePendingState, Exchange,
                FindCredentialByUserAndGmail, CreateCredential, UpdateCredentialTokens, CallbackFails
  <2>2. /\ \A d \in Callbacks \ {c} : pc'[d] = pc[d] /\ addr'[d] = addr[d]
        /\ pc[c] \in Settled => pc'[c] \in Settled /\ addr'[c] = addr[c]
    <3>1. CASE StartCallback(c)
      BY <1>1, <3>1 DEF StartCallback, Goto, TypeOK, Settled
    <3>2. CASE FindPendingStateByState(c)
      BY <1>1, <3>2 DEF FindPendingStateByState, Goto, TypeOK, Settled
    <3>3. CASE ConsumePendingState(c)
      BY <1>1, <3>3 DEF ConsumePendingState, Replied, Goto, TypeOK, Settled
    <3>4. CASE Exchange(c)
      BY <1>1, <3>4 DEF Exchange, Goto, TypeOK, Settled
    <3>5. CASE FindCredentialByUserAndGmail(c)
      BY <1>1, <3>5 DEF FindCredentialByUserAndGmail, Branch, Goto, TypeOK, Settled
    <3>6. CASE CreateCredential(c)
      BY <1>1, <3>6 DEF CreateCredential, Replied, Goto, TypeOK, Settled
    <3>7. CASE UpdateCredentialTokens(c)
      BY <1>1, <3>7 DEF UpdateCredentialTokens, Replied, Goto, TypeOK, Settled
    <3>8. CASE CallbackFails(c)
      BY <1>1, <3>8 DEF CallbackFails, Goto, TypeOK, Settled
    <3> QED
      BY <1>3, <3>1, <3>2, <3>3, <3>4, <3>5, <3>6, <3>7, <3>8 DEF Callback
  <2>3. \A t \in Callbacks : pc[t] \in Settled => pc'[t] \in Settled /\ Key(t)' = Key(t)
    BY <2>1, <2>2 DEF Key
  <2>4. /\ lastID' >= lastID
        /\ \A k \in Keys : creds'[k].id \in {creds[k].id, 0} \/ creds'[k].id > lastID
    <3>1. CASE UNCHANGED <<creds, lastID>>
      BY <1>1, <3>1 DEF TypeOK
    <3>2. CASE CreateCredential(c)
      BY <1>1, <3>2 DEF CreateCredential, TypeOK
    <3>3. CASE UpdateCredentialTokens(c)
      BY <1>1, <3>3 DEF UpdateCredentialTokens, TypeOK
    <3> QED
      BY <1>3, <3>1, <3>2, <3>3
      DEF Callback, StartCallback, FindPendingStateByState, ConsumePendingState, Exchange,
          FindCredentialByUserAndGmail, CallbackFails
  <2> QED
    BY <2>3, <2>4 DEF TableMoves
<1>4. ASSUME NEW k \in Keys, Disconnect(k) PROVE TableMoves
  <2>1. \A j \in Keys : creds'[j] = creds[j] \/ creds'[j] = NoRow
    BY <1>1, <1>4 DEF Disconnect, TypeOK
  <2> QED
    BY <1>1, <1>4, <2>1 DEF Disconnect, TableMoves, TypeOK, NoRow, Key
<1> QED
  BY <1>2, <1>3, <1>4 DEF Next, Finished, vars, Authorize, Expire

\* A step of the connections keeps what the runs rely on.
LEMMA RunsKept ==
    ASSUME AccessInv, [Next]_vars, run' = run
    PROVE  AccessInv'
<1>1. ConnectionInv' /\ TableMoves
  BY NextInv, StepMovesTable DEF AccessInv
<1>2. TypeOK /\ TypeOK' /\ run \in [Runs -> RunRecord]
  BY <1>1 DEF AccessInv, ConnectionInv
<1>3. ASSUME NEW r \in Runs PROVE FollowsConnection(r)'
  <2>1. CASE run[r].at = "idle"
    BY <2>1 DEF FollowsConnection
  <2>2. CASE run[r].at # "idle"
    <3>1. /\ FollowsConnection(r) /\ run[r].connection \in Nat /\ run[r].tokens \subseteq Callbacks
          /\ lastID \in Nat /\ lastID' \in Nat
      BY <1>2 DEF AccessInv, RunRecord, TypeOK
    <3>2. run[r].connection <= lastID'
      BY <1>1, <2>2, <3>1 DEF FollowsConnection, TableMoves
    <3>3. \A k \in Keys : creds'[k].id = run[r].connection => creds[k].id = run[r].connection
      BY <1>1, <1>2, <2>2, <3>1 DEF FollowsConnection, TableMoves, TypeOK, Row
    <3>4. \A t \in run[r].tokens : pc'[t] \in Settled /\ Key(t)' = <<run[r].user, run[r].account>>
      BY <1>1, <2>2, <3>1 DEF FollowsConnection, TableMoves
    <3> QED
      BY <2>2, <3>1, <3>2, <3>3, <3>4 DEF FollowsConnection
  <2> QED
    BY <2>1, <2>2
<1> QED
  BY <1>1, <1>2, <1>3 DEF AccessInv

\* The row a run finds by its id and user.
LEMMA FoundRow ==
    ASSUME AccessInv, NEW r \in Runs, run[r].at # "idle",
           NEW a \in FindCredentialByIDAndUser(run[r].connection, run[r].user)
    PROVE  LET row == creds[<<run[r].user, a>>] IN
           /\ a = run[r].account /\ a \in Addresses
           /\ \A t \in {row.access, row.refresh} :
                t \in Callbacks /\ pc[t] \in Settled /\ Key(t) = <<run[r].user, a>>
<1> DEFINE k == <<run[r].user, a>>
<1>1. /\ a \in Addresses /\ run[r].connection # 0 /\ creds[k].id = run[r].connection
      /\ run[r].user \in Users
  BY DEF FindCredentialByIDAndUser, AccessInv, FollowsConnection
<1>2. k \in Keys /\ creds[k].id # 0
  BY <1>1 DEF Keys
<1>3. k = <<run[r].user, run[r].account>>
  BY <1>1, <1>2 DEF AccessInv, FollowsConnection
<1> HIDE DEF k
<1>4. \A t \in {creds[k].access, creds[k].refresh} :
        t \in Callbacks /\ pc[t] \in Settled /\ Key(t) = k
  BY <1>2 DEF AccessInv, ConnectionInv, TokensMatchConnection, TokensSettled
<1> QED
  BY <1>1, <1>3, <1>4 DEF k

\* A step of run r that leaves the connections alone.
LEMMA RunMoves ==
    ASSUME AccessInv, NEW r \in Runs, NEW new \in RunRecord, UNCHANGED vars,
           run' = [run EXCEPT ![r] = new],
           new.at # "idle" =>
             /\ new.user \in Users /\ new.connection # 0 /\ new.connection <= lastID
             /\ \A k \in Keys : creds[k].id = new.connection => k = <<new.user, new.account>>
             /\ new.at # "queued" => new.ref = new.account
             /\ \A t \in new.tokens : pc[t] \in Settled /\ Key(t) = <<new.user, new.account>>
    PROVE  AccessInv'
<1>1. ConnectionInv'
  BY NextInv DEF AccessInv
<1>2. run' \in [Runs -> RunRecord] /\ run'[r] = new /\ \A q \in Runs \ {r} : run'[q] = run[q]
  BY DEF AccessInv
<1>3. creds' = creds /\ lastID' = lastID /\ pc' = pc /\ \A t : Key(t)' = Key(t)
  BY DEF vars, request, token, Key
<1>4. ASSUME NEW q \in Runs PROVE FollowsConnection(q)'
  <2>1. CASE q = r
    BY <1>2, <1>3, <2>1 DEF FollowsConnection
  <2>2. CASE q # r
    <3>1. run'[q] = run[q] /\ FollowsConnection(q)
      BY <1>2, <2>2 DEF AccessInv
    <3> QED
      BY <1>3, <3>1 DEF FollowsConnection
  <2> QED
    BY <2>1, <2>2
<1> QED
  BY <1>1, <1>2, <1>4 DEF AccessInv

\* NoRun, and the fields of a run that is at work.
LEMMA RunFields ==
    ASSUME AccessInv
    PROVE  /\ NoRun \in RunRecord /\ NoRun.at = "idle"
           /\ \A r \in Runs : run[r] \in RunRecord
BY DEF AccessInv, NoRun, RunRecord

LEMMA SnapshotInv ==
    ASSUME AccessInv, NEW r \in Runs, NEW u \in Users, NEW id \in 0..lastID,
           resolveConnectionSnapshot(r, u, id)
    PROVE  AccessInv'
<1>1. PICK a \in FindCredentialByIDAndUser(id, u) :
        run' = [run EXCEPT ![r] = [NoRun EXCEPT !.at = "queued", !.user = u,
                                     !.connection = id, !.account = a]]
  BY DEF resolveConnectionSnapshot
<1>2. PICK new : new = [NoRun EXCEPT !.at = "queued", !.user = u, !.connection = id, !.account = a]
  OBVIOUS
<1>3. lastID \in Nat /\ id \in Nat /\ id <= lastID
  BY DEF AccessInv, ConnectionInv, TypeOK
<1>4. a \in Addresses /\ id # 0 /\ creds[<<u, a>>].id = id
  BY DEF FindCredentialByIDAndUser
<1>5. /\ new \in RunRecord /\ new.at = "queued" /\ new.user = u /\ new.connection = id
      /\ new.account = a /\ new.tokens = {}
  BY <1>2, <1>3, <1>4 DEF NoRun, RunRecord
<1>6. \A k \in Keys : creds[k].id = id => k = <<u, a>>
  BY <1>4 DEF AccessInv, ConnectionInv, IdsUnique, Keys
<1>7. run' = [run EXCEPT ![r] = new] /\ UNCHANGED vars
  BY <1>1, <1>2 DEF resolveConnectionSnapshot
<1>8. /\ new.user \in Users /\ new.connection # 0 /\ new.connection <= lastID
      /\ \A k \in Keys : creds[k].id = new.connection => k = <<new.user, new.account>>
      /\ new.at = "queued" /\ \A t \in new.tokens : FALSE
  BY <1>3, <1>4, <1>5, <1>6
<1> QED
  BY <1>5, <1>7, <1>8, RunMoves

LEMMA FindUsableInv ==
    ASSUME AccessInv, NEW r \in Runs, FindUsableConnection(r)
    PROVE  AccessInv'
<1>1. PICK a \in FindCredentialByIDAndUser(run[r].connection, run[r].user) :
        run' = [run EXCEPT ![r].at = "build", ![r].ref = a]
  BY DEF FindUsableConnection
<1>2. PICK new : new = [run[r] EXCEPT !.at = "build", !.ref = a]
  OBVIOUS
<1>3. run[r].at = "queued" /\ a = run[r].account /\ a \in Addresses /\ run[r] \in RunRecord
  BY FoundRow, RunFields DEF FindUsableConnection
<1>4. /\ new \in RunRecord /\ new.at = "build" /\ new.user = run[r].user
      /\ new.connection = run[r].connection /\ new.account = run[r].account
      /\ new.ref = run[r].account /\ new.tokens = run[r].tokens
  BY <1>2, <1>3 DEF RunRecord
<1>5. run' = [run EXCEPT ![r] = new] /\ UNCHANGED vars
  BY <1>1, <1>2 DEF FindUsableConnection, AccessInv
<1>6. FollowsConnection(r)
  BY DEF AccessInv
<1> QED
  BY <1>3, <1>4, <1>5, <1>6, RunMoves DEF FollowsConnection

LEMMA BuildInv ==
    ASSUME AccessInv, NEW r \in Runs, Build(r)
    PROVE  AccessInv'
<1>1. PICK a \in FindCredentialByIDAndUser(run[r].connection, run[r].user) :
        run' = [run EXCEPT ![r].at = "open",
                           ![r].tokens = {creds[<<run[r].user, a>>].access,
                                          creds[<<run[r].user, a>>].refresh}]
  BY DEF Build
<1>2. PICK held : held = {creds[<<run[r].user, a>>].access, creds[<<run[r].user, a>>].refresh}
  OBVIOUS
<1>3. PICK new : new = [run[r] EXCEPT !.at = "open", !.tokens = held]
  OBVIOUS
<1>4. /\ run[r].at = "build" /\ a = run[r].account /\ run[r] \in RunRecord
      /\ \A t \in held : t \in Callbacks /\ pc[t] \in Settled
                          /\ Key(t) = <<run[r].user, run[r].account>>
  <2>1. run[r].at = "build" /\ run[r] \in RunRecord
    BY RunFields DEF Build
  <2>2. /\ a = run[r].account
        /\ \A t \in held : t \in Callbacks /\ pc[t] \in Settled /\ Key(t) = <<run[r].user, a>>
    BY <1>2, <2>1, FoundRow
  <2> QED
    BY <2>1, <2>2
<1>5. /\ new \in RunRecord /\ new.at = "open" /\ new.user = run[r].user
      /\ new.connection = run[r].connection /\ new.account = run[r].account
      /\ new.ref = run[r].ref /\ new.tokens = held
  BY <1>3, <1>4 DEF RunRecord
<1>6. run' = [run EXCEPT ![r] = new] /\ UNCHANGED vars
  BY <1>1, <1>2, <1>3 DEF Build, AccessInv
<1>7. FollowsConnection(r)
  BY DEF AccessInv
<1> QED
  BY <1>4, <1>5, <1>6, <1>7, RunMoves DEF FollowsConnection

LEMMA AccessNextInv ==
    ASSUME AccessInv, [AccessNext]_accessVars
    PROVE  AccessInv'
<1>1. CASE Next /\ run' = run
  BY <1>1, RunsKept
<1>2. ASSUME NEW r \in Runs, RunStep(r) PROVE AccessInv'
  <2>1. ASSUME NEW u \in Users, NEW id \in 0..lastID, resolveConnectionSnapshot(r, u, id)
        PROVE  AccessInv'
    BY <2>1, SnapshotInv
  <2>2. ASSUME NEW u \in Users, NEW id \in 0..lastID, RefuseRun(r, u, id) PROVE AccessInv'
    BY <2>2, RunsKept DEF RefuseRun, accessVars
  <2>3. CASE FindUsableConnection(r)
    BY <2>3, FindUsableInv
  <2>4. CASE Build(r)
    BY <2>4, BuildInv
  <2>5. CASE FetchErrors(r) \/ CloseSession(r)
    BY <2>5, RunMoves, RunFields DEF FetchErrors, CloseSession
  <2> QED
    BY <1>2, <2>1, <2>2, <2>3, <2>4, <2>5 DEF RunStep
<1>3. CASE UNCHANGED accessVars
  BY <1>3, RunsKept DEF accessVars
<1> QED
  BY <1>1, <1>2, <1>3 DEF AccessNext

(***************************************************************************)
(* The connection id a workflow was started with never comes to name       *)
(* another row than the one its history shows, whatever callbacks and      *)
(* removals happen between FindUsableConnection and Build.                 *)
(***************************************************************************)
THEOREM AccessInvariance == AccessSpec => []AccessInv
<1>1. AccessInit => AccessInv
  <2> SUFFICES ASSUME AccessInit PROVE AccessInv
    OBVIOUS
  <2>1. ConnectionInv
    BY InitInv DEF AccessInit
  <2>2. run \in [Runs -> RunRecord] /\ \A r \in Runs : run[r].at = "idle"
    BY DEF AccessInit, NoRun, RunRecord
  <2> QED
    BY <2>1, <2>2 DEF AccessInv, FollowsConnection
<1>2. AccessInv /\ [AccessNext]_accessVars => AccessInv'
  BY AccessNextInv
<1> QED
  BY <1>1, <1>2, PTL DEF AccessSpec

(***************************************************************************)
(* The mailbox a workflow reads is the one its user linked under the       *)
(* address its history shows and its emails are stored under.              *)
(***************************************************************************)
THEOREM RunsReadTheirAccount == AccessSpec => []RunReadsItsAccount
<1>1. AccessInv => RunReadsItsAccount
  BY DEF AccessInv, FollowsConnection, RunReadsItsAccount
<1> QED
  BY <1>1, AccessInvariance, PTL
===========================================================================

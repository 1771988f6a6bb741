------------------------ MODULE VendorRegistration ------------------------
(***************************************************************************)
(* The vendor resolution stage of one user's concurrent workflow runs: the *)
(* lookup of a candidate name among the aliases, and the registration of   *)
(* an unknown name as vendor and alias in one MySQL transaction            *)
(* (VendorRegistrationRepository.EnsureByPlan).                            *)
(*                                                                         *)
(* MySQL is modelled as the code uses it: REPEATABLE READ (the server's    *)
(* default, no code changes it), where plain SELECTs of a transaction see  *)
(* the rows committed before its first SELECT and its own, while an INSERT *)
(* meets the unique keys as they are now and waits for the row locks of    *)
(* other transactions.                                                     *)
(***************************************************************************)
EXTENDS Naturals

CONSTANTS
    Runs,        \* workflow runs of the user
    Names,       \* normalized names that can be registered
    NoName,      \* a candidate that is missing or too long for the column
    NoRun,       \* nobody holds the lock
    MaxTargets,  \* bound on the parsed emails a run resolves
    Faults       \* "tx_error": a statement errors; "lost_reply": of COMMIT

ASSUME NamesAssumption == NoName \notin Names /\ NoRun \notin Runs
ASSUME MaxTargetsAssumption == MaxTargets \in Nat
ASSUME VendorFaultsAssumption == Faults \subseteq {"tx_error", "lost_reply"}

VARIABLES
    vendors,    \* committed rows: name -> vendor id, 0 if there is none
    aliases,    \* committed name_exact aliases: name -> vendor id, or 0
    lastID,     \* AUTO_INCREMENT of vendors
    vendorLock, \* name -> the run whose transaction locks the vendor key
    aliasLock,  \* name -> the run whose transaction locks the alias key
    pc,         \* where each run is
    name,       \* its candidate name
    snapshot,   \* what its transaction sees: vendors and aliases
    vendor,     \* the vendor id in its hands, 0 for none
    left,       \* targets still to resolve
    resolved    \* <<name, vendor>> of every target resolved by its name

locks == <<vendorLock, aliasLock>>
local == <<name, snapshot, vendor>>
vars == <<vendors, aliases, lastID, locks, pc, local, left, resolved>>

InTransaction == {"insert", "reread", "alias", "check"}
PCs == {"idle", "find"} \union InTransaction
Snapshots == [vendors : [Names -> Nat], aliases : [Names -> Nat]]
NoSnapshot == [vendors |-> [n \in Names |-> 0], aliases |-> [n \in Names |-> 0]]

TypeOK ==
    /\ vendors \in [Names -> Nat]
    /\ aliases \in [Names -> Nat]
    /\ lastID \in Nat
    /\ vendorLock \in [Names -> Runs \union {NoRun}]
    /\ aliasLock \in [Names -> Runs \union {NoRun}]
    /\ pc \in [Runs -> PCs]
    /\ name \in [Runs -> Names \union {NoName}]
    /\ snapshot \in [Runs -> Snapshots]
    /\ vendor \in [Runs -> Nat]
    /\ left \in [Runs -> 0..MaxTargets]
    /\ resolved \subseteq Names \X Nat

\* The master starts empty or with one seeded vendor that has its alias.
Init ==
    /\ vendors \in {f \in [Names -> {0, 1}] :
                      \A m, n \in Names : f[m] = 1 /\ f[n] = 1 => m = n}
    /\ aliases = vendors
    /\ lastID = 1
    /\ vendorLock = [n \in Names |-> NoRun]
    /\ aliasLock = [n \in Names |-> NoRun]
    /\ pc = [r \in Runs |-> "idle"]
    /\ name = [r \in Runs |-> NoName]
    /\ snapshot = [r \in Runs |-> NoSnapshot]
    /\ vendor = [r \in Runs |-> 0]
    /\ left = [r \in Runs |-> MaxTargets]
    /\ resolved = {}

---------------------------------------------------------------------------

Goto(r, label) == pc' = [pc EXCEPT ![r] = label]

(***************************************************************************)
(* resolveTarget up to the registration: the aliases are read outside a    *)
(* transaction.  A known name resolves.  Otherwise the sender or the       *)
(* subject may resolve the target, or it has no usable name and stays      *)
(* unresolved; every other name is to be registered.                       *)
(***************************************************************************)
ResolveTarget(r) ==
    /\ pc[r] = "idle" /\ left[r] > 0
    /\ left' = [left EXCEPT ![r] = @ - 1]
    /\ \/ \E n \in Names :
            /\ aliases[n] # 0
            /\ resolved' = resolved \union {<<n, aliases[n]>>}
            /\ UNCHANGED <<pc, name>>
       \/ UNCHANGED <<pc, name, resolved>>
       \/ \E n \in Names :
            /\ aliases[n] = 0
            /\ name' = [name EXCEPT ![r] = n]
            /\ Goto(r, "find")
            /\ UNCHANGED resolved
    /\ UNCHANGED <<vendors, aliases, lastID, locks, snapshot, vendor>>

\* The transaction's first SELECT fixes what it sees from now on.
findVendorByNormalizedName(r) ==
    LET known == vendors[name[r]] IN
    /\ pc[r] = "find"
    /\ snapshot' = [snapshot EXCEPT ![r] = [vendors |-> vendors, aliases |-> aliases]]
    /\ vendor' = [vendor EXCEPT ![r] = known]
    /\ Goto(r, IF known = 0 THEN "insert" ELSE "alias")
    /\ UNCHANGED <<vendors, aliases, lastID, locks, name, left, resolved>>

\* Mutant: the INSERT does not wait for the key another transaction locks.
createVendorWithoutLock(r) ==
    /\ pc[r] = "insert"
    /\ vendorLock' = [vendorLock EXCEPT ![name[r]] = r]
    /\ vendor' = [vendor EXCEPT ![r] = lastID + 1]
    /\ lastID' = lastID + 1
    /\ Goto(r, "alias")
    /\ UNCHANGED <<vendors, aliases, aliasLock, name, snapshot, left, resolved>>

\* INSERT ... ON DUPLICATE KEY: inserts the row, or finds the key taken and
\* leaves record.ID at 0.
createVendor(r) ==
    LET taken == vendors[name[r]] # 0 IN
    /\ pc[r] = "insert"
    /\ vendorLock[name[r]] = NoRun
    /\ vendorLock' = [vendorLock EXCEPT ![name[r]] = r]
    /\ lastID' = lastID + 1
    /\ vendor' = [vendor EXCEPT ![r] = IF taken THEN 0 ELSE lastID + 1]
    /\ Goto(r, IF taken THEN "reread" ELSE "alias")
    /\ UNCHANGED <<vendors, aliases, aliasLock, name, snapshot, left, resolved>>

Release(r, lock) == [n \in Names |-> IF lock[n] = r THEN NoRun ELSE lock[n]]

\* Mutant: the transaction ends without giving its locks back.
EndTransactionKeepsLocks(r) ==
    /\ Goto(r, "idle")
    /\ name' = [name EXCEPT ![r] = NoName]
    /\ snapshot' = [snapshot EXCEPT ![r] = NoSnapshot]
    /\ vendor' = [vendor EXCEPT ![r] = 0]
    /\ UNCHANGED locks

\* The transaction is over: its locks are free and its snapshot is gone.
EndTransaction(r) ==
    /\ vendorLock' = Release(r, vendorLock)
    /\ aliasLock' = Release(r, aliasLock)
    /\ Goto(r, "idle")
    /\ name' = [name EXCEPT ![r] = NoName]
    /\ snapshot' = [snapshot EXCEPT ![r] = NoSnapshot]
    /\ vendor' = [vendor EXCEPT ![r] = 0]

\* It ends without effect; the target is a failure.
Rollback(r) ==
    /\ EndTransaction(r)
    /\ UNCHANGED <<vendors, aliases, lastID, left, resolved>>

\* The re-read after a conflict, in the transaction's snapshot.
Reread(r) ==
    LET seen == snapshot[r].vendors[name[r]] IN
    /\ pc[r] = "reread"
    /\ IF seen = 0
       THEN Rollback(r)
       ELSE /\ vendor' = [vendor EXCEPT ![r] = seen]
            /\ Goto(r, "alias")
            /\ UNCHANGED <<vendors, aliases, lastID, locks, name, snapshot,
                           left, resolved>>

\* ensureAliases: INSERT ... ON DUPLICATE KEY of the alias.
CreateAlias(r) ==
    /\ pc[r] = "alias"
    /\ aliasLock[name[r]] = NoRun
    /\ aliasLock' = [aliasLock EXCEPT ![name[r]] = r]
    /\ Goto(r, "check")
    /\ UNCHANGED <<vendors, aliases, lastID, vendorLock, local, left, resolved>>

\* The alias row the check finds: the transaction's own, if it inserted one,
\* or the one in its snapshot.
VisibleAlias(r) ==
    IF aliases[name[r]] = 0 THEN vendor[r] ELSE snapshot[r].aliases[name[r]]

\* Mutant: the vendor is committed before its alias is written.
EnsureAliasesAfterCommit(r) ==
    /\ pc[r] = "check"
    /\ vendors' = [vendors EXCEPT ![name[r]] = vendor[r]]
    /\ EndTransaction(r)
    /\ resolved' = resolved \union {<<name[r], vendor[r]>>}
    /\ UNCHANGED <<aliases, lastID, left>>

\* Mutant: the vendor is returned although the transaction was rolled back.
EnsureAliasesErrorIgnored(r) ==
    /\ pc[r] = "check"
    /\ EndTransaction(r)
    /\ resolved' = resolved \union {<<name[r], vendor[r]>>}
    /\ \/ /\ vendors' = [vendors EXCEPT ![name[r]] = vendor[r]]
          /\ aliases' = [aliases EXCEPT ![name[r]] = vendor[r]]
       \/ UNCHANGED <<vendors, aliases>>
    /\ UNCHANGED <<lastID, left>>

(***************************************************************************)
(* The end of ensureAliases and of the transaction: rolled back if the     *)
(* read-back finds no alias or that of another vendor, committed           *)
(* otherwise.  If the reply of COMMIT is lost the target counts as a       *)
(* failure although the rows are there.                                    *)
(***************************************************************************)
ensureAliases(r) ==
    /\ pc[r] = "check"
    /\ IF VisibleAlias(r) # vendor[r]
       THEN Rollback(r)
       ELSE /\ vendors' = [vendors EXCEPT ![name[r]] = vendor[r]]
            /\ aliases' = [aliases EXCEPT ![name[r]] = vendor[r]]
            /\ EndTransaction(r)
            /\ \/ resolved' = resolved \union {<<name[r], vendor[r]>>}
               \/ "lost_reply" \in Faults /\ UNCHANGED resolved
            /\ UNCHANGED <<lastID, left>>

\* A statement of the transaction errors: lost connection, lock timeout.
TransactionFails(r) ==
    /\ "tx_error" \in Faults
    /\ pc[r] \in InTransaction \union {"find"}
    /\ Rollback(r)

Finished ==
    /\ \A r \in Runs : pc[r] = "idle" /\ left[r] = 0
    /\ UNCHANGED vars

EnsureByPlan(r) ==
    \/ findVendorByNormalizedName(r) \/ createVendor(r)
    \/ Reread(r) \/ CreateAlias(r) \/ ensureAliases(r)

Next ==
    \/ \E r \in Runs : ResolveTarget(r) \/ EnsureByPlan(r) \/ TransactionFails(r)
    \/ Finished

Spec == Init /\ [][Next]_vars

\* A registration whose next statement can run takes it; that a statement
\* errors, a lock wait timeout say, is never relied on.
FairSpec == Spec /\ \A r \in Runs : WF_vars(EnsureByPlan(r))
---------------------------------------------------------------------------
(* Properties.                                                             *)

(***************************************************************************)
(* Vendor and alias are committed together: whatever run fails or loses a  *)
(* reply in between, a name has a vendor exactly when it has an alias, and *)
(* the alias leads to that vendor, so the check for an alias "belonging to *)
(* another vendor" never fires; and two names never share a vendor.        *)
(***************************************************************************)
MasterConsistent ==
    /\ aliases = vendors
    /\ \A m, n \in Names : vendors[m] # 0 /\ vendors[m] = vendors[n] => m = n

(***************************************************************************)
(* Runs that resolve the same name agree on its vendor, whoever registered *)
(* it, and that vendor is in the table: no billing refers to a vendor that *)
(* was rolled back.                                                        *)
(***************************************************************************)
SameNameSameVendor ==
    \A p \in resolved : p[2] # 0 /\ vendors[p[1]] = p[2]

(***************************************************************************)
(* Runs that register names concurrently never wait for each other in a    *)
(* circle: every registration commits or rolls back and its locks are      *)
(* free again.                                                             *)
(***************************************************************************)
RegistrationsEnd ==
    \A r \in Runs :
        pc[r] = "find" ~> /\ pc[r] = "idle"
                          /\ \A n \in Names : r \notin {vendorLock[n], aliasLock[n]}

(***************************************************************************)
(* What the comment on createVendor says (vendor_registration_repository.  *)
(* go:106: it supplies the canonical vendor "including the re-read on      *)
(* conflict"): a run that loses the race for a name goes on with the       *)
(* winner's vendor.                                                        *)
(***************************************************************************)
ConflictYieldsVendor ==
    [][\A r \in Runs : pc[r] = "reread" /\ pc'[r] # "reread" => vendor'[r] # 0]_vars
---------------------------------------------------------------------------
(* The inductive invariant.                                                *)

\* Ids are handed out once.
IdsBounded ==
    /\ \A n \in Names : vendors[n] <= lastID
    /\ \A r \in Runs : vendor[r] <= lastID

\* A snapshot holds what was committed, and vendors are never replaced.
SnapshotsAreOld ==
    \A r \in Runs : pc[r] \in InTransaction =>
        /\ name[r] \in Names
        /\ snapshot[r].aliases = snapshot[r].vendors
        /\ \A n \in Names : snapshot[r].vendors[n] \in {0, vendors[n]}

\* The vendor a run is about to commit is the one in the table, or a new
\* one that nobody else has and whose key only this run can take.
VendorInHand ==
    \A r \in Runs : pc[r] \in {"alias", "check"} =>
        /\ vendor[r] # 0
        /\ \/ vendor[r] = vendors[name[r]] /\ snapshot[r].vendors[name[r]] = vendor[r]
           \/ /\ vendors[name[r]] = 0 /\ vendorLock[name[r]] = r
              /\ \A n \in Names : vendors[n] # vendor[r]
              /\ \A q \in Runs \ {r} : vendor[q] # vendor[r]

(***************************************************************************)
(* What every interleaving of registrations keeps: the two tables agree,   *)
(* snapshots lag behind them but never contradict them, and the vendor a   *)
(* transaction carries is the committed one or its own.                    *)
(***************************************************************************)
RegistrationInv ==
    /\ TypeOK
    /\ \A r \in Runs : pc[r] # "idle" => name[r] \in Names
    /\ MasterConsistent
    /\ SameNameSameVendor
    /\ IdsBounded
    /\ SnapshotsAreOld
    /\ VendorInHand
===========================================================================

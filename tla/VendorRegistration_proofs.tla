--------------------- MODULE VendorRegistration_proofs ---------------------
(***************************************************************************)
(* For any number of runs, names and targets and under every fault: the    *)
(* vendor master stays consistent and runs agree on the vendor of a name.  *)
(***************************************************************************)
EXTENDS VendorRegistration, TLAPS

\* The initial master satisfies the inductive invariant.
LEMMA InitInv == Init => RegistrationInv
<1>1. SUFFICES ASSUME Init PROVE RegistrationInv
  OBVIOUS
<1>2. TypeOK
  BY <1>1, NamesAssumption, MaxTargetsAssumption
  DEF Init, TypeOK, PCs, InTransaction, Snapshots, NoSnapshot
<1>3. MasterConsistent /\ SameNameSameVendor
  BY <1>1 DEF Init, MasterConsistent, SameNameSameVendor
<1>4. IdsBounded
  BY <1>1 DEF Init, IdsBounded
<1>5. SnapshotsAreOld /\ VendorInHand
  BY <1>1 DEF Init, SnapshotsAreOld, VendorInHand, InTransaction
<1> QED
  BY <1>1, <1>2, <1>3, <1>4, <1>5 DEF RegistrationInv, Init

\* Looking up a target, known or not, leaves the tables alone.
LEMMA ResolveTargetInv ==
    ASSUME RegistrationInv, NEW r \in Runs, ResolveTarget(r)
    PROVE  RegistrationInv'
<1> USE DEF RegistrationInv, ResolveTarget, locks, Goto
<1>1. TypeOK'
  BY MaxTargetsAssumption DEF TypeOK, PCs, InTransaction
<1>2. (\A q \in Runs : pc[q] # "idle" => name[q] \in Names)'
  BY DEF TypeOK
<1>3. MasterConsistent' /\ IdsBounded'
  BY DEF MasterConsistent, IdsBounded
<1>4. SameNameSameVendor'
  BY DEF SameNameSameVendor, MasterConsistent, TypeOK
<1>5. SnapshotsAreOld'
  BY DEF SnapshotsAreOld, InTransaction, TypeOK
<1>6. VendorInHand'
  BY DEF VendorInHand, InTransaction, TypeOK
<1> QED
  BY <1>1, <1>2, <1>3, <1>4, <1>5, <1>6

\* The first SELECT takes a snapshot of tables that agree.
LEMMA FindInv ==
    ASSUME RegistrationInv, NEW r \in Runs, findVendorByNormalizedName(r)
    PROVE  RegistrationInv'
<1> USE DEF RegistrationInv, findVendorByNormalizedName, locks, Goto
<1>1. TypeOK'
  BY DEF TypeOK, PCs, InTransaction, Snapshots
<1>2. (\A q \in Runs : pc[q] # "idle" => name[q] \in Names)'
  BY DEF TypeOK
<1>3. MasterConsistent' /\ SameNameSameVendor'
  BY DEF MasterConsistent, SameNameSameVendor
<1>4. IdsBounded'
  BY DEF IdsBounded, TypeOK
<1>5. SnapshotsAreOld'
  BY DEF SnapshotsAreOld, InTransaction, TypeOK, MasterConsistent
<1>6. VendorInHand'
  <2>1. SUFFICES ASSUME NEW q \in Runs, (pc[q] \in {"alias", "check"})'
                 PROVE  (/\ vendor[q] # 0
                         /\ \/ vendor[q] = vendors[name[q]] /\ snapshot[q].vendors[name[q]] = vendor[q]
                            \/ /\ vendors[name[q]] = 0 /\ vendorLock[name[q]] = q
                               /\ \A n \in Names : vendors[n] # vendor[q]
                               /\ \A p \in Runs \ {q} : vendor[p] # vendor[q])'
    BY DEF VendorInHand
  <2>2. CASE q = r
    BY <2>1, <2>2 DEF TypeOK
  <2>3. CASE q # r
    BY <2>1, <2>3 DEF TypeOK, VendorInHand
  <2> QED
    BY <2>2, <2>3
<1> QED
  BY <1>1, <1>2, <1>3, <1>4, <1>5, <1>6

\* The id of a new vendor is above every id in use, and its key is locked.
LEMMA CreateVendorInv ==
    ASSUME RegistrationInv, NEW r \in Runs, createVendor(r)
    PROVE  RegistrationInv'
<1> USE DEF RegistrationInv, createVendor, Goto
<1>1. TypeOK'
  BY DEF TypeOK, PCs, InTransaction
<1>2. (\A q \in Runs : pc[q] # "idle" => name[q] \in Names)'
  BY DEF TypeOK
<1>3. MasterConsistent' /\ SameNameSameVendor'
  BY DEF MasterConsistent, SameNameSameVendor
<1>4. IdsBounded'
  BY DEF IdsBounded, TypeOK
<1>5. SnapshotsAreOld'
  BY DEF SnapshotsAreOld, InTransaction, TypeOK
<1>6. VendorInHand'
  <2>1. SUFFICES ASSUME NEW q \in Runs, (pc[q] \in {"alias", "check"})'
                 PROVE  (/\ vendor[q] # 0
                         /\ \/ vendor[q] = vendors[name[q]] /\ snapshot[q].vendors[name[q]] = vendor[q]
                            \/ /\ vendors[name[q]] = 0 /\ vendorLock[name[q]] = q
                               /\ \A n \in Names : vendors[n] # vendor[q]
                               /\ \A p \in Runs \ {q} : vendor[p] # vendor[q])'
    BY DEF VendorInHand
  <2>2. name[r] \in Names
    BY DEF TypeOK
  <2>3. CASE q = r
    BY <2>1, <2>2, <2>3 DEF TypeOK, IdsBounded
  <2>4. CASE q # r
    <3>1. pc[q] \in {"alias", "check"} /\ name[q] \in Names /\ vendor'[q] = vendor[q]
      BY <2>1, <2>4 DEF TypeOK
    <3>2. vendor'[r] # vendor[q]
      BY <3>1 DEF TypeOK, IdsBounded, VendorInHand
    <3>3. vendorLock[name[q]] = q => vendorLock'[name[q]] = q
      BY <2>2, <3>1, NamesAssumption DEF TypeOK
    <3> QED
      BY <3>1, <3>2, <3>3 DEF TypeOK, VendorInHand
  <2> QED
    BY <2>3, <2>4
<1> QED
  BY <1>1, <1>2, <1>3, <1>4, <1>5, <1>6

\* A transaction that ends gives up only its own locks.
LEMMA RollbackInv ==
    ASSUME RegistrationInv, NEW r \in Runs, Rollback(r)
    PROVE  RegistrationInv'
<1> USE DEF RegistrationInv, Rollback, EndTransaction, Goto
<1>1. TypeOK'
  BY DEF TypeOK, PCs, InTransaction, Release, NoSnapshot, Snapshots
<1>2. (\A q \in Runs : pc[q] # "idle" => name[q] \in Names)'
  BY DEF TypeOK
<1>3. MasterConsistent' /\ SameNameSameVendor'
  BY DEF MasterConsistent, SameNameSameVendor
<1>4. IdsBounded'
  BY DEF IdsBounded, TypeOK
<1>5. SnapshotsAreOld'
  BY DEF SnapshotsAreOld, InTransaction, TypeOK
<1>6. VendorInHand'
  <2>1. SUFFICES ASSUME NEW q \in Runs, (pc[q] \in {"alias", "check"})'
                 PROVE  (/\ vendor[q] # 0
                         /\ \/ vendor[q] = vendors[name[q]] /\ snapshot[q].vendors[name[q]] = vendor[q]
                            \/ /\ vendors[name[q]] = 0 /\ vendorLock[name[q]] = q
                               /\ \A n \in Names : vendors[n] # vendor[q]
                               /\ \A p \in Runs \ {q} : vendor[p] # vendor[q])'
    BY DEF VendorInHand
  <2>2. q # r /\ pc[q] \in {"alias", "check"} /\ name[q] \in Names
    BY <2>1 DEF TypeOK
  <2>3. vendorLock[name[q]] = q => vendorLock'[name[q]] = q
    BY <2>2 DEF Release, TypeOK
  <2> QED
    BY <2>1, <2>2, <2>3 DEF TypeOK, VendorInHand
<1> QED
  BY <1>1, <1>2, <1>3, <1>4, <1>5, <1>6

\* A vendor the re-read finds is the committed one.
LEMMA RereadInv ==
    ASSUME RegistrationInv, NEW r \in Runs, Reread(r)
    PROVE  RegistrationInv'
<1>1. CASE Rollback(r)
  BY <1>1, RollbackInv
<1>2. CASE ~Rollback(r)
  <2> USE <1>2 DEF RegistrationInv, Reread, locks, Goto
  <2>1. snapshot[r].vendors[name[r]] = vendors[name[r]] /\ name[r] \in Names
    BY DEF SnapshotsAreOld, InTransaction
  <2>2. TypeOK'
    BY <2>1 DEF TypeOK, PCs, InTransaction
  <2>3. (\A q \in Runs : pc[q] # "idle" => name[q] \in Names)'
    BY DEF TypeOK
  <2>4. MasterConsistent' /\ SameNameSameVendor'
    BY DEF MasterConsistent, SameNameSameVendor
  <2>5. IdsBounded'
    BY <2>1 DEF IdsBounded, TypeOK
  <2>6. SnapshotsAreOld'
    BY DEF SnapshotsAreOld, InTransaction, TypeOK
  <2>7. VendorInHand'
    BY <2>1 DEF VendorInHand, TypeOK
  <2> QED
    BY <2>2, <2>3, <2>4, <2>5, <2>6, <2>7
<1> QED
  BY <1>1, <1>2

\* The alias lock protects no invariant by itself.
LEMMA CreateAliasInv ==
    ASSUME RegistrationInv, NEW r \in Runs, CreateAlias(r)
    PROVE  RegistrationInv'
<1> USE DEF RegistrationInv, CreateAlias, local, Goto
<1>1. TypeOK'
  BY DEF TypeOK, PCs, InTransaction
<1>2. (\A q \in Runs : pc[q] # "idle" => name[q] \in Names)'
  BY DEF TypeOK
<1>3. MasterConsistent' /\ SameNameSameVendor' /\ IdsBounded'
  BY DEF MasterConsistent, SameNameSameVendor, IdsBounded
<1>4. SnapshotsAreOld'
  BY DEF SnapshotsAreOld, InTransaction, TypeOK
<1>5. VendorInHand'
  BY DEF VendorInHand, TypeOK
<1> QED
  BY <1>1, <1>2, <1>3, <1>4, <1>5

(***************************************************************************)
(* COMMIT: the vendor in hand is the one in the table, and nothing         *)
(* changes, or it is new and fills an empty place with an id of its own.   *)
(***************************************************************************)
LEMMA EnsureAliasesInv ==
    ASSUME RegistrationInv, NEW r \in Runs, ensureAliases(r)
    PROVE  RegistrationInv'
<1>1. CASE Rollback(r)
  BY <1>1, RollbackInv
<1>2. CASE ~Rollback(r)
  <2> DEFINE n == name[r]
             v == vendor[r]
  <2>1. /\ pc[r] = "check"
        /\ vendors' = [vendors EXCEPT ![n] = v]
        /\ aliases' = [aliases EXCEPT ![n] = v]
        /\ EndTransaction(r)
        /\ resolved' = resolved \union {<<n, v>>} \/ UNCHANGED resolved
        /\ UNCHANGED <<lastID, left>>
    BY <1>2 DEF ensureAliases
  <2>2. n \in Names /\ v \in Nat /\ v # 0
    BY <2>1 DEF RegistrationInv, TypeOK, VendorInHand
  <2>3. \/ vendors[n] = v
        \/ /\ vendors[n] = 0 /\ vendorLock[n] = r
           /\ \A m \in Names : vendors[m] # v
           /\ \A q \in Runs \ {r} : vendor[q] # v
    BY <2>1 DEF RegistrationInv, VendorInHand
  <2>4. vendors[n] \in {0, v} /\ \A m \in Names : vendors'[m] = IF m = n THEN v ELSE vendors[m]
    BY <2>1, <2>2, <2>3 DEF RegistrationInv, TypeOK
  <2>5. TypeOK'
    BY <2>1, <2>2
    DEF RegistrationInv, TypeOK, EndTransaction, Goto, PCs, InTransaction, Release,
        NoSnapshot, Snapshots
  <2>6. (\A q \in Runs : pc[q] # "idle" => name[q] \in Names)'
    BY <2>1 DEF RegistrationInv, TypeOK, EndTransaction, Goto
  <2>7. MasterConsistent'
    <3>1. aliases' = vendors'
      BY <2>1 DEF RegistrationInv, MasterConsistent
    <3>2. ASSUME NEW k \in Names, NEW m \in Names,
                 vendors'[k] # 0, vendors'[k] = vendors'[m]
          PROVE  k = m
      BY <2>2, <2>3, <2>4, <3>2 DEF RegistrationInv, MasterConsistent
    <3> QED
      BY <3>1, <3>2 DEF MasterConsistent
  <2>8. SameNameSameVendor'
    <3>1. SUFFICES ASSUME NEW p \in resolved'
                   PROVE  p[2] # 0 /\ vendors'[p[1]] = p[2]
      BY DEF SameNameSameVendor
    <3>2. CASE p \in resolved
      BY <3>2, <2>2, <2>4 DEF RegistrationInv, SameNameSameVendor, TypeOK
    <3>3. CASE p = <<n, v>>
      BY <3>3, <2>2, <2>4
    <3> QED
      BY <2>1, <3>2, <3>3
  <2>9. IdsBounded'
    BY <2>1, <2>2, <2>4 DEF RegistrationInv, IdsBounded, TypeOK, EndTransaction
  <2>10. SnapshotsAreOld'
    <3>1. SUFFICES ASSUME NEW q \in Runs, pc'[q] \in InTransaction
                   PROVE  /\ name'[q] \in Names
                          /\ snapshot'[q].aliases = snapshot'[q].vendors
                          /\ \A m \in Names : snapshot'[q].vendors[m] \in {0, vendors'[m]}
      BY DEF SnapshotsAreOld
    <3>2. /\ pc[q] \in InTransaction
          /\ snapshot'[q] = snapshot[q] /\ name'[q] = name[q]
      BY <2>1, <3>1 DEF RegistrationInv, TypeOK, EndTransaction, Goto, InTransaction
    <3> QED
      BY <2>4, <3>2 DEF RegistrationInv, SnapshotsAreOld
  <2>11. VendorInHand'
    <3>1. SUFFICES ASSUME NEW q \in Runs, (pc[q] \in {"alias", "check"})'
                   PROVE  (/\ vendor[q] # 0
                           /\ \/ vendor[q] = vendors[name[q]] /\ snapshot[q].vendors[name[q]] = vendor[q]
                              \/ /\ vendors[name[q]] = 0 /\ vendorLock[name[q]] = q
                                 /\ \A m \in Names : vendors[m] # vendor[q]
                                 /\ \A p \in Runs \ {q} : vendor[p] # vendor[q])'
      BY DEF VendorInHand
    <3>2. /\ q # r /\ pc[q] \in {"alias", "check"} /\ name[q] \in Names
          /\ vendor'[q] = vendor[q] /\ name'[q] = name[q] /\ snapshot'[q] = snapshot[q]
      BY <2>1, <3>1 DEF RegistrationInv, TypeOK, EndTransaction, Goto
    <3>3. vendorLock[name[q]] = q => vendorLock'[name[q]] = q
      BY <2>1, <3>2 DEF EndTransaction, Release
    <3>4. vendor[q] # 0 /\ \A p \in Runs \ {q} : vendor'[p] \in {0, vendor[p]}
      BY <2>1, <3>2 DEF RegistrationInv, VendorInHand, EndTransaction, TypeOK
    <3>5. CASE vendor[q] = vendors[name[q]] /\ snapshot[q].vendors[name[q]] = vendor[q]
      BY <2>4, <3>2, <3>4, <3>5
    <3>6. CASE /\ vendors[name[q]] = 0 /\ vendorLock[name[q]] = q
               /\ \A m \in Names : vendors[m] # vendor[q]
               /\ \A p \in Runs \ {q} : vendor[p] # vendor[q]
      <4>1. name[q] # n
        BY <2>2, <2>3, <3>2, <3>6
      <4> QED
        BY <2>4, <3>2, <3>3, <3>4, <3>6, <4>1
    <3> QED
      BY <3>2, <3>5, <3>6 DEF RegistrationInv, VendorInHand
  <2> QED
    BY <2>5, <2>6, <2>7, <2>8, <2>9, <2>10, <2>11 DEF RegistrationInv
<1> QED
  BY <1>1, <1>2

\* Every step keeps the inductive invariant.
LEMMA NextInv == RegistrationInv /\ [Next]_vars => RegistrationInv'
<1> SUFFICES ASSUME RegistrationInv, [Next]_vars PROVE RegistrationInv'
  OBVIOUS
<1>1. ASSUME NEW r \in Runs, ResolveTarget(r) \/ EnsureByPlan(r) \/ TransactionFails(r)
      PROVE  RegistrationInv'
  BY <1>1, ResolveTargetInv, FindInv, CreateVendorInv, RereadInv, CreateAliasInv,
     EnsureAliasesInv, RollbackInv
  DEF EnsureByPlan, TransactionFails
<1>2. CASE UNCHANGED vars
  BY <1>2
  DEF vars, locks, local, RegistrationInv, TypeOK, MasterConsistent, SameNameSameVendor,
      IdsBounded, SnapshotsAreOld, VendorInHand
<1> QED
  BY <1>1, <1>2 DEF Next, Finished

(***************************************************************************)
(* Whatever registrations interleave, fail or lose the reply of COMMIT,    *)
(* tables, snapshots and the vendors carried by open transactions of       *)
(* EnsureByPlan stay in step.                                              *)
(***************************************************************************)
THEOREM RegistrationInvariance == Spec => []RegistrationInv
BY InitInv, NextInv, PTL DEF Spec

(***************************************************************************)
(* A name has a vendor exactly when it has an alias, the alias leads to    *)
(* that vendor, and no two names share one: the transaction of             *)
(* EnsureByPlan is never half done.                                        *)
(***************************************************************************)
THEOREM MasterStaysConsistent == Spec => []MasterConsistent
<1>1. RegistrationInv => MasterConsistent
  BY DEF RegistrationInv
<1> QED
  BY <1>1, RegistrationInvariance, PTL

(***************************************************************************)
(* All runs that resolve a name, by lookup or by registration, get the     *)
(* same committed vendor.                                                  *)
(***************************************************************************)
THEOREM RunsAgreeOnVendor == Spec => []SameNameSameVendor
<1>1. RegistrationInv => SameNameSameVendor
  BY DEF RegistrationInv
<1> QED
  BY <1>1, RegistrationInvariance, PTL
===========================================================================

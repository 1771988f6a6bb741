----------------------- MODULE VendorResolution_proofs -----------------------
(***************************************************************************)
(* Proofs about VendorResolution, for any mails, aliases, keyword lengths  *)
(* and number of runs and of administrators' changes.  MasterInv is        *)
(* inductive: aliases are only appended, so what a run has found stays     *)
(* true, and what was there when it began is among what it finds.          *)
(***************************************************************************)
EXTENDS VendorResolution, SequenceTheorems, WellFoundedInduction, TLAPS

-----------------------------------------------------------------------------
(* The rules and their order.                                               *)

LEMMA RuleOrder ==
    /\ DOMAIN Rules = {1, 2, 3, 4} /\ Len(Rules) = 4
    /\ Rules[1] = "name_exact" /\ Rules[2] = "sender_domain"
    /\ Rules[3] = "sender_name" /\ Rules[4] = "subject_keyword"
    /\ AliasTypes = {"name_exact", "sender_domain", "sender_name", "subject_keyword"}
<1>1. /\ DOMAIN Rules = {1, 2, 3, 4} /\ Len(Rules) = 4
      /\ Rules[1] = "name_exact" /\ Rules[2] = "sender_domain"
      /\ Rules[3] = "sender_name" /\ Rules[4] = "subject_keyword"
  BY DEF Rules
<1>2. AliasTypes = {Rules[k] : k \in {1, 2, 3, 4}}
  BY <1>1 DEF AliasTypes, Range
<1> QED
  BY <1>1, <1>2

LEMMA Ranks ==
    /\ \A k \in {1, 2, 3, 4} : Rules[k] \in AliasTypes /\ Rank(Rules[k]) = k
    /\ \A t \in AliasTypes : Rank(t) \in {1, 2, 3, 4} /\ Rules[Rank(t)] = t
<1>1. ASSUME NEW k \in {1, 2, 3, 4} PROVE Rank(Rules[k]) = k
  <2>1. \A j \in DOMAIN Rules : Rules[j] = Rules[k] => j = k
    BY RuleOrder
  <2> QED
    BY <2>1, RuleOrder DEF Rank
<1>2. \A t \in AliasTypes : \E k \in {1, 2, 3, 4} : t = Rules[k]
  BY RuleOrder
<1> QED
  BY <1>1, <1>2, RuleOrder

-----------------------------------------------------------------------------
(* The newest and the longest of some candidates.                           *)

\* A set of numbers that is not empty has a least one.
LEMMA LeastNumber ==
    ASSUME NEW S \in SUBSET Nat, S # {}
    PROVE  \E k \in S : \A j \in S : k <= j
<1>1. PICK k \in S : \A j \in S : <<j, k>> \notin OpToRel(<, Nat)
  BY NatLessThanWellFounded, WFMin
<1>2. \A j \in S : ~(j < k)
  BY <1>1 DEF OpToRel
<1> QED
  BY <1>2

\* selectLatestAliasCandidate finds one of the candidates.
LEMMA LatestIsCandidate ==
    ASSUME NEW n \in Nat, NEW ids \in SUBSET (1..n), ids # {}
    PROVE  selectLatestAliasCandidate(ids) \in ids
<1> DEFINE distances == {n - i : i \in ids}
<1>1. distances \in SUBSET Nat /\ distances # {}
  <2>1. \A i \in ids : i \in Nat /\ i <= n
    OBVIOUS
  <2>2. \A i \in ids : n - i \in Nat
    BY <2>1
  <2> QED
    BY <2>2
<1>2. PICK d \in distances : \A e \in distances : d <= e
  <2> HIDE DEF distances
  <2> QED
    BY <1>1, LeastNumber
<1>3. PICK best \in ids : d = n - best
  OBVIOUS
<1>4. \A id \in ids \ {best} : best > id
  BY <1>2, <1>3
<1>5. \A id \in ids \ {best} : newerAliasCandidate(best, id)
  BY <1>4 DEF newerAliasCandidate
<1> QED
  BY <1>5 DEF selectLatestAliasCandidate

\* Some candidate has the longest keyword: the least bound below which the
\* candidates had none would need a candidate at the bound that is neither
\* longer nor shorter than the longest of the others.
LEMMA LongestExists ==
    ASSUME NEW n \in Nat, NEW ids \in SUBSET (1..n), ids # {},
           NEW length \in [1..n -> Nat]
    PROVE  \E i \in ids : \A j \in ids : length[j] <= length[i]
<1> DEFINE Has(P) == \E i \in P : \A j \in P : length[j] <= length[i]
           bad == {k \in 0..n : \E P \in SUBSET (1..k) : P # {} /\ ~Has(P)}
<1>1. ASSUME bad # {} PROVE FALSE
  <2>1. bad \in SUBSET Nat
    OBVIOUS
  <2>2. PICK k \in bad : \A j \in bad : k <= j
    <3> HIDE DEF bad
    <3> QED
      BY <1>1, <2>1, LeastNumber
  <2>3. PICK P \in SUBSET (1..k) : P # {} /\ ~Has(P)
    BY <2>2
  <2>4. k \in 1..n
    <3>1. k # 0
      <4>1. PICK i \in P : i \in 1..k
        BY <2>3
      <4>2. k \in Nat
        BY <2>1, <2>2
      <4> QED
        BY <4>1, <4>2
    <3> QED
      BY <2>2, <3>1
  <2>5. \A Q \in SUBSET (1..(k - 1)) : Q # {} => Has(Q)
    <3>1. k - 1 \in 0..n /\ k - 1 \notin bad
      <4>1. k - 1 \in Nat /\ k \in Nat
        BY <2>4
      <4>2. k - 1 \notin bad
        <5> HIDE DEF bad
        <5> QED
          BY <2>2, <4>1
      <4>3. k - 1 \in 0..n
        BY ONLY <2>4, n \in Nat
      <4> HIDE DEF bad
      <4> QED
        BY <4>2, <4>3
    <3> HIDE DEF Has
    <3> QED
      BY <3>1
  <2>6. k \in P
    <3> SUFFICES ASSUME k \notin P PROVE FALSE
      OBVIOUS
    <3>1. P \in SUBSET (1..(k - 1))
      <4>1. \A i \in 1..k : i # k => i \in 1..(k - 1)
        BY ONLY <2>4, n \in Nat
      <4> HIDE DEF Has
      <4> QED
        BY <2>3, <4>1
    <3> HIDE DEF Has
    <3> QED
      BY <2>3, <2>5, <3>1
  <2> DEFINE others == P \ {k}
  <2>7. others \in SUBSET (1..(k - 1)) /\ P = others \union {k}
    BY <2>3, <2>4, <2>6
  <2>8. CASE others = {}
    <3>1. length[k] \in Nat
      BY <2>4
    <3>2. length[k] <= length[k]
      BY <3>1
    <3>3. P = {k}
      BY <2>7, <2>8
    <3> QED
      BY <2>3, <3>2, <3>3
  <2>9. CASE others # {}
    <3>1. PICK i \in others : \A j \in others : length[j] <= length[i]
      BY <2>5, <2>7, <2>9
    <3>2. \A j \in P : length[j] \in Nat
      <4>1. \A j \in P : j \in 1..n
        BY <2>3, <2>4
      <4> QED
        BY <4>1
    <3>3. i \in P /\ k \in P /\ length[i] \in Nat /\ length[k] \in Nat
      BY <2>6, <3>2
    <3>4. CASE length[k] <= length[i]
      <4>1. \A j \in P : length[j] <= length[i]
        BY <2>7, <3>1, <3>4
      <4> QED
        BY <2>3, <3>3, <4>1
    <3>5. CASE length[i] <= length[k]
      <4>1. \A j \in P : length[j] <= length[k]
        BY <2>7, <3>1, <3>2, <3>3, <3>5
      <4> QED
        BY <2>3, <3>3, <4>1
    <3> QED
      BY <3>3, <3>4, <3>5
  <2> QED
    BY <2>8, <2>9
<1>2. n \notin bad /\ n \in 0..n
  <2>1. n \in 0..n
    OBVIOUS
  <2> HIDE DEF bad
  <2> QED
    BY <1>1, <2>1
<1> QED
  BY <1>2

-----------------------------------------------------------------------------
(* What the policy decides.                                                 *)

LEMMA AliasTable ==
    ASSUME MasterInv
    PROVE  /\ Len(aliases) \in Nat /\ DOMAIN aliases = 1..Len(aliases)
           /\ \A i \in DOMAIN aliases :
                /\ aliases[i].type \in AliasTypes /\ aliases[i].value # ""
                /\ aliases[i].vendor \in Vendors /\ aliases[i].vendor # None
                /\ aliases[i].type = "subject_keyword" => RuneCount[aliases[i].value] \in Nat
           /\ \A r \in Runs : since[r] \in Nat /\ since[r] <= Len(aliases)
                              /\ 1..since[r] \subseteq DOMAIN aliases
<1> DEFINE Alias == [type : AliasTypes, value : Values \ {""}, vendor : Vendors,
                     by : Runs \union {None}]
<1>1. aliases \in Seq(Alias) /\ since \in [Runs -> 0..Len(aliases)]
  BY DEF MasterInv, TypeOK
<1>2. Len(aliases) \in Nat /\ DOMAIN aliases = 1..Len(aliases)
  BY <1>1, LenProperties
<1>3. \A i \in DOMAIN aliases : aliases[i] \in Alias
  <2> HIDE DEF Alias
  <2> QED
    BY <1>1, <1>2, ElementOfSeq
<1>4. \A i \in DOMAIN aliases : aliases[i].type = "subject_keyword" =>
         RuneCount[aliases[i].value] \in Nat
  BY MailsAssumption DEF MasterInv
<1>5. \A r \in Runs : since[r] \in 0..Len(aliases)
  BY <1>1
<1>6. ASSUME NEW r \in Runs
      PROVE  since[r] \in Nat /\ since[r] <= Len(aliases) /\ 1..since[r] \subseteq DOMAIN aliases
  BY <1>2, <1>5
<1> QED
  BY <1>2, <1>3, <1>4, <1>6, MailsAssumption

LEMMA FactsAre ==
    ASSUME MasterInv, NEW r \in Runs, NEW t \in AliasTypes
    PROVE  /\ facts[r][t] \in SUBSET DOMAIN aliases /\ facts[r][t] \in SUBSET (1..Len(aliases))
           /\ \A i \in facts[r][t] : aliases[i].type = t /\ Matches(i, target[r])
BY AliasTable DEF MasterInv, TypeOK, FactsTrackMaster

\* The longest keywords among the facts: there are some, if there are facts.
LEMMA LongestKeywords ==
    ASSUME MasterInv, NEW r \in Runs
    PROVE  LET ids == facts[r]["subject_keyword"]
               top == longestKeywords(ids)
           IN  /\ top \subseteq ids /\ (ids # {} => top # {})
               /\ \A i \in ids : RuneCount[aliases[i].value] \in Nat
               /\ \A i \in top, j \in ids :
                    RuneCount[aliases[j].value] <= RuneCount[aliases[i].value]
<1> DEFINE ids == facts[r]["subject_keyword"]
           n == Len(aliases)
           length == [i \in 1..n |-> IF i \in ids THEN RuneCount[aliases[i].value] ELSE 0]
<1>1. "subject_keyword" \in AliasTypes
  BY RuleOrder
<1>2. /\ ids \in SUBSET DOMAIN aliases /\ ids \in SUBSET (1..n) /\ n \in Nat
      /\ \A i \in ids : aliases[i].type = "subject_keyword"
  BY <1>1, FactsAre, AliasTable
<1>3. \A i \in ids : RuneCount[aliases[i].value] \in Nat
  BY <1>2, AliasTable
<1>4. ASSUME ids # {} PROVE longestKeywords(ids) # {}
  <2>1. length \in [1..n -> Nat]
    BY <1>3
  <2>2. \A i \in ids : length[i] = RuneCount[aliases[i].value]
    BY <1>2
  <2> HIDE DEF length, ids, n
  <2>3. PICK i \in ids : \A j \in ids : length[j] <= length[i]
    BY <1>2, <1>4, <2>1, LongestExists
  <2> QED
    BY <2>2, <2>3 DEF longestKeywords
<1> HIDE DEF ids
<1>5. /\ longestKeywords(ids) \subseteq ids
      /\ \A i \in longestKeywords(ids), j \in ids :
           RuneCount[aliases[j].value] <= RuneCount[aliases[i].value]
  BY DEF longestKeywords
<1> QED
  BY <1>3, <1>4, <1>5 DEF ids

(***************************************************************************)
(* The vendor a rule finds is that of one of its facts; where it finds     *)
(* none, it has no fact, or its longest keywords disagree.                 *)
(***************************************************************************)
LEMMA RuleFinds ==
    ASSUME MasterInv, NEW r \in Runs, NEW t \in AliasTypes
    PROVE  LET ids == facts[r][t]
               top == longestKeywords(ids)
               v == RuleVendor(t, ids)
           IN  /\ v # None =>
                    /\ \E i \in ids : aliases[i].vendor = v
                    /\ t = "subject_keyword" =>
                         /\ ids # {} /\ \A i \in top : aliases[i].vendor = v
               /\ v = None /\ ids # {} =>
                    /\ t = "subject_keyword"
                    /\ \E i, j \in top : aliases[i].vendor # aliases[j].vendor
<1> DEFINE ids == facts[r][t]
           top == longestKeywords(ids)
           n == Len(aliases)
<1>1. /\ ids \in SUBSET DOMAIN aliases /\ ids \in SUBSET (1..n) /\ n \in Nat
      /\ \A i \in ids : aliases[i].vendor # None
  BY FactsAre, AliasTable
<1>2. t = "subject_keyword" => top \subseteq ids /\ (ids # {} => top # {})
  BY LongestKeywords
<1> HIDE DEF ids, top, n
<1>3. ids # {} => selectLatestAliasCandidate(ids) \in ids
  BY <1>1, LatestIsCandidate
<1>4. t = "subject_keyword" /\ ids # {} => selectLatestAliasCandidate(top) \in top
  <2>1. ASSUME t = "subject_keyword", ids # {} PROVE top \in SUBSET (1..n) /\ top # {}
    BY <1>1, <1>2, <2>1
  <2> QED
    BY <1>1, <2>1, LatestIsCandidate
<1>5. CASE t # "subject_keyword"
  BY <1>1, <1>3, <1>5 DEF RuleVendor, ids, top
<1>6. CASE t = "subject_keyword"
  <2>1. RuleVendor(t, ids) =
          IF ids = {} \/ \E i, j \in top : aliases[i].vendor # aliases[j].vendor THEN None
          ELSE aliases[selectLatestAliasCandidate(top)].vendor
    BY <1>6 DEF RuleVendor, resolveSubjectKeyword, top
  <2>2. CASE ids = {} \/ \E i, j \in top : aliases[i].vendor # aliases[j].vendor
    BY <1>6, <2>1, <2>2 DEF ids, top
  <2>3. CASE ~(ids = {} \/ \E i, j \in top : aliases[i].vendor # aliases[j].vendor)
    <3>1. /\ selectLatestAliasCandidate(top) \in top /\ ids # {}
          /\ RuleVendor(t, ids) = aliases[selectLatestAliasCandidate(top)].vendor
      BY <1>4, <1>6, <2>1, <2>3
    <3>2. selectLatestAliasCandidate(top) \in ids
      BY <1>2, <1>6, <3>1
    <3>3. \A i \in top : aliases[i].vendor = RuleVendor(t, ids)
      BY <2>3, <3>1
    <3> QED
      BY <1>1, <1>6, <3>1, <3>2, <3>3 DEF ids, top
  <2> QED
    BY <2>2, <2>3
<1> QED
  BY <1>5, <1>6

\* A mail without a hit was undecided when its run began.
LEMMA NoHitUndecided ==
    ASSUME MasterInv, NEW r \in Runs, pc[r] = "resolve",
           \A t \in AliasTypes : RuleVendor(t, facts[r][t]) = None
    PROVE  Undecided(r)
<1> DEFINE ids == facts[r]["subject_keyword"]
           top == longestKeywords(ids)
<1> SUFFICES ASSUME NEW i \in 1..since[r], Matches(i, target[r])
             PROVE  i \in Keywords(r) /\ Contested(i, r)
  BY DEF Undecided
<1>1. i \in DOMAIN aliases /\ aliases[i].type \in AliasTypes
  BY AliasTable
<1>2. i \in facts[r][aliases[i].type]
  BY <1>1 DEF MasterInv, FactsTrackMaster, Queried
<1>3. /\ aliases[i].type = "subject_keyword"
      /\ \E j, k \in top : aliases[j].vendor # aliases[k].vendor
  BY <1>1, <1>2, RuleFinds
<1>4. i \in Keywords(r) /\ i \in ids
  BY <1>1, <1>2, <1>3 DEF Keywords
<1>5. PICK c \in top : aliases[c].vendor # aliases[i].vendor
  BY <1>3
<1>6. c \in ids /\ RuneCount[aliases[i].value] <= RuneCount[aliases[c].value]
      /\ RuneCount[aliases[i].value] \in Nat /\ RuneCount[aliases[c].value] \in Nat
  BY <1>4, <1>5, LongestKeywords
<1>7. c \in Keywords(r)
  BY <1>6, RuleOrder, FactsAre DEF Keywords
<1>8. RuneCount[aliases[c].value] >= RuneCount[aliases[i].value]
  BY <1>6
<1> QED
  BY <1>4, <1>5, <1>7, <1>8 DEF Contested

\* The first rule that finds a vendor decides rightly.
LEMMA FirstHitJustified ==
    ASSUME MasterInv, NEW r \in Runs, pc[r] = "resolve",
           NEW k \in {1, 2, 3, 4}, NEW v, v = RuleVendor(Rules[k], facts[r][Rules[k]]), v # None,
           \A j \in {1, 2, 3, 4} : j < k => RuleVendor(Rules[j], facts[r][Rules[j]]) = None,
           NEW d, d.vendor = v, d.matchedBy = Rules[k]
    PROVE  Justified(d, r) /\ v \in Vendors
<1> DEFINE t == Rules[k]
           ids == facts[r][t]
           top == longestKeywords(ids)
<1>1. t \in AliasTypes /\ Rank(t) = k
  BY Ranks
<1>2. PICK i \in ids : aliases[i].vendor = v
  BY <1>1, RuleFinds
<1>3. /\ i \in DOMAIN aliases /\ Matches(i, target[r]) /\ aliases[i].type = t
      /\ aliases[i].vendor \in Vendors
  <2>1. i \in DOMAIN aliases /\ Matches(i, target[r]) /\ aliases[i].type = t
    BY <1>1, FactsAre
  <2> QED
    BY <2>1, AliasTable
<1>4. ASSUME NEW j \in 1..since[r], Matches(j, target[r])
      PROVE  /\ j \in DOMAIN aliases /\ aliases[j].type \in AliasTypes
             /\ j \in facts[r][aliases[j].type] /\ Rank(aliases[j].type) >= k
  <2> DEFINE u == aliases[j].type
  <2>1. j \in DOMAIN aliases /\ u \in AliasTypes
    BY AliasTable
  <2>2. j \in facts[r][u]
    BY <1>4, <2>1 DEF MasterInv, FactsTrackMaster, Queried
  <2>3. Rank(u) \in {1, 2, 3, 4} /\ Rules[Rank(u)] = u
    BY <2>1, Ranks
  <2>4. ASSUME Rank(u) < k PROVE FALSE
    <3>1. RuleVendor(u, facts[r][u]) = None
      BY <2>3, <2>4
    <3>2. u = "subject_keyword"
      BY <2>1, <2>2, <3>1, RuleFinds
    <3>3. Rank(u) = 4
      BY <3>2, Ranks, RuleOrder
    <3> QED
      BY <2>4, <3>3
  <2> QED
    BY <2>1, <2>2, <2>3, <2>4
<1>5. ASSUME t = "subject_keyword", NEW j \in Keywords(r) \intersect 1..since[r],
             aliases[j].vendor # v
      PROVE  \E c \in Keywords(r) :
                 /\ aliases[c].vendor = v
                 /\ RuneCount[aliases[c].value] > RuneCount[aliases[j].value]
  <2>1. j \in ids
    BY <1>4, <1>5 DEF Keywords
  <2>2. top # {} /\ top \subseteq ids /\ \A c \in top : aliases[c].vendor = v
    BY <1>1, <1>5, <2>1, LongestKeywords, RuleFinds
  <2>3. PICK c \in top : aliases[c].vendor = v
    BY <2>2
  <2>4. c \in Keywords(r)
    BY <1>1, <1>5, <2>2, FactsAre DEF Keywords
  <2>5. /\ \A e \in ids : RuneCount[aliases[e].value] \in Nat
        /\ \A e \in ids : RuneCount[aliases[e].value] <= RuneCount[aliases[c].value]
    BY <1>5, LongestKeywords
  <2>6. c \in ids
    BY <2>2
  <2> HIDE DEF top, ids
  <2>7. RuneCount[aliases[c].value] # RuneCount[aliases[j].value]
    <3>1. j \notin top
      BY <1>5, <2>2
    <3> QED
      BY <2>1, <2>5, <3>1 DEF longestKeywords, top
  <2>8. RuneCount[aliases[c].value] > RuneCount[aliases[j].value]
    BY <2>1, <2>5, <2>6, <2>7
  <2> QED
    BY <2>3, <2>4, <2>8
<1> QED
  BY <1>1, <1>2, <1>3, <1>4, <1>5 DEF Justified

LEMMA ResolveDecides ==
    ASSUME MasterInv, NEW r \in Runs, pc[r] = "resolve",
           NEW d, d = Resolve(facts[r])
    PROVE  /\ d \in [vendor : Vendors \union {None}, matchedBy : AliasTypes \union {"none"}]
           /\ d = Unresolved => Undecided(r)
           /\ d # Unresolved => Justified(d, r)
<1> DEFINE f == facts[r]
           hits == {k \in {1, 2, 3, 4} : RuleVendor(Rules[k], f[Rules[k]]) # None}
           first == CHOOSE k \in hits : \A j \in hits : k <= j
<1>1. d = IF hits = {} THEN Unresolved
          ELSE [vendor |-> RuleVendor(Rules[first], f[Rules[first]]), matchedBy |-> Rules[first]]
  BY RuleOrder DEF Resolve, FirstHit
<1>2. CASE hits = {}
  <2>1. \A t \in AliasTypes : RuleVendor(t, f[t]) = None
    BY <1>2, Ranks
  <2>2. Undecided(r)
    BY <2>1, NoHitUndecided
  <2>3. d = Unresolved
    BY <1>1, <1>2
  <2> QED
    BY <2>2, <2>3 DEF Unresolved
<1>3. CASE hits # {}
  <2>1. hits \in SUBSET Nat
    OBVIOUS
  <2>2. first \in hits /\ \A j \in hits : first <= j
    <3> HIDE DEF hits
    <3>1. \E k \in hits : \A j \in hits : k <= j
      BY <1>3, <2>1, LeastNumber
    <3> QED
      BY <3>1
  <2>3. d = [vendor |-> RuleVendor(Rules[first], f[Rules[first]]), matchedBy |-> Rules[first]]
    BY <1>1, <1>3
  <2> HIDE DEF first
  <2>4. first \in {1, 2, 3, 4} /\ RuleVendor(Rules[first], f[Rules[first]]) # None
    BY <2>2
  <2>5. \A j \in {1, 2, 3, 4} : j < first => RuleVendor(Rules[j], f[Rules[j]]) = None
    BY <2>2
  <2> DEFINE v == RuleVendor(Rules[first], f[Rules[first]])
  <2>6. d.vendor = v /\ d.matchedBy = Rules[first] /\ d = [vendor |-> v, matchedBy |-> Rules[first]]
    BY <2>3
  <2> HIDE DEF v
  <2>7. v = RuleVendor(Rules[first], facts[r][Rules[first]]) /\ v # None
    BY <2>4 DEF v
  <2>8. Justified(d, r) /\ v \in Vendors
    BY <2>4, <2>5, <2>6, <2>7, FirstHitJustified
  <2>9. Rules[first] \in AliasTypes
    BY <2>4, Ranks
  <2> QED
    BY <2>6, <2>7, <2>8, <2>9 DEF Unresolved
<1> QED
  BY <1>2, <1>3

-----------------------------------------------------------------------------
(* Aliases are only appended, so what was found stays true.                 *)

MasterGrows ==
    /\ DOMAIN aliases \subseteq DOMAIN aliases'
    /\ \A i \in DOMAIN aliases : aliases'[i] = aliases[i]

LEMMA MatchesStay ==
    ASSUME MasterInv, MasterGrows, NEW r \in Runs, target'[r] = target[r], since'[r] = since[r]
    PROVE  /\ \A i \in DOMAIN aliases : Matches(i, target[r])' <=> Matches(i, target[r])
           /\ \A i \in DOMAIN aliases : i \in Keywords(r)' <=> i \in Keywords(r)
           /\ Undecided(r) => Undecided(r)'
           /\ \A d : Justified(d, r) => Justified(d, r)'
<1>1. \A i \in DOMAIN aliases : Matches(i, target[r])' <=> Matches(i, target[r])
  BY DEF MasterGrows, Matches
<1>2. \A i \in DOMAIN aliases : i \in Keywords(r)' <=> i \in Keywords(r)
  BY <1>1 DEF MasterGrows, Keywords
<1>3. 1..since'[r] \subseteq DOMAIN aliases /\ since'[r] = since[r]
  BY AliasTable
<1>4. Keywords(r) \subseteq DOMAIN aliases
  BY DEF Keywords
<1>5. ASSUME Undecided(r) PROVE Undecided(r)'
  <2> SUFFICES ASSUME NEW i \in 1..since[r], Matches(i, target[r])'
               PROVE  i \in Keywords(r)' /\ Contested(i, r)'
    BY <1>3 DEF Undecided
  <2>1. i \in DOMAIN aliases /\ i \in Keywords(r) /\ Contested(i, r)
    BY <1>1, <1>3, <1>5 DEF Undecided
  <2>2. PICK j \in Keywords(r) :
          /\ aliases[j].vendor # aliases[i].vendor
          /\ RuneCount[aliases[j].value] >= RuneCount[aliases[i].value]
    BY <2>1 DEF Contested
  <2>3. /\ j \in Keywords(r)' /\ aliases'[j] = aliases[j] /\ aliases'[i] = aliases[i]
        /\ i \in Keywords(r)'
    BY <1>2, <1>4, <2>1 DEF MasterGrows
  <2> QED
    BY <2>2, <2>3 DEF Contested
<1>6. ASSUME NEW d, Justified(d, r) PROVE Justified(d, r)'
  <2>1. \E i \in DOMAIN aliases' : /\ Matches(i, target[r])' /\ aliases'[i].type = d.matchedBy
                                   /\ aliases'[i].vendor = d.vendor
    BY <1>1, <1>6 DEF Justified, MasterGrows
  <2>2. \A i \in 1..since'[r] :
           Matches(i, target[r])' => Rank(aliases'[i].type) >= Rank(d.matchedBy)
    BY <1>1, <1>3, <1>6 DEF Justified, MasterGrows
  <2>3. ASSUME d.matchedBy = "subject_keyword", NEW i \in Keywords(r)' \intersect 1..since'[r],
               aliases'[i].vendor # d.vendor
        PROVE  \E j \in Keywords(r)' :
                   /\ aliases'[j].vendor = d.vendor
                   /\ RuneCount[aliases'[j].value] > RuneCount[aliases'[i].value]
    <3>1. i \in DOMAIN aliases /\ aliases'[i] = aliases[i] /\ i \in Keywords(r) /\ i \in 1..since[r]
      BY <1>2, <1>3 DEF MasterGrows
    <3>2. PICK j \in Keywords(r) :
            /\ aliases[j].vendor = d.vendor
            /\ RuneCount[aliases[j].value] > RuneCount[aliases[i].value]
      BY <1>6, <2>3, <3>1 DEF Justified
    <3>3. j \in Keywords(r)' /\ aliases'[j] = aliases[j]
      BY <1>2, <1>4 DEF MasterGrows
    <3> QED
      BY <3>1, <3>2, <3>3
  <2> QED
    BY <2>1, <2>2, <2>3 DEF Justified
<1> QED
  BY <1>1, <1>2, <1>5, <1>6

\* A run that does not move.
SameRun(r) ==
    /\ pc'[r] = pc[r] /\ target'[r] = target[r] /\ since'[r] = since[r]
    /\ facts'[r] = facts[r] /\ decision'[r] = decision[r]

LEMMA RunKept ==
    ASSUME MasterInv, MasterGrows, NEW r \in Runs, SameRun(r)
    PROVE  /\ FactsTrackMaster(r)'
           /\ pc'[r] = "register" => Undecided(r)' /\ CandidateName(r)' # ""
           /\ pc'[r] = "resolved" => Justified(decision[r], r)'
           /\ Undecided(r) => Undecided(r)'
<1>1. FactsTrackMaster(r) /\ RegistersUndecided(r)
      /\ (pc[r] = "resolved" => Justified(decision[r], r))
  BY DEF MasterInv, DecisionJustified
<1>2. /\ \A i \in DOMAIN aliases : Matches(i, target[r])' <=> Matches(i, target[r])
      /\ Undecided(r) => Undecided(r)'
      /\ \A d : Justified(d, r) => Justified(d, r)'
  BY MatchesStay DEF SameRun
<1>3. 1..since'[r] \subseteq DOMAIN aliases
  BY AliasTable DEF SameRun
<1>4. \A t \in AliasTypes : facts[r][t] \subseteq DOMAIN aliases
  BY FactsAre
<1>5. FactsTrackMaster(r)'
  <2>1. ASSUME NEW t \in AliasTypes, NEW i \in facts'[r][t]
        PROVE  i \in DOMAIN aliases' /\ aliases'[i].type = t /\ Matches(i, target[r])'
    BY <1>1, <1>2, <1>4 DEF FactsTrackMaster, MasterGrows, SameRun
  <2>2. ASSUME NEW t \in AliasTypes, Queried(r, t)', NEW i \in 1..since'[r],
               aliases'[i].type = t, Matches(i, target[r])'
        PROVE  i \in facts'[r][t]
    <3>1. Queried(r, t)
      BY <2>2 DEF Queried, SameRun
    <3>2. i \in DOMAIN aliases /\ aliases'[i] = aliases[i] /\ i \in 1..since[r]
      BY <1>3 DEF MasterGrows, SameRun
    <3> QED
      BY <1>1, <1>2, <2>2, <3>1, <3>2 DEF FactsTrackMaster, SameRun
  <2> QED
    BY <1>1, <2>1, <2>2 DEF FactsTrackMaster, SameRun
<1>6. pc'[r] = "register" => Undecided(r)' /\ CandidateName(r)' # ""
  BY <1>1, <1>2 DEF RegistersUndecided, SameRun, CandidateName
<1>7. pc'[r] = "resolved" => Justified(decision[r], r)'
  <2>1. ASSUME pc'[r] = "resolved" PROVE Justified(decision[r], r)'
    <3>1. PICK e : e = decision[r]
      OBVIOUS
    <3>2. Justified(e, r)'
      BY <1>1, <1>2, <2>1, <3>1 DEF SameRun
    <3>3. decision'[r] = e
      BY <3>1 DEF SameRun
    <3> QED
      BY <3>2, <3>3
  <2> QED
    BY <2>1
<1> QED
  BY <1>2, <1>5, <1>6, <1>7

-----------------------------------------------------------------------------
(* Steps that leave the master alone.                                       *)

\* Then it is enough to look at the run that moves.
LEMMA RunStepInv ==
    ASSUME MasterInv, NEW r \in Runs, aliases' = aliases, TypeOK', pc[r] # "resolved",
           \A q \in Runs \ {r} : SameRun(q), FactsTrackMaster(r)',
           pc'[r] = "register" => Undecided(r)' /\ CandidateName(r)' # "",
           pc'[r] = "resolved" => Justified(decision[r], r)'
    PROVE  MasterInv'
<1>1. MasterGrows
  BY DEF MasterGrows
<1>2. \A i \in DOMAIN aliases : aliases[i].by # r
  BY DEF MasterInv, RegistersUndecided
<1>3. UniqueKey' /\ \A i \in DOMAIN aliases' :
         aliases'[i].type = "subject_keyword" => aliases'[i].value \in DOMAIN RuneCount
  BY DEF MasterInv, UniqueKey
<1>4. ASSUME NEW q \in Runs
      PROVE  /\ FactsTrackMaster(q)' /\ RegistersUndecided(q)'
             /\ pc'[q] = "resolved" => /\ Justified(decision[q], q)'
                                       /\ (\E i \in DOMAIN aliases' : aliases'[i].by = q) => Undecided(q)'
  <2>1. CASE q = r
    BY <1>2, <2>1 DEF RegistersUndecided
  <2>2. CASE q # r
    <3>1. /\ FactsTrackMaster(q)' /\ (Undecided(q) => Undecided(q)')
          /\ pc'[q] = "register" => Undecided(q)' /\ CandidateName(q)' # ""
          /\ pc'[q] = "resolved" => Justified(decision[q], q)'
      BY <1>1, <2>2, RunKept
    <3>2. pc'[q] = pc[q]
      BY <2>2 DEF SameRun
    <3> QED
      BY <3>1, <3>2 DEF MasterInv, RegistersUndecided, DecisionJustified
  <2> QED
    BY <2>1, <2>2
<1> QED
  BY <1>3, <1>4 DEF MasterInv, DecisionJustified

LEMMA ResolveTargetInv ==
    ASSUME MasterInv, NEW r \in Runs, NEW m \in Mails, resolveTarget(r, m)
    PROVE  MasterInv'
<1>1. TypeOK /\ pc[r] = "idle" /\ Len(aliases) \in Nat
  BY AliasTable DEF MasterInv, resolveTarget
<1>2. /\ aliases' = aliases /\ facts' = facts /\ decision' = decision
      /\ target' = [target EXCEPT ![r] = m] /\ since' = [since EXCEPT ![r] = Len(aliases)]
      /\ pc' = [pc EXCEPT ![r] = "name_exact"]
  BY RuleOrder DEF resolveTarget, Goto
<1>3. TypeOK'
  <2>1. Len(aliases) \in 0..Len(aliases)
    BY <1>1
  <2>2. /\ since' \in [Runs -> 0..Len(aliases)] /\ target' \in [Runs -> Mails \union {None}]
        /\ pc' \in [Runs -> AliasTypes \union {"idle", "resolve", "register"} \union Ended]
    BY <1>1, <1>2, <2>1, RuleOrder DEF TypeOK
  <2> QED
    BY <1>1, <1>2, <2>2 DEF TypeOK
<1>4. /\ pc'[r] = "name_exact" /\ target'[r] = m /\ facts'[r] = NoFacts
      /\ \A q \in Runs \ {r} : SameRun(q)
  <2>1. facts[r] = NoFacts
    BY <1>1 DEF MasterInv, FactsTrackMaster
  <2> QED
    BY <1>1, <1>2, <2>1 DEF TypeOK, SameRun
<1>5. FactsTrackMaster(r)'
  <2>1. \A t \in AliasTypes : facts'[r][t] = {}
    BY <1>4 DEF NoFacts
  <2>2. \A t \in AliasTypes : ~Queried(r, t)'
    BY <1>4, Ranks, RuleOrder DEF Queried
  <2> QED
    BY <1>4, <2>1, <2>2 DEF FactsTrackMaster
<1> QED
  BY <1>1, <1>2, <1>3, <1>4, <1>5, RunStepInv

\* What a query returns: the aliases of its rule that are about the mail.
LEMMA QueryReturns ==
    ASSUME MasterInv, NEW m \in Mails, NEW t \in AliasTypes, NEW ids,
           ids = IF t = "subject_keyword" THEN fetchSubjectKeywordCandidates(m.subject)
                 ELSE fetchExactAliasCandidates(t, BuildFetchPlan(m)[t])
    PROVE  /\ ids \subseteq DOMAIN aliases
           /\ \A i \in DOMAIN aliases : i \in ids <=> aliases[i].type = t /\ Matches(i, m)
<1>1. \A i \in DOMAIN aliases : aliases[i].value # ""
  BY AliasTable
<1>2. CASE t = "subject_keyword"
  BY <1>2 DEF fetchSubjectKeywordCandidates, Having, Matches
<1>3. CASE t # "subject_keyword"
  <2>1. ids = {i \in DOMAIN aliases : /\ aliases[i].type = t
                                      /\ aliases[i].value \in {BuildFetchPlan(m)[t]} \ {""}}
    BY <1>3 DEF fetchExactAliasCandidates, Having
  <2>2. ASSUME NEW i \in DOMAIN aliases, aliases[i].type = t
        PROVE  Matches(i, m) <=> aliases[i].value = BuildFetchPlan(m)[t]
    BY <1>3, <2>2 DEF Matches
  <2> QED
    BY <1>1, <2>1, <2>2
<1> QED
  BY <1>2, <1>3

LEMMA FetchFactsInv ==
    ASSUME MasterInv, NEW r \in Runs, FetchFacts(r)
    PROVE  MasterInv'
<1>1. TypeOK /\ FactsTrackMaster(r)
  BY DEF MasterInv
<1>2. PICK k \in {1, 2, 3, 4} :
        /\ pc[r] = Rules[k]
        /\ facts' = [facts EXCEPT ![r][Rules[k]] =
             IF Rules[k] = "subject_keyword"
             THEN fetchSubjectKeywordCandidates(target[r].subject)
             ELSE fetchExactAliasCandidates(Rules[k], BuildFetchPlan(target[r])[Rules[k]])]
        /\ Goto(r, IF k = Len(Rules) THEN "resolve" ELSE Rules[k + 1])
        /\ UNCHANGED <<aliases, target, since, decision>>
  BY RuleOrder DEF FetchFacts
<1> DEFINE t == Rules[k]
           next == IF k = 4 THEN "resolve" ELSE Rules[k + 1]
           ids == IF t = "subject_keyword" THEN fetchSubjectKeywordCandidates(target[r].subject)
                  ELSE fetchExactAliasCandidates(t, BuildFetchPlan(target[r])[t])
<1>3. /\ pc[r] = t /\ facts' = [facts EXCEPT ![r][t] = ids] /\ pc' = [pc EXCEPT ![r] = next]
      /\ aliases' = aliases /\ target' = target /\ since' = since /\ decision' = decision
  BY <1>2, RuleOrder DEF Goto
<1>4. /\ t \in AliasTypes /\ Rank(t) = k /\ pc[r] \notin {"idle", "resolved"}
      /\ k # 4 => k + 1 \in {1, 2, 3, 4}
  BY <1>2, Ranks, RuleOrder
<1>5. next \in AliasTypes \union {"resolve"} /\ next \notin {"idle", "register", "resolved"}
  BY <1>4, Ranks, RuleOrder
<1>6. target[r] \in Mails
  BY <1>1, <1>4 DEF FactsTrackMaster
<1>7. /\ ids \subseteq DOMAIN aliases
      /\ \A i \in DOMAIN aliases : i \in ids <=> aliases[i].type = t /\ Matches(i, target[r])
  BY <1>4, <1>6, QueryReturns
<1> HIDE DEF ids, next
<1>8. /\ facts'[r] = [facts[r] EXCEPT ![t] = ids] /\ pc'[r] = next
      /\ facts'[r][t] = ids /\ \A u \in AliasTypes \ {t} : facts'[r][u] = facts[r][u]
  BY <1>1, <1>3, <1>4 DEF TypeOK
<1>9. TypeOK'
  <2>1. facts' \in [Runs -> [AliasTypes -> SUBSET DOMAIN aliases]]
    BY <1>1, <1>3, <1>4, <1>7 DEF TypeOK
  <2> QED
    BY <1>1, <1>3, <1>5, <2>1 DEF TypeOK
<1>10. \A q \in Runs \ {r} : SameRun(q)
  BY <1>1, <1>3 DEF TypeOK, SameRun
<1>11. FactsTrackMaster(r)'
  <2>1. \A i \in DOMAIN aliases : Matches(i, target[r])' <=> Matches(i, target[r])
    BY <1>3 DEF Matches
  <2>2. ASSUME NEW u \in AliasTypes, NEW i \in facts'[r][u]
        PROVE  i \in DOMAIN aliases' /\ aliases'[i].type = u /\ Matches(i, target[r])'
    <3>1. CASE u = t
      BY <1>3, <1>7, <1>8, <2>1, <2>2, <3>1
    <3>2. CASE u # t
      BY <1>1, <1>3, <1>8, <2>1, <2>2, <3>2 DEF FactsTrackMaster
    <3> QED
      BY <3>1, <3>2
  <2>3. ASSUME NEW u \in AliasTypes, Queried(r, u)', NEW i \in 1..since'[r],
               aliases'[i].type = u, Matches(i, target[r])'
        PROVE  i \in facts'[r][u]
    <3>1. i \in DOMAIN aliases /\ i \in 1..since[r] /\ aliases[i].type = u /\ Matches(i, target[r])
      BY <1>3, <2>1, <2>3, AliasTable
    <3>2. CASE u = t
      BY <1>7, <1>8, <3>1, <3>2
    <3>3. CASE u # t
      <4>1. Rank(u) \in {1, 2, 3, 4} /\ Rank(u) # k
        BY <1>4, <3>3, Ranks
      <4>2. Rank(u) < k
        <5>1. CASE k = 4
          BY <4>1, <5>1
        <5>2. CASE k # 4
          <6>1. next = Rules[k + 1] /\ k + 1 \in {1, 2, 3, 4} /\ next # "resolve"
            BY <1>4, <5>2, RuleOrder DEF next
          <6>2. PICK j \in {1, 2, 3, 4} : next = Rules[j] /\ Rank(u) < j
            BY <1>8, <2>3, <6>1, RuleOrder DEF Queried
          <6>3. j = k + 1
            <7>1. Rank(next) = j /\ Rank(next) = k + 1
              BY <6>1, <6>2, Ranks, Zenon
            <7> QED
              BY <7>1
          <6> QED
            BY <4>1, <6>2, <6>3
        <5> QED
          BY <5>1, <5>2
      <4>3. Queried(r, u)
        BY <1>3, <4>2, RuleOrder DEF Queried
      <4> QED
        BY <1>1, <1>8, <3>1, <3>3, <4>3 DEF FactsTrackMaster
    <3> QED
      BY <3>2, <3>3
  <2>4. pc'[r] # "idle" /\ target'[r] \in Mails
    BY <1>3, <1>5, <1>6, <1>8
  <2> QED
    BY <2>2, <2>3, <2>4 DEF FactsTrackMaster
<1> QED
  BY <1>3, <1>4, <1>5, <1>8, <1>9, <1>10, <1>11, RunStepInv

LEMMA DecideInv ==
    ASSUME MasterInv, NEW r \in Runs, Decide(r)
    PROVE  MasterInv'
<1>1. TypeOK /\ FactsTrackMaster(r) /\ pc[r] = "resolve"
  BY DEF MasterInv, Decide
<1>2. PICK d : d = Resolve(facts[r])
  OBVIOUS
<1>3. /\ decision' = [decision EXCEPT ![r] = d]
      /\ aliases' = aliases /\ target' = target /\ since' = since /\ facts' = facts
  BY <1>2 DEF Decide
<1>4. PICK label \in {"resolved", "register", "unresolved"} :
        /\ pc' = [pc EXCEPT ![r] = label]
        /\ label = "resolved" => d # Unresolved
        /\ label = "register" => d = Unresolved /\ CandidateName(r) # ""
  BY <1>2 DEF Decide, Goto
<1>5. /\ d \in [vendor : Vendors \union {None}, matchedBy : AliasTypes \union {"none"}]
      /\ d = Unresolved => Undecided(r)
      /\ d # Unresolved => Justified(d, r)
  BY <1>1, <1>2, ResolveDecides
<1>6. TypeOK'
  BY <1>1, <1>3, <1>4, <1>5 DEF TypeOK, Ended
<1>7. /\ pc'[r] = label /\ decision'[r] = d /\ target'[r] = target[r] /\ since'[r] = since[r]
      /\ \A q \in Runs \ {r} : SameRun(q)
  BY <1>1, <1>3, <1>4 DEF TypeOK, SameRun
<1>8. /\ \A i \in DOMAIN aliases : Matches(i, target[r])' <=> Matches(i, target[r])
      /\ Undecided(r) => Undecided(r)'
      /\ \A e : Justified(e, r) => Justified(e, r)'
  BY <1>3, <1>7, MatchesStay DEF MasterGrows
<1>9. FactsTrackMaster(r)'
  <2>1. \A t \in AliasTypes : ~Queried(r, t)'
    BY <1>4, <1>7, RuleOrder DEF Queried
  <2>2. \A t \in AliasTypes : facts[r][t] \subseteq DOMAIN aliases
    BY FactsAre
  <2> QED
    BY <1>1, <1>3, <1>4, <1>7, <1>8, <2>1, <2>2 DEF FactsTrackMaster
<1>10. pc'[r] = "register" => Undecided(r)' /\ CandidateName(r)' # ""
  BY <1>3, <1>4, <1>5, <1>7, <1>8 DEF CandidateName
<1>11. pc'[r] = "resolved" => Justified(decision[r], r)'
  <2>1. ASSUME pc'[r] = "resolved" PROVE Justified(d, r)'
    BY <1>4, <1>5, <1>7, <1>8, <2>1
  <2> QED
    BY <1>7, <2>1
<1> QED
  BY <1>1, <1>3, <1>6, <1>7, <1>9, <1>10, <1>11, RunStepInv

\* A run that ends without a vendor.
LEMMA EndInv ==
    ASSUME MasterInv, NEW r \in Runs, NEW label \in {"unresolved", "failed"},
           pc[r] \notin {"idle", "resolved"}, pc' = [pc EXCEPT ![r] = label],
           UNCHANGED <<aliases, target, since, facts, decision>>
    PROVE  MasterInv'
<1>1. TypeOK /\ FactsTrackMaster(r)
  BY DEF MasterInv
<1>2. TypeOK'
  BY <1>1 DEF TypeOK, Ended
<1>3. pc'[r] = label /\ \A q \in Runs \ {r} : SameRun(q)
  BY <1>1 DEF TypeOK, SameRun
<1>4. FactsTrackMaster(r)'
  <2>1. \A t \in AliasTypes : ~Queried(r, t)'
    BY <1>3, RuleOrder DEF Queried
  <2>2. \A i : Matches(i, target[r])' <=> Matches(i, target[r])
    BY DEF Matches
  <2> QED
    BY <1>1, <1>3, <2>1, <2>2 DEF FactsTrackMaster
<1> QED
  BY <1>2, <1>3, <1>4, RunStepInv

-----------------------------------------------------------------------------
(* Steps that append an alias.                                              *)

\* Table u is table s with row a appended.
Appended(u, s, a, T) ==
    LET n == Len(s) IN
    /\ u \in Seq(T) /\ n \in Nat /\ Len(u) = n + 1
    /\ DOMAIN s = 1..n /\ DOMAIN u = 1..(n + 1) /\ n + 1 \in DOMAIN u
    /\ u[n + 1] = a /\ DOMAIN s \subseteq DOMAIN u
    /\ \A i \in DOMAIN s : u[i] = s[i]
    /\ \A i \in DOMAIN u : i \in DOMAIN s \/ i = n + 1

LEMMA RowAppended ==
    \A T, s, a, u : s \in Seq(T) /\ a \in T /\ u = Append(s, a) => Appended(u, s, a, T)
<1> SUFFICES ASSUME NEW T, NEW s \in Seq(T), NEW a \in T, NEW u, u = Append(s, a)
             PROVE  Appended(u, s, a, T)
  OBVIOUS
<1> DEFINE n == Len(s)
<1>1. u \in Seq(T) /\ Len(u) = n + 1 /\ (\A i \in 1..n : u[i] = s[i]) /\ u[n + 1] = a
  BY AppendProperties
<1>2. n \in Nat /\ DOMAIN s = 1..n /\ DOMAIN u = 1..(n + 1)
  BY <1>1, LenProperties
<1>3. n + 1 \in 1..(n + 1) /\ 1..n \subseteq 1..(n + 1)
      /\ \A i \in 1..(n + 1) : i \in 1..n \/ i = n + 1
  BY <1>2
<1> QED
  BY <1>1, <1>2, <1>3 DEF Appended

LEMMA AliasAppended ==
    ASSUME MasterInv,
           NEW a \in [type : AliasTypes, value : Values \ {""}, vendor : Vendors,
                      by : Runs \union {None}],
           aliases' = Append(aliases, a), Having(a.type, {a.value}) = {},
           a.type = "subject_keyword" => a.value \in DOMAIN RuneCount
    PROVE  /\ MasterGrows /\ UniqueKey'
           /\ aliases' \in Seq([type : AliasTypes, value : Values \ {""}, vendor : Vendors,
                                by : Runs \union {None}])
           /\ Len(aliases') = Len(aliases) + 1
           /\ Len(aliases) + 1 \in DOMAIN aliases' /\ aliases'[Len(aliases) + 1] = a
           /\ \A i \in DOMAIN aliases' : i \in DOMAIN aliases \/ i = Len(aliases) + 1
           /\ \A i \in DOMAIN aliases' :
                aliases'[i].type = "subject_keyword" => aliases'[i].value \in DOMAIN RuneCount
<1> DEFINE Alias == [type : AliasTypes, value : Values \ {""}, vendor : Vendors,
                     by : Runs \union {None}]
<1>1. aliases \in Seq(Alias) /\ a \in Alias
  BY DEF MasterInv, TypeOK
<1>2. PICK n : n = Len(aliases)
  OBVIOUS
<1> HIDE DEF Alias
<1>3. /\ aliases' \in Seq(Alias) /\ Len(aliases') = n + 1 /\ n + 1 \in DOMAIN aliases'
      /\ aliases'[n + 1] = a /\ DOMAIN aliases \subseteq DOMAIN aliases'
      /\ \A i \in DOMAIN aliases : aliases'[i] = aliases[i]
      /\ \A i \in DOMAIN aliases' : i \in DOMAIN aliases \/ i = n + 1
  <2>1. Appended(aliases', aliases, a, Alias)
    BY <1>1, RowAppended, Zenon
  <2> QED
    BY <1>2, <2>1 DEF Appended
<1>4. MasterGrows
  BY <1>3 DEF MasterGrows
<1>5. \A i \in DOMAIN aliases : ~(aliases[i].type = a.type /\ aliases[i].value = a.value)
  BY DEF Having
<1>6. UniqueKey'
  <2> SUFFICES ASSUME NEW i \in DOMAIN aliases', NEW j \in DOMAIN aliases',
                      aliases'[i].type = aliases'[j].type, aliases'[i].value = aliases'[j].value
               PROVE  i = j
    BY DEF UniqueKey
  <2>1. CASE i \in DOMAIN aliases /\ j \in DOMAIN aliases
    BY <1>3, <2>1 DEF MasterInv, UniqueKey
  <2>2. CASE i = n + 1 /\ j \in DOMAIN aliases
    BY <1>3, <1>5, <2>2
  <2>3. CASE i \in DOMAIN aliases /\ j = n + 1
    BY <1>3, <1>5, <2>3
  <2> QED
    BY <1>3, <2>1, <2>2, <2>3
<1>7. \A i \in DOMAIN aliases' :
        aliases'[i].type = "subject_keyword" => aliases'[i].value \in DOMAIN RuneCount
  BY <1>3 DEF MasterInv
<1> QED
  BY <1>2, <1>3, <1>4, <1>6, <1>7 DEF Alias

\* The variables keep their types when the master grows.
LEMMA TypesGrow ==
    ASSUME MasterInv, Len(aliases') = Len(aliases) + 1, MasterGrows
    PROVE  /\ since \in [Runs -> 0..Len(aliases')]
           /\ facts \in [Runs -> [AliasTypes -> SUBSET DOMAIN aliases']]
<1>1. TypeOK /\ Len(aliases) \in Nat
  BY AliasTable DEF MasterInv
<1>2. 0..Len(aliases) \subseteq 0..Len(aliases')
  BY <1>1
<1>3. since \in [Runs -> 0..Len(aliases')]
  BY <1>1, <1>2 DEF TypeOK
<1>4. SUBSET DOMAIN aliases \subseteq SUBSET DOMAIN aliases'
  BY DEF MasterGrows
<1>5. facts \in [Runs -> [AliasTypes -> SUBSET DOMAIN aliases']]
  <2>1. facts \in [Runs -> [AliasTypes -> SUBSET DOMAIN aliases]]
    BY <1>1 DEF TypeOK
  <2> QED
    BY <1>4, <2>1
<1> QED
  BY <1>3, <1>5

LEMMA AddAliasInv ==
    ASSUME MasterInv, NEW t \in AliasTypes, NEW v \in Vendors, NEW value \in AliasValues(t),
           AddAlias(t, value, v)
    PROVE  MasterInv'
<1> DEFINE a == [type |-> t, value |-> value, vendor |-> v, by |-> None]
<1>1. value \in Values \ {""} /\ (t = "subject_keyword" => value \in DOMAIN RuneCount)
  BY MailsAssumption DEF AliasValues, Values
<1>2. /\ a \in [type : AliasTypes, value : Values \ {""}, vendor : Vendors,
                by : Runs \union {None}]
      /\ a.type = t /\ a.value = value /\ a.by = None
  BY <1>1
<1>3. /\ aliases' = Append(aliases, a) /\ Having(a.type, {a.value}) = {}
      /\ UNCHANGED <<pc, target, since, facts, decision>>
  BY DEF AddAlias
<1> HIDE DEF a
<1>4. /\ MasterGrows /\ UniqueKey' /\ Len(aliases') = Len(aliases) + 1
      /\ aliases' \in Seq([type : AliasTypes, value : Values \ {""}, vendor : Vendors,
                           by : Runs \union {None}])
      /\ aliases'[Len(aliases) + 1] = a
      /\ \A i \in DOMAIN aliases' : i \in DOMAIN aliases \/ i = Len(aliases) + 1
      /\ \A i \in DOMAIN aliases' :
           aliases'[i].type = "subject_keyword" => aliases'[i].value \in DOMAIN RuneCount
  BY <1>1, <1>2, <1>3, AliasAppended
<1>5. TypeOK'
  BY <1>3, <1>4, TypesGrow DEF MasterInv, TypeOK
<1>6. ASSUME NEW q \in Runs
      PROVE  /\ FactsTrackMaster(q)' /\ RegistersUndecided(q)'
             /\ pc'[q] = "resolved" => /\ Justified(decision[q], q)'
                                       /\ (\E i \in DOMAIN aliases' : aliases'[i].by = q) => Undecided(q)'
  <2>1. SameRun(q)
    BY <1>3 DEF SameRun
  <2>2. /\ FactsTrackMaster(q)' /\ (Undecided(q) => Undecided(q)')
        /\ pc'[q] = "register" => Undecided(q)' /\ CandidateName(q)' # ""
        /\ pc'[q] = "resolved" => Justified(decision[q], q)'
    BY <1>4, <2>1, RunKept
  <2>3. \A i \in DOMAIN aliases' : aliases'[i].by = q =>
           i \in DOMAIN aliases /\ aliases[i].by = q
    BY <1>2, <1>4, MailsAssumption DEF MasterGrows
  <2> QED
    BY <1>3, <2>2, <2>3 DEF MasterInv, RegistersUndecided, DecisionJustified
<1> QED
  BY <1>4, <1>5, <1>6 DEF MasterInv, DecisionJustified

\* A name is registered, or found registered.
LEMMA EnsureByPlanInv ==
    ASSUME MasterInv, NEW r \in Runs, EnsureByPlan(r)
    PROVE  MasterInv'
<1> DEFINE name == CandidateName(r)
           present == Having("name_exact", {name})
           d == [vendor |-> name, matchedBy |-> "name_exact"]
<1>1. /\ TypeOK /\ FactsTrackMaster(r) /\ pc[r] = "register" /\ Undecided(r)
      /\ name # "" /\ target[r] \in Mails /\ target' = target /\ since' = since /\ facts' = facts
  BY DEF MasterInv, EnsureByPlan, RegistersUndecided, FactsTrackMaster
<1>2. name \in Vendors /\ name \in Values \ {""} /\ BuildFetchPlan(target[r])["name_exact"] = name
  BY <1>1, MailsAssumption DEF CandidateName, BuildFetchPlan, Values, Range
<1>3. CASE name \in TooLong
  BY <1>1, <1>3, EndInv DEF EnsureByPlan, Goto
<1>4. CASE name \notin TooLong /\ \E i \in present : aliases[i].vendor # name
  BY <1>1, <1>4, EndInv DEF EnsureByPlan, Goto
<1>5. CASE name \notin TooLong /\ ~\E i \in present : aliases[i].vendor # name
  <2>1. /\ decision' = [decision EXCEPT ![r] = d] /\ pc' = [pc EXCEPT ![r] = "resolved"]
        /\ aliases' = IF present = {} THEN Append(aliases, NameAlias(r)) ELSE aliases
    BY <1>5 DEF EnsureByPlan, Registered, Goto
  <2>2. /\ decision'[r] = d /\ pc'[r] = "resolved"
        /\ \A q \in Runs \ {r} : SameRun(q)
        /\ pc' \in [Runs -> AliasTypes \union {"idle", "resolve", "register"} \union Ended]
        /\ decision' \in [Runs -> [vendor : Vendors \union {None},
                                   matchedBy : AliasTypes \union {"none"}]]
    <3>1. "name_exact" \in AliasTypes
      BY RuleOrder
    <3>2. d \in [vendor : Vendors \union {None}, matchedBy : AliasTypes \union {"none"}]
      BY <1>2, <3>1
    <3> HIDE DEF d, name
    <3>3. /\ decision'[r] = d /\ pc'[r] = "resolved"
          /\ pc' \in [Runs -> AliasTypes \union {"idle", "resolve", "register"} \union Ended]
          /\ decision' \in [Runs -> [vendor : Vendors \union {None},
                                     matchedBy : AliasTypes \union {"none"}]]
      BY <1>1, <2>1, <3>2 DEF TypeOK, Ended
    <3>4. \A q \in Runs \ {r} : pc'[q] = pc[q] /\ decision'[q] = decision[q]
      BY <1>1, <2>1 DEF TypeOK
    <3> QED
      BY <1>1, <3>3, <3>4 DEF SameRun
  \* What the registration needs, whether the alias was there or not.
  <2>3. ASSUME MasterGrows, NEW i \in DOMAIN aliases', aliases'[i].type = "name_exact",
               aliases'[i].value = name, aliases'[i].vendor = name
        PROVE  FactsTrackMaster(r)' /\ Undecided(r)' /\ Justified(decision[r], r)'
    <3>1. /\ Undecided(r)'
          /\ \A j \in DOMAIN aliases : Matches(j, target[r])' <=> Matches(j, target[r])
      BY <1>1, <2>3, MatchesStay
    <3>2. FactsTrackMaster(r)'
      <4>1. \A t \in AliasTypes : ~Queried(r, t)'
        BY <2>2, RuleOrder DEF Queried
      <4>2. \A t \in AliasTypes : facts[r][t] \subseteq DOMAIN aliases
        BY FactsAre
      <4>3. /\ pc'[r] # "idle" /\ target'[r] \in Mails
            /\ \A t \in AliasTypes : \A j \in facts'[r][t] : j \in DOMAIN aliases
        BY <1>1, <2>2, <4>2
      <4>4. ASSUME NEW t \in AliasTypes, NEW j \in facts'[r][t]
            PROVE  j \in DOMAIN aliases' /\ aliases'[j].type = t /\ Matches(j, target[r])'
        <5>1. j \in DOMAIN aliases /\ aliases[j].type = t /\ Matches(j, target[r])
          BY <1>1, <4>4, FactsAre
        <5> QED
          BY <2>3, <3>1, <5>1 DEF MasterGrows
      <4> QED
        BY <4>1, <4>3, <4>4 DEF FactsTrackMaster
    <3>3. Matches(i, target[r])'
      BY <1>1, <1>2, <2>3 DEF Matches, BuildFetchPlan
    <3>4. decision'[r].vendor = name /\ decision'[r].matchedBy = "name_exact"
      BY <2>2
    <3>5. \A j \in 1..since'[r] : aliases'[j].type \in AliasTypes
      BY <1>1, <2>3, AliasTable DEF MasterGrows
    <3>6. \A t \in AliasTypes : Rank(t) >= Rank("name_exact")
      BY RuleOrder, Ranks
    <3> HIDE DEF name, d
    <3> QED
      BY <2>3, <3>1, <3>2, <3>3, <3>4, <3>5, <3>6 DEF Justified
  <2>4. CASE present # {}
    <3>1. aliases' = aliases /\ MasterGrows
      BY <2>1, <2>4 DEF MasterGrows
    <3>2. PICK i \in DOMAIN aliases :
            aliases[i].type = "name_exact" /\ aliases[i].value = name /\ aliases[i].vendor = name
      BY <1>5, <2>4 DEF Having
    <3>3. FactsTrackMaster(r)' /\ Justified(decision[r], r)'
      BY <2>3, <3>1, <3>2
    <3>4. TypeOK'
      BY <1>1, <2>2, <3>1 DEF TypeOK
    <3> QED
      BY <1>1, <2>2, <3>1, <3>3, <3>4, RunStepInv
  <2>5. CASE present = {}
    <3>1. PICK a : a = NameAlias(r)
      OBVIOUS
    <3>2. /\ a \in [type : AliasTypes, value : Values \ {""}, vendor : Vendors,
                     by : Runs \union {None}]
          /\ a.type = "name_exact" /\ a.value = name /\ a.vendor = name /\ a.by = r
      BY <1>2, <3>1, RuleOrder DEF NameAlias
    <3>3. aliases' = Append(aliases, a) /\ Having(a.type, {a.value}) = {}
      BY <2>1, <2>5, <3>1, <3>2
    <3>4. /\ MasterGrows /\ UniqueKey' /\ Len(aliases') = Len(aliases) + 1
          /\ aliases' \in Seq([type : AliasTypes, value : Values \ {""}, vendor : Vendors,
                               by : Runs \union {None}])
          /\ Len(aliases) + 1 \in DOMAIN aliases' /\ aliases'[Len(aliases) + 1] = a
          /\ \A i \in DOMAIN aliases' : i \in DOMAIN aliases \/ i = Len(aliases) + 1
          /\ \A i \in DOMAIN aliases' :
               aliases'[i].type = "subject_keyword" => aliases'[i].value \in DOMAIN RuneCount
      BY <3>2, <3>3, AliasAppended
    <3>5. TypeOK'
      BY <1>1, <2>2, <3>4, TypesGrow DEF TypeOK
    <3>6. FactsTrackMaster(r)' /\ Undecided(r)' /\ Justified(decision[r], r)'
      BY <2>3, <3>2, <3>4
    <3>7. ASSUME NEW q \in Runs
          PROVE  /\ FactsTrackMaster(q)' /\ RegistersUndecided(q)'
                 /\ pc'[q] = "resolved" =>
                      /\ Justified(decision[q], q)'
                      /\ (\E i \in DOMAIN aliases' : aliases'[i].by = q) => Undecided(q)'
      <4>1. CASE q = r
        BY <2>2, <3>6, <4>1 DEF RegistersUndecided
      <4>2. CASE q # r
        <5>1. SameRun(q)
          BY <2>2, <4>2
        <5>2. /\ FactsTrackMaster(q)' /\ (Undecided(q) => Undecided(q)')
              /\ pc'[q] = "register" => Undecided(q)' /\ CandidateName(q)' # ""
              /\ pc'[q] = "resolved" => Justified(decision[q], q)'
          BY <3>4, <5>1, RunKept
        <5>3. \A i \in DOMAIN aliases' : aliases'[i].by = q =>
                 i \in DOMAIN aliases /\ aliases[i].by = q
          BY <3>2, <3>4, <4>2 DEF MasterGrows
        <5> QED
          BY <5>1, <5>2, <5>3 DEF MasterInv, RegistersUndecided, DecisionJustified, SameRun
      <4> QED
        BY <4>1, <4>2
    <3> QED
      BY <3>4, <3>5, <3>7 DEF MasterInv, DecisionJustified
  <2> QED
    BY <2>4, <2>5
<1> QED
  BY <1>3, <1>4, <1>5

-----------------------------------------------------------------------------
(* The theorems.                                                            *)

LEMMA MasterInitInv == Init => MasterInv
<1> SUFFICES ASSUME Init PROVE MasterInv
  OBVIOUS
<1>1. /\ DOMAIN aliases = {} /\ Len(aliases) = 0
      /\ \A r \in Runs : pc[r] = "idle" /\ since[r] = 0 /\ facts[r] = NoFacts
  BY DEF Init
<1>2. TypeOK
  <2>1. \A r \in Runs : since[r] \in 0..Len(aliases)
    BY <1>1
  <2> QED
    BY <1>1, <2>1 DEF Init, TypeOK, NoFacts, Unresolved
<1>3. UniqueKey /\ \A i \in DOMAIN aliases :
         aliases[i].type = "subject_keyword" => aliases[i].value \in DOMAIN RuneCount
  BY <1>1 DEF UniqueKey
<1>4. ASSUME NEW r \in Runs PROVE FactsTrackMaster(r) /\ RegistersUndecided(r)
  <2>1. \A t \in AliasTypes : ~Queried(r, t)
    BY <1>1, RuleOrder DEF Queried
  <2>2. \A t \in AliasTypes : facts[r][t] = {}
    BY <1>1 DEF NoFacts
  <2> QED
    BY <1>1, <2>1, <2>2 DEF FactsTrackMaster, RegistersUndecided
<1> QED
  BY <1>1, <1>2, <1>3, <1>4 DEF MasterInv, DecisionJustified

LEMMA MasterNextInv ==
    ASSUME MasterInv, [Next]_vars
    PROVE  MasterInv'
<1>1. ASSUME NEW r \in Runs, NEW m \in Mails, resolveTarget(r, m) PROVE MasterInv'
  BY <1>1, ResolveTargetInv
<1>2. ASSUME NEW r \in Runs, FetchFacts(r) PROVE MasterInv'
  BY <1>2, FetchFactsInv
<1>3. ASSUME NEW r \in Runs, Decide(r) PROVE MasterInv'
  BY <1>3, DecideInv
<1>4. ASSUME NEW r \in Runs, EnsureByPlan(r) PROVE MasterInv'
  BY <1>4, EnsureByPlanInv
<1>5. ASSUME NEW r \in Runs, ResolveFails(r) PROVE MasterInv'
  <2>1. pc[r] \notin {"idle", "resolved"} /\ pc' = [pc EXCEPT ![r] = "failed"]
    BY <1>5, RuleOrder DEF ResolveFails, Goto
  <2> QED
    BY <1>5, <2>1, EndInv DEF ResolveFails
<1>6. ASSUME NEW t \in AliasTypes, NEW v \in Vendors, NEW value \in AliasValues(t),
             AddAlias(t, value, v)
      PROVE  MasterInv'
  BY <1>6, AddAliasInv
<1>7. CASE UNCHANGED vars
  <2>1. /\ aliases' = aliases /\ pc' = pc /\ target' = target /\ since' = since
        /\ facts' = facts /\ decision' = decision
    BY <1>7 DEF vars
  <2>2. MasterGrows /\ \A r \in Runs : SameRun(r)
    BY <2>1 DEF MasterGrows, SameRun
  <2>3. TypeOK' /\ UniqueKey'
    BY <2>1 DEF MasterInv, TypeOK, UniqueKey
  <2>4. ASSUME NEW r \in Runs
        PROVE  /\ FactsTrackMaster(r)' /\ RegistersUndecided(r)'
               /\ pc'[r] = "resolved" =>
                    /\ Justified(decision[r], r)'
                    /\ (\E i \in DOMAIN aliases' : aliases'[i].by = r) => Undecided(r)'
    <3>1. SameRun(r)
      BY <2>2
    <3>2. /\ FactsTrackMaster(r)' /\ (Undecided(r) => Undecided(r)')
          /\ pc'[r] = "register" => Undecided(r)' /\ CandidateName(r)' # ""
          /\ pc'[r] = "resolved" => Justified(decision[r], r)'
      BY <2>2, <3>1, RunKept
    <3> QED
      BY <2>1, <3>2 DEF MasterInv, RegistersUndecided, DecisionJustified
  <2>5. \A i \in DOMAIN aliases' :
          aliases'[i].type = "subject_keyword" => aliases'[i].value \in DOMAIN RuneCount
    BY <2>1 DEF MasterInv
  <2> QED
    BY <2>3, <2>4, <2>5 DEF MasterInv, DecisionJustified
<1> QED
  BY <1>1, <1>2, <1>3, <1>4, <1>5, <1>6, <1>7 DEF Next, Finished

(***************************************************************************)
(* However the queries of the runs, their registrations and the            *)
(* administrator's changes interleave, vendor_aliases keeps its unique     *)
(* key, the facts FetchFacts has gathered hold all that was there when the *)
(* run began, and a run reaches the registration only with a mail that     *)
(* nothing decided.                                                        *)
(***************************************************************************)
THEOREM MasterInvariance == Spec => []MasterInv
<1>1. Init => MasterInv
  BY MasterInitInv
<1>2. MasterInv /\ [Next]_vars => MasterInv'
  BY MasterNextInv
<1> QED
  BY <1>1, <1>2, PTL DEF Spec

(***************************************************************************)
(* Each decision of VendorResolutionPolicy rests on a matching alias that  *)
(* nothing known when the run began outranks or outweighs, and a name is   *)
(* registered only for a mail that nothing decided.                        *)
(***************************************************************************)
THEOREM DecisionsJustified == Spec => []DecisionJustified
<1>1. MasterInv => DecisionJustified
  BY DEF MasterInv
<1> QED
  BY <1>1, MasterInvariance, PTL

(***************************************************************************)
(* Two mails with the same normalized candidate name that are resolved by  *)
(* name get the same vendor: the alias each decision rests on is the one   *)
(* row the unique key allows.                                              *)
(***************************************************************************)
THEOREM SameNameSameVendor == Spec => []SameNameSameDecision
<1>1. ASSUME MasterInv PROVE SameNameSameDecision
  <2> SUFFICES ASSUME NEW r \in Runs, NEW q \in Runs,
                      pc[r] = "resolved", pc[q] = "resolved",
                      decision[r].matchedBy = "name_exact", decision[q].matchedBy = "name_exact",
                      CandidateName(r) = CandidateName(q)
               PROVE  decision[r].vendor = decision[q].vendor
    BY DEF SameNameSameDecision
  <2>1. ASSUME NEW p \in Runs, pc[p] = "resolved", decision[p].matchedBy = "name_exact"
        PROVE  \E i \in DOMAIN aliases :
                 /\ aliases[i].type = "name_exact" /\ aliases[i].value = CandidateName(p)
                 /\ aliases[i].vendor = decision[p].vendor
    <3>1. PICK i \in DOMAIN aliases : /\ Matches(i, target[p]) /\ aliases[i].type = "name_exact"
                                      /\ aliases[i].vendor = decision[p].vendor
      BY <1>1, <2>1 DEF MasterInv, DecisionJustified, Justified
    <3>2. aliases[i].value = CandidateName(p)
      BY <3>1 DEF Matches, BuildFetchPlan, CandidateName
    <3> QED
      BY <3>1, <3>2
  <2>2. PICK i \in DOMAIN aliases :
          /\ aliases[i].type = "name_exact" /\ aliases[i].value = CandidateName(r)
          /\ aliases[i].vendor = decision[r].vendor
    BY <2>1
  <2>3. PICK j \in DOMAIN aliases :
          /\ aliases[j].type = "name_exact" /\ aliases[j].value = CandidateName(q)
          /\ aliases[j].vendor = decision[q].vendor
    BY <2>1
  <2>4. i = j
    BY <1>1, <2>2, <2>3 DEF MasterInv, UniqueKey
  <2> QED
    BY <2>2, <2>3, <2>4
<1> QED
  BY <1>1, MasterInvariance, PTL
=============================================================================

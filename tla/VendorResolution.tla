-------------------------- MODULE VendorResolution --------------------------
(***************************************************************************)
(* How a mail's vendor is decided: FetchFacts, VendorResolutionPolicy and  *)
(* the registration of a name no rule knows.  The four queries of          *)
(* FetchFacts are no transaction: other runs register names, and the       *)
(* administrator of the master adds aliases, between any two of them.      *)
(*                                                                         *)
(* A vendor is named by its normalized name, which is unique per user; all *)
(* of this is about one user.  EnsureByPlan is one step here, its          *)
(* transactions are the subject of VendorRegistration.                     *)
(***************************************************************************)
EXTENDS Naturals, Sequences, FiniteSets, Functions

CONSTANTS
    Runs,
    Mails,               \* [name, domain, sender : text, subject : set of keywords in it]
    NormalizeLooseText,  \* text -> its normal form, "" when blank
    RuneCount,           \* keyword -> its length
    Vendors,             \* normalized names
    TooLong,             \* the ones over vendorNameColumnLimit
    None,                \* no mail, no vendor
    MaxAdded             \* bound on the aliases the administrator adds

ASSUME MaxAddedAssumption == MaxAdded \in Nat

ASSUME MailsAssumption ==
    /\ None \notin Runs /\ None \notin Mails /\ None \notin Vendors
    /\ \A k \in DOMAIN RuneCount : RuneCount[k] \in Nat /\ k # ""
    /\ \A m \in Mails : /\ m.name \in DOMAIN NormalizeLooseText
                        /\ m.sender \in DOMAIN NormalizeLooseText
    /\ Range(NormalizeLooseText) \ {""} \subseteq Vendors

VARIABLES
    aliases,   \* vendor_aliases, in the order of their ids
    pc,        \* the query a run makes next, or where it is
    target,    \* the mail it resolves
    since,     \* how many aliases there were when it began
    facts,     \* rule -> ids of the candidates its query returned
    decision   \* the vendor and MatchedBy

vars == <<aliases, pc, target, since, facts, decision>>

\* The rules, by priority, and the order of the queries.
Rules == <<"name_exact", "sender_domain", "sender_name", "subject_keyword">>
AliasTypes == Range(Rules)
Values == Range(NormalizeLooseText) \union {m.domain : m \in Mails} \union DOMAIN RuneCount
NoFacts == [t \in AliasTypes |-> {}]
Unresolved == [vendor |-> None, matchedBy |-> "none"]
Ended == {"resolved", "unresolved", "failed"}

TypeOK ==
    /\ aliases \in Seq([type : AliasTypes, value : Values \ {""}, vendor : Vendors,
                        by : Runs \union {None}])
    /\ pc \in [Runs -> AliasTypes \union {"idle", "resolve", "register"} \union Ended]
    /\ target \in [Runs -> Mails \union {None}]
    /\ since \in [Runs -> 0 .. Len(aliases)]
    /\ facts \in [Runs -> [AliasTypes -> SUBSET DOMAIN aliases]]
    /\ decision \in [Runs -> [vendor : Vendors \union {None},
                              matchedBy : AliasTypes \union {"none"}]]

Init ==
    /\ aliases = <<>>
    /\ pc = [r \in Runs |-> "idle"]
    /\ target = [r \in Runs |-> None]
    /\ since = [r \in Runs |-> 0]
    /\ facts = [r \in Runs |-> NoFacts]
    /\ decision = [r \in Runs |-> Unresolved]
---------------------------------------------------------------------------
(* The policy, on candidates given by their ids.                           *)

\* The values of a mail the exact rules look up.
BuildFetchPlan(m) ==
    [name_exact |-> NormalizeLooseText[m.name],
     sender_domain |-> m.domain,
     sender_name |-> NormalizeLooseText[m.sender]]

\* A later row is a newer one.
newerAliasCandidate(left, right) == left > right

selectLatestAliasCandidate(ids) ==
    CHOOSE best \in ids : \A id \in ids \ {best} : newerAliasCandidate(best, id)

\* The candidates with the longest keyword.
longestKeywords(ids) ==
    {i \in ids : \A j \in ids : RuneCount[aliases[j].value] <= RuneCount[aliases[i].value]}

\* The longest keywords decide, if they agree.
resolveSubjectKeyword(ids) ==
    LET top == longestKeywords(ids) IN
    IF ids = {} \/ \E i, j \in top : aliases[i].vendor # aliases[j].vendor THEN None
    ELSE aliases[selectLatestAliasCandidate(top)].vendor

\* The vendor a rule finds, or None.
RuleVendor(t, ids) ==
    IF t = "subject_keyword" THEN resolveSubjectKeyword(ids)
    ELSE IF ids = {} THEN None ELSE aliases[selectLatestAliasCandidate(ids)].vendor

\* The first rule, in the given order, that finds a vendor.
FirstHit(order, f) ==
    LET hits == {k \in DOMAIN order : RuleVendor(order[k], f[order[k]]) # None}
        first == CHOOSE k \in hits : \A j \in hits : k <= j
    IN  IF hits = {} THEN Unresolved
        ELSE [vendor |-> RuleVendor(order[first], f[order[first]]), matchedBy |-> order[first]]

\* Mutant: the name is asked last.
ResolveNameLast(f) ==
    FirstHit(<<"sender_domain", "sender_name", "subject_keyword", "name_exact">>, f)

Resolve(f) == FirstHit(Rules, f)
---------------------------------------------------------------------------
(* The steps of a run.                                                     *)

Goto(r, label) == pc' = [pc EXCEPT ![r] = label]

resolveTarget(r, m) ==
    /\ pc[r] = "idle"
    /\ target' = [target EXCEPT ![r] = m]
    /\ since' = [since EXCEPT ![r] = Len(aliases)]
    /\ Goto(r, Rules[1])
    /\ UNCHANGED <<aliases, facts, decision>>

Having(t, values) == {i \in DOMAIN aliases : aliases[i].type = t /\ aliases[i].value \in values}

\* The rows also come in an order, but the policy looks for the newest and
\* the longest itself.
fetchExactAliasCandidates(t, value) == Having(t, {value} \ {""})

fetchSubjectKeywordCandidates(subject) == Having("subject_keyword", subject)

\* One query of FetchFacts; the last one completes the facts.
FetchFacts(r) ==
    \E k \in DOMAIN Rules :
        /\ pc[r] = Rules[k]
        /\ facts' = [facts EXCEPT ![r][Rules[k]] =
             IF Rules[k] = "subject_keyword"
             THEN fetchSubjectKeywordCandidates(target[r].subject)
             ELSE fetchExactAliasCandidates(Rules[k], BuildFetchPlan(target[r])[Rules[k]])]
        /\ Goto(r, IF k = Len(Rules) THEN "resolve" ELSE Rules[k + 1])
        /\ UNCHANGED <<aliases, target, since, decision>>

CandidateName(r) == NormalizeLooseText[target[r].name]

\* BuildRegistrationPlan: without a name the mail stays unresolved.
Decide(r) ==
    LET d == Resolve(facts[r]) IN
    /\ pc[r] = "resolve"
    /\ decision' = [decision EXCEPT ![r] = d]
    /\ Goto(r, CASE d # Unresolved -> "resolved"
                 [] d = Unresolved /\ CandidateName(r) # "" -> "register"
                 [] OTHER -> "unresolved")
    /\ UNCHANGED <<aliases, target, since, facts>>

NameAlias(r) ==
    [type |-> "name_exact", value |-> CandidateName(r), vendor |-> CandidateName(r), by |-> r]

\* ResolveRegisteredVendor.
Registered(r) ==
    /\ decision' = [decision EXCEPT ![r] = [vendor |-> CandidateName(r), matchedBy |-> "name_exact"]]
    /\ Goto(r, "resolved")

\* Mutant: whose the alias is, is not looked at.
EnsureByPlanUnchecked(r) ==
    LET present == Having("name_exact", {CandidateName(r)}) IN
    /\ pc[r] = "register"
    /\ Registered(r)
    /\ aliases' = IF present = {} THEN Append(aliases, NameAlias(r)) ELSE aliases
    /\ UNCHANGED <<target, since, facts>>

\* A name that does not fit the column is left to the user; an alias of the
\* name that belongs to another vendor rolls the transaction back.
EnsureByPlan(r) ==
    LET present == Having("name_exact", {CandidateName(r)}) IN
    /\ pc[r] = "register"
    /\ IF CandidateName(r) \in TooLong
         THEN Goto(r, "unresolved") /\ UNCHANGED <<aliases, decision>>
         ELSE IF \E i \in present : aliases[i].vendor # CandidateName(r)
         THEN Goto(r, "failed") /\ UNCHANGED <<aliases, decision>>
         ELSE /\ Registered(r)
              /\ aliases' = IF present = {} THEN Append(aliases, NameAlias(r)) ELSE aliases
    /\ UNCHANGED <<target, since, facts>>

\* A query or the transaction errors: a failure of this mail only.
ResolveFails(r) ==
    /\ pc[r] \in AliasTypes \union {"register"}
    /\ Goto(r, "failed")
    /\ UNCHANGED <<aliases, target, since, facts, decision>>

\* The administrator adds an alias; the unique key covers type and value.
AddAlias(t, value, v) ==
    /\ Cardinality({i \in DOMAIN aliases : aliases[i].by = None}) < MaxAdded
    /\ Having(t, {value}) = {}
    /\ aliases' = Append(aliases, [type |-> t, value |-> value, vendor |-> v, by |-> None])
    /\ UNCHANGED <<pc, target, since, facts, decision>>

\* The values an alias of each type can have.
AliasValues(t) ==
    CASE t = "sender_domain" -> {m.domain : m \in Mails} \ {""}
      [] t = "subject_keyword" -> DOMAIN RuneCount
      [] OTHER -> Range(NormalizeLooseText) \ {""}

Finished ==
    /\ \A r \in Runs : pc[r] \in Ended
    /\ UNCHANGED vars

Next ==
    \/ \E r \in Runs, m \in Mails : resolveTarget(r, m)
    \/ \E r \in Runs : FetchFacts(r) \/ Decide(r) \/ EnsureByPlan(r) \/ ResolveFails(r)
    \/ \E t \in AliasTypes, v \in Vendors : \E value \in AliasValues(t) : AddAlias(t, value, v)
    \/ Finished

Spec == Init /\ [][Next]_vars
---------------------------------------------------------------------------
(* Properties.                                                             *)

\* Alias i is about mail m.
Matches(i, m) ==
    LET a == aliases[i] IN
    IF a.type = "subject_keyword" THEN a.value \in m.subject
    ELSE a.value = BuildFetchPlan(m)[a.type]

Rank(t) == CHOOSE k \in DOMAIN Rules : Rules[k] = t

\* The ids of the keyword aliases that are about the mail of run r.
Keywords(r) ==
    {i \in DOMAIN aliases : aliases[i].type = "subject_keyword" /\ Matches(i, target[r])}

\* A keyword of another vendor is at least as long as keyword i.
Contested(i, r) ==
    \E j \in Keywords(r) :
        /\ aliases[j].vendor # aliases[i].vendor
        /\ RuneCount[aliases[j].value] >= RuneCount[aliases[i].value]

\* Nothing that was there when run r began decides its mail.
Undecided(r) ==
    \A i \in 1 .. since[r] : Matches(i, target[r]) => i \in Keywords(r) /\ Contested(i, r)

\* What was there when run r began does not speak against decision d.
Justified(d, r) ==
    /\ \E i \in DOMAIN aliases :
         Matches(i, target[r]) /\ aliases[i].type = d.matchedBy /\ aliases[i].vendor = d.vendor
    /\ \A i \in 1 .. since[r] :
         Matches(i, target[r]) => Rank(aliases[i].type) >= Rank(d.matchedBy)
    /\ d.matchedBy = "subject_keyword" =>
         \A i \in Keywords(r) \intersect 1 .. since[r] : aliases[i].vendor # d.vendor =>
             \E j \in Keywords(r) :
                 /\ aliases[j].vendor = d.vendor
                 /\ RuneCount[aliases[j].value] > RuneCount[aliases[i].value]

(***************************************************************************)
(* A decision rests on an alias of its rule and vendor that matches the    *)
(* mail; no alias of a stronger rule matched it when the run began, and    *)
(* each keyword another vendor had then is shorter than one of the         *)
(* vendor's.  A name is registered only when nothing that was there        *)
(* decided the mail: no exact rule matched, and every keyword was          *)
(* contested by another vendor's.  The queries see the master at different *)
(* moments, with aliases added in between.                                 *)
(***************************************************************************)
DecisionJustified ==
    \A r \in Runs : pc[r] = "resolved" =>
        /\ Justified(decision[r], r)
        /\ (\E i \in DOMAIN aliases : aliases[i].by = r) => Undecided(r)

(***************************************************************************)
(* Mails with the same candidate name, however spelled, that are resolved  *)
(* by name get the same vendor, whichever run registers it and whatever    *)
(* alias the administrator adds meanwhile.                                 *)
(***************************************************************************)
SameNameSameDecision ==
    \A r, q \in Runs :
        /\ pc[r] = "resolved" /\ pc[q] = "resolved"
        /\ decision[r].matchedBy = "name_exact" /\ decision[q].matchedBy = "name_exact"
        /\ CandidateName(r) = CandidateName(q)
        => decision[r].vendor = decision[q].vendor

---------------------------------------------------------------------------
(* The inductive invariant.                                                *)

UniqueKey ==
    \A i, j \in DOMAIN aliases :
        aliases[i].type = aliases[j].type /\ aliases[i].value = aliases[j].value => i = j

\* Run r has made the query of rule t.
Queried(r, t) ==
    pc[r] = "resolve" \/ \E k \in DOMAIN Rules : pc[r] = Rules[k] /\ Rank(t) < k

\* The facts of run r are aliases about its mail, and all those of a queried
\* rule that were there when the run began.
FactsTrackMaster(r) ==
    /\ pc[r] = "idle" => facts[r] = NoFacts
    /\ pc[r] # "idle" => target[r] \in Mails
    /\ \A t \in AliasTypes : \A i \in facts[r][t] :
         i \in DOMAIN aliases /\ aliases[i].type = t /\ Matches(i, target[r])
    /\ \A t \in AliasTypes : Queried(r, t) =>
         \A i \in 1 .. since[r] :
            aliases[i].type = t /\ Matches(i, target[r]) => i \in facts[r][t]

\* Run r registers a name only for a mail that nothing decided.
RegistersUndecided(r) ==
    /\ pc[r] = "register" => Undecided(r) /\ CandidateName(r) # ""
    /\ \A i \in DOMAIN aliases : aliases[i].by = r => pc[r] = "resolved"

(***************************************************************************)
(* The unique key of vendor_aliases holds, the facts a run has gathered    *)
(* are complete for what was there when it began, and decisions and        *)
(* registrations rest on them.                                             *)
(***************************************************************************)
MasterInv ==
    /\ TypeOK /\ UniqueKey
    /\ \A i \in DOMAIN aliases :
         aliases[i].type = "subject_keyword" => aliases[i].value \in DOMAIN RuneCount
    /\ \A r \in Runs : FactsTrackMaster(r) /\ RegistersUndecided(r)
    /\ DecisionJustified
=============================================================================

--------------------------- MODULE BillingQueries ---------------------------
(***************************************************************************)
(* The read models of the stored billings: the list (billingquery List),   *)
(* the detail of a month, the trend over a window of months, and the       *)
(* dashboard's counts.  Each is an operator on the rows of one user's      *)
(* billings as one statement sees them.  Totals are of line items, because *)
(* a billing has no amount of its own; a billing whose items are in two    *)
(* currencies counts in both.                                              *)
(***************************************************************************)
EXTENDS BillingRules, Sequences, FiniteSetsExt, SequencesExt

CONSTANTS
    billingMonthlyTrendWindowSize,
    billingMonthDetailVendorLimit

ASSUME QueryAssumption ==
    billingMonthlyTrendWindowSize \in Nat \ {0} /\ billingMonthDetailVendorLimit \in Nat

\* The members of S, where before has the pairs in the order of ORDER BY.
InOrder(S, before) ==
    CHOOSE q \in [1..Cardinality(S) -> S] : \A i, j \in DOMAIN q : i < j => <<q[i], q[j]>> \in before

Coalesce(v, default) == IF v = Nil THEN default ELSE v

ItemAmount(b, k) == Coalesce(b.billing.lineItems[k].amount, 0)

\* billings joined with their line items, in one currency and some months.
JoinedItems(T, currency, months) ==
    UNION {{<<b, k>> : k \in {k \in DOMAIN b.billing.lineItems :
                                b.billing.lineItems[k].currency = currency}} :
           b \in {b \in T : b.summaryDate \in months}}

Aggregate(joined) ==
    [total |-> SumFunction([j \in joined |-> ItemAmount(j[1], j[2])]),
     count |-> Cardinality({j[1] : j \in joined}),
     fallback |-> Cardinality({j[1] : j \in {j \in joined : j[1].billing.date = Nil}})]
---------------------------------------------------------------------------
(* The detail of a month.                                                  *)

VendorAggregate(joined, v) ==
    LET of == Aggregate({j \in joined : j[1].vendor = v})
    IN  [vendor |-> v, total |-> of.total, count |-> of.count]

\* One row per vendor with a billing in the month.
VendorAggregates(joined) ==
    {VendorAggregate(joined, v) : v \in {j[1].vendor : j \in joined}}

\* Amount, then count, then name.
LargerVendor(a, b) ==
    \/ a.total > b.total
    \/ a.total = b.total /\ a.count > b.count
    \/ a.total = b.total /\ a.count = b.count /\ a.vendor < b.vendor

\* Mutant: the rest is cut off.
buildMonthDetailVendorItemsCut(items) ==
    LET sorted == InOrder(items, {p \in items \X items : LargerVendor(p[1], p[2])})
    IN  {[total |-> sorted[i].total, count |-> sorted[i].count, isOther |-> FALSE, place |-> i] :
            i \in {i \in DOMAIN sorted : i <= billingMonthDetailVendorLimit}}

\* The largest vendors one by one, the rest as one item.
buildMonthDetailVendorItems(items) ==
    LET sorted == InOrder(items, {p \in items \X items : LargerVendor(p[1], p[2])})
        shown == {i \in DOMAIN sorted : i <= billingMonthDetailVendorLimit}
        rest == DOMAIN sorted \ shown
    IN  {[total |-> sorted[i].total, count |-> sorted[i].count, isOther |-> FALSE, place |-> i] :
            i \in shown}
        \union
        (IF rest = {} THEN {}
         ELSE {[total |-> SumFunction([i \in rest |-> sorted[i].total]),
                count |-> SumFunction([i \in rest |-> sorted[i].count]),
                isOther |-> TRUE, place |-> billingMonthDetailVendorLimit + 1]})

MonthDetail(T, currency, month) ==
    LET joined == JoinedItems(T, currency, {month})
        totals == Aggregate(joined)
    IN  [total |-> totals.total, count |-> totals.count, fallback |-> totals.fallback,
         vendorItems |-> buildMonthDetailVendorItems(VendorAggregates(joined))]
---------------------------------------------------------------------------
(* The trend.                                                              *)

WindowMonths(end) == (end - (billingMonthlyTrendWindowSize - 1))..end

\* Months without a row are filled with zeroes.
MonthlyTrend(T, currency, end) ==
    LET joined == JoinedItems(T, currency, WindowMonths(end))
        aggregateByMonth ==
            [m \in {j[1].summaryDate : j \in joined} |->
                Aggregate({j \in joined : j[1].summaryDate = m})]
    IN  [m \in WindowMonths(end) |->
            IF m \in DOMAIN aggregateByMonth THEN aggregateByMonth[m]
            ELSE [total |-> 0, count |-> 0, fallback |-> 0]]
---------------------------------------------------------------------------
(* The dashboard.                                                          *)

GetBillingCounts(T, month) ==
    [saved |-> Cardinality(T),
     fallback |-> Cardinality({b \in T : b.billing.date = Nil /\ b.summaryDate = month})]
---------------------------------------------------------------------------
(* The list.  Its filter may ask for one email and for a range of dates,   *)
(* and may let the mail's date stand in for a missing one; a query has a   *)
(* filter, a limit and an offset.  Free text search is left out.           *)

ListDate(b, filter) == IF filter.useReceivedAtFallback THEN b.summaryDate ELSE b.billing.date

buildBillingListBaseQuery(T, filter) ==
    {b \in T :
        /\ filter.email \in {Nil, b.msg}
        /\ filter.from # Nil => ListDate(b, filter) # Nil /\ filter.from <= ListDate(b, filter)
        /\ filter.to # Nil => ListDate(b, filter) # Nil /\ ListDate(b, filter) <= filter.to}

\* Later dates first, no date last, then later mails, then later rows.
applyBillingListOrder(a, b, filter) ==
    LET key(x) == Coalesce(ListDate(x, filter), 0)
        arrival(x) == IF filter.useReceivedAtFallback THEN 0 ELSE x.receivedAt
    IN  \/ key(a) > key(b)
        \/ key(a) = key(b) /\ arrival(a) > arrival(b)
        \/ key(a) = key(b) /\ arrival(a) = arrival(b) /\ a.id > b.id

\* One amount if the items share a currency, none otherwise.
lineItemSummary(b) ==
    LET items == b.billing.lineItems
        currencies == {normalizeOptionalUpperString(items[k].currency) : k \in DOMAIN items} \ {Nil}
    IN  IF Cardinality(currencies) = 1
        THEN [amount |-> SumFunction([k \in DOMAIN items |-> ItemAmount(b, k)]),
              currency |-> CHOOSE c \in currencies : TRUE]
        ELSE [amount |-> 0, currency |-> ""]

ListRows(T, filter) ==
    LET rows == buildBillingListBaseQuery(T, filter)
    IN  InOrder(rows, {p \in rows \X rows : applyBillingListOrder(p[1], p[2], filter)})

ListBillings(T, q) ==
    LET rows == ListRows(T, q.filter)
        last == Min({q.offset + q.limit, Len(rows)})
        page == SubSeq(rows, q.offset + 1, last)
    IN  [items |-> [i \in DOMAIN page |-> lineItemSummary(page[i])], totalCount |-> Len(rows)]
=============================================================================

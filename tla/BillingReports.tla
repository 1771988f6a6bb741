--------------------------- MODULE BillingReports ---------------------------
(***************************************************************************)
(* What users read, composed with what workflows store: the queries of     *)
(* BillingQueries on the billings of MailPipeline.  List, month, trend and *)
(* dashboard are separate SQL over the same rows, which were normalized    *)
(* and completed by four packages before.                                  *)
(***************************************************************************)
EXTENDS MailPipeline, BillingQueries

CONSTANTS
    Months,   \* the months users ask for
    PageSize  \* the limit they ask for

ASSUME ReportsAssumption == Months \subseteq Nat \ {0} /\ PageSize \in Nat \ {0}

\* The months around m whose trend shows m.
WindowEnds(m) == m..(m + billingMonthlyTrendWindowSize - 1)

(***************************************************************************)
(* What the queries can rely on: rows are told apart by their id, and line *)
(* items are finitely many, with a currency that is trimmed and in         *)
(* capitals.                                                               *)
(***************************************************************************)
StoredRows ==
    /\ \A b, c \in billings : b.id = c.id => b = c
    /\ \A b \in billings :
         /\ b.id \in 1..Cardinality(billings)
         /\ b.vendor \in Vendors /\ b.summaryDate \in Nat
         /\ IsFiniteSet(DOMAIN b.billing.lineItems)
         /\ \A k \in DOMAIN b.billing.lineItems :
              LET item == b.billing.lineItems[k] IN
              /\ item.amount \in OptionalAmount /\ item.currency \in Texts
              /\ normalizeOptionalUpperString(item.currency) = item.currency

(***************************************************************************)
(* The parts of the month page agree: the month's bar in every trend that  *)
(* shows it is its detail, the vendors' items sum up to the detail,        *)
(* however many are folded into the last one, and the dashboard counts     *)
(* every billing without a date that the detail marks as such.             *)
(***************************************************************************)
ReportsAgree ==
    \A c \in Currencies, m \in Months :
        LET detail == MonthDetail(billings, c, m)
            items == detail.vendorItems
        IN  /\ \A end \in WindowEnds(m) :
                 MonthlyTrend(billings, c, end)[m] =
                    [total |-> detail.total, count |-> detail.count, fallback |-> detail.fallback]
            /\ SumFunction([i \in items |-> i.total]) = detail.total
            /\ SumFunction([i \in items |-> i.count]) = detail.count
            /\ detail.fallback <= GetBillingCounts(billings, m).fallback

\* All billings of a month.
MonthFilter(month) ==
    [email |-> Nil, from |-> month, to |-> month, useReceivedAtFallback |-> TRUE]

\* The items of all pages a client gets that asks until the count is reached.
Pages(month) ==
    LET query(offset) ==
            [filter |-> MonthFilter(month), limit |-> PageSize, offset |-> offset]
        total == ListBillings(billings, query(0)).totalCount
        Page(n) ==
            LET items == ListBillings(billings, query(n * PageSize)).items
            IN  {<<n, i, items[i]>> : i \in DOMAIN items}
    IN  UNION {Page(n) : n \in {n \in 0..total : n * PageSize < total}}

(***************************************************************************)
(* The list shows the money the month counts.  The list sums up all items  *)
(* of a billing, with its currency in capitals; the month sums up the      *)
(* items stored with exactly its currency.  The pages of a month's list    *)
(* add up to its detail unless a billing mixes currencies, because every   *)
(* stored item has a currency, and in capitals.                            *)
(***************************************************************************)
ListMatchesMonth ==
    \A m \in Months :
        LET pages == Pages(m)
            Shown(c) == {s \in pages : s[3].currency = c}
        IN  Shown("") = {} =>
              \A c \in Currencies :
                LET detail == MonthDetail(billings, c, m)
                IN  /\ SumFunction([s \in Shown(c) |-> s[3].amount]) = detail.total
                    /\ Cardinality(Shown(c)) = detail.count
=============================================================================

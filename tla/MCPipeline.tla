---------------------------- MODULE MCPipeline ----------------------------
(***************************************************************************)
(* Instances of MailPipeline for TLC.  The messages are m1 and m2; their   *)
(* bodies are equal, so they share a fallback billing number.              *)
(***************************************************************************)
EXTENDS BillingReports

CONSTANTS m1, m2

MCMailbox == <<m1, m2>>
MCMailboxOne == <<m1>>
MCBodyDigest == [m \in {m1, m2} |-> "digest"]
MCReceivedAt == [m \in {m1, m2} |-> 2]
MCWorkflowSymmetry == Permutations(Workflows)

\* Texts with what trimming, upper case and joining make of them.
MCTexts == {"", " ", " n1 ", "n1", "N1", "digest", "DIGEST", "Plan", "PLAN", "plan", "jpy", "JPY",
            "EUR", "eur", "T13", "t13", "T1", "t1", "EURO", "euro", "One time", "ONE TIME", "one_time",
            "ONE_TIME", "USD", "usd", "recurring", "RECURRING"}
Mapped(f) == [t \in MCTexts |-> IF t \in DOMAIN f THEN f[t] ELSE t]
MCTrimSpace == Mapped(" " :> "" @@ " n1 " :> "n1")
MCToUpper ==
    Mapped("n1" :> "N1" @@ " n1 " :> "N1" @@ "digest" :> "DIGEST" @@ "Plan" :> "PLAN" @@ "plan" :> "PLAN"
        @@ "jpy" :> "JPY" @@ "eur" :> "EUR" @@ "t13" :> "T13" @@ "t1" :> "T1" @@ "euro" :> "EURO"
        @@ "One time" :> "ONE TIME" @@ "one_time" :> "ONE_TIME" @@ "usd" :> "USD"
        @@ "recurring" :> "RECURRING")
MCJoinCycle ==
    Mapped(" " :> "" @@ " n1 " :> "n1" @@ "N1" :> "n1" @@ "DIGEST" :> "digest" @@ "Plan" :> "plan"
        @@ "PLAN" :> "plan" @@ "JPY" :> "jpy" @@ "EUR" :> "eur" @@ "T13" :> "t13" @@ "T1" :> "t1"
        @@ "EURO" :> "euro" @@ "One time" :> "one_time" @@ "ONE TIME" :> "one_time"
        @@ "ONE_TIME" :> "one_time" @@ "USD" :> "usd" @@ "RECURRING" :> "recurring")
MCTooLong ==
    [raw |-> {}, display |-> {}, vendorName |-> {}, number |-> {}, invoice |-> {},
     currency |-> {"EURO"}, cycle |-> {}]

NoItem == [raw |-> Nil, display |-> Nil, amount |-> Nil, currency |-> Nil]
PlainDraft ==
    [raw |-> Nil, display |-> "Plan", vendorName |-> Nil, number |-> " n1 ", invoice |-> Nil,
     amount |-> 10, currency |-> "jpy", date |-> 1, cycle |-> "One time", lineItems |-> <<>>]
Unnumbered == [PlainDraft EXCEPT !.number = " "]

\* Plain candidates, with and without a number.
MCPlainDrafts == {PlainDraft, Unnumbered}

\* In addition: named by its line items only, one of them empty and the date
\* missing; with items in two currencies; with a malformed invoice number and
\* the zero date; with an amount off by a rounding error; with a line item over
\* a bound; and blank.
MCDrafts ==
    {PlainDraft,
     [Unnumbered EXCEPT !.display = " ", !.invoice = "t13", !.date = Nil, !.lineItems =
         <<[NoItem EXCEPT !.currency = " "], [NoItem EXCEPT !.raw = "Plan", !.amount = 20],
           [NoItem EXCEPT !.currency = "jpy"]>>],
     [PlainDraft EXCEPT !.lineItems =
         <<[NoItem EXCEPT !.amount = 10], [NoItem EXCEPT !.amount = 30, !.currency = "usd"]>>],
     [PlainDraft EXCEPT !.invoice = "T1", !.date = 0],
     [PlainDraft EXCEPT !.amount = 11],
     [PlainDraft EXCEPT !.lineItems = <<[NoItem EXCEPT !.currency = "EURO"]>>],
     [PlainDraft EXCEPT !.number = Nil, !.display = Nil, !.amount = Nil, !.currency = " ", !.cycle = " "]}
===========================================================================

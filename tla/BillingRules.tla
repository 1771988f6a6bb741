---------------------------- MODULE BillingRules ----------------------------
(***************************************************************************)
(* What analysis, eligibility and billing do to the data of one candidate: *)
(* normalization and column bounds in mailanalysis, the policy             *)
(* BillingEligibility, the conversion to an eligible item, and NewBilling. *)
(* Four packages check overlapping conditions on differently normalized    *)
(* values.                                                                 *)
(*                                                                         *)
(* An optional value is Nil or a value.  Texts are uninterpreted: trimming *)
(* and case folding are functions.  An amount is an integer; Thousandth is *)
(* the last decimal place that may be used, Tolerance the rounding error   *)
(* the bounds of a row let pass.  A date is the number of its month, 0 for *)
(* the zero time.  Line items are a function from positions to items, so   *)
(* that dropping one renumbers nothing.                                    *)
(***************************************************************************)
EXTENDS Integers, FiniteSets

CONSTANTS
    Texts,
    TrimSpace,      \* text -> text without blanks around it
    ToUpper,        \* text -> text in upper case
    JoinCycle,      \* text -> lower case, its words joined by "_"
    TooLong,        \* field -> texts over the limit of its column
    ValidInvoices,  \* "T" and 13 digits
    Nil,
    Thousandth, Tolerance, parsedEmailAmountMaxAbs

ASSUME TextAssumption ==
    /\ Nil \notin Texts /\ "" \in Texts
    /\ TrimSpace \in [Texts -> Texts]
    /\ ToUpper \in [Texts -> Texts]
    /\ JoinCycle \in [Texts -> Texts]
    /\ ValidInvoices \subseteq Texts

\* Trimming and folding settle a text, and neither undoes the other.
ASSUME FoldAssumption ==
    \A t \in Texts :
        /\ TrimSpace[TrimSpace[t]] = TrimSpace[t]
        /\ ToUpper[ToUpper[t]] = ToUpper[t]
        /\ TrimSpace[t] # "" => ToUpper[TrimSpace[t]] # ""
        /\ TrimSpace[ToUpper[TrimSpace[t]]] = ToUpper[TrimSpace[t]]
        /\ TrimSpace[JoinCycle[t]] = JoinCycle[t]
        /\ JoinCycle[JoinCycle[t]] = JoinCycle[t]

ASSUME AmountAssumption == Nil \notin Int /\ Thousandth \in Nat \ {0} /\ Tolerance \in Nat

OptionalText == Texts \union {Nil}
OptionalAmount == Int \union {Nil}
LineItems == [raw : OptionalText, display : OptionalText,
              amount : OptionalAmount, currency : OptionalText]
Dates == Nat \union {Nil}
ParsedEmailsWith(positions) ==
    [raw : OptionalText, display : OptionalText, vendorName : OptionalText,
     number : OptionalText, invoice : OptionalText, amount : OptionalAmount,
     currency : OptionalText, date : Dates, cycle : OptionalText,
     lineItems : [positions -> LineItems]]
ParsedEmails ==
    UNION {ParsedEmailsWith(positions) : positions \in {P \in SUBSET Nat : IsFiniteSet(P)}}
---------------------------------------------------------------------------
(* Normalization of a parsed email.                                        *)

NonBlank(t) == IF t = "" THEN Nil ELSE t

normalizeOptionalString(v) == IF v = Nil THEN Nil ELSE NonBlank(TrimSpace[v])

normalizeOptionalUpperString(v) ==
    IF normalizeOptionalString(v) = Nil THEN Nil ELSE ToUpper[normalizeOptionalString(v)]

normalizeOptionalPaymentCycle(v) ==
    IF normalizeOptionalString(v) = Nil THEN Nil
    ELSE NonBlank(JoinCycle[normalizeOptionalString(v)])

NormalizeLineItem(i) ==
    [raw |-> normalizeOptionalString(i.raw),
     display |-> normalizeOptionalString(i.display),
     amount |-> i.amount,
     currency |-> normalizeOptionalUpperString(i.currency)]

IsEmptyLineItem(i) == i.raw = Nil /\ i.display = Nil /\ i.amount = Nil /\ i.currency = Nil

\* Items without a value are dropped.
normalizeLineItems(items) ==
    [k \in {k \in DOMAIN items : ~IsEmptyLineItem(NormalizeLineItem(items[k]))} |->
        NormalizeLineItem(items[k])]

NormalizeParsedEmail(p) ==
    [raw |-> normalizeOptionalString(p.raw),
     display |-> normalizeOptionalString(p.display),
     vendorName |-> normalizeOptionalString(p.vendorName),
     number |-> normalizeOptionalString(p.number),
     invoice |-> normalizeOptionalString(p.invoice),
     amount |-> p.amount,
     currency |-> normalizeOptionalUpperString(p.currency),
     date |-> p.date,
     cycle |-> normalizeOptionalPaymentCycle(p.cycle),
     lineItems |-> normalizeLineItems(p.lineItems)]

IsEmpty(p) ==
    /\ \A f \in DOMAIN p \ {"lineItems"} : p[f] = Nil
    /\ DOMAIN p.lineItems = {}
---------------------------------------------------------------------------
(* The bounds SaveAll checks before it writes.                             *)

Magnitude(a) == IF a < 0 THEN -a ELSE a

\* At most the largest amount, and three decimals up to the rounding error.
validateOptionalAmount(a) ==
    a # Nil =>
        /\ Magnitude(a) <= parsedEmailAmountMaxAbs
        /\ \/ Magnitude(a) % Thousandth <= Tolerance
           \/ Thousandth - (Magnitude(a) % Thousandth) <= Tolerance

validateParsedEmailBounds(p) ==
    /\ \A f \in DOMAIN TooLong : p[f] \notin TooLong[f]
    /\ validateOptionalAmount(p.amount)
    /\ \A k \in DOMAIN p.lineItems :
         /\ p.lineItems[k].raw \notin TooLong.raw
         /\ p.lineItems[k].display \notin TooLong.display
         /\ p.lineItems[k].currency \notin TooLong.currency
         /\ validateOptionalAmount(p.lineItems[k].amount)
---------------------------------------------------------------------------
(* BillingEligibility.                                                     *)

Currencies == {"JPY", "USD"}
PaymentCycles == {"one_time", "recurring"}

NormalizeAmount(a) == a > 0 /\ a % Thousandth = 0

NormalizeCurrency(c) == ToUpper[TrimSpace[c]]

\* The name of the mail, or of its first line item that has one.
ResolvedProductNameDisplay(p) ==
    LET named == {k \in DOMAIN p.lineItems : p.lineItems[k].display # Nil \/ p.lineItems[k].raw # Nil}
        first == p.lineItems[CHOOSE k \in named : \A j \in named : k <= j]
    IN  CASE p.display # Nil -> p.display
          [] p.display = Nil /\ p.raw # Nil -> p.raw
          [] p.display = Nil /\ p.raw = Nil /\ named # {} ->
               IF first.display # Nil THEN first.display ELSE first.raw
          [] OTHER -> Nil

\* Mutant: any amount will do.
EvaluateAnyAmount(p) ==
    /\ ResolvedProductNameDisplay(p) # Nil /\ p.amount # Nil
    /\ p.currency # Nil /\ NormalizeCurrency(p.currency) \in Currencies
    /\ p.cycle # Nil /\ p.cycle \in PaymentCycles
    /\ p.number # Nil /\ TrimSpace[p.number] # ""

\* No rule is violated; which one is, only matters to the message.
Evaluate(p) ==
    /\ ResolvedProductNameDisplay(p) # Nil
    /\ p.amount # Nil /\ NormalizeAmount(p.amount)
    /\ p.currency # Nil /\ NormalizeCurrency(p.currency) \in Currencies
    /\ p.cycle # Nil /\ p.cycle \in PaymentCycles
    /\ p.number # Nil /\ TrimSpace[p.number] # ""

\* Mutant: line items stay as they are.
toLineItemsUnchanged(items, fallbackCurrency) == items

\* A line item without a currency gets that of the mail.
toLineItems(items, fallbackCurrency) ==
    [k \in DOMAIN items |->
        [items[k] EXCEPT !.currency = IF @ = Nil THEN fallbackCurrency ELSE @]]

EligibleItem(p) ==
    [product |-> ResolvedProductNameDisplay(p), number |-> p.number, invoice |-> p.invoice,
     amount |-> p.amount, currency |-> p.currency, date |-> p.date, cycle |-> p.cycle,
     lineItems |-> toLineItems(p.lineItems, p.currency)]
---------------------------------------------------------------------------
(* NewBilling.                                                             *)

NewBillingNumber(v) == TrimSpace[v]

NewInvoiceNumber(v) == normalizeOptionalUpperString(v)

\* The items, or one made of the header.
resolveBillingLineItems(e) ==
    IF DOMAIN normalizeLineItems(e.lineItems) # {}
    THEN normalizeLineItems(e.lineItems)
    ELSE <<[raw |-> Nil, display |-> normalizeOptionalString(e.product),
            amount |-> e.amount, currency |-> normalizeOptionalUpperString(e.currency)]>>

\* The row and its line items; money is checked but has no column.
NewBilling(e) ==
    [product |-> normalizeOptionalString(e.product), number |-> NewBillingNumber(e.number),
     invoice |-> NewInvoiceNumber(e.invoice), date |-> e.date, cycle |-> e.cycle,
     lineItems |-> resolveBillingLineItems(e)]

\* NewBilling succeeds.
Validate(e) ==
    /\ NewBillingNumber(e.number) # ""
    /\ NewInvoiceNumber(e.invoice) \in ValidInvoices \union {Nil}
    /\ NormalizeAmount(e.amount) /\ NormalizeCurrency(e.currency) \in Currencies
    /\ e.cycle \in PaymentCycles
    /\ e.date # 0
    /\ DOMAIN normalizeLineItems(resolveBillingLineItems(e)) # {}
=============================================================================

--------------------------- MODULE InvoiceTotals ---------------------------
(***************************************************************************)
(* The summary of an FA(3) invoice: what KsefInvoiceBody reports in P_13,  *)
(* P_14 and P_15 of the lines it holds, for an invoice and the correcting  *)
(* invoices that follow it.  The documents are written as FA(3) and may be *)
(* read back before the next correction is made of what was read.          *)
(*                                                                         *)
(* Bounds: MaxDocuments documents; MaxLines lines, those in force and those *)
(* drafted for the next document together.                                 *)
(***************************************************************************)
EXTENDS InvoiceLine, Sequences, FiniteSetsExt

CONSTANTS
  Inputs,          \* what callers say of a line when they construct it
  InvoiceKinds,    \* the kinds of original documents: "VAT", "ZAL" or "ROZ"
  ExchangeRates,   \* the values of vat_currency_exchange_rate
  MaxLines,
  MaxDocuments

ASSUME KindsAreKinds == InvoiceKinds \subseteq {"VAT", "ZAL", "ROZ"}
ASSUME BoundsArePositive == MaxLines \in Nat \ {0} /\ MaxDocuments \in Nat \ {0}
ASSUME InputsAreTyped == Inputs \subseteq LineInputs /\ \A i \in Inputs : ~i.before_correction
ASSUME RatesAreIntegers == ExchangeRates \subseteq Int

VARIABLES
  kind,      \* the kind of the original
  currency,  \* of every document
  rate,      \* the vat_currency_exchange_rate of every document
  draft,     \* the lines constructed for the next document
  body,      \* the KsefInvoiceBody of the last document
  issued,    \* the number of documents
  standing,  \* the lines in force after the last document (history)
  ledger,    \* ledger[b]: the sum of bucket b over the documents (history)
  reading,   \* "no", "read" or "refused": the last document was read back
  lossy      \* a line that was read counts otherwise than the line written

totalsVars == <<kind, currency, rate, draft, body, issued, standing, ledger, reading, lossy>>

-----------------------------------------------------------------------------
(* The buckets of the summary: whether they add net amounts or VAT, and of *)
(* which lines.                                                            *)

CorrectingType == [VAT |-> "KOR", ZAL |-> "KOR_ZAL", ROZ |-> "KOR_ROZ"]

StandardBuckets ==
  [base |-> {"rate_23", "rate_22"}, first_reduced |-> {"rate_8", "rate_7"},
   second_reduced |-> {"rate_5"}]

RegimeBuckets ==
  [taxi_flat_rate |-> "taxi_flat_rate", special_procedure_xii |-> "special_xii"]

CategoryBuckets ==
  [zero_rate_domestic |-> "zero_domestic", zero_rate_wdt |-> "zero_wdt",
   zero_rate_export |-> "zero_export", exempt |-> "exempt",
   out_of_territory |-> "out_of_scope_outside_territory",
   article_100_services |-> "out_of_scope_article_100",
   reverse_charge |-> "reverse_charge"]

\* The buckets with VAT (P_13_1..5 and P_14_1..5), and those with net alone.
TaxedBuckets == DOMAIN StandardBuckets \union DOMAIN RegimeBuckets
NetBuckets == DOMAIN CategoryBuckets \union {"margin"}
ConvertedBuckets == TaxedBuckets \ {"special_procedure_xii"}

\* Fault: the two base rates are not both looked for.
InBucketOfOneBaseRate(line, b) ==
  CASE b \in DOMAIN StandardBuckets ->
         line.tax_regime = "standard" /\ line.sale_category \in StandardBuckets[b] \ {"rate_22"}
    [] b \in DOMAIN RegimeBuckets -> line.tax_regime = RegimeBuckets[b]
    [] b = "margin"               -> line.tax_regime = "margin"
    [] OTHER                      -> line.sale_category = CategoryBuckets[b]

InBucket(line, b) ==
  CASE b \in DOMAIN StandardBuckets ->
         line.tax_regime = "standard" /\ line.sale_category \in StandardBuckets[b]
    [] b \in DOMAIN RegimeBuckets -> line.tax_regime = RegimeBuckets[b]
    [] b = "margin"               -> line.tax_regime = "margin"
    [] OTHER                      -> line.sale_category = CategoryBuckets[b]

\* The fields of the summary.
Fields == [of : {"net"}, bucket : TaxedBuckets \union NetBuckets]
          \union [of : {"vat"}, bucket : TaxedBuckets]
TotalGross == [of |-> "gross", bucket |-> "all"]
SummaryFields == Fields \union {TotalGross}

-----------------------------------------------------------------------------
(* The totals of a body.                                                   *)

\* A body without an order, and one that was not read.
NoOrder == [total_value |-> None, order_lines |-> <<>>]
NoOverrides == [amounts |-> [f \in SummaryFields |-> None],
                pln     |-> [c \in ConvertedBuckets |-> None]]

\* The sum of a[k] over the k in S.
SumOver(a, S) == MapThenSumSet(LAMBDA k : a[k], S)

FinancialRows(b) ==
  IF b.invoice_type = "ZAL" \/ (b.invoice_type = "KOR_ZAL" /\ b.order # NoOrder)
    THEN b.order.order_lines ELSE b.rows

\* Fault: the correcting invoice of an advance invoice is not a correction.
MultiplierOfKorAndRoz(b, line) ==
  IF b.invoice_type \in {"KOR", "KOR_ROZ"} /\ line.before_correction THEN -1 ELSE 1

CorrectionMultiplier(b, line) ==
  IF b.invoice_type \in {"KOR", "KOR_ZAL", "KOR_ROZ"} /\ line.before_correction
    THEN -1 ELSE 1

\* What a line adds to a field of the summary, before its sign.
Share(line, f) ==
  LET net == Or(line.net_amount, 0)
      vat == Or(line.vat_amount, 0)
  IN IF f = TotalGross THEN net + vat
     ELSE IF ~InBucket(line, f.bucket) THEN 0
     ELSE IF f.of = "net" THEN net ELSE vat

\* _sum_net and _sum_vat of a bucket, and total_net + total_vat.
Computed(b, f) ==
  LET lines == FinancialRows(b)
  IN SumOver([k \in DOMAIN lines |-> CorrectionMultiplier(b, lines[k]) * Share(lines[k], f)],
             DOMAIN lines)

\* Fault: the totals of an imported document are computed again.
SummaryOfLines(b, f) == Computed(b, f)

\* _summary_value: a body that was read reports what the document said.
SummaryValue(b, f) ==
  IF b.summary_overrides = NoOverrides THEN Computed(b, f)
  ELSE Or(b.summary_overrides.amounts[f], 0)

\* The VAT of a line in PLN, of a line with an exchange rate.
VatInPln(line, bucket) ==
  IF InBucket(line, bucket) /\ None \notin {line.vat_amount, line.currency_exchange_rate}
    THEN line.vat_amount * line.currency_exchange_rate ELSE 0

\* _vat_total_in_pln_for: by the rate of the invoice, or else line by line.
VatTotalInPln(b, bucket) ==
  LET lines == FinancialRows(b)
      total == SumOver([k \in DOMAIN lines |-> VatInPln(lines[k], bucket)], DOMAIN lines)
      vat   == SummaryValue(b, [of |-> "vat", bucket |-> bucket])
  IN IF b.currency = "PLN" THEN None
     ELSE IF b.vat_currency_exchange_rate # None
       THEN 10 * RoundedDiv(vat * b.vat_currency_exchange_rate, 1000)
     ELSE IF total = 0 THEN None ELSE 10 * RoundedDiv(total, 1000)

\* _summary_optional_value.
VatTotalPln(b, bucket) ==
  Or(b.summary_overrides.pln[bucket], VatTotalInPln(b, bucket))

-----------------------------------------------------------------------------
(* Orders and bodies.                                                      *)

\* The lines that make the value of an order, and their two sums.
LinesForTotal(lines) ==
  LET after == {k \in DOMAIN lines : ~lines[k].before_correction}
  IN IF after = {} THEN DOMAIN lines ELSE after

GrossOf(lines) ==
  SumOver([k \in DOMAIN lines |-> Or(lines[k].gross_amount, 0)], LinesForTotal(lines))

NetOf(lines) ==
  SumOver([k \in DOMAIN lines |-> Or(lines[k].net_amount, 0)], LinesForTotal(lines))

\* InvoiceOrder: a value that was given must be one of the two sums.
InvoiceOrder(total_value, lines) ==
  LET gross == GrossOf(lines)
      net   == NetOf(lines)
      agrees == total_value # None =>
                  total_value > 0 /\ RoundPln(total_value) \in {gross, net}
  IN IF lines = <<>> \/ ~agrees THEN {}
     ELSE {[total_value |-> IF total_value # None THEN RoundPln(total_value)
                            ELSE IF gross > 0 THEN gross ELSE net,
            order_lines |-> lines]}

\* validate_dates and what it calls, of the fields the summary depends on.
IsValidBody(b) ==
  /\ b.vat_currency_exchange_rate # None => b.currency # "PLN"
  /\ CASE b.invoice_type = "ZAL"     -> b.rows = <<>> /\ b.order # NoOrder
       [] b.invoice_type = "KOR_ZAL" -> (b.rows = <<>>) # (b.order = NoOrder)
       [] b.invoice_type = "KOR"     -> b.order = NoOrder
       [] OTHER                      -> b.rows # <<>> /\ b.order = NoOrder
  /\ b.margin_procedure => b.rows # <<>>

\* The body of a document of the given type with the given lines.
NewBodies(type, lines, margin) ==
  LET Body(rows, order) ==
        [invoice_type |-> type, currency |-> currency, vat_currency_exchange_rate |-> rate,
         margin_procedure |-> margin, rows |-> rows, order |-> order,
         summary_overrides |-> NoOverrides]
  IN {b \in IF type \in {"ZAL", "KOR_ZAL"}
               THEN {Body(<<>>, o) : o \in InvoiceOrder(None, lines)}
               ELSE {Body(lines, NoOrder)} : IsValidBody(b)}

-----------------------------------------------------------------------------
(* The FA(3) document: written by the mappers, and read back.              *)

\* _opt_dec: an empty bucket is left out.
OptDec(x) == IF x = 0 THEN None ELSE x

\* _format_line_vat_amount: the VAT of some lines is not written.
LineVat(l) ==
  IF \/ l.tax_regime = "margin"
     \/ l.vat_classification # None /\ NumericRate[l.vat_classification] = None
    THEN None ELSE l.vat_amount

\* Fault: the code is that of the marker, which stands for several categories.
LineRateByMarker(l) ==
  IF l.tax_regime \in {"margin", "special_xii"} \/ l.vat_classification = None
    THEN None ELSE SchemaCode[DefaultCategory(VatRateForCategory[l.vat_classification])]

\* _map_vat_rate.
LineRate(l) ==
  IF l.tax_regime \in {"margin", "special_xii"} \/ l.vat_classification = None
    THEN None ELSE SchemaCode[l.vat_classification]

FakturaFaFaWiersz(r) ==
  [p_8_b |-> r.quantity, p_9_a |-> r.unit_price_net, p_9_b |-> r.unit_price_gross,
   p_10 |-> OptDec(r.discount_amount), p_11 |-> r.net_amount, p_11_a |-> r.gross_amount,
   p_11_vat |-> LineVat(r), p_12 |-> LineRate(r), p_12_xii |-> r.vat_rate_xii,
   kurs_waluty |-> r.currency_exchange_rate, stan_przed |-> r.before_correction]

\* A line of an order has neither its gross amount nor its exchange rate.
FakturaFaZamowienieWiersz(l) ==
  [FakturaFaFaWiersz(l) EXCEPT !.p_9_b = None, !.p_10 = None, !.p_11_a = None,
                               !.kurs_waluty = None]

FakturaFa(b) ==
  [invoice_type |-> b.invoice_type, currency |-> b.currency,
   kurs_waluty_z |-> b.vat_currency_exchange_rate, margin_procedure |-> b.margin_procedure,
   fa_wiersz |-> [k \in DOMAIN b.rows |-> FakturaFaFaWiersz(b.rows[k])],
   zamowienie |-> [wartosc |-> b.order.total_value,
                   wiersze |-> [k \in DOMAIN b.order.order_lines |->
                                  FakturaFaZamowienieWiersz(b.order.order_lines[k])]],
   amounts |-> [f \in SummaryFields |->
                  IF f = TotalGross THEN SummaryValue(b, f) ELSE OptDec(SummaryValue(b, f))],
   pln |-> [c \in ConvertedBuckets |->
              IF VatTotalPln(b, c) = None THEN None ELSE OptDec(VatTotalPln(b, c))]]

\* Fault: the margin procedure of the invoice is not handed to its lines.
RegimeByRateAlone(margin, classification, vat_rate_xii) ==
  IF vat_rate_xii # None THEN "special_xii" ELSE "standard"

\* _tax_regime_for_line.
TaxRegimeForLine(margin, classification, vat_rate_xii) ==
  IF vat_rate_xii # None THEN "special_xii"
  ELSE IF margin /\ classification = None THEN "margin" ELSE "standard"

\* What the mapper of a row says of a line; an order line goes by no margin.
LineRead(w, margin) ==
  LET classification == IF w.p_12 = None THEN None ELSE FromSchemaCode(w.p_12)
  IN [vat_classification |-> classification,
      sale_category |-> classification,
      vat_rate |-> IF classification = None THEN None ELSE VatRateForCategory[classification],
      tax_regime |-> TaxRegimeForLine(margin, classification, w.p_12_xii),
      vat_rate_xii |-> w.p_12_xii, quantity |-> w.p_8_b,
      unit_price_net |-> w.p_9_a, unit_price_gross |-> w.p_9_b,
      discount_amount |-> w.p_10, net_amount |-> w.p_11, vat_amount |-> w.p_11_vat,
      gross_amount |-> w.p_11_a, currency_exchange_rate |-> w.kurs_waluty,
      before_correction |-> w.stan_przed]

\* One line for each line of the document, or nothing if one of them raises.
AllRead(read) ==
  IF \E k \in DOMAIN read : read[k] = {} THEN {}
  ELSE {[k \in DOMAIN read |-> CHOOSE l \in read[k] : TRUE]}

ReadBodies(doc) ==
  LET rowsRead == [k \in DOMAIN doc.fa_wiersz |->
                     InvoiceRow(LineRead(doc.fa_wiersz[k], doc.margin_procedure))]
      Items(written) == [k \in DOMAIN written |-> InvoiceOrderLine(LineRead(written[k], FALSE))]
      orders  == IF doc.zamowienie.wiersze = <<>> THEN {NoOrder}
                 ELSE UNION {InvoiceOrder(doc.zamowienie.wartosc, lines) :
                               lines \in AllRead(Items(doc.zamowienie.wiersze))}
      Rounded(x) == IF x = None THEN None ELSE RoundPln(x)
      overrides  == [amounts |-> [f \in SummaryFields |-> Rounded(doc.amounts[f])],
                     pln     |-> [c \in ConvertedBuckets |-> Rounded(doc.pln[c])]]
  IN {b \in {[invoice_type |-> doc.invoice_type, currency |-> doc.currency,
              vat_currency_exchange_rate |-> doc.kurs_waluty_z,
              margin_procedure |-> doc.margin_procedure,
              rows |-> rows, order |-> order, summary_overrides |-> overrides] :
                rows \in AllRead(rowsRead), order \in orders} :
        IsValidBody(b)}

-----------------------------------------------------------------------------
TotalsInit ==
  /\ kind \in InvoiceKinds
  /\ currency \in {"PLN", "EUR"}
  /\ rate \in {None} \union (IF currency = "PLN" THEN {} ELSE ExchangeRates)
  /\ draft = <<>>
  /\ body = None
  /\ issued = 0
  /\ standing = <<>>
  /\ ledger = [f \in SummaryFields |-> 0]
  /\ reading = "no"
  /\ lossy = FALSE

\* A line is constructed, of the class the next document holds.
AddLine(i) ==
  /\ Len(standing) + Len(draft) < MaxLines
  /\ issued < MaxDocuments
  /\ \E l \in IF kind = "ZAL" THEN InvoiceOrderLine(i) ELSE InvoiceRow(i) :
       draft' = Append(draft, l)
  /\ UNCHANGED <<kind, currency, rate, body, issued, standing, ledger, reading, lossy>>

Before(lines) == [k \in DOMAIN lines |-> [lines[k] EXCEPT !.before_correction = TRUE]]

\* The margin procedure is an annotation of its own: it may be forgotten.
Annotations(lines) ==
  IF \E k \in DOMAIN lines : lines[k].tax_regime = "margin" THEN BOOLEAN ELSE {FALSE}

\* The draft is issued, behind the lines it replaces.
Issue(type, replaced) ==
  LET lines == replaced \o draft
  IN /\ issued < MaxDocuments
     /\ \E margin \in Annotations(lines) : \E b \in NewBodies(type, lines, margin) :
          /\ body' = b
          /\ ledger' = [f \in SummaryFields |-> ledger[f] + SummaryValue(b, f)]
     /\ issued' = issued + 1
     /\ standing' = draft
     /\ draft' = <<>>
     /\ reading' = "no"
     /\ UNCHANGED <<kind, currency, rate, lossy>>

IssueOriginal == issued = 0 /\ Issue(kind, <<>>)

\* A correcting invoice holds the lines as they were and as they shall be.
IssueCorrection == issued > 0 /\ Issue(CorrectingType[kind], Before(standing))

\* The last n of some lines.
LastOf(lines, n) == [k \in 1..n |-> lines[Len(lines) - n + k]]

\* The last document is parsed; what follows is made of what was read.
ReadBack ==
  LET found == ReadBodies(FakturaFa(body))
  IN /\ issued > 0 /\ draft = <<>> /\ reading = "no"
     /\ \/ /\ found = {}
           /\ reading' = "refused"
           /\ UNCHANGED <<body, standing, lossy>>
        \/ /\ reading' = "read"
           /\ \E b \in found :
                /\ body' = b
                /\ standing' = LastOf(FinancialRows(b), Len(standing))
                /\ lossy' = \/ lossy
                            \/ \E k \in DOMAIN FinancialRows(b) : \E f \in SummaryFields :
                                 Share(FinancialRows(b)[k], f) # Share(FinancialRows(body)[k], f)
     /\ UNCHANGED <<kind, currency, rate, draft, issued, ledger>>

TotalsNext ==
  \/ \E i \in Inputs : AddLine(i)
  \/ IssueOriginal
  \/ IssueCorrection
  \/ ReadBack

TotalsSpec == TotalsInit /\ [][TotalsNext]_totalsVars

-----------------------------------------------------------------------------
(* Properties.                                                             *)

\* The types of the variables; a line lacks its gross amount only where its
\* net amount or its VAT is not known.
TotalsTypeOK ==
  /\ kind \in InvoiceKinds
  /\ currency \in {"PLN", "EUR"}
  /\ rate \in ExchangeRates \union {None}
  /\ issued \in 0..MaxDocuments
  /\ reading \in {"no", "read", "refused"}
  /\ lossy \in BOOLEAN
  /\ \A f \in SummaryFields : ledger[f] \in WholeGrosze
  /\ \A lines \in {draft, standing} : \A k \in DOMAIN lines :
       /\ lines[k].tax_regime \in TaxRegimes
       /\ lines[k].sale_category \in Categories \union {None}
       /\ {lines[k].net_amount, lines[k].vat_amount, lines[k].gross_amount}
            \subseteq WholeGrosze \union {None}
       /\ lines[k].gross_amount = None => None \in {lines[k].net_amount, lines[k].vat_amount}

\* An original and its corrections add up, field by field of the summary, to
\* the lines that are in force in the end, corrections made of what was read
\* from a document included as long as no line counts otherwise than it did.
LedgerFollowsLines ==
  issued > 0 /\ ~lossy =>
    \A f \in SummaryFields :
      ledger[f] = SumOver([k \in DOMAIN standing |-> Share(standing[k], f)], DOMAIN standing)

\* P_15 of an invoice that was not imported is the sum of its buckets P_13 and
\* P_14: no line is left out or counted twice.  Lines at 4 or 3 percent outside
\* the taxi regime are in no bucket, Title XII lines that also name a category
\* with a bucket of its own are in two, and VAT that was given with a line of a
\* bucket without VAT is in none.
BucketsMakeUpTheTotal ==
  issued > 0 =>
    LET lines == FinancialRows(body)
        IsOrdinary(l) ==
          /\ l.tax_regime = "standard" => l.sale_category \notin {"rate_4", "rate_3"}
          /\ l.tax_regime = "special_xii" =>
               \A c \in DOMAIN CategoryBuckets : l.sale_category # CategoryBuckets[c]
          /\ (\E c \in NetBuckets : InBucket(l, c)) => l.vat_amount \in {None, 0}
    IN body.summary_overrides = NoOverrides /\ (\A k \in DOMAIN lines : IsOrdinary(lines[k])) =>
         SummaryValue(body, TotalGross) = SumOver([f \in Fields |-> SummaryValue(body, f)], Fields)

\* An invoice that is read back shows the totals it was written with: every
\* bucket, what is due, and the VAT in PLN.  The VAT in PLN can differ when it is
\* that of the lines, nothing was written of it because it was none, and one of
\* the lines is read with a Title XII rate that it was not taxed by.
ReadsBackTheSame ==
  [][reading' = "read" /\ reading = "no" =>
       /\ \A f \in SummaryFields : SummaryValue(body', f) = SummaryValue(body, f)
       /\ \A c \in ConvertedBuckets :
            \/ Or(VatTotalPln(body', c), 0) = Or(VatTotalPln(body, c), 0)
            \/ /\ body.vat_currency_exchange_rate = None
               /\ Or(VatTotalPln(body, c), 0) = 0
               /\ \E k \in DOMAIN FinancialRows(body) :
                    LET l == FinancialRows(body)[k]
                    IN l.tax_regime = "standard" /\ l.vat_rate_xii # None]_totalsVars

\* A line counts otherwise after reading only if it was of the taxi regime, a
\* Title XII line with a category of its own, a line that has a Title XII rate
\* without being one, or had VAT that is not written.
OnlyRegimesAreLost ==
  [][lossy' /\ ~lossy =>
       \E k \in DOMAIN FinancialRows(body) :
         LET l == FinancialRows(body)[k]
         IN \/ l.tax_regime = "taxi_flat_rate"
            \/ l.tax_regime = "special_xii" /\ l.sale_category # None
            \/ l.tax_regime # "special_xii" /\ l.vat_rate_xii # None
            \/ l.vat_amount \notin {None, 0} /\ LineVat(l) = None]_totalsVars

\* A document the SDK wrote is refused by the SDK only if it has a margin line
\* that is not announced as such, or is an order that does not add up without
\* what is not written of it: an order of no positive value, with a line whose
\* three amounts disagree, or with VAT that is not written beside VAT that is.
RefusalIsKnown ==
  reading = "refused" =>
    LET lines == FinancialRows(body)
        VatIsLeftOut(l) == l.vat_amount # None /\ LineVat(l) = None
    IN \/ ~body.margin_procedure /\ \E k \in DOMAIN lines : lines[k].tax_regime = "margin"
       \/ /\ body.order # NoOrder
          /\ \/ body.order.total_value <= 0
             \/ \E k \in LinesForTotal(lines) :
                  /\ lines[k].gross_amount # None
                  /\ lines[k].gross_amount # lines[k].net_amount + lines[k].vat_amount
             \/ \E j, k \in LinesForTotal(lines) :
                  /\ VatIsLeftOut(lines[j])
                  /\ ~VatIsLeftOut(lines[k]) \/ lines[j].vat_amount # 0

\* The VAT of a bucket in PLN is the VAT of the bucket converted: when every
\* line carries one rate and the invoice none, the total at that rate.
PlnVatIsConverted ==
  issued > 0 /\ body.currency # "PLN" /\ body.vat_currency_exchange_rate = None =>
    \A c \in ConvertedBuckets : \A r \in ExchangeRates :
      (\A k \in DOMAIN FinancialRows(body) :
          FinancialRows(body)[k].currency_exchange_rate = r)
      => Or(VatTotalPln(body, c), 0)
           = 10 * RoundedDiv(SummaryValue(body, [of |-> "vat", bucket |-> c]) * r, 1000)

\* It is the VAT converted in every document that was not read and holds no line
\* from before a correction.
PlnVatOfOriginalsIsConverted ==
  issued > 0 /\ body.currency # "PLN" /\ body.vat_currency_exchange_rate = None
    /\ body.summary_overrides = NoOverrides =>
    \A c \in ConvertedBuckets : \A r \in ExchangeRates :
      (\A k \in DOMAIN FinancialRows(body) :
          /\ FinancialRows(body)[k].currency_exchange_rate = r
          /\ ~FinancialRows(body)[k].before_correction)
      => Or(VatTotalPln(body, c), 0)
           = 10 * RoundedDiv(SummaryValue(body, [of |-> "vat", bucket |-> c]) * r, 1000)
=============================================================================

---------------------------- MODULE InvoiceLine ----------------------------
(***************************************************************************)
(* The lines of an FA(3) invoice: InvoiceRow and InvoiceOrderLine with the *)
(* VAT classification they share.  Building a line normalises what the     *)
(* caller said of the tax, computes the amounts left out and validates the *)
(* result; a ValueError is the empty set of lines.                         *)
(*                                                                         *)
(* Amounts and unit prices are integers in thousandths of the currency,    *)
(* quantities and percentages are integers, exchange rates hundredths.  A  *)
(* VatClassification is the sale category it stands for: the constructor   *)
(* accepts exactly one pair of treatment and rate for each.                *)
(***************************************************************************)
EXTENDS Integers

CONSTANT None   \* what was not given

\* NUMERIC_RATE_BY_CATEGORY: a category without a rate has None.
NumericRate ==
  [rate_23 |-> 23, rate_22 |-> 22, rate_8 |-> 8, rate_7 |-> 7, rate_5 |-> 5,
   rate_4 |-> 4, rate_3 |-> 3,
   zero_domestic |-> 0, zero_wdt |-> 0, zero_export |-> 0,
   exempt |-> None, reverse_charge |-> None,
   out_of_scope_outside_territory |-> None, out_of_scope_article_100 |-> None]

Categories == DOMAIN NumericRate

\* VAT_RATE_BY_CATEGORY: the marker written for a category.
VatRateForCategory ==
  [rate_23 |-> "23", rate_22 |-> "22", rate_8 |-> "8", rate_7 |-> "7",
   rate_5 |-> "5", rate_4 |-> "4", rate_3 |-> "3",
   zero_domestic |-> "0", zero_wdt |-> "0", zero_export |-> "0",
   exempt |-> "zw", reverse_charge |-> "oo",
   out_of_scope_outside_territory |-> "np", out_of_scope_article_100 |-> "np"]

\* DEFAULT_CATEGORY_BY_VAT_RATE: two markers stand for several categories.
DefaultCategory(rate) ==
  CASE rate = "0"  -> "zero_domestic"
    [] rate = "np" -> "out_of_scope_outside_territory"
    [] OTHER       -> CHOOSE c \in Categories : VatRateForCategory[c] = rate

\* SCHEMA_CODE_BY_CATEGORY: the code of P_12, one for each category.
SchemaCode ==
  [VatRateForCategory EXCEPT
     !["zero_domestic"] = "0 KR", !["zero_wdt"] = "0 WDT", !["zero_export"] = "0 EX",
     !["out_of_scope_outside_territory"] = "np I",
     !["out_of_scope_article_100"] = "np II"]

FromSchemaCode(code) == CHOOSE c \in Categories : SchemaCode[c] = code

TaxRegimes == {"standard", "taxi_flat_rate", "special_xii", "margin"}

-----------------------------------------------------------------------------
(* What a caller can say of a line.                                        *)

Markers == {VatRateForCategory[c] : c \in Categories}
SchemaCodes == {SchemaCode[c] : c \in Categories}

\* None is not something that was given.
ASSUME NoneIsNothing ==
  /\ None \notin Int
  /\ None \notin Categories \union TaxRegimes \union Markers \union SchemaCodes

\* Amounts with at most two decimals, the ones FA(3) has room for.
WholeGrosze == {x \in Int : x % 10 = 0}

LineInputs ==
  [vat_classification : Categories \union {None}, vat_rate : Markers \union {None},
   sale_category : Categories \union TaxRegimes \union {None},
   tax_regime : TaxRegimes \union {None}, vat_rate_xii : Nat \union {None},
   quantity : Int \union {None}, unit_price_net : Int \union {None},
   unit_price_gross : Int \union {None}, discount_amount : WholeGrosze \union {None},
   net_amount : WholeGrosze \union {None}, vat_amount : WholeGrosze \union {None},
   gross_amount : WholeGrosze \union {None}, currency_exchange_rate : Int \union {None},
   before_correction : BOOLEAN]

-----------------------------------------------------------------------------
Or(a, b) == IF a # None THEN a ELSE b

\* Division, a half rounded away from zero, for a positive divisor.
RoundedDiv(a, b) ==
  IF a >= 0 THEN (2 * a + b) \div (2 * b) ELSE -((b - 2 * a) \div (2 * b))

RoundPln(x) == 10 * RoundedDiv(x, 10)

\* parse_sale_category: a category, or a legacy name of a tax regime.
ParseSaleCategory(value, rate) ==
  CASE value \in Categories \union {None} ->
         {[category |-> value, regime |-> None]}
    [] value = "taxi_flat_rate" ->
         {p \in {[category |-> "rate_4", regime |-> value]} : rate \in {None, "4"}}
    [] value \in {"special_xii", "margin"} ->
         {[category |-> None, regime |-> value]}
    [] value = "standard" ->
         {[category |-> IF rate = None THEN None ELSE DefaultCategory(rate),
           regime |-> value]}

\* normalize_tax_fields: each of the three ways to name the tax fills the others.
NormalizeTaxFields(i) ==
  LET Fields(p) ==
        LET regime == Or(i.tax_regime, Or(p.regime, "standard"))
            classification ==
              Or(i.vat_classification, Or(p.category,
                 IF i.vat_rate # None /\ regime # "margin"
                   THEN DefaultCategory(i.vat_rate) ELSE None))
        IN [tax_regime |-> regime,
            vat_classification |-> classification,
            sale_category |-> Or(p.category, classification),
            vat_rate |-> Or(i.vat_rate,
                            IF classification = None THEN None
                              ELSE VatRateForCategory[classification])]
  IN {t \in {Fields(p) : p \in ParseSaleCategory(i.sale_category, i.vat_rate)} :
        i.vat_classification # None =>
          /\ t.sale_category = t.vat_classification
          /\ t.vat_rate = VatRateForCategory[t.vat_classification]}

\* _vat_percent: None is a line on which no VAT is computed.
VatPercent(t, vat_rate_xii) ==
  IF t.tax_regime = "special_xii" THEN vat_rate_xii
  ELSE IF t.vat_classification = None THEN None ELSE NumericRate[t.vat_classification]

NetOfGross(gross, percent) ==
  IF percent = None THEN gross ELSE 10 * RoundedDiv(10 * gross, 100 + percent)

VatOfNet(net, percent) ==
  IF percent = None THEN 0 ELSE 10 * RoundedDiv(net * percent, 1000)

-----------------------------------------------------------------------------
(* InvoiceRow.                                                             *)

\* Fault: a gross amount that was not given is left out.
ComputeWithoutGross(i, t) ==
  LET percent == VatPercent(t, i.vat_rate_xii)
      net == IF i.net_amount = None /\ i.gross_amount # None
               THEN NetOfGross(i.gross_amount, percent) ELSE i.net_amount
  IN [net_amount |-> net,
      vat_amount |-> IF i.vat_amount = None /\ net # None
                       THEN VatOfNet(net, percent) ELSE i.vat_amount,
      gross_amount |-> i.gross_amount]

\* compute_financial_field: gross first, then net, then what is still missing.
ComputeFinancialField(i, t) ==
  LET percent  == VatPercent(t, i.vat_rate_xii)
      Value(price) == RoundPln(price * i.quantity) - Or(i.discount_amount, 0)
      gross == IF i.gross_amount = None /\ i.net_amount = None
                  /\ i.unit_price_net = None
                  /\ i.unit_price_gross # None /\ i.quantity # None
                 THEN Value(i.unit_price_gross) ELSE i.gross_amount
      net   == IF i.net_amount # None THEN i.net_amount
               ELSE IF gross # None THEN NetOfGross(gross, percent)
               ELSE IF i.unit_price_net # None /\ i.quantity # None
                 THEN Value(i.unit_price_net) ELSE None
      vat   == IF i.vat_amount # None THEN i.vat_amount
               ELSE IF gross # None THEN RoundPln(gross - net)
               ELSE IF net # None THEN VatOfNet(net, percent) ELSE None
  IN [net_amount |-> net,
      vat_amount |-> vat,
      gross_amount |-> IF gross = None /\ net # None /\ vat # None
                         THEN RoundPln(net + vat) ELSE gross]

\* _is_descriptive_only, of a row without a classification.
IsDescriptiveOnly(r) ==
  /\ r.tax_regime = "standard"
  /\ \A f \in {"vat_rate", "sale_category", "vat_rate_xii", "unit_price_net",
               "unit_price_gross", "net_amount", "gross_amount", "vat_amount"} :
       r[f] = None
  /\ r.discount_amount \in {None, 0}

\* _validate_tax_classification_rules.
TaxRulesHold(r) ==
  CASE r.tax_regime = "margin" ->
         {r.vat_classification, r.vat_rate, r.sale_category} = {None}
    [] r.tax_regime = "special_xii" -> r.vat_rate_xii # None
    [] r.tax_regime = "taxi_flat_rate" ->
         /\ r.vat_classification # None
         /\ r.sale_category = "rate_4" /\ r.vat_rate = "4"
    [] r.tax_regime = "standard" ->
         IF r.vat_classification = None THEN IsDescriptiveOnly(r)
         ELSE /\ r.sale_category = r.vat_classification
              /\ r.vat_rate = VatRateForCategory[r.vat_classification]

\* The fields of an input that a line keeps as they are.
WithFields(i, t, amounts) ==
  [i EXCEPT !.tax_regime = t.tax_regime,
            !.vat_classification = t.vat_classification,
            !.sale_category = t.sale_category,
            !.vat_rate = t.vat_rate,
            !.net_amount = amounts.net_amount,
            !.vat_amount = amounts.vat_amount,
            !.gross_amount = amounts.gross_amount]

InvoiceRow(i) ==
  {r \in {WithFields(i, t, ComputeFinancialField(i, t)) : t \in NormalizeTaxFields(i)} :
     /\ r.quantity # 0
     /\ TaxRulesHold(r)
     /\ r.gross_amount # None => r.gross_amount = r.net_amount + r.vat_amount}

-----------------------------------------------------------------------------
(* InvoiceOrderLine: an order line is priced by its gross or net amount.   *)

\* compute_financial_fields, the gross amount rounded by its validator.  A
\* net amount alone gets no VAT.
ComputeOrderFields(i, t) ==
  LET percent == VatPercent(t, i.vat_rate_xii)
      gross == IF i.gross_amount = None THEN None ELSE RoundPln(i.gross_amount)
      net == IF i.net_amount = None /\ gross # None
               THEN NetOfGross(gross, percent) ELSE i.net_amount
      vat == IF i.vat_amount = None /\ gross # None
               THEN RoundPln(gross - net) ELSE i.vat_amount
  IN [net_amount |-> net,
      vat_amount |-> vat,
      gross_amount |-> IF gross = None /\ net # None /\ vat # None
                         THEN RoundPln(net + vat) ELSE gross]

OrderTaxRulesHold(l) ==
  CASE l.tax_regime = "margin" ->
         {l.vat_classification, l.vat_rate, l.sale_category} = {None}
    [] l.tax_regime = "special_xii" -> l.vat_rate_xii # None
    [] OTHER -> /\ l.vat_classification # None
                /\ l.tax_regime = "taxi_flat_rate" => l.sale_category = "rate_4"

InvoiceOrderLine(i) ==
  {l \in {WithFields(i, t, ComputeOrderFields(i, t)) : t \in NormalizeTaxFields(i)} :
     /\ i.gross_amount # None => i.gross_amount > 0
     /\ OrderTaxRulesHold(l)}
=============================================================================

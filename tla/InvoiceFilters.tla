--------------------------- MODULE InvoiceFilters ---------------------------
(***************************************************************************)
(* The filters of a metadata query and of an export, as the caller gives   *)
(* them and as they are sent, and the metadata of an invoice, as KSeF has  *)
(* it and as the caller reads it.  An invoice is sent for if KSeF selects  *)
(* it; it was meant if its metadata, read back, satisfies the filter in    *)
(* the words of the SDK.                                                   *)
(***************************************************************************)
EXTENDS Integers, Sequences

CONSTANTS
  None,          \* the None of Python
  Empty,         \* an empty string
  WarsawOffset,  \* how far the clock of Warsaw is ahead of UTC
  HwmDate        \* up to when KSeF has stored every invoice for good

-----------------------------------------------------------------------------
(* The words of the SDK and those of KSeF.                                 *)

SubjectType == [seller |-> "Subject1", buyer |-> "Subject2", third_subject |-> "Subject3",
                authorized_subject |-> "SubjectAuthorized"]

DateType == [issue_date |-> "Issue", invoicing_date |-> "Invoicing",
             permanent_storage |-> "PermanentStorage"]

AmountType == [brutto |-> "Brutto", netto |-> "Netto", vat |-> "Vat"]

FormType == [FA2 |-> "FA", FA3 |-> "FA", FA_RR1 |-> "FA_RR", PEF3 |-> "PEF", PEF_KOR3 |-> "PEF"]

InvoicingMode == [online |-> "Online", offline |-> "Offline"]

InvoiceType ==
  [vat |-> "Vat", zal |-> "Zal", kor |-> "Kor", roz |-> "Roz", upr |-> "Upr",
   kor_zal |-> "KorZal", kor_roz |-> "KorRoz", vat_pef |-> "VatPef", vat_pef_sp |-> "VatPefSp",
   kor_pef |-> "KorPef", vat_rr |-> "VatRr", kor_vat_rr |-> "KorVatRr"]

BuyerIdentifierType == [buyer_nip |-> "Nip", buyer_vat_ue |-> "VatUe", buyer_other_id |-> "Other"]

\* The response mappers: the same tables from the other end.
ReadBuyerIdentifierType ==
  [Nip |-> "nip", VatUe |-> "vat_ue", Other |-> "other", None |-> "none"]

ReadInvoicingMode == [Online |-> "online", Offline |-> "offline"]

ReadInvoiceType ==
  [Vat |-> "vat", Zal |-> "zal", Kor |-> "kor", Roz |-> "roz", Upr |-> "upr",
   KorZal |-> "kor_zal", KorRoz |-> "kor_roz", VatPef |-> "vat_pef", VatPefSp |-> "vat_pef_sp",
   KorPef |-> "kor_pef", VatRr |-> "vat_rr", KorVatRr |-> "kor_vat_rr"]

-----------------------------------------------------------------------------
(* A filter and the body that is sent for it.                              *)

\* Fault: a moment without a time zone is taken as UTC.
NaiveIsUtc(moment) == moment.at - (IF moment.offset = None THEN 0 ELSE moment.offset)

\* A moment without a time zone is one of Warsaw.
ToAwareDatetime(moment) ==
  moment.at - (IF moment.offset = None THEN WarsawOffset ELSE moment.offset)

DateRange(f) ==
  [dateType |-> DateType[f.date_type],
   from |-> ToAwareDatetime(f.date_from),
   to |-> ToAwareDatetime(f.date_to),
   restrict |-> IF f.date_type = "permanent_storage" THEN f.restrict ELSE None]

Amount(f) ==
  IF f.amount_min = None /\ f.amount_max = None THEN None
  ELSE [type |-> AmountType[f.amount_type], from |-> f.amount_min, to |-> f.amount_max]

Given(value) == value \notin {None, Empty}

Identifier(type, value) == [type |-> BuyerIdentifierType[type], value |-> value]

\* Only the first identifier that is given is sent.
BuyerIdentifier(f) ==
  CASE Given(f.buyer_nip) -> Identifier("buyer_nip", f.buyer_nip)
    [] ~Given(f.buyer_nip) /\ Given(f.buyer_vat_ue) -> Identifier("buyer_vat_ue", f.buyer_vat_ue)
    [] ~Given(f.buyer_nip) /\ ~Given(f.buyer_vat_ue) /\ Given(f.buyer_other_id) ->
         Identifier("buyer_other_id", f.buyer_other_id)
    [] OTHER -> None

\* An empty list restricts nothing, as no list does.
Codes(values, table) == IF values \in {None, {}} THEN None ELSE {table[v] : v \in values}

Word(value, table) == IF value = None THEN None ELSE table[value]

QueryFilters(f) ==
  [subjectType |-> SubjectType[f.role],
   dateRange |-> DateRange(f),
   ksefNumber |-> f.ksef_number,
   invoiceNumber |-> f.invoice_number,
   amount |-> Amount(f),
   sellerNip |-> f.seller_nip,
   buyerIdentifier |-> BuyerIdentifier(f),
   currencyCodes |-> IF f.currency_codes = {} THEN None ELSE f.currency_codes,
   invoicingMode |-> Word(f.invoicing_mode, InvoicingMode),
   isSelfInvoicing |-> f.is_self_invoicing,
   formType |-> Word(f.invoice_schema, FormType),
   invoiceTypes |-> Codes(f.invoice_types, InvoiceType),
   hasAttachment |-> f.has_attachment]

-----------------------------------------------------------------------------
(* What KSeF selects.                                                      *)

Satisfies(wanted, value) == wanted = None \/ wanted = value
IsAmong(wanted, value) == wanted = None \/ value \in wanted
IsWithin(from, to, value) == (from = None \/ from <= value) /\ (to = None \/ value <= to)

InDateRange(range, invoice) ==
  /\ IsWithin(range.from, range.to, invoice.dates[range.dateType])
  /\ range.restrict = TRUE => invoice.dates["PermanentStorage"] <= HwmDate

Selects(body, invoice) ==
  /\ body.subjectType \in invoice.parties
  /\ InDateRange(body.dateRange, invoice)
  /\ Satisfies(body.ksefNumber, invoice.ksefNumber)
  /\ Satisfies(body.invoiceNumber, invoice.invoiceNumber)
  /\ body.amount # None =>
       IsWithin(body.amount.from, body.amount.to, invoice.amounts[body.amount.type])
  /\ Satisfies(body.sellerNip, invoice.sellerNip)
  /\ Satisfies(body.buyerIdentifier, invoice.buyerIdentifier)
  /\ IsAmong(body.currencyCodes, invoice.currency)
  /\ Satisfies(body.invoicingMode, invoice.invoicingMode)
  /\ Satisfies(body.isSelfInvoicing, invoice.isSelfInvoicing)
  /\ Satisfies(body.formType, invoice.form.value)
  /\ IsAmong(body.invoiceTypes, invoice.invoiceType)
  /\ Satisfies(body.hasAttachment, invoice.hasAttachment)

-----------------------------------------------------------------------------
(* What the caller reads, and what the filter means on it.                 *)

InvoiceMetadata(invoice) ==
  [ksef_number |-> invoice.ksefNumber,
   invoice_number |-> invoice.invoiceNumber,
   issue_date |-> invoice.dates["Issue"],
   invoicing_date |-> invoice.dates["Invoicing"],
   permanent_storage |-> invoice.dates["PermanentStorage"],
   seller_nip |-> invoice.sellerNip,
   buyer |-> [type |-> ReadBuyerIdentifierType[invoice.buyerIdentifier.type],
              value |-> invoice.buyerIdentifier.value],
   netto |-> invoice.amounts["Netto"],
   brutto |-> invoice.amounts["Brutto"],
   vat |-> invoice.amounts["Vat"],
   currency |-> invoice.currency,
   invoicing_mode |-> ReadInvoicingMode[invoice.invoicingMode],
   invoice_type |-> ReadInvoiceType[invoice.invoiceType],
   form |-> invoice.form,
   is_self_invoicing |-> invoice.isSelfInvoicing,
   has_attachment |-> invoice.hasAttachment]

\* Who the caller is on an invoice it asks for: the first party of the form is
\* its seller, the second its buyer.
IsParty(role, invoice) ==
  \/ role = "seller" /\ "Subject1" \in invoice.parties
  \/ role = "buyer" /\ "Subject2" \in invoice.parties
  \/ role = "third_subject" /\ "Subject3" \in invoice.parties
  \/ role = "authorized_subject" /\ "SubjectAuthorized" \in invoice.parties

\* The fields of a filter for the buyer, and what each is called on an invoice.
BuyerWord == [buyer_nip |-> "nip", buyer_vat_ue |-> "vat_ue", buyer_other_id |-> "other"]

BuyerFields(f) == {field \in DOMAIN BuyerWord : Given(f[field])}

\* Whether the buyer has the identifier the filter gives.
HasBuyer(f, invoice, field) ==
  InvoiceMetadata(invoice).buyer = [type |-> BuyerWord[field], value |-> f[field]]

\* The moment the caller gave, on the clock of the time zone it is of.
Moment(m) == m.at - (IF m.offset # None THEN m.offset ELSE WarsawOffset)

\* All of the filter but the form and the buyer, which are sent less precisely.
MeantButFormAndBuyer(f, invoice) ==
  LET read == InvoiceMetadata(invoice) IN
  /\ IsParty(f.role, invoice)
  /\ IsWithin(Moment(f.date_from), Moment(f.date_to), read[f.date_type])
  /\ (f.date_type = "permanent_storage" /\ f.restrict = TRUE) => read.permanent_storage <= HwmDate
  /\ Satisfies(f.ksef_number, read.ksef_number)
  /\ Satisfies(f.invoice_number, read.invoice_number)
  /\ IsWithin(f.amount_min, f.amount_max, read[f.amount_type])
  /\ Satisfies(f.seller_nip, read.seller_nip)
  /\ f.currency_codes # {} => IsAmong(f.currency_codes, read.currency)
  /\ Satisfies(f.invoicing_mode, read.invoicing_mode)
  /\ Satisfies(f.is_self_invoicing, read.is_self_invoicing)
  /\ f.invoice_types # {} => IsAmong(f.invoice_types, read.invoice_type)
  /\ Satisfies(f.has_attachment, read.has_attachment)

Meant(f, invoice) ==
  /\ MeantButFormAndBuyer(f, invoice)
  /\ \A field \in BuyerFields(f) : HasBuyer(f, invoice, field)
  /\ Satisfies(f.invoice_schema, invoice.form.schema)

\* The value a form schema declares for its family.
SchemaValue == [FA2 |-> "FA", FA3 |-> "FA", FA_RR1 |-> "FA_RR", PEF3 |-> "PEF", PEF_KOR3 |-> "PEF"]

\* What may come in its place: another version of the form, and a buyer with
\* one of the identifiers given.
NearlyMeant(f, invoice) ==
  /\ MeantButFormAndBuyer(f, invoice)
  /\ BuyerFields(f) # {} => \E field \in BuyerFields(f) : HasBuyer(f, invoice, field)
  /\ f.invoice_schema # None => invoice.form.value = SchemaValue[f.invoice_schema]

\* The filters that are sent less precisely than they were given.
IsWidened(f) == f.invoice_schema # None \/ \E a, b \in BuyerFields(f) : a # b
=============================================================================

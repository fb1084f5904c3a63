------------------------------ MODULE MCExports ------------------------------
(***************************************************************************)
(* Two tasks, two exports.  export_and_download is called with any of the  *)
(* filters below, which differ in what they restrict; schedule_export,     *)
(* whose handle is used again and again, with the first of them.           *)
(***************************************************************************)
EXTENDS Exports, TLC
CONSTANTS t1, t2, f1, f2, hidden

At(h) == [at |-> h, offset |-> None]

Plain ==
  [role |-> "seller", date_type |-> "issue_date", date_from |-> At(10), date_to |-> At(30),
   restrict |-> None, currency_codes |-> {}, amount_type |-> "brutto", amount_min |-> None,
   amount_max |-> None, seller_nip |-> None, buyer_nip |-> None, buyer_vat_ue |-> None,
   buyer_other_id |-> None, ksef_number |-> None, invoice_number |-> None, invoice_schema |-> None,
   invoice_types |-> {}, has_attachment |-> None, invoicing_mode |-> None,
   is_self_invoicing |-> None]

MCFilters ==
  {Plain,
   [Plain EXCEPT !.role = "buyer", !.seller_nip = "nip1", !.is_self_invoicing = TRUE,
                 !.buyer_nip = "nip2", !.buyer_other_id = "x"],
   [Plain EXCEPT !.role = "third_subject", !.invoicing_mode = "offline"],
   [Plain EXCEPT !.invoice_number = "FV/2", !.seller_nip = "nip1"],
   [Plain EXCEPT !.date_type = "permanent_storage", !.restrict = TRUE, !.has_attachment = FALSE],
   [Plain EXCEPT !.date_type = "invoicing_date", !.restrict = TRUE, !.buyer_nip = Empty,
                 !.buyer_vat_ue = "eu1"],
   [Plain EXCEPT !.date_from = [at |-> 10, offset |-> 0], !.amount_type = "netto",
                 !.amount_min = 100],
   [Plain EXCEPT !.amount_min = 50, !.amount_max = 123, !.invoice_types = {"kor", "vat_rr"},
                 !.currency_codes = {"PLN"}],
   [Plain EXCEPT !.buyer_nip = "nip2", !.invoice_schema = "FA3"],
   [Plain EXCEPT !.ksef_number = "k1", !.amount_type = "vat", !.amount_max = 50,
                 !.invoice_schema = "FA_RR1"]}

MCAsks == [schedule_export |-> {Plain}, export_and_download |-> MCFilters]

Form(s, v) == [schema |-> s, value |-> v]

Typical ==
  [parties |-> {"Subject1"}, ksefNumber |-> "k1", invoiceNumber |-> "FV/1",
   dates |-> [Issue |-> 20, Invoicing |-> 20, PermanentStorage |-> 20],
   amounts |-> [Netto |-> 100, Brutto |-> 123, Vat |-> 23], sellerNip |-> "nip1",
   buyerIdentifier |-> [type |-> "Nip", value |-> "nip2"], currency |-> "PLN",
   invoicingMode |-> "Online", isSelfInvoicing |-> FALSE, form |-> Form("FA3", "FA"),
   invoiceType |-> "Vat", hasAttachment |-> FALSE]

MCInvoices ==
  {Typical,
   [Typical EXCEPT !.ksefNumber = "k2", !.dates.Issue = 9, !.form = Form("FA2", "FA"),
                   !.invoiceType = "Kor", !.currency = "EUR", !.hasAttachment = TRUE],
   [Typical EXCEPT !.ksefNumber = "k3", !.invoiceNumber = "FV/2",
                   !.dates.Issue = 5, !.dates.PermanentStorage = 26,
                   !.amounts = [Netto |-> 38, Brutto |-> 40, Vat |-> 2],
                   !.buyerIdentifier = [type |-> "VatUe", value |-> "eu1"]],
   [Typical EXCEPT !.ksefNumber = "k4", !.invoiceNumber = "FV/2",
                   !.form = Form("FA_RR1", "FA_RR"), !.invoiceType = "VatRr",
                   !.dates.Invoicing = 31, !.buyerIdentifier = [type |-> "None", value |-> None],
                   !.amounts = [Netto |-> 45, Brutto |-> 55, Vat |-> 10]],
   [Typical EXCEPT !.ksefNumber = "k5", !.parties = {"Subject2", "Subject3"},
                   !.isSelfInvoicing = TRUE, !.invoicingMode = "Offline"],
   [Typical EXCEPT !.ksefNumber = "k6", !.parties = {"Subject2"}, !.isSelfInvoicing = TRUE,
                   !.sellerNip = "nip3", !.invoicingMode = "Offline"],
   [Typical EXCEPT !.ksefNumber = "k7", !.parties = {"Subject2"}]}

Name(folder, base) == [folder |-> folder, base |-> base]

MCLayouts ==
  {<<>>, <<Name("", f1), Name("", f2)>>, <<Name("a", f1), Name("b", f1)>>,
   <<Name("", f2), Name("", hidden)>>}

\* The tasks are alike, and the properties treat them alike.
TasksAreAlike == Permutations(Tasks)
=============================================================================

-------------------------- MODULE MCInvoiceTotals --------------------------
(***************************************************************************)
(* Lines priced in each way the constructors accept and taxed in each way  *)
(* they know, some of them refused.  1000 is one zloty: 3335 times 3 needs *)
(* rounding, and so does the net amount of a gross one.                    *)
(***************************************************************************)
EXTENDS InvoiceTotals, TLC

Blank ==
  [vat_classification |-> None, vat_rate |-> None, sale_category |-> None,
   tax_regime |-> None, vat_rate_xii |-> None, quantity |-> 1,
   unit_price_net |-> None, unit_price_gross |-> None, discount_amount |-> 0,
   net_amount |-> None, vat_amount |-> None, gross_amount |-> None,
   currency_exchange_rate |-> None, before_correction |-> FALSE]

Taxed(input) == [input EXCEPT !.vat_rate = "23"]
Gross(input) == [input EXCEPT !.gross_amount = 1000]

\* The ways to give a price, of lines at 23 or 22 percent.
Prices ==
  {Taxed([Blank EXCEPT !.unit_price_net = 3335, !.quantity = 3]),
   Taxed([Blank EXCEPT !.unit_price_gross = 12345, !.quantity = 2, !.discount_amount = 1500]),
   Taxed([Blank EXCEPT !.net_amount = 99990, !.currency_exchange_rate = 433]),
   [Blank EXCEPT !.vat_classification = "rate_22", !.gross_amount = 7770,
                 !.currency_exchange_rate = 433],
   Taxed([Blank EXCEPT !.net_amount = 500, !.vat_amount = 120, !.gross_amount = 600]),
   Taxed([Blank EXCEPT !.net_amount = -2000, !.vat_amount = -460,
                       !.currency_exchange_rate = 433])}

\* The ways to name the tax, of lines of one zloty.
Taxes ==
  {Gross([Blank EXCEPT !.sale_category = "standard", !.vat_rate = "5"]),
   Gross([Blank EXCEPT !.vat_rate = "3"]),
   Gross([Blank EXCEPT !.sale_category = "taxi_flat_rate"]),
   Gross([Blank EXCEPT !.sale_category = "taxi_flat_rate", !.vat_rate = "8"]),
   Gross([Blank EXCEPT !.sale_category = "special_xii", !.vat_rate_xii = 20]),
   Gross([Blank EXCEPT !.tax_regime = "special_xii", !.sale_category = "exempt", !.vat_rate_xii = 20]),
   Gross([Blank EXCEPT !.tax_regime = "special_xii"]),
   Gross([Blank EXCEPT !.sale_category = "margin"]),
   Gross([Blank EXCEPT !.sale_category = "margin", !.vat_rate = "23"]),
   Gross([Blank EXCEPT !.vat_rate = "0", !.sale_category = "zero_wdt"]),
   Gross([Blank EXCEPT !.vat_rate = "zw"]),
   Gross([Blank EXCEPT !.vat_rate = "zw", !.net_amount = 900]),
   Taxed([Blank EXCEPT !.net_amount = 2000, !.vat_amount = 460, !.vat_rate_xii = 20,
                       !.currency_exchange_rate = 433]),
   [Blank EXCEPT !.tax_regime = "margin"],
   Gross([Blank EXCEPT !.vat_rate = "8", !.sale_category = "rate_23"])}

MCInputs == Prices \union Taxes
=============================================================================

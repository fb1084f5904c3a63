------------------------ MODULE MCMetadataPagination ------------------------
(***************************************************************************)
(* Six invoices of up to three dates, in pages of two of which KSeF shows  *)
(* at most three records: every truncated query ends with a short page.    *)
(* The machine is east of KSeF, or west of it when summer time has begun.  *)
(***************************************************************************)
EXTENDS MetadataPagination

MCInvoices == 1..6
MCZones == {<<-6, -6, -6>>, <<0, 1, 1>>}
=============================================================================

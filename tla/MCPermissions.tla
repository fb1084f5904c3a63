---------------------------- MODULE MCPermissions ----------------------------
(***************************************************************************)
(* One caller with a grant of every kind, three of them indirect: for one  *)
(* client, for every client, and with half a target; a query of every      *)
(* list; and records other people may make, among them a scope the SDK has *)
(* no word for.                                                            *)
(***************************************************************************)
EXTENDS Permissions

Id(t, v) == [type |-> t, value |-> v]

MCMe == Id("Nip", "me")
MCCompany == Id("Nip", "company")
MCEuContext == Id("NipVatUe", "eu")

Call(op, subject, scopes, context, target) ==
  [op |-> op, subject |-> subject, scopes |-> scopes, context |-> context, target |-> target]

Jan == Id("pesel", "jan")
MCCalls ==
  {Call("grant_person", Id("nip", "me"), {"invoice_read", "subunit_manage"},
        NoIdentifier, NoIdentifier),
   Call("grant_entity", Id("nip", "firm"), {"invoice_write"}, NoIdentifier, NoIdentifier),
   Call("grant_authorization", Id("nip", "firm"), {"rr_invoicing"}, NoIdentifier, NoIdentifier),
   Call("grant_indirect", Jan, {"invoice_read"}, NoIdentifier, Id("nip", "client")),
   Call("grant_indirect", Jan, {"invoice_read"}, NoIdentifier, NoIdentifier),
   Call("grant_indirect", Jan, {"invoice_read"}, NoIdentifier, Id("nip", None)),
   Call("grant_subunit", Jan, {}, Id("internal_id", "unit"), NoIdentifier),
   Call("grant_eu_entity", Id("fingerprint", "cert"), {"invoice_read"},
        NoIdentifier, NoIdentifier),
   Call("grant_eu_entity_administration", Id("fingerprint", "cert"), {},
        Id("nip_vat_ue", "eu"), NoIdentifier)}

NoCriteria == [f \in Criteria |-> NoIdentifier]
Ask(list, type, where, scopes, state) ==
  [list |-> list, type |-> type, where |-> where, scopes |-> scopes, state |-> state]
Of(list, where) == Ask(list, None, where, {}, None)

MCQueries ==
  {Ask("persons", "in_context", NoCriteria, {}, None),
   Ask("persons", "granted_in_context", [NoCriteria EXCEPT !.target = Id("nip", "client")],
       {"invoice_read"}, "active"),
   Ask("persons", "granted_in_context",
       [NoCriteria EXCEPT !.target = Id("all_partners", None), !.authorized = Jan], {}, None),
   Ask("authorizations", "granted", [NoCriteria EXCEPT !.authorized = Id("nip", "firm")], {}, None),
   Ask("authorizations", "received", NoCriteria, {"self_invoicing"}, None),
   Of("entities", [NoCriteria EXCEPT !.context = Id("nip", "partner")]),
   Ask("personal", None, NoCriteria, {"subunit_manage"}, None),
   Of("eu_entities", [NoCriteria EXCEPT !.authorized = Id("fingerprint", "cert")]),
   Of("subunits", NoCriteria),
   Of("subordinate_entities", [NoCriteria EXCEPT !.authorized = Id("nip", "sub")]),
   Of("entity_roles", NoCriteria)}

Record(name, kind, author, authorized, context, target, scope, state) ==
  [id |-> <<0, name>>, kind |-> kind, author |-> author, authorized |-> authorized,
   context |-> context, target |-> target, scope |-> scope, state |-> state]

MCForeign ==
  {Record("owner", "grant_person", Id("System", None), Id("Pesel", "ewa"), NoIdentifier,
          NoIdentifier, "CollectiveIdentifierManage", "Active"),
   Record("broker", "grant_indirect", MCMe, Id("Pesel", "jan"), NoIdentifier,
          Id("Nip", "client"), "InvoiceRead", "Inactive"),
   Record("partner", "received_invoices", NoIdentifier, NoIdentifier, Id("Nip", "partner"),
          NoIdentifier, "InvoiceWrite", "Active"),
   Record("other", "received_authorization", NoIdentifier, MCCompany, Id("Nip", "partner"),
          NoIdentifier, "SelfInvoicing", "Active"),
   Record("sub", "subordinate_role", NoIdentifier, Id("Nip", "sub"), NoIdentifier,
          NoIdentifier, "VatGroupSubUnit", "Active"),
   Record("role", "role", NoIdentifier, NoIdentifier, NoIdentifier, NoIdentifier,
          "VatGroupUnit", "Active")}
=============================================================================

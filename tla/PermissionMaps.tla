--------------------------- MODULE PermissionMaps ---------------------------
(***************************************************************************)
(* The words of the SDK and of KSeF for permissions, and the conversions   *)
(* between them: a grant request and a query on their way to KSeF, and the *)
(* records of a listing on their way back.  An identifier is a type with a *)
(* value.  A conversion of types is a record from one vocabulary to the    *)
(* other, whose DOMAIN is what the code accepts.  Names, descriptions,     *)
(* dates and the delegation flag are carried along and left out.           *)
(***************************************************************************)

None == "none"
NoIdentifier == [type |-> None, value |-> None]
NoTypes == [none |-> None]

To(types, id) == [type |-> types[id.type], value |-> id.value]

\* Fault: one half is taken for the whole.
OptionalByType(types, id) == IF id.type # None THEN To(types, id) ELSE NoIdentifier

\* What is sent of an identifier whose two halves are optional.
Optional(types, id) ==
  IF id.type # None /\ id.value # None THEN To(types, id) ELSE NoIdentifier

-----------------------------------------------------------------------------
(* Grants.                                                                 *)

AuthorizationScope ==
  [self_invoicing |-> "SelfInvoicing", rr_invoicing |-> "RRInvoicing",
   tax_representative |-> "TaxRepresentative", pef_invoicing |-> "PefInvoicing"]
AuthorizationSubject == [nip |-> "Nip", peppol_id |-> "PeppolId"]
InvoiceScope == [invoice_read |-> "InvoiceRead", invoice_write |-> "InvoiceWrite"]
EuAdminContext == [nip_vat_ue |-> "NipVatUe"]
PersonScope ==
  [invoice_read |-> "InvoiceRead", invoice_write |-> "InvoiceWrite",
   introspection |-> "Introspection", credentials_read |-> "CredentialsRead",
   credentials_manage |-> "CredentialsManage",
   enforcement_operations |-> "EnforcementOperations", subunit_manage |-> "SubunitManage"]
SubunitContext == [nip |-> "Nip", internal_id |-> "InternalId"]
CertificateSubject == [nip |-> "Nip", pesel |-> "Pesel", fingerprint |-> "Fingerprint"]
IndirectTarget ==
  [nip |-> "Nip", all_partners |-> "AllPartners", internal_id |-> "InternalId"]
EuScope == [invoice_read |-> "InvoiceRead", invoice_write |-> "InvoiceWrite"]

\* The vocabulary of each grant: its subject, its permissions, and its context or target.
GrantTypes ==
  [grant_person |-> [subject |-> CertificateSubject, scope |-> PersonScope,
                     context |-> NoTypes, target |-> NoTypes],
   grant_entity |-> [subject |-> [nip |-> "Nip"], scope |-> InvoiceScope,
                     context |-> NoTypes, target |-> NoTypes],
   grant_authorization |-> [subject |-> AuthorizationSubject, scope |-> AuthorizationScope,
                            context |-> NoTypes, target |-> NoTypes],
   grant_indirect |-> [subject |-> CertificateSubject, scope |-> InvoiceScope,
                       context |-> NoTypes, target |-> IndirectTarget],
   grant_subunit |-> [subject |-> CertificateSubject, scope |-> NoTypes,
                      context |-> SubunitContext, target |-> NoTypes],
   grant_eu_entity |-> [subject |-> [fingerprint |-> "Fingerprint"], scope |-> EuScope,
                        context |-> NoTypes, target |-> NoTypes],
   grant_eu_entity_administration |->
     [subject |-> [fingerprint |-> "Fingerprint"], scope |-> NoTypes,
      context |-> EuAdminContext, target |-> NoTypes]]

GrantBody(c) ==
  LET types == GrantTypes[c.op]
  IN  [kind |-> c.op,
       subject |-> To(types.subject, c.subject),
       scopes |-> {types.scope[s] : s \in c.scopes},
       context |-> Optional(types.context, c.context),
       target |-> Optional(types.target, c.target)]

-----------------------------------------------------------------------------
(* Queries.                                                                *)

Author ==
  [nip |-> "Nip", pesel |-> "Pesel", fingerprint |-> "Fingerprint", system |-> "System"]
QueryAuthorizationScope ==
  [self_invoicing |-> "SelfInvoicing", rr_invoicing |-> "RRInvoicing",
   tax_representative |-> "TaxRepresentative", pef_invoicing |-> "PefInvoicing"]
AuthorizingEntity == [nip |-> "Nip"]
AuthorizedEntity == [nip |-> "Nip", peppol_id |-> "PeppolId"]
QueryContext == [nip |-> "Nip", internal_id |-> "InternalId"]
PersonAuthorized == [nip |-> "Nip", pesel |-> "Pesel", fingerprint |-> "Fingerprint"]
PersonalContext == [nip |-> "Nip", internal_id |-> "InternalId"]
QueryTarget ==
  [nip |-> "Nip", all_partners |-> "AllPartners", internal_id |-> "InternalId"]
PersonalTarget ==
  [nip |-> "Nip", all_partners |-> "AllPartners", internal_id |-> "InternalId"]
EuQueryScope ==
  [vat_ue_manage |-> "VatUeManage", invoice_write |-> "InvoiceWrite",
   invoice_read |-> "InvoiceRead", introspection |-> "Introspection"]
PersonQueryType ==
  [in_context |-> "PermissionsInCurrentContext",
   granted_in_context |-> "PermissionsGrantedInCurrentContext"]
AuthorizationQueryType == [granted |-> "Granted", received |-> "Received"]
StateToSpec == [active |-> "Active", inactive |-> "Inactive", none |-> None]
PersonalScope ==
  [invoice_read |-> "InvoiceRead", invoice_write |-> "InvoiceWrite",
   introspection |-> "Introspection", credentials_read |-> "CredentialsRead",
   credentials_manage |-> "CredentialsManage",
   enforcement_operations |-> "EnforcementOperations", subunit_manage |-> "SubunitManage",
   vat_ue_manage |-> "VatUeManage"]
QueryPersonScope ==
  [invoice_read |-> "InvoiceRead", invoice_write |-> "InvoiceWrite",
   introspection |-> "Introspection", credentials_read |-> "CredentialsRead",
   credentials_manage |-> "CredentialsManage",
   enforcement_operations |-> "EnforcementOperations", subunit_manage |-> "SubunitManage"]

\* The vocabulary of each list's criteria; NoTypes where a list has no such criterion.
QueryTypes ==
  [persons |-> [type |-> PersonQueryType, author |-> Author, authorized |-> PersonAuthorized,
                context |-> QueryContext, target |-> QueryTarget, scope |-> QueryPersonScope],
   authorizations |-> [type |-> AuthorizationQueryType, author |-> NoTypes,
                       authorized |-> AuthorizedEntity, context |-> AuthorizingEntity,
                       target |-> NoTypes, scope |-> QueryAuthorizationScope],
   entities |-> [type |-> NoTypes, author |-> NoTypes, authorized |-> NoTypes,
                 context |-> QueryContext, target |-> NoTypes, scope |-> NoTypes],
   personal |-> [type |-> NoTypes, author |-> NoTypes, authorized |-> NoTypes,
                 context |-> PersonalContext, target |-> PersonalTarget,
                 scope |-> PersonalScope],
   eu_entities |-> [type |-> NoTypes, author |-> NoTypes,
                    authorized |-> [fingerprint |-> "Fingerprint"],
                    context |-> [nip_vat_ue |-> "NipVatUe"], target |-> NoTypes, scope |-> EuQueryScope],
   subordinate_entities |->
     [type |-> NoTypes, author |-> NoTypes, authorized |-> [nip |-> "Nip"],
      context |-> NoTypes, target |-> NoTypes, scope |-> NoTypes],
   subunits |-> [type |-> NoTypes, author |-> NoTypes, authorized |-> NoTypes,
                 context |-> [nip |-> "Nip"], target |-> NoTypes, scope |-> NoTypes],
   entity_roles |-> [type |-> NoTypes, author |-> NoTypes, authorized |-> NoTypes,
                     context |-> NoTypes, target |-> NoTypes, scope |-> NoTypes]]

Lists == DOMAIN QueryTypes
Criteria == {"author", "authorized", "context", "target"}

\* A list of permission types that is empty is sent as none at all.
QueryBody(q) ==
  LET types == QueryTypes[q.list]
  IN  [list |-> q.list,
       type |-> types.type[q.type],
       where |-> [f \in Criteria |-> Optional(types[f], q.where[f])],
       scopes |-> {types.scope[s] : s \in q.scopes},
       state |-> StateToSpec[q.state]]

-----------------------------------------------------------------------------
(* Listings.                                                               *)

ReadIdentifier ==
  [Nip |-> "nip", Pesel |-> "pesel", Fingerprint |-> "fingerprint", System |-> "system",
   InternalId |-> "internal_id", AllPartners |-> "all_partners", PeppolId |-> "peppol_id",
   NipVatUe |-> "nip_vat_ue", none |-> None]
\* Fault: the words of an older KSeF.
ReadPersonScopeShort ==
  [InvoiceRead |-> "invoice_read", InvoiceWrite |-> "invoice_write",
   CredentialsRead |-> "credentials_read", CredentialsManage |-> "credentials_manage"]
ReadPersonScope ==
  [InvoiceRead |-> "invoice_read", InvoiceWrite |-> "invoice_write",
   Introspection |-> "introspection", CredentialsRead |-> "credentials_read",
   CredentialsManage |-> "credentials_manage",
   EnforcementOperations |-> "enforcement_operations", SubunitManage |-> "subunit_manage"]
ReadPersonalScope ==
  [InvoiceRead |-> "invoice_read", InvoiceWrite |-> "invoice_write",
   Introspection |-> "introspection", CredentialsRead |-> "credentials_read",
   CredentialsManage |-> "credentials_manage",
   EnforcementOperations |-> "enforcement_operations", SubunitManage |-> "subunit_manage",
   VatUeManage |-> "vat_ue_manage"]
ReadEntityScope == [InvoiceRead |-> "invoice_read", InvoiceWrite |-> "invoice_write"]
ReadAuthorizationScope ==
  [SelfInvoicing |-> "self_invoicing", RRInvoicing |-> "rr_invoicing",
   TaxRepresentative |-> "tax_representative", PefInvoicing |-> "pef_invoicing"]
ReadRole ==
  [CourtBailiff |-> "court_bailiff", EnforcementAuthority |-> "enforcement_authority",
   LocalGovernmentUnit |-> "local_government_unit",
   LocalGovernmentSubUnit |-> "local_government_sub_unit",
   VatGroupUnit |-> "vat_group_unit", VatGroupSubUnit |-> "vat_group_sub_unit"]
ReadSubordinateRole ==
  [LocalGovernmentSubUnit |-> "local_government_sub_unit",
   VatGroupSubUnit |-> "vat_group_sub_unit"]
ReadSubunitScope == [CredentialsManage |-> "credentials_manage"]
ReadEuScope ==
  [VatUeManage |-> "vat_ue_manage", InvoiceWrite |-> "invoice_write",
   InvoiceRead |-> "invoice_read", Introspection |-> "introspection"]
ReadState == [Active |-> "active", Inactive |-> "inactive"]

\* The scopes each listing can be read with; any other makes the conversion raise.
ReadScope ==
  [persons |-> ReadPersonScope, authorizations |-> ReadAuthorizationScope,
   entities |-> ReadEntityScope, personal |-> ReadPersonalScope,
   eu_entities |-> ReadEuScope, subordinate_entities |-> ReadSubordinateRole,
   subunits |-> ReadSubunitScope, entity_roles |-> ReadRole]

Read(id) == To(ReadIdentifier, id)

\* An author or a subject is read by its value: without one its type is dropped too.
ReadByValue(id) == IF id.value = None THEN NoIdentifier ELSE Read(id)

(* What the SDK's record of each list shows of KSeF's.                     *)

Bare(r) ==
  [id |-> r.id, author |-> NoIdentifier, authorized |-> NoIdentifier,
   context |-> NoIdentifier, target |-> NoIdentifier, scope |-> None, state |-> None]

\* Fault: a target is read by its value as well.
PersonEntryByValue(r) ==
  [Bare(r) EXCEPT !.author = ReadByValue(r.author), !.authorized = ReadByValue(r.authorized),
                  !.context = Read(r.context), !.target = ReadByValue(r.target),
                  !.scope = ReadPersonScope[r.scope], !.state = ReadState[r.state]]

PersonEntry(r) ==
  [Bare(r) EXCEPT !.author = ReadByValue(r.author), !.authorized = ReadByValue(r.authorized),
                  !.context = Read(r.context), !.target = Read(r.target),
                  !.scope = ReadPersonScope[r.scope], !.state = ReadState[r.state]]

PersonalEntry(r) ==
  [Bare(r) EXCEPT !.authorized = Read(r.authorized), !.context = Read(r.context),
                  !.target = Read(r.target), !.scope = ReadPersonalScope[r.scope],
                  !.state = ReadState[r.state]]

EntityEntry(r) ==
  [Bare(r) EXCEPT !.context = Read(r.context), !.scope = ReadEntityScope[r.scope]]

AuthorizationEntry(r) ==
  [Bare(r) EXCEPT !.author = Read(r.author), !.authorized = Read(r.authorized),
                  !.context = Read(r.context), !.scope = ReadAuthorizationScope[r.scope]]

RoleEntry(r) ==
  [Bare(r) EXCEPT !.context = Read(r.context), !.scope = ReadRole[r.scope]]

SubunitEntry(r) ==
  [Bare(r) EXCEPT !.author = Read(r.author), !.authorized = Read(r.authorized),
                  !.context = Read(r.context), !.scope = ReadSubunitScope[r.scope]]

EuEntry(r) ==
  [Bare(r) EXCEPT !.author = Read(r.author), !.authorized = Read(r.authorized),
                  !.context = Read(r.context), !.scope = ReadEuScope[r.scope]]

SubordinateEntry(r) ==
  [Bare(r) EXCEPT !.authorized = Read(r.authorized), !.scope = ReadSubordinateRole[r.scope]]

Entry(list, r) ==
  CASE list = "persons" -> PersonEntry(r)
    [] list = "personal" -> PersonalEntry(r)
    [] list = "entities" -> EntityEntry(r)
    [] list = "authorizations" -> AuthorizationEntry(r)
    [] list = "entity_roles" -> RoleEntry(r)
    [] list = "subunits" -> SubunitEntry(r)
    [] list = "eu_entities" -> EuEntry(r)
    [] list = "subordinate_entities" -> SubordinateEntry(r)
=============================================================================

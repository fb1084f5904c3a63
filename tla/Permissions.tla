----------------------------- MODULE Permissions -----------------------------
(***************************************************************************)
(* The permissions branch of the client.  A caller grants permissions,     *)
(* lists them, and revokes what a listing shows, while other people grant  *)
(* and revoke in KSeF too.  A grant or a revocation is an operation that   *)
(* KSeF carries out later; the caller asks for its status.  The branch     *)
(* keeps no state: what matters is that what KSeF is asked for, and what   *)
(* the caller reads back, is what was meant (PermissionMaps).              *)
(***************************************************************************)
EXTENDS PermissionMaps, Integers, Sequences, FiniteSets

CONSTANTS
  Calls,      \* the grants the caller may make
  Queries,    \* the queries the caller may make
  Foreign,    \* the records other people may make in KSeF
  Me,         \* the caller's own identifier
  Company,    \* the entity the caller works for
  EuContext,  \* the EU entity of a session opened for one
  PageSize,   \* the records of a page
  MaxGrants,  \* bound: the grants the caller starts
  MaxRevokes, \* bound: the revocations the caller starts
  MaxOthers   \* bound: the records of other people at one time

ASSUME BoundsAreCounts == MaxGrants \in Nat /\ MaxRevokes \in Nat /\ MaxOthers \in Nat
ASSUME PagesAreNotEmpty == PageSize \in Nat \ {0}

VARIABLES
  granted,    \* the records in KSeF
  ops,        \* the operations the caller has started, in order
  confirmed,  \* those whose status the caller has read as done
  answer,     \* what the last query gave the caller
  gone        \* the records of the caller's that have been revoked (history)

permissionsVars == <<granted, ops, confirmed, answer, gone>>

Kinds == DOMAIN GrantTypes \union
         {"received_invoices", "received_authorization", "role", "subordinate_role"}

NoQuery == [list |-> None, type |-> None, where |-> [f \in Criteria |-> NoIdentifier],
            scopes |-> {}, state |-> None]
NoAnswer == [outcome |-> "none", query |-> NoQuery, more |-> FALSE, entries |-> {}]

-----------------------------------------------------------------------------
(* What callers can say, and what KSeF can hold.                           *)

Values == STRING \union {None}
Identifiers == [type : {ReadIdentifier[t] : t \in DOMAIN ReadIdentifier}, value : Values]
KSeFIdentifiers == [type : DOMAIN ReadIdentifier, value : Values]
\* KSeF knows an identifier without a value only where the type says it all.
WholeIdentifiers ==
  {id \in KSeFIdentifiers : id.value = None => id.type \in {None, "AllPartners", "System"}}

\* The scopes the SDK has words for.
Words == {PersonalScope[s] : s \in DOMAIN PersonalScope}
         \union {AuthorizationScope[s] : s \in DOMAIN AuthorizationScope}

EuAdminScopes == {"VatUeManage", "InvoiceWrite", "InvoiceRead", "Introspection"}

\* The scopes KSeF has for each kind of record, as far as the SDK knows them.
KSeFScopes ==
  LET Of(types) == {types[s] : s \in DOMAIN types}
  IN  [grant_person |-> Of(PersonScope), grant_entity |-> Of(InvoiceScope),
       grant_authorization |-> Of(AuthorizationScope), grant_indirect |-> Of(InvoiceScope),
       grant_subunit |-> {"CredentialsManage"}, grant_eu_entity |-> Of(EuScope),
       grant_eu_entity_administration |-> EuAdminScopes,
       received_invoices |-> Of(InvoiceScope),
       received_authorization |-> Of(AuthorizationScope),
       role |-> DOMAIN ReadRole, subordinate_role |-> DOMAIN ReadSubordinateRole]

KnownScopes == UNION {KSeFScopes[k] : k \in Kinds}

\* A record of the caller's is known by the grant that made it and its scope.
RecordIds == ((Nat \ {0}) \X KnownScopes) \union {r.id : r \in Foreign}

KSeFRecords ==
  [id : RecordIds, kind : Kinds, author : WholeIdentifiers, authorized : WholeIdentifiers,
   context : WholeIdentifiers, target : WholeIdentifiers,
   scope : KnownScopes \union {r.scope : r \in Foreign}, state : {"Active", "Inactive"}]

\* The requests are models with typed fields: a subject and, where the grant has one, a
\* context are required; a target may be left out or given by half.
ASSUME CallsAreTyped ==
  \A c \in Calls :
    /\ c \in [op : DOMAIN GrantTypes, subject : Identifiers, scopes : SUBSET STRING,
              context : Identifiers, target : Identifiers]
    /\ c.subject.type \in DOMAIN GrantTypes[c.op].subject /\ c.subject.value # None
    /\ c.scopes \subseteq DOMAIN GrantTypes[c.op].scope
    /\ c.context.type \in DOMAIN GrantTypes[c.op].context
    /\ (c.context.type = None) = (c.context.value = None)
    /\ c.target.type \in DOMAIN GrantTypes[c.op].target \union {None}

ASSUME QueriesAreTyped ==
  \A q \in Queries :
    /\ q \in [list : Lists, type : STRING, where : [Criteria -> Identifiers],
              scopes : SUBSET STRING, state : DOMAIN StateToSpec]
    /\ q.type \in DOMAIN QueryTypes[q.list].type
    /\ \A f \in Criteria : q.where[f].type \in DOMAIN QueryTypes[q.list][f] \union {None}
    /\ q.scopes \subseteq DOMAIN QueryTypes[q.list].scope

ASSUME PartiesAreIdentified ==
  /\ {Me, Company, EuContext} \subseteq KSeFIdentifiers
  /\ None \notin {Me.value, Company.value, EuContext.value}
  /\ Me.type \in {"Nip", "Pesel", "Fingerprint"}
  /\ Company.type = "Nip" /\ EuContext.type = "NipVatUe"

\* The records of other people are KSeF's own, but for scopes newer than the SDK.
ASSUME ForeignRecordsAreOthers ==
  \A r \in Foreign :
    /\ r \in KSeFRecords /\ r.id[1] = 0
    /\ r.scope \in KSeFScopes[r.kind] \/ r.scope \notin Words

-----------------------------------------------------------------------------
(* KSeF.                                                                   *)

ScopesOf(body) ==
  CASE body.kind = "grant_subunit" -> {"CredentialsManage"}
    [] body.kind = "grant_eu_entity_administration" -> EuAdminScopes
    [] OTHER -> body.scopes

ContextOf(body) ==
  CASE body.kind = "grant_authorization" -> Company
    [] body.kind = "grant_eu_entity" -> EuContext
    [] OTHER -> body.context

\* An indirect grant without a target is good for every partner.
TargetOf(body) ==
  IF body.kind = "grant_indirect" /\ body.target = NoIdentifier
  THEN [type |-> "AllPartners", value |-> None] ELSE body.target

Records(n, body) ==
  {[id |-> <<n, s>>, kind |-> body.kind, author |-> Me, authorized |-> body.subject,
    context |-> ContextOf(body), target |-> TargetOf(body), scope |-> s, state |-> "Active"] :
     s \in ScopesOf(body)}

EuKinds == {"grant_eu_entity", "grant_eu_entity_administration"}

\* The records that belong to a list, before the criteria.
Belongs(body, r) ==
  CASE body.list = "persons" ->
         IF body.type = "PermissionsInCurrentContext"
         THEN r.kind \in {"grant_person", "grant_entity", "grant_indirect"}
         ELSE /\ r.kind \in {"grant_person", "grant_entity", "grant_indirect", "grant_subunit"}
              /\ r.author = Me
    [] body.list = "authorizations" ->
         r.kind = IF body.type = "Granted"
                  THEN "grant_authorization" ELSE "received_authorization"
    [] body.list = "entities" -> r.kind = "received_invoices"
    [] body.list = "personal" ->
         /\ r.kind \in {"grant_person", "grant_indirect", "grant_entity"}
         /\ r.authorized = Me
    [] body.list = "eu_entities" -> r.kind \in EuKinds
    [] body.list = "subordinate_entities" -> r.kind = "subordinate_role"
    [] body.list = "subunits" -> r.kind = "grant_subunit"
    [] body.list = "entity_roles" -> r.kind = "role"

Meets(body, r) ==
  /\ Belongs(body, r)
  /\ \A f \in Criteria : body.where[f] # NoIdentifier => r[f] = body.where[f]
  /\ body.scopes # {} => r.scope \in body.scopes
  /\ body.state # None => r.state = body.state

RecordsOf(n) == {r \in granted : r.id[1] = n}

PendingOp(n) == ops[n].state = "pending"

KSeFGrants(n) ==
  /\ PendingOp(n) /\ ops[n].op = "grant"
  /\ granted' = granted \union Records(n, ops[n].body)
  /\ ops' = [ops EXCEPT ![n].state = "done"]
  /\ UNCHANGED <<confirmed, answer, gone>>

KSeFRevokes(n) ==
  /\ PendingOp(n) /\ ops[n].op = "revoke"
  /\ \E r \in granted :
       /\ r.id = ops[n].id
       /\ (r.kind = "grant_authorization") = (ops[n].branch = "authorizations")
  /\ granted' = {r \in granted : r.id # ops[n].id}
  /\ gone' = gone \union {id \in {ops[n].id} : id[1] # 0}
  /\ ops' = [ops EXCEPT ![n].state = "done"]
  /\ UNCHANGED <<confirmed, answer>>

KSeFRefuses(n) ==
  /\ PendingOp(n)
  /\ ops' = [ops EXCEPT ![n].state = "failed"]
  /\ UNCHANGED <<granted, confirmed, answer, gone>>

OthersGrant(r) ==
  /\ r \notin granted /\ Cardinality(RecordsOf(0)) < MaxOthers
  /\ granted' = granted \union {r}
  /\ UNCHANGED <<ops, confirmed, answer, gone>>

\* People revoke their own records, and now and then one of the caller's.
OthersRevoke(r) ==
  /\ r.id[1] = 0 \/ Cardinality(gone) < MaxRevokes
  /\ r \in granted
  /\ granted' = granted \ {r}
  /\ gone' = gone \union {id \in {r.id} : id[1] # 0}
  /\ UNCHANGED <<ops, confirmed, answer>>

-----------------------------------------------------------------------------
(* The caller and the client.                                              *)

StartedOps(op) == {n \in DOMAIN ops : ops[n].op = op}

Grant(c) ==
  /\ Cardinality(StartedOps("grant")) < MaxGrants
  /\ ops' = Append(ops, [op |-> "grant", call |-> c, body |-> GrantBody(c),
                         state |-> "pending"])
  /\ UNCHANGED <<granted, confirmed, answer, gone>>

Revoke(branch, e) ==
  /\ Cardinality(StartedOps("revoke")) < MaxRevokes
  /\ ops' = Append(ops, [op |-> "revoke", branch |-> branch, id |-> e.id, state |-> "pending"])
  /\ answer' = NoAnswer
  /\ UNCHANGED <<granted, confirmed, gone>>

\* The caller revokes a record of the last listing, and looks at a listing again before the
\* next.
RevokeAuthorization(e) ==
  /\ answer.query.list = "authorizations" /\ answer.query.type = "granted"
  /\ Revoke("authorizations", e)

RevokeCommon(e) ==
  /\ answer.query.list \in {"persons", "personal", "subunits", "eu_entities"}
  /\ Revoke("common", e)

\* Only code 200 says that the operation is done; 100 says that it is not yet, 400 to 450, 500
\* and 550 that it never will be (two of them stand for all).
StatusCode(n) ==
  CASE ops[n].state = "pending" -> {100}
    [] ops[n].state = "done" -> {200}
    [] ops[n].state = "failed" -> {400, 550}

\* Fault: every status but that of a running operation is taken for success.
GetStatusByProgress(n) ==
  /\ \E code \in StatusCode(n) :
       confirmed' = IF code # 100 THEN confirmed \union {n} ELSE confirmed
  /\ UNCHANGED <<granted, ops, answer, gone>>

GetOperationStatus(n) ==
  /\ \E code \in StatusCode(n) :
       confirmed' = IF code = 200 THEN confirmed \union {n} ELSE confirmed
  /\ UNCHANGED <<granted, ops, answer, gone>>

\* One record whose scope the SDK has no word for makes the whole page unreadable.
Readable(list, page) == \A r \in page : r.scope \in DOMAIN ReadScope[list]

Listing(q, page, more) ==
  IF Readable(q.list, page)
  THEN [outcome |-> "page", query |-> q, more |-> more,
        entries |-> {Entry(q.list, r) : r \in page}]
  ELSE [outcome |-> "AssertionError", query |-> q, more |-> FALSE, entries |-> {}]

Found(q) == {r \in granted : Meets(QueryBody(q), r)}

\* The caller reads one page of what meets the query: all of it, or PageSize records.
Query(q) ==
  /\ \E page \in SUBSET Found(q) :
       /\ page = Found(q) \/ (Cardinality(page) = PageSize /\ PageSize < Cardinality(Found(q)))
       /\ answer' = Listing(q, page, page # Found(q))
  /\ UNCHANGED <<granted, ops, confirmed, gone>>

-----------------------------------------------------------------------------
PermissionsInit ==
  /\ granted = {}
  /\ ops = <<>>
  /\ confirmed = {}
  /\ answer = NoAnswer
  /\ gone = {}

PermissionsNext ==
  \/ \E c \in Calls : Grant(c)
  \/ \E e \in answer.entries : RevokeAuthorization(e) \/ RevokeCommon(e)
  \/ \E q \in Queries : Query(q)
  \/ \E n \in DOMAIN ops :
       GetOperationStatus(n) \/ KSeFGrants(n) \/ KSeFRevokes(n) \/ KSeFRefuses(n)
  \/ \E r \in Foreign : OthersGrant(r)
  \/ \E r \in granted : OthersRevoke(r)

PermissionsSpec == PermissionsInit /\ [][PermissionsNext]_permissionsVars

-----------------------------------------------------------------------------
(* Properties.                                                             *)

OpStates == {"pending", "done", "failed"}
Operations ==
  [op : {"grant"}, call : Calls, body : {GrantBody(c) : c \in Calls}, state : OpStates]
  \union [op : {"revoke"}, branch : {"common", "authorizations"}, id : RecordIds,
          state : OpStates]
EntryScopes ==
  {None} \union UNION {{ReadScope[l][s] : s \in DOMAIN ReadScope[l]} : l \in Lists}
Entries ==
  [id : RecordIds, author : Identifiers, authorized : Identifiers, context : Identifiers,
   target : Identifiers, scope : EntryScopes, state : {"active", "inactive", None}]

\* Type invariant.  No record of KSeF has half an identifier, which is what the caller's
\* half-given arguments must not become (to_spec of the grants).
PermissionsTypeOK ==
  /\ granted \subseteq KSeFRecords
  /\ ops \in Seq(Operations)
  /\ confirmed \subseteq DOMAIN ops
  /\ answer \in [outcome : {"none", "page", "AssertionError"}, query : Queries \union {NoQuery},
                 more : BOOLEAN, entries : SUBSET Entries]
  /\ gone \subseteq RecordIds

Given(id) == id.type # None /\ id.value # None

(* What the caller asked for with a grant, in the words of a listing.      *)

\* The target is left out, said in full, or said to be every partner.
Whole(c) ==
  (c.target.type = None) = (c.target.value = None) \/ c.target.type = "all_partners"

AskedScopes(c) ==
  CASE c.op = "grant_subunit" -> {"credentials_manage"}
    [] c.op = "grant_eu_entity_administration" ->
         {"vat_ue_manage", "invoice_write", "invoice_read", "introspection"}
    [] OTHER -> c.scopes

Asked(c) ==
  {[author |-> Read(Me), authorized |-> c.subject,
    context |-> CASE c.op = "grant_authorization" -> Read(Company)
                  [] c.op = "grant_eu_entity" -> Read(EuContext)
                  [] OTHER -> c.context,
    target |-> IF c.op = "grant_indirect" /\ ~Given(c.target)
               THEN [type |-> "all_partners", value |-> None] ELSE c.target,
    scope |-> s, state |-> "active"] : s \in AskedScopes(c)}

Satisfies(d, q) ==
  /\ \A f \in Criteria : Given(q.where[f]) => d[f] = q.where[f]
  /\ q.scopes # {} => d.scope \in q.scopes
  /\ q.state # None => d.state = q.state

\* What the records of each list have room for.
Shows ==
  [persons |-> Criteria \union {"state"}, authorizations |-> {"author", "authorized", "context"},
   personal |-> {"authorized", "context", "target", "state"}, entities |-> {"context"},
   eu_entities |-> {"author", "authorized", "context"}, entity_roles |-> {"context"},
   subunits |-> {"author", "authorized", "context"}, subordinate_entities |-> {"authorized"}]

View(list, d) ==
  [f \in Criteria \union {"scope", "state"} |->
     CASE f = "scope" \/ f \in Shows[list] -> d[f]
       [] f = "state" /\ f \notin Shows[list] -> None
       [] OTHER -> NoIdentifier]

Told(n) == {View(answer.query.list, e) : e \in {d \in answer.entries : d.id[1] = n}}

\* None of the records a grant made has been revoked.
Intact(n) ==
  /\ ops[n].op = "grant"
  /\ Cardinality(RecordsOf(n)) = Cardinality(AskedScopes(ops[n].call))

\* A listing that ends with this page shows of every grant of the caller exactly what the
\* caller asked for, as far as it answers the query: the subject, the context, the target and
\* the scopes went through the tables of the grants, were kept by KSeF, and came back through
\* those of the listings.  Grants whose optional target was given by half are left out:
\* `if request.target_type and request.target_value` sends them without one.
ListsWhatWasAsked ==
  [][answer' # answer /\ answer'.outcome = "page" /\ ~answer'.more =>
       LET q == answer'.query
       IN  \A n \in DOMAIN ops :
             /\ Intact(n) /\ Whole(ops[n].call)
             /\ \A r \in RecordsOf(n) : Belongs(QueryBody(q), r)
             => Told(n)' = {View(q.list, d) : d \in {e \in Asked(ops[n].call) : Satisfies(e, q)}}
    ]_permissionsVars

\* Only a record somebody else made, with a scope the SDK has no word for, makes a page
\* unreadable: no grant of the SDK's own does (assert_never in the listings' mappers).
OnlyForeignScopesBreakAPage ==
  [][answer' # answer /\ answer'.outcome = "AssertionError" =>
       \E r \in granted : r.id[1] = 0 /\ r.scope \notin Words]_permissionsVars

\* An operation whose status was read as done has made every record the caller asked for,
\* until they are revoked; a grant the caller believes in was never refused.
ConfirmedIsInForce ==
  \A n \in confirmed : ops[n].op = "grant" =>
    Cardinality({r.id : r \in RecordsOf(n)} \union {id \in gone : id[1] = n})
      = Cardinality(AskedScopes(ops[n].call))
=============================================================================

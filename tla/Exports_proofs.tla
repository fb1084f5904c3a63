--------------------------- MODULE Exports_proofs ---------------------------
(***************************************************************************)
(* Proofs about Exports for any number of tasks and exports, any filters,  *)
(* invoices and layouts.  What a task is doing is judged by itself,        *)
(* against the requests and exports there are: a step of one task leaves   *)
(* the others as they were, and a step of KSeF only adds to the exports.   *)
(***************************************************************************)
EXTENDS Exports, TLAPS

Places == {"idle", "schedule"} \union HasExport

Selected(f) == {i \in Invoices : Selects(QueryFilters(f), i)}

\* What is asked for under a key is what a filter selects.
AskedFor(key, f, s, x) ==
  /\ \A r \in s : r.key = key => r.body = QueryFilters(f)
  /\ \A ref \in 1..Len(x) : x[ref].key = key => x[ref].of = Selected(f)

\* A call that asks for an export.
AskOK(p, c, n, s, x) ==
  /\ c.key \in 0..n
  /\ p = "idle" => c = NoCall
  /\ p = "schedule" => c.ref = 0 /\ c.filter \in Filters /\ AskedFor(c.key, c.filter, s, x)
  /\ c.op = "export_and_download" /\ c.ref # 0 =>
       c.filter \in Filters /\ c.ref \in 1..Len(x) /\ x[c.ref].of = Selected(c.filter)

\* A call that has an export: its key opens it.
HandleOK(p, c, x) ==
  p \in HasExport => c.ref \in 1..Len(x) /\ x[c.ref].key = c.key

\* How far a call has got with the parts of its package.
ProgressOK(p, c, x) ==
  /\ p \in {"schedule", "wait"} => c.got = <<>>
  /\ p \in {"fetch", "write", "returned"} =>
       /\ x[c.ref].parts # <<>>
       /\ Len(c.got) <= Len(x[c.ref].parts)
       /\ c.op # "fetch_package" => \A i \in 1..Len(c.got) : c.got[i] = <<c.ref, i>>
       /\ c.op = "fetch_package" => \A i \in 1..Len(c.got) : c.got[i] \in Files
  /\ p = "write" =>
       /\ Len(c.got) < Len(x[c.ref].parts)
       /\ c.op = "fetch_package"
       /\ x[c.ref].parts[Len(c.got) + 1].base \in Files
  /\ p = "returned" => Len(c.got) = Len(x[c.ref].parts)

CallOK(p, c, n, s, x) ==
  /\ p \in Places /\ c \in AllCalls
  /\ AskOK(p, c, n, s, x) /\ HandleOK(p, c, x) /\ ProgressOK(p, c, x)

CallsInv ==
  /\ pc \in [Tasks -> Places]
  /\ call \in [Tasks -> AllCalls]
  /\ \A t \in Tasks : CallOK(pc[t], call[t], keys, sent, exports)

\* A key is in one request or one export.
KeysInv ==
  /\ keys \in 0..MaxExports
  /\ sent \subseteq [key : Nat, body : Bodies]
  /\ exports \in Seq(AllExports)
  /\ \A r \in sent : r.key \in 1..keys
  /\ \A ref \in Refs : exports[ref].key \in 1..keys
  /\ \A r, q \in sent : r.key = q.key => r = q
  /\ \A r \in sent, ref \in Refs : r.key # exports[ref].key
  /\ \A r, s \in Refs : exports[r].key = exports[s].key => r = s
  /\ \A ref \in Refs :
       exports[ref].parts # <<>> => exports[ref].status = "ready" /\ exports[ref].of # {}

\* What the application holds.
HeldInv ==
  /\ handles \subseteq [ref : Nat, key : Nat]
  /\ packages \subseteq Nat
  /\ \A handle \in handles : handle.ref \in Refs /\ exports[handle.ref].key = handle.key
  /\ \A ref \in packages : ref \in Refs /\ exports[ref].parts # <<>>

FilesTyped == disk \in [Files -> Contents] /\ shared \subseteq Tasks

IInv == CallsInv /\ KeysInv /\ HeldInv /\ FilesTyped

-----------------------------------------------------------------------------
\* A step of one task: only its own call has to be looked at.
LEMMA StepOfATask ==
  ASSUME CallsInv, NEW t \in Tasks, NEW p, NEW c,
         pc' = [pc EXCEPT ![t] = p], call' = [call EXCEPT ![t] = c],
         UNCHANGED <<keys, sent, exports>>, CallOK(p, c, keys, sent, exports)
  PROVE  CallsInv'
<1>1. pc' \in [Tasks -> Places] /\ call' \in [Tasks -> AllCalls]
  BY DEF CallsInv, CallOK
<1>2. ASSUME NEW u \in Tasks PROVE CallOK(pc'[u], call'[u], keys, sent, exports)
  <2>1. CASE u = t
    BY <2>1 DEF CallsInv
  <2>2. CASE u # t
    BY <2>2 DEF CallsInv
  <2> QED
    BY <2>1, <2>2
<1> QED
  BY <1>1, <1>2 DEF CallsInv

\* A task that gives up, or is done, is doing nothing.
LEMMA NothingIsOK == KeysInv => CallOK("idle", NoCall, keys, sent, exports)
<1> SUFFICES ASSUME KeysInv PROVE CallOK("idle", NoCall, keys, sent, exports)
  OBVIOUS
<1>1. NoCall \in AllCalls
  BY DEF NoCall, Call, NoHandle, AllCalls
<1> QED
  BY <1>1, ExportsAreCounted DEF KeysInv, CallOK, AskOK, HandleOK, ProgressOK, NoCall, Call, NoHandle, Places, HasExport

LEMMA Idles ==
  ASSUME CallsInv, KeysInv, NEW t \in Tasks, GoesIdle(t), UNCHANGED <<keys, sent, exports>>
  PROVE  CallsInv'
<1>1. pc' = [pc EXCEPT ![t] = "idle"] /\ call' = [call EXCEPT ![t] = NoCall]
  BY DEF GoesIdle, Goes
<1> QED
  BY <1>1, NothingIsOK, StepOfATask

\* A step of KSeF: exports are added for requests, and what is known of one stays.
LEMMA StepOfKSeF ==
  ASSUME CallsInv, UNCHANGED <<pc, call, keys>>, sent' \subseteq sent,
         Len(exports) \in Nat, Len(exports') \in Nat, Len(exports) <= Len(exports'),
         \A ref \in Refs :
           /\ exports'[ref].key = exports[ref].key
           /\ exports'[ref].of = exports[ref].of
           /\ exports[ref].parts # <<>> => exports'[ref].parts = exports[ref].parts,
         \A ref \in 1..Len(exports') : ref \notin Refs =>
           \E r \in sent : /\ exports'[ref].key = r.key
                           /\ exports'[ref].of = {i \in Invoices : Selects(r.body, i)}
  PROVE  CallsInv'
<1> SUFFICES ASSUME NEW t \in Tasks PROVE CallOK(pc[t], call[t], keys, sent', exports')
  BY DEF CallsInv
<1>0. CallOK(pc[t], call[t], keys, sent, exports)
  BY DEF CallsInv
<1>1. HandleOK(pc[t], call[t], exports')
  BY <1>0 DEF CallOK, HandleOK, Refs
<1>2. ProgressOK(pc[t], call[t], exports')
  <2>1. pc[t] \in {"fetch", "write", "returned"} =>
          exports'[call[t].ref].parts = exports[call[t].ref].parts
    BY <1>0 DEF CallOK, HandleOK, ProgressOK, HasExport, Refs
  <2> QED
    BY <1>0, <2>1 DEF CallOK, ProgressOK
<1>3. AskOK(pc[t], call[t], keys, sent', exports')
  <2>1. ASSUME NEW f, AskedFor(call[t].key, f, sent, exports)
        PROVE  AskedFor(call[t].key, f, sent', exports')
    <3>1. ASSUME NEW ref \in 1..Len(exports'), exports'[ref].key = call[t].key
          PROVE  exports'[ref].of = Selected(f)
      <4>1. CASE ref \in Refs
        BY <2>1, <3>1, <4>1 DEF AskedFor, Refs
      <4>2. CASE ref \notin Refs
        BY <2>1, <3>1, <4>2 DEF AskedFor, Selected
      <4> QED
        BY <4>1, <4>2
    <3> QED
      BY <2>1, <3>1 DEF AskedFor
  <2> QED
    BY <1>0, <2>1 DEF CallOK, AskOK, Refs
<1> QED
  BY <1>0, <1>1, <1>2, <1>3 DEF CallOK

\* What is asked, and what the application holds, stay as long as they are left alone.
LEMMA KeysStay == KeysInv /\ UNCHANGED <<keys, sent, exports>> => KeysInv'
BY DEF KeysInv, Refs

LEMMA HeldStays == HeldInv /\ UNCHANGED <<handles, packages, exports>> => HeldInv'
BY DEF HeldInv, Refs

-----------------------------------------------------------------------------
LEMMA InitInv == Init => IInv
<1> SUFFICES ASSUME Init PROVE IInv
  OBVIOUS
<1>1. exports \in Seq(AllExports) /\ Len(exports) = 0
  BY DEF Init
<1>2. KeysInv
  BY <1>1, ExportsAreCounted DEF Init, KeysInv, Refs
<1>3. CallsInv
  <2>1. CallOK("idle", NoCall, keys, sent, exports)
    BY <1>2, NothingIsOK
  <2> QED
    BY <2>1 DEF Init, CallsInv, CallOK
<1>4. HeldInv
  BY DEF Init, HeldInv
<1>5. FilesTyped
  BY DEF Init, FilesTyped, Contents, Content, NoPart
<1> QED
  BY <1>2, <1>3, <1>4, <1>5 DEF IInv

LEMMA ScheduleInv ==
  ASSUME IInv, NEW t \in Tasks, NEW op \in {"schedule_export", "export_and_download"},
         NEW filter \in Asks[op], Schedule(t, op, filter)
  PROVE  IInv'
<1> DEFINE request == [key |-> keys + 1, body |-> QueryFilters(filter)]
           c == Call(op, filter, [ref |-> 0, key |-> keys + 1])
<1>0. CallsInv /\ KeysInv /\ HeldInv /\ FilesTyped
  BY DEF IInv
<1>1. /\ keys' = keys + 1 /\ sent' = sent \union {request} /\ UNCHANGED exports
      /\ pc' = [pc EXCEPT ![t] = "schedule"] /\ call' = [call EXCEPT ![t] = c]
  BY DEF Schedule, Goes
<1>2. filter \in Filters /\ QueryFilters(filter) \in Bodies
  BY DEF Filters, Bodies
<1>3. keys + 1 \in 1..MaxExports /\ keys \in Nat
  BY <1>0, ExportsAreCounted DEF Schedule, KeysInv
<1>4. KeysInv'
  <2>1. request \in [key : Nat, body : Bodies] /\ request.key = keys + 1
    BY <1>2, <1>3
  <2>2. \A r \in sent' : (r \in sent /\ r.key \in 1..keys) \/ r = request
    BY <1>0, <1>1 DEF KeysInv
  <2>3. keys' \in 0..MaxExports /\ sent' \subseteq [key : Nat, body : Bodies]
    BY <1>0, <1>1, <1>3, <2>1 DEF KeysInv
  <2>4. \A r \in sent' : r.key \in 1..keys'
    BY <1>1, <1>3, <2>1, <2>2
  <2>5. \A ref \in Refs : exports[ref].key \in 1..keys /\ exports[ref].key # keys + 1
    BY <1>0, <1>3 DEF KeysInv
  <2>6. \A r, q \in sent' : r.key = q.key => r = q
    BY <1>0, <1>3, <2>1, <2>2 DEF KeysInv
  <2>7. \A r \in sent', ref \in Refs : r.key # exports[ref].key
    BY <1>0, <2>1, <2>2, <2>5 DEF KeysInv
  <2>8. \A ref \in Refs : exports[ref].key \in 1..keys'
    BY <1>1, <1>3, <2>5
  <2> QED
    BY <1>0, <1>1, <2>3, <2>4, <2>6, <2>7, <2>8 DEF KeysInv, Refs
<1>5. CallsInv'
  <2>1. /\ c.op = op /\ c.filter = filter /\ c.key = keys + 1 /\ c.ref = 0 /\ c.got = <<>>
        /\ c \in AllCalls
    BY <1>2, <1>3 DEF Call, AllCalls, Ops
  <2>2. AskedFor(keys + 1, filter, sent', exports)
    BY <1>0, <1>1, <1>3 DEF AskedFor, KeysInv, Refs
  <2>3. CallOK("schedule", c, keys', sent', exports)
    BY <1>1, <1>2, <1>3, <2>1, <2>2
    DEF CallOK, AskOK, HandleOK, ProgressOK, Places, HasExport
  <2>4. ASSUME NEW u \in Tasks \ {t} PROVE CallOK(pc[u], call[u], keys', sent', exports)
    <3>1. CallOK(pc[u], call[u], keys, sent, exports)
      BY <1>0 DEF CallsInv
    <3>2. call[u].key \in 0..keys /\ call[u].key # keys + 1 /\ call[u].key \in 0..keys'
      BY <1>1, <1>3, <3>1 DEF CallOK, AskOK
    <3>3. \A f : AskedFor(call[u].key, f, sent, exports) => AskedFor(call[u].key, f, sent', exports)
      BY <1>1, <3>2 DEF AskedFor
    <3> QED
      BY <3>1, <3>2, <3>3 DEF CallOK, AskOK
  <2> QED
    BY <1>0, <1>1, <2>1, <2>3, <2>4 DEF CallsInv, Places
<1>6. HeldInv' /\ FilesTyped'
  BY <1>0, HeldStays DEF Schedule, FilesTyped, unchangedFiles
<1> QED
  BY <1>4, <1>5, <1>6 DEF IInv

LEMMA ScheduleAnsweredInv ==
  ASSUME IInv, NEW t \in Tasks, ScheduleAnswered(t)
  PROVE  IInv'
<1>0. CallsInv /\ KeysInv /\ HeldInv /\ FilesTyped
  BY DEF IInv
<1>1. PICK ref \in DOMAIN exports :
        /\ pc[t] = "schedule"
        /\ exports[ref].key = call[t].key
        /\ \/ /\ call[t].op = "schedule_export"
              /\ handles' = handles \union {ExportHandle(t, ref)}
              /\ GoesIdle(t)
           \/ /\ call[t].op = "export_and_download"
              /\ Goes(t, "wait")
              /\ call' = [call EXCEPT ![t].ref = ref, ![t].key = ExportHandle(t, ref).key]
              /\ UNCHANGED handles
  BY DEF ScheduleAnswered
<1>2. UNCHANGED <<keys, sent, exports, packages, disk, shared>>
  BY DEF ScheduleAnswered, unchangedKSeF, unchangedFiles
<1>3. ref \in Refs /\ ref \in Nat
  BY <1>0 DEF KeysInv, Refs
<1>4. CallOK("schedule", call[t], keys, sent, exports) /\ call[t].key \in Nat
  BY <1>0, <1>1 DEF CallsInv, CallOK, AllCalls
<1>5. CallsInv'
  <2>1. CASE GoesIdle(t)
    BY <1>0, <1>2, <2>1, Idles
  <2>2. CASE /\ call[t].op = "export_and_download"
             /\ Goes(t, "wait")
             /\ call' = [call EXCEPT ![t].ref = ref, ![t].key = ExportHandle(t, ref).key]
    <3> DEFINE c == [call[t] EXCEPT !.ref = ref, !.key = call[t].key]
    <3>1. call' = [call EXCEPT ![t] = c] /\ pc' = [pc EXCEPT ![t] = "wait"]
      BY <1>0, <2>2 DEF ExportHandle, CallsInv, Goes
    <3>2. /\ c \in AllCalls /\ c.ref = ref /\ c.key = call[t].key /\ c.op = call[t].op
          /\ c.filter = call[t].filter /\ c.got = call[t].got
      BY <1>3, <1>4 DEF CallOK, AllCalls
    <3>3. c.got = <<>>
      BY <1>4, <3>2 DEF CallOK, ProgressOK
    <3>4. CallOK("wait", c, keys, sent, exports)
      BY <1>1, <1>3, <1>4, <3>2, <3>3
      DEF CallOK, AskOK, AskedFor, HandleOK, ProgressOK, Places, HasExport, Refs
    <3> QED
      BY <1>0, <1>2, <3>1, <3>4, StepOfATask
  <2> QED
    BY <1>1, <2>1, <2>2
<1>6. HeldInv'
  BY <1>0, <1>1, <1>2, <1>3, <1>4 DEF HeldInv, ExportHandle, Refs
<1> QED
  BY <1>0, <1>2, <1>5, <1>6, KeysStay DEF IInv, FilesTyped

\* The handle a task takes up is one the application holds.
LEMMA TakesUp ==
  ASSUME IInv, NEW t \in Tasks, NEW op \in {"wait", "fetch_package", "fetch_package_bytes"},
         NEW handle \in handles, NEW place \in {"wait", "fetch"},
         place = "fetch" => handle.ref \in packages, Goes(t, place),
         call' = [call EXCEPT ![t] = Call(op, None, handle)], UNCHANGED <<keys, sent, exports>>
  PROVE  CallsInv'
<1> DEFINE c == Call(op, None, handle)
<1>0. CallsInv /\ KeysInv /\ HeldInv
  BY DEF IInv
<1>1. /\ handle.ref \in Refs /\ handle.ref \in Nat /\ handle.key \in Nat
      /\ exports[handle.ref].key = handle.key
  BY <1>0 DEF HeldInv
<1>2. handle.key \in 0..keys
  BY <1>0, <1>1 DEF KeysInv
<1>3. /\ c \in AllCalls /\ c.op = op /\ c.ref = handle.ref /\ c.key = handle.key
      /\ c.got = <<>> /\ Len(c.got) = 0
  BY <1>1 DEF Call, AllCalls, Ops
<1>4. /\ place = "fetch" => exports[handle.ref].parts # <<>>
      /\ Len(exports[handle.ref].parts) \in Nat
  BY <1>0, <1>1, LayoutsNameFiles DEF HeldInv, KeysInv, AllExports, Refs
<1>5. CallOK(place, c, keys, sent, exports)
  <2> HIDE DEF c
  <2> QED
    BY <1>1, <1>2, <1>3, <1>4 DEF CallOK, AskOK, HandleOK, ProgressOK, Places, HasExport, Refs
<1>6. pc' = [pc EXCEPT ![t] = place] /\ call' = [call EXCEPT ![t] = c]
  BY DEF Goes
<1> QED
  BY <1>0, <1>5, <1>6, StepOfATask

\* A task that goes on with the same call.
LEMMA GoesOn ==
  ASSUME CallsInv, NEW t \in Tasks, NEW place, Goes(t, place), UNCHANGED <<call, keys, sent, exports>>,
         CallOK(place, call[t], keys, sent, exports)
  PROVE  CallsInv'
<1>1. call' = [call EXCEPT ![t] = call[t]] /\ pc' = [pc EXCEPT ![t] = place]
  BY DEF CallsInv, Goes
<1> QED
  BY <1>1, StepOfATask

LEMMA PackageReadyInv ==
  ASSUME IInv, NEW t \in Tasks, PackageReady(t)
  PROVE  IInv'
<1>0. CallsInv /\ KeysInv /\ HeldInv /\ FilesTyped
  BY DEF IInv
<1>1. /\ pc[t] = "wait" /\ exports[call[t].ref].parts # <<>>
      /\ UNCHANGED <<keys, sent, exports, handles, disk, shared>>
  BY DEF PackageReady, IsReady, unchangedKSeF, unchangedFiles
<1>2. /\ CallOK("wait", call[t], keys, sent, exports) /\ call[t].ref \in Refs
      /\ call[t].ref \in Nat /\ call[t].got = <<>> /\ Len(call[t].got) = 0
  BY <1>0, <1>1 DEF CallsInv, CallOK, HandleOK, ProgressOK, HasExport, AllCalls, Refs
<1>3. CallsInv'
  <2>1. CASE GoesIdle(t)
    BY <1>0, <1>1, <2>1, Idles
  <2>2. CASE call[t].op = "export_and_download" /\ Goes(t, "fetch") /\ UNCHANGED call
    <3>1. Len(exports[call[t].ref].parts) \in Nat
      BY <1>0, <1>2, LayoutsNameFiles DEF KeysInv, AllExports, Refs
    <3>2. CallOK("fetch", call[t], keys, sent, exports)
      BY <1>1, <1>2, <2>2, <3>1
      DEF CallOK, AskOK, HandleOK, ProgressOK, Places, HasExport
    <3> QED
      BY <1>0, <1>1, <2>2, <3>2, GoesOn
  <2> QED
    BY <2>1, <2>2 DEF PackageReady
<1>4. HeldInv'
  BY <1>0, <1>1, <1>2 DEF HeldInv, PackageReady, Refs
<1> QED
  BY <1>0, <1>1, <1>3, <1>4, KeysStay DEF IInv, FilesTyped

\* The part that has arrived is one the package has.
LEMMA PartArrived ==
  ASSUME IInv, NEW t \in Tasks, pc[t] \in {"fetch", "write"},
         Len(call[t].got) < Len(exports[call[t].ref].parts)
  PROVE  /\ CallOK(pc[t], call[t], keys, sent, exports)
         /\ call[t] \in AllCalls /\ call[t].ref \in Refs /\ call[t].ref \in Nat
         /\ call[t].got \in Seq(Files \union Nat \X Nat) /\ Len(call[t].got) \in Nat
         /\ Len(exports[call[t].ref].parts) \in Nat
         /\ PartName(t).base \in Files \union Unnameable
         /\ Part(t) = <<call[t].ref, Len(call[t].got) + 1>> /\ Part(t) \in Nat \X Nat
         /\ File(t) = PartName(t).base
<1>1. CallOK(pc[t], call[t], keys, sent, exports)
  BY DEF IInv, CallsInv
<1>2. call[t] \in AllCalls /\ call[t].ref \in Refs
  BY <1>1 DEF CallOK, HandleOK, HasExport, Refs
<1>3. call[t].ref \in Nat /\ call[t].got \in Seq(Files \union Nat \X Nat) /\ Len(call[t].got) \in Nat
  BY <1>2 DEF AllCalls
<1>4. exports[call[t].ref].parts \in Layouts
  <2>1. exports[call[t].ref].parts # <<>>
    BY <1>1 DEF CallOK, ProgressOK
  <2>2. exports \in Seq(AllExports) /\ call[t].ref \in 1..Len(exports)
    BY <1>2 DEF IInv, KeysInv, Refs
  <2>3. exports[call[t].ref] \in AllExports
    BY <2>2
  <2> QED
    BY <2>1, <2>3 DEF AllExports
<1>5. /\ Len(exports[call[t].ref].parts) \in Nat
      /\ Len(call[t].got) + 1 \in DOMAIN exports[call[t].ref].parts
  BY <1>3, <1>4, LayoutsNameFiles
<1>6. PartName(t).base \in Files \union Unnameable
  BY <1>4, <1>5, LayoutsNameFiles DEF PartName
<1> QED
  BY <1>1, <1>2, <1>3, <1>5, <1>6 DEF Part, File, SafePartFilename

\* One more part is noted.
LEMMA Noted ==
  ASSUME IInv, NEW t \in Tasks, pc[t] \in {"fetch", "write"},
         Len(call[t].got) < Len(exports[call[t].ref].parts),
         NEW item \in Files \union Nat \X Nat, Gets(t, item), pc' = [pc EXCEPT ![t] = "fetch"],
         call[t].op = "fetch_package" => item \in Files,
         call[t].op # "fetch_package" => item = Part(t),
         UNCHANGED <<keys, sent, exports>>
  PROVE  CallsInv'
<1> DEFINE c == [call[t] EXCEPT !.got = Append(call[t].got, item)]
<1>0. CallsInv /\ KeysInv
  BY DEF IInv
<1>1. call' = [call EXCEPT ![t] = c]
  BY <1>0 DEF Gets, CallsInv
<1>2. /\ CallOK(pc[t], call[t], keys, sent, exports)
      /\ call[t] \in AllCalls /\ call[t].ref \in Refs
      /\ call[t].got \in Seq(Files \union Nat \X Nat) /\ Len(call[t].got) \in Nat
      /\ Len(exports[call[t].ref].parts) \in Nat
      /\ Part(t) = <<call[t].ref, Len(call[t].got) + 1>>
  BY PartArrived
<1>3. /\ Append(call[t].got, item) \in Seq(Files \union Nat \X Nat)
      /\ Len(Append(call[t].got, item)) = Len(call[t].got) + 1
      /\ \A i \in 1..Len(call[t].got) + 1 :
           Append(call[t].got, item)[i] = IF i = Len(call[t].got) + 1 THEN item ELSE call[t].got[i]
  BY <1>2
<1>4. /\ c \in AllCalls /\ c.op = call[t].op /\ c.ref = call[t].ref /\ c.key = call[t].key
      /\ c.filter = call[t].filter /\ c.got = Append(call[t].got, item)
  BY <1>2, <1>3 DEF AllCalls
<1>5. CallOK("fetch", c, keys, sent, exports)
  <2> HIDE DEF c
  <2>1. AskOK("fetch", c, keys, sent, exports) /\ HandleOK("fetch", c, exports)
    BY <1>2, <1>4 DEF CallOK, AskOK, HandleOK, HasExport
  <2>2. ProgressOK("fetch", c, exports)
    <3>1. \A i \in 1..Len(c.got) : i \in 1..Len(call[t].got) \/ i = Len(call[t].got) + 1
      BY <1>2, <1>3, <1>4
    <3>2. c.op # "fetch_package" => \A i \in 1..Len(c.got) : c.got[i] = <<c.ref, i>>
      BY <1>2, <1>3, <1>4, <3>1 DEF CallOK, ProgressOK
    <3>3. c.op = "fetch_package" => \A i \in 1..Len(c.got) : c.got[i] \in Files
      BY <1>2, <1>3, <1>4, <3>1 DEF CallOK, ProgressOK
    <3>4. exports[c.ref].parts # <<>> /\ Len(c.got) <= Len(exports[c.ref].parts)
      BY <1>2, <1>3, <1>4 DEF CallOK, ProgressOK
    <3> QED
      BY <3>2, <3>3, <3>4 DEF ProgressOK
  <2> QED
    BY <1>4, <2>1, <2>2 DEF CallOK, Places, HasExport
<1> QED
  BY <1>0, <1>1, <1>5, StepOfATask

LEMMA DecryptToMemoryInv ==
  ASSUME IInv, NEW t \in Tasks, DecryptToMemory(t)
  PROVE  IInv'
<1>0. CallsInv /\ KeysInv /\ HeldInv /\ FilesTyped
  BY DEF IInv
<1>1. /\ pc[t] = "fetch" /\ Len(call[t].got) < Len(exports[call[t].ref].parts)
      /\ call[t].op # "fetch_package" /\ Gets(t, Part(t))
      /\ UNCHANGED <<pc, keys, sent, exports, handles, packages, disk, shared>>
  BY DEF DecryptToMemory, PartArrives, unchangedKSeF, unchangedFiles, unchangedApplication
<1>2. pc' = [pc EXCEPT ![t] = "fetch"]
  BY <1>0, <1>1 DEF CallsInv
<1>3. Part(t) \in Nat \X Nat
  BY <1>1, PartArrived
<1>4. CallsInv'
  BY <1>1, <1>2, <1>3, Noted
<1> QED
  BY <1>0, <1>1, <1>4, KeysStay, HeldStays DEF IInv, FilesTyped

LEMMA OpenFileInv ==
  ASSUME IInv, NEW t \in Tasks, OpenFile(t)
  PROVE  IInv'
<1>0. CallsInv /\ KeysInv /\ HeldInv /\ FilesTyped
  BY DEF IInv
<1>1. /\ pc[t] = "fetch" /\ Len(call[t].got) < Len(exports[call[t].ref].parts)
      /\ call[t].op = "fetch_package" /\ PartName(t).base \notin Unnameable
      /\ disk' = [disk EXCEPT ![File(t)] = Content("cut", NoPart)]
      /\ Goes(t, "write")
      /\ UNCHANGED <<call, keys, sent, exports, handles, packages>>
  BY DEF OpenFile, PartArrives, unchangedKSeF, unchangedApplication
<1>2. /\ CallOK("fetch", call[t], keys, sent, exports)
      /\ PartName(t).base \in Files /\ File(t) = PartName(t).base
  BY <1>1, PartArrived
<1>3. CallOK("write", call[t], keys, sent, exports)
  BY <1>1, <1>2 DEF CallOK, AskOK, HandleOK, ProgressOK, Places, HasExport, PartName
<1>4. CallsInv'
  BY <1>0, <1>1, <1>3, GoesOn
<1>5. FilesTyped'
  <2>1. shared' \subseteq Tasks
    BY <1>0 DEF OpenFile, FilesTyped
  <2> QED
    BY <1>0, <1>1, <2>1 DEF FilesTyped, Contents, Content, NoPart
<1> QED
  BY <1>0, <1>1, <1>4, <1>5, KeysStay, HeldStays DEF IInv

LEMMA WriteFileInv ==
  ASSUME IInv, NEW t \in Tasks, WriteFile(t)
  PROVE  IInv'
<1>0. CallsInv /\ KeysInv /\ HeldInv /\ FilesTyped
  BY DEF IInv
<1>1. /\ pc[t] = "write" /\ pc' = [pc EXCEPT ![t] = "fetch"] /\ Gets(t, File(t))
      /\ UNCHANGED <<keys, sent, exports, handles, packages, shared>>
  BY DEF WriteFile, Goes, unchangedKSeF, unchangedApplication
<1>2. /\ Len(call[t].got) < Len(exports[call[t].ref].parts) /\ call[t].op = "fetch_package"
      /\ exports[call[t].ref].parts[Len(call[t].got) + 1].base \in Files
  BY <1>0, <1>1 DEF CallsInv, CallOK, ProgressOK
<1>3. File(t) \in Files /\ Part(t) \in Nat \X Nat
  BY <1>1, <1>2, PartArrived DEF PartName
<1>4. CallsInv'
  BY <1>1, <1>2, <1>3, Noted
<1>5. FilesTyped'
  <2>1. \A content \in Overwritten(t) : content \in Contents
    BY <1>3 DEF Overwritten, Contents, Content, NoPart
  <2> QED
    BY <1>0, <1>1, <2>1 DEF WriteFile, FilesTyped
<1> QED
  BY <1>0, <1>1, <1>4, <1>5, KeysStay, HeldStays DEF IInv

LEMMA WriteFailsInv ==
  ASSUME IInv, NEW t \in Tasks, WriteFails(t)
  PROVE  IInv'
<1>0. CallsInv /\ KeysInv /\ HeldInv /\ FilesTyped
  BY DEF IInv
<1>1. GoesIdle(t) /\ UNCHANGED <<keys, sent, exports, handles, packages, shared>>
  BY DEF WriteFails, unchangedKSeF, unchangedApplication
<1>2. FilesTyped'
  <2>1. PICK content \in {disk[File(t)], Content("mixed", NoPart)} :
          disk' = [disk EXCEPT ![File(t)] = content]
    BY DEF WriteFails
  <2>2. CASE File(t) \in Files
    <3>1. content \in Contents
      BY <1>0, <2>2 DEF FilesTyped, Contents, Content, NoPart
    <3> QED
      BY <1>0, <1>1, <2>1, <3>1 DEF FilesTyped
  <2>3. CASE File(t) \notin Files
    BY <1>0, <1>1, <2>1, <2>3 DEF FilesTyped
  <2> QED
    BY <2>2, <2>3
<1> QED
  BY <1>0, <1>1, <1>2, Idles, KeysStay, HeldStays DEF IInv

LEMMA FetchReturnsInv ==
  ASSUME IInv, NEW t \in Tasks, FetchReturns(t)
  PROVE  IInv'
<1>0. CallsInv /\ KeysInv /\ HeldInv /\ FilesTyped
  BY DEF IInv
<1>1. /\ pc[t] = "fetch" /\ Len(call[t].got) = Len(exports[call[t].ref].parts)
      /\ Goes(t, "returned")
      /\ UNCHANGED <<call, keys, sent, exports, handles, packages, disk, shared>>
  BY DEF FetchReturns, unchangedKSeF, unchangedApplication, unchangedFiles
<1>2. CallOK("fetch", call[t], keys, sent, exports)
  BY <1>0, <1>1 DEF CallsInv
<1>3. CallOK("returned", call[t], keys, sent, exports)
  BY <1>1, <1>2 DEF CallOK, AskOK, HandleOK, ProgressOK, Places, HasExport
<1>4. CallsInv'
  BY <1>0, <1>1, <1>3, GoesOn
<1> QED
  BY <1>0, <1>1, <1>4, KeysStay, HeldStays DEF IInv, FilesTyped

\* A task stops what it was doing.
LEMMA StopInv ==
  ASSUME IInv, NEW t \in Tasks, ScheduleFails(t) \/ WaitFails(t) \/ FetchFails(t) \/ Done(t)
  PROVE  IInv'
<1>1. /\ GoesIdle(t) /\ UNCHANGED <<keys, sent, exports, handles, packages, disk>>
      /\ shared' \subseteq shared
  BY DEF ScheduleFails, WaitFails, FetchFails, Done, unchangedKSeF, unchangedApplication,
     unchangedFiles
<1>2. CallsInv'
  BY <1>1, Idles DEF IInv
<1> QED
  BY <1>1, <1>2, KeysStay, HeldStays DEF IInv, FilesTyped

LEMMA KSeFInv ==
  ASSUME IInv, KSeF
  PROVE  IInv'
<1>0. CallsInv /\ KeysInv /\ HeldInv /\ FilesTyped
  BY DEF IInv
<1>1. /\ exports \in Seq(AllExports) /\ Len(exports) \in Nat
      /\ \A ref \in Refs : exports[ref] \in AllExports
  BY <1>0 DEF KeysInv, Refs
<1>2. ASSUME NEW request \in sent, KSeFAccepts(request)
      PROVE  IInv'
  <2> DEFINE new == [key |-> request.key, status |-> "processing", parts |-> <<>>,
                     of |-> {i \in Invoices : Selects(request.body, i)}]
  <2>1. /\ sent' = sent \ {request} /\ exports' = Append(exports, new)
        /\ UNCHANGED <<keys, handles, packages, pc, call, disk, shared>>
    BY <1>2 DEF KSeFAccepts, unchangedClient
  <2>2. request.key \in 1..keys /\ request.key \in Nat
    BY <1>0 DEF KeysInv
  <2>3. /\ new \in AllExports /\ new.key = request.key /\ new.parts = <<>>
        /\ new.of = {i \in Invoices : Selects(request.body, i)}
    BY <2>2 DEF AllExports, Statuses
  <2>4. /\ exports' \in Seq(AllExports) /\ Len(exports') = Len(exports) + 1
        /\ \A ref \in Refs : ref \in 1..Len(exports') /\ exports'[ref] = exports[ref]
        /\ \A ref \in 1..Len(exports') : ref \in Refs \/ ref = Len(exports) + 1
        /\ exports'[Len(exports) + 1] = new
    <3> HIDE DEF new
    <3> QED
      BY <1>1, <2>1, <2>3 DEF Refs
  <2> HIDE DEF new
  <2>5. CallsInv'
    BY <1>0, <1>1, <2>1, <2>3, <2>4, StepOfKSeF
  <2>6. KeysInv'
    <3>1. \A ref \in 1..Len(exports') : exports'[ref].key = request.key => ref = Len(exports) + 1
      BY <1>0, <2>4 DEF KeysInv
    <3>2. \A r \in sent' : r \in sent /\ r.key # request.key
      BY <1>0, <2>1 DEF KeysInv
    <3>3. \A r \in sent', ref \in 1..Len(exports') : r.key # exports'[ref].key
      BY <1>0, <2>3, <2>4, <3>2 DEF KeysInv
    <3>4. \A r, q \in 1..Len(exports') : exports'[r].key = exports'[q].key => r = q
      BY <1>0, <2>3, <2>4, <3>1 DEF KeysInv
    <3>5. \A ref \in 1..Len(exports') : /\ exports'[ref].key \in 1..keys
                                        /\ exports'[ref].parts # <<>> =>
                                             exports'[ref].status = "ready" /\ exports'[ref].of # {}
      BY <1>0, <2>2, <2>3, <2>4 DEF KeysInv
    <3> QED
      BY <1>0, <2>1, <2>4, <3>3, <3>4, <3>5 DEF KeysInv, Refs
  <2>7. HeldInv'
    BY <1>0, <2>1, <2>4 DEF HeldInv, Refs
  <2> QED
    BY <1>0, <2>1, <2>5, <2>6, <2>7 DEF IInv, FilesTyped
<1>3. ASSUME NEW request \in sent, RequestIsLost(request)
      PROVE  IInv'
  <2>1. /\ sent' \subseteq sent
        /\ UNCHANGED <<exports, keys, handles, packages, pc, call, disk, shared>>
    BY <1>3 DEF RequestIsLost, unchangedClient
  <2>2. CallsInv'
    BY <1>0, <1>1, <2>1, StepOfKSeF DEF Refs
  <2>3. KeysInv'
    BY <1>0, <2>1 DEF KeysInv, Refs
  <2> QED
    BY <1>0, <2>1, <2>2, <2>3, HeldStays DEF IInv, FilesTyped
<1>4. ASSUME NEW ref \in DOMAIN exports, NEW new \in AllExports,
             exports[ref].status = "processing",
             new.key = exports[ref].key, new.of = exports[ref].of,
             new.parts # <<>> => new.status = "ready" /\ new.of # {},
             exports' = [exports EXCEPT ![ref] = new], UNCHANGED sent, unchangedClient
      PROVE  IInv'
  <2>1. UNCHANGED <<sent, keys, handles, packages, pc, call, disk, shared>> /\ ref \in Refs
    BY <1>1, <1>4 DEF unchangedClient, Refs
  <2>2. exports[ref].parts = <<>>
    BY <1>0, <1>4, <2>1 DEF KeysInv
  <2>3. /\ exports' \in Seq(AllExports) /\ Len(exports') = Len(exports)
        /\ \A r \in Refs : exports'[r] = IF r = ref THEN new ELSE exports[r]
    BY <1>1, <1>4 DEF Refs
  <2>4. \A r \in Refs : /\ exports'[r].key = exports[r].key /\ exports'[r].of = exports[r].of
                        /\ exports[r].parts # <<>> => exports'[r].parts = exports[r].parts
    BY <1>4, <2>2, <2>3
  <2>5. CallsInv'
    BY <1>0, <1>1, <2>1, <2>3, <2>4, StepOfKSeF DEF Refs
  <2>6. KeysInv'
    <3>1. \A r \in Refs :
            exports'[r].parts # <<>> => exports'[r].status = "ready" /\ exports'[r].of # {}
      BY <1>0, <1>4, <2>3 DEF KeysInv
    <3> QED
      BY <1>0, <2>1, <2>3, <2>4, <3>1 DEF KeysInv, Refs
  <2>7. HeldInv'
    BY <1>0, <2>1, <2>3, <2>4 DEF HeldInv, Refs
  <2> QED
    BY <1>0, <2>1, <2>5, <2>6, <2>7 DEF IInv, FilesTyped
<1>5. ASSUME NEW ref \in DOMAIN exports, NEW layout \in Layouts, KSeFPrepares(ref, layout)
      PROVE  IInv'
  <2> DEFINE new == [exports[ref] EXCEPT !.status = "ready", !.parts = layout]
  <2>1. exports' = [exports EXCEPT ![ref] = new] /\ UNCHANGED sent /\ unchangedClient
    BY <1>5 DEF KSeFPrepares
  <2>2. exports[ref] \in AllExports
    BY <1>1 DEF Refs
  <2>3. /\ new \in AllExports /\ new.key = exports[ref].key /\ new.of = exports[ref].of
        /\ new.status = "ready" /\ new.parts = layout
    BY <2>2 DEF AllExports, Statuses
  <2> HIDE DEF new
  <2> QED
    BY <1>4, <1>5, <2>1, <2>3 DEF KSeFPrepares
<1>6. ASSUME NEW ref \in DOMAIN exports, KSeFFails(ref)
      PROVE  IInv'
  <2> DEFINE new == [exports[ref] EXCEPT !.status = "failed"]
  <2>1. exports' = [exports EXCEPT ![ref] = new] /\ UNCHANGED sent /\ unchangedClient
    BY <1>6 DEF KSeFFails
  <2>2. exports[ref] \in AllExports /\ exports[ref].parts = <<>>
    BY <1>0, <1>1, <1>6 DEF KSeFFails, KeysInv, Refs
  <2>3. /\ new \in AllExports /\ new.key = exports[ref].key /\ new.of = exports[ref].of
        /\ new.parts = <<>>
    BY <2>2 DEF AllExports, Statuses
  <2> HIDE DEF new
  <2> QED
    BY <1>4, <1>6, <2>1, <2>3 DEF KSeFFails
<1> QED
  BY <1>2, <1>3, <1>5, <1>6 DEF KSeF

LEMMA TakesUpInv ==
  ASSUME IInv, NEW t \in Tasks, NEW handle \in handles,
         \/ Wait(t, handle)
         \/ \E op \in {"fetch_package", "fetch_package_bytes"} : Fetch(t, op, handle)
  PROVE  IInv'
<1>1. CASE Wait(t, handle)
  <2>1. CallsInv'
    BY <1>1, TakesUp DEF Wait, unchangedKSeF, unchangedApplication
  <2> QED
    BY <1>1, <2>1, KeysStay, HeldStays
    DEF Wait, unchangedKSeF, unchangedApplication, unchangedFiles, IInv, FilesTyped
<1>2. ASSUME NEW op \in {"fetch_package", "fetch_package_bytes"}, Fetch(t, op, handle)
      PROVE  IInv'
  <2>1. CallsInv'
    BY <1>2, TakesUp DEF Fetch, unchangedKSeF, unchangedApplication
  <2> QED
    BY <1>2, <2>1, KeysStay, HeldStays
    DEF Fetch, unchangedKSeF, unchangedApplication, IInv, FilesTyped
<1> QED
  BY <1>1, <1>2

LEMMA NextInv == IInv /\ [Next]_vars => IInv'
<1> SUFFICES ASSUME IInv, [Next]_vars PROVE IInv'
  OBVIOUS
<1>1. CASE UNCHANGED vars
  BY <1>1, KeysStay, HeldStays DEF vars, IInv, CallsInv, FilesTyped
<1>2. ASSUME NEW t \in Tasks, Step(t) PROVE IInv'
  BY <1>2, ScheduleInv, ScheduleAnsweredInv, PackageReadyInv, DecryptToMemoryInv, OpenFileInv,
     WriteFileInv, WriteFailsInv, FetchReturnsInv, StopInv, TakesUpInv DEF Step
<1> QED
  BY <1>1, <1>2, KSeFInv DEF Next

-----------------------------------------------------------------------------
(* The files.  A task that shares none has those it is working on for      *)
(* itself, and they hold what it has written.                              *)

Fetching(t) ==
  pc[t] \in {"fetch", "write", "returned"} /\ call[t].op = "fetch_package" /\ t \notin shared

Apart(t, u) ==
  Fetching(t) /\ pc[u] = "write" =>
    ~HasSaved(t, File(u)) /\ (pc[t] = "write" => File(t) # File(u))

Distinct(got) == \A i, j \in DOMAIN got : got[i] = got[j] => i = j

HasWritten(t) ==
  Fetching(t) =>
    /\ pc[t] = "write" => disk[File(t)] = Content("cut", NoPart)
    /\ Distinct(call[t].got) => \A i \in DOMAIN call[t].got :
         \/ disk[call[t].got[i]] = Content("whole", <<call[t].ref, i>>)
         \/ pc[t] = "write" /\ call[t].got[i] = File(t)

FilesInv ==
  /\ \A t \in Tasks, u \in Tasks : t # u => Apart(t, u)
  /\ \A t \in Tasks : HasWritten(t)

\* What the calls say of the files.
LEMMA FilesOfCalls ==
  ASSUME IInv, NEW t \in Tasks
  PROVE  /\ DOMAIN call[t].got = 1..Len(call[t].got) /\ Len(call[t].got) \in Nat
         /\ Fetching(t) => \A i \in DOMAIN call[t].got : call[t].got[i] \in Files
         /\ pc[t] = "write" => File(t) \in Files /\ call[t].op = "fetch_package"
<1>1. CallOK(pc[t], call[t], keys, sent, exports)
  BY DEF IInv, CallsInv
<1>2. call[t].got \in Seq(Files \union Nat \X Nat)
  BY <1>1 DEF CallOK, AllCalls
<1>3. DOMAIN call[t].got = 1..Len(call[t].got) /\ Len(call[t].got) \in Nat
  BY <1>2
<1> QED
  BY <1>1, <1>3 DEF CallOK, ProgressOK, Fetching, File, PartName, SafePartFilename

\* A step that touches no file: the task has nothing yet, or keeps what it has.
LEMMA TouchesNoFile ==
  ASSUME IInv, FilesInv, NEW t \in Tasks,
         \A u \in Tasks : u # t => pc'[u] = pc[u] /\ call'[u] = call[u],
         UNCHANGED <<exports, disk>>, shared \ {t} \subseteq shared', pc'[t] # "write",
         \/ pc'[t] \in {"idle", "schedule", "wait"}
         \/ call'[t].op # "fetch_package"
         \/ call'[t].got = <<>>
         \/ pc[t] = "fetch" /\ call'[t] = call[t] /\ shared' = shared
  PROVE  FilesInv'
<1>1. ASSUME NEW u \in Tasks, u # t
      PROVE  /\ pc'[u] = pc[u] /\ call'[u] = call[u] /\ File(u)' = File(u)
             /\ Fetching(u)' => Fetching(u)
             /\ \A file : HasSaved(u, file)' <=> HasSaved(u, file)
  BY <1>1 DEF Fetching, File, SafePartFilename, PartName, HasSaved
<1>2. HasWritten(t)'
  BY DEF FilesInv, HasWritten, Fetching, Distinct
<1>3. ASSUME NEW u \in Tasks, u # t PROVE HasWritten(u)'
  BY <1>1, <1>3 DEF FilesInv, HasWritten
<1>4. ASSUME NEW u \in Tasks, NEW v \in Tasks, u # v PROVE Apart(u, v)'
  <2>1. CASE v = t
    BY <2>1 DEF Apart
  <2>2. CASE u = t /\ v # t
    <3>1. Apart(t, v)
      BY <2>2 DEF FilesInv
    <3> QED
      BY <1>1, <2>2, <3>1 DEF Apart, Fetching, HasSaved
  <2>3. CASE u # t /\ v # t
    <3>1. Apart(u, v)
      BY <1>4 DEF FilesInv
    <3> QED
      BY <1>1, <2>3, <3>1 DEF Apart
  <2> QED
    BY <2>1, <2>2, <2>3
<1> QED
  BY <1>2, <1>3, <1>4 DEF FilesInv

\* A step that touches the file of a task only: the files of the others, who
\* share none, are other files.
LEMMA TouchesItsFile ==
  ASSUME IInv, FilesInv, NEW t \in Tasks, NEW file \in Files, NEW content,
         \A u \in Tasks : u # t => pc'[u] = pc[u] /\ call'[u] = call[u],
         UNCHANGED exports, shared \subseteq shared', disk' = [disk EXCEPT ![file] = content],
         \A u \in Tasks : u # t /\ Fetching(u)' =>
           ~HasSaved(u, file) /\ (pc[u] = "write" => File(u) # file),
         pc'[t] = "write" => File(t)' = file,
         \A u \in Tasks : u # t => Apart(t, u)',
         HasWritten(t)'
  PROVE  FilesInv'
<1>0. disk \in [Files -> Contents]
  BY DEF IInv, FilesTyped
<1>1. ASSUME NEW u \in Tasks, u # t
      PROVE  /\ pc'[u] = pc[u] /\ call'[u] = call[u] /\ File(u)' = File(u)
             /\ Fetching(u)' => Fetching(u)
             /\ \A f : HasSaved(u, f)' <=> HasSaved(u, f)
  BY <1>1 DEF Fetching, File, SafePartFilename, PartName, HasSaved
<1>2. ASSUME NEW u \in Tasks, u # t PROVE HasWritten(u)'
  <2> SUFFICES ASSUME Fetching(u)' PROVE HasWritten(u)'
    BY DEF HasWritten
  <2>1. /\ Fetching(u) /\ HasWritten(u) /\ ~HasSaved(u, file)
        /\ pc[u] = "write" => File(u) # file /\ File(u) \in Files
        /\ \A i \in DOMAIN call[u].got : call[u].got[i] \in Files
    BY <1>1, <1>2, FilesOfCalls DEF FilesInv
  <2>2. \A i \in DOMAIN call[u].got : disk'[call[u].got[i]] = disk[call[u].got[i]]
    BY <1>0, <2>1 DEF HasSaved, Fetching
  <2>3. pc[u] = "write" => disk'[File(u)] = disk[File(u)]
    BY <1>0, <2>1
  <2> QED
    BY <1>1, <1>2, <2>1, <2>2, <2>3 DEF HasWritten
<1>3. ASSUME NEW u \in Tasks, NEW v \in Tasks, u # v PROVE Apart(u, v)'
  <2>1. CASE u = t
    BY <1>3, <2>1
  <2>2. CASE v = t
    BY <1>1, <1>3, <2>2 DEF Apart
  <2>3. CASE u # t /\ v # t
    <3>1. Apart(u, v)
      BY <1>3 DEF FilesInv
    <3> QED
      BY <1>1, <2>3, <3>1 DEF Apart
  <2> QED
    BY <2>1, <2>2, <2>3
<1> QED
  BY <1>2, <1>3 DEF FilesInv

LEMMA OpenFileFiles ==
  ASSUME IInv, FilesInv, NEW t \in Tasks, OpenFile(t)
  PROVE  FilesInv'
<1> DEFINE others == {u \in Tasks \ {t} : IsWriting(u, File(t)) \/ HasSaved(u, File(t))}
<1>1. /\ pc[t] = "fetch" /\ Len(call[t].got) < Len(exports[call[t].ref].parts)
      /\ call[t].op = "fetch_package" /\ PartName(t).base \notin Unnameable
      /\ disk' = [disk EXCEPT ![File(t)] = Content("cut", NoPart)]
      /\ shared' = shared \union others \union {u \in {t} : \E v \in others : IsWriting(v, File(t))}
      /\ pc' = [pc EXCEPT ![t] = "write"] /\ UNCHANGED <<call, exports>>
  BY DEF OpenFile, PartArrives, unchangedKSeF, Goes
<1>2. File(t) \in Files /\ File(t)' = File(t)
  BY <1>1, PartArrived DEF File, PartName, SafePartFilename
<1>3. pc \in [Tasks -> Places] /\ disk \in [Files -> Contents]
  BY DEF IInv, CallsInv, FilesTyped
<1>4. \A u \in Tasks : u # t => pc'[u] = pc[u] /\ call'[u] = call[u] /\ File(u)' = File(u)
  BY <1>1, <1>3 DEF File, PartName, SafePartFilename
<1>5. \A u \in Tasks : u # t /\ Fetching(u)' =>
        ~HasSaved(u, File(t)) /\ (pc[u] = "write" => File(u) # File(t))
  BY <1>1 DEF Fetching, IsWriting
<1>6. Fetching(t)' => Fetching(t) /\ \A u \in Tasks \ {t} : pc[u] = "write" => File(u) # File(t)
  BY <1>1 DEF Fetching, IsWriting
<1>7. \A u \in Tasks : u # t => Apart(t, u)'
  BY <1>1, <1>2, <1>4, <1>6 DEF FilesInv, Apart, HasSaved
<1>8. HasWritten(t)'
  <2>1. /\ disk'[File(t)'] = Content("cut", NoPart)
        /\ \A f \in Files : f # File(t) => disk'[f] = disk[f]
    BY <1>1, <1>2, <1>3
  <2>2. HasWritten(t) /\ (Fetching(t) => \A i \in DOMAIN call[t].got : call[t].got[i] \in Files)
    BY FilesOfCalls DEF FilesInv
  <2>3. pc'[t] = "write" /\ call'[t] = call[t]
    BY <1>1, <1>3
  <2> QED
    BY <1>1, <1>2, <1>6, <2>1, <2>2, <2>3 DEF HasWritten
<1> QED
  BY <1>1, <1>2, <1>4, <1>5, <1>7, <1>8, TouchesItsFile

LEMMA WriteFailsFiles ==
  ASSUME IInv, FilesInv, NEW t \in Tasks, WriteFails(t)
  PROVE  FilesInv'
<1>1. PICK content : disk' = [disk EXCEPT ![File(t)] = content]
  BY DEF WriteFails
<1>2. /\ pc[t] = "write" /\ pc' = [pc EXCEPT ![t] = "idle"] /\ call' = [call EXCEPT ![t] = NoCall]
      /\ UNCHANGED <<exports, shared>>
  BY DEF WriteFails, GoesIdle, Goes, unchangedKSeF
<1>3. /\ pc'[t] = "idle"
      /\ \A u \in Tasks : u # t => pc'[u] = pc[u] /\ call'[u] = call[u]
  BY <1>2 DEF IInv, CallsInv
<1>4. File(t) \in Files
  BY <1>2, FilesOfCalls
<1>5. \A u \in Tasks : u # t /\ Fetching(u)' =>
        ~HasSaved(u, File(t)) /\ (pc[u] = "write" => File(u) # File(t))
  BY <1>2, <1>3 DEF FilesInv, Apart, Fetching
<1>6. HasWritten(t)' /\ \A u \in Tasks : u # t => Apart(t, u)'
  BY <1>3 DEF HasWritten, Apart, Fetching
<1> QED
  BY <1>1, <1>2, <1>3, <1>4, <1>5, <1>6, TouchesItsFile

LEMMA WriteFileFiles ==
  ASSUME IInv, FilesInv, NEW t \in Tasks, WriteFile(t)
  PROVE  FilesInv'
<1>1. PICK content \in Overwritten(t) : disk' = [disk EXCEPT ![File(t)] = content]
  BY DEF WriteFile
<1>2. /\ pc[t] = "write" /\ pc' = [pc EXCEPT ![t] = "fetch"]
      /\ call' = [call EXCEPT ![t].got = Append(@, File(t))]
      /\ UNCHANGED <<exports, shared>>
  BY DEF WriteFile, Gets, Goes, unchangedKSeF
<1>3. /\ Len(call[t].got) < Len(exports[call[t].ref].parts) /\ call[t].op = "fetch_package"
      /\ File(t) \in Files
  BY <1>2, FilesOfCalls DEF IInv, CallsInv, CallOK, ProgressOK
<1>4. /\ call[t] \in AllCalls /\ call[t].got \in Seq(Files \union Nat \X Nat)
      /\ Len(call[t].got) \in Nat /\ Part(t) = <<call[t].ref, Len(call[t].got) + 1>>
  BY <1>2, <1>3, PartArrived
<1>5. /\ pc'[t] = "fetch" /\ call'[t].op = call[t].op /\ call'[t].ref = call[t].ref
      /\ call'[t].got = Append(call[t].got, File(t))
      /\ \A u \in Tasks : u # t => pc'[u] = pc[u] /\ call'[u] = call[u] /\ File(u)' = File(u)
  BY <1>2, <1>4 DEF IInv, CallsInv, AllCalls, File, PartName, SafePartFilename
<1>6. /\ DOMAIN call'[t].got = 1..Len(call[t].got) + 1
      /\ DOMAIN call[t].got = 1..Len(call[t].got)
      /\ \A i \in 1..Len(call[t].got) : call'[t].got[i] = call[t].got[i]
      /\ call'[t].got[Len(call[t].got) + 1] = File(t)
  BY <1>3, <1>4, <1>5
<1>7. Fetching(t)' <=> Fetching(t)
  BY <1>2, <1>5 DEF Fetching
<1>8. \A u \in Tasks : u # t /\ Fetching(u)' =>
        ~HasSaved(u, File(t)) /\ (pc[u] = "write" => File(u) # File(t))
  BY <1>2, <1>5 DEF FilesInv, Apart, Fetching
<1>9. ASSUME NEW u \in Tasks, u # t PROVE Apart(t, u)'
  <2>1. Apart(t, u)
    BY <1>9 DEF FilesInv
  <2>2. \A i \in DOMAIN call'[t].got : i \in DOMAIN call[t].got \/ i = Len(call[t].got) + 1
    BY <1>4, <1>6
  <2> QED
    BY <1>2, <1>3, <1>5, <1>6, <1>7, <1>9, <2>1, <2>2 DEF Apart, HasSaved
<1>10. HasWritten(t)'
  <2> SUFFICES ASSUME Fetching(t)', Distinct(call'[t].got), NEW i \in DOMAIN call'[t].got
               PROVE  disk'[call'[t].got[i]] = Content("whole", <<call'[t].ref, i>>)
    BY <1>5 DEF HasWritten
  <2>0. disk \in [Files -> Contents]
    BY DEF IInv, FilesTyped
  <2>1. /\ Fetching(t) /\ disk[File(t)] = Content("cut", NoPart) /\ HasWritten(t)
        /\ \A j \in DOMAIN call[t].got : call[t].got[j] \in Files
    BY <1>2, <1>7, FilesOfCalls DEF FilesInv, HasWritten
  <2>2. content = Content("whole", Part(t))
    BY <1>1, <2>1 DEF Overwritten, Content
  <2>3. CASE i = Len(call[t].got) + 1
    BY <1>1, <1>3, <1>4, <1>5, <1>6, <2>0, <2>2, <2>3
  <2>4. CASE i \in 1..Len(call[t].got)
    <3>1. call'[t].got[i] = call[t].got[i] /\ call[t].got[i] # File(t)
      <4>1. /\ i \in DOMAIN call'[t].got /\ Len(call[t].got) + 1 \in DOMAIN call'[t].got
            /\ i # Len(call[t].got) + 1
        BY <1>4, <1>6, <2>4
      <4> QED
        BY <1>6, <2>4, <4>1 DEF Distinct
    <3>2. Distinct(call[t].got)
      BY <1>4, <1>6 DEF Distinct
    <3>3. disk[call[t].got[i]] = Content("whole", <<call[t].ref, i>>)
      BY <1>6, <2>1, <2>4, <3>1, <3>2 DEF HasWritten
    <3> QED
      BY <1>1, <1>5, <1>6, <2>0, <2>1, <2>4, <3>1, <3>3
  <2> QED
    BY <1>4, <1>6, <2>3, <2>4
<1> QED
  BY <1>1, <1>2, <1>3, <1>5, <1>8, <1>9, <1>10, TouchesItsFile

LEMMA InitFiles == Init => FilesInv
BY DEF Init, FilesInv, Apart, HasWritten, Fetching

LEMMA NextFiles == IInv /\ FilesInv /\ [Next]_vars => FilesInv'
<1> SUFFICES ASSUME IInv, FilesInv, [Next]_vars PROVE FilesInv'
  OBVIOUS
<1>0. pc \in [Tasks -> Places] /\ call \in [Tasks -> AllCalls]
  BY DEF IInv, CallsInv
<1>1. ASSUME UNCHANGED <<pc, call, disk, shared>>,
             \A t \in Tasks : pc[t] = "write" => File(t)' = File(t)
      PROVE  FilesInv'
  <2>1. ASSUME NEW t \in Tasks PROVE HasWritten(t)'
    BY <1>1 DEF FilesInv, HasWritten, Fetching
  <2>2. ASSUME NEW t \in Tasks, NEW u \in Tasks, t # u PROVE Apart(t, u)'
    BY <1>1, <2>2 DEF FilesInv, Apart, Fetching, HasSaved
  <2> QED
    BY <2>1, <2>2 DEF FilesInv
<1>2. CASE UNCHANGED vars
  BY <1>1, <1>2 DEF vars, File, PartName, SafePartFilename
<1>3. CASE KSeF
  <2>1. UNCHANGED <<pc, call, disk, shared>>
    BY <1>3 DEF KSeF, KSeFAccepts, RequestIsLost, KSeFPrepares, KSeFFails, unchangedClient
  <2>2. ASSUME NEW t \in Tasks, pc[t] = "write"
        PROVE  exports'[call[t].ref].parts = exports[call[t].ref].parts
    <3>1. call[t].ref \in Refs /\ exports[call[t].ref].parts # <<>>
      BY <2>2 DEF IInv, CallsInv, CallOK, HandleOK, ProgressOK, HasExport, Refs
    <3>2. /\ exports \in Seq(AllExports) /\ Len(exports) \in Nat
          /\ exports[call[t].ref].status = "ready"
      BY <3>1 DEF IInv, KeysInv
    <3>3. CASE UNCHANGED exports
      BY <3>3
    <3>4. CASE \E request \in sent : KSeFAccepts(request)
      BY <3>1, <3>2, <3>4 DEF KSeFAccepts, Refs
    <3>5. ASSUME NEW ref \in DOMAIN exports, NEW new, exports[ref].status = "processing",
                 exports' = [exports EXCEPT ![ref] = new]
          PROVE  exports'[call[t].ref] = exports[call[t].ref]
      BY <3>2, <3>5
    <3> QED
      BY <1>3, <3>3, <3>4, <3>5 DEF KSeF, RequestIsLost, KSeFPrepares, KSeFFails
  <2> QED
    BY <1>1, <2>1, <2>2 DEF File, PartName, SafePartFilename
<1>4. ASSUME NEW t \in Tasks, Step(t) PROVE FilesInv'
  <2>1. ASSUME NEW op \in {"schedule_export", "export_and_download"}, NEW filter \in Asks[op],
               Schedule(t, op, filter)
        PROVE  FilesInv'
    BY <1>0, <2>1, TouchesNoFile DEF Schedule, Goes, unchangedFiles
  <2>2. CASE ScheduleAnswered(t)
    <3>1. PICK c : /\ pc' = [pc EXCEPT ![t] = "idle"] \/ pc' = [pc EXCEPT ![t] = "wait"]
                   /\ call' = [call EXCEPT ![t] = c]
      BY <1>0, <2>2 DEF ScheduleAnswered, GoesIdle, Goes
    <3> QED
      BY <1>0, <2>2, <3>1, TouchesNoFile DEF ScheduleAnswered, unchangedKSeF, unchangedFiles
  <2>3. CASE ScheduleFails(t) \/ WaitFails(t) \/ FetchFails(t) \/ Done(t)
    BY <1>0, <2>3, TouchesNoFile
    DEF ScheduleFails, WaitFails, FetchFails, Done, GoesIdle, Goes, unchangedKSeF, unchangedFiles
  <2>4. ASSUME NEW handle \in handles, Wait(t, handle) PROVE FilesInv'
    BY <1>0, <2>4, TouchesNoFile DEF Wait, Goes, unchangedKSeF, unchangedFiles
  <2>5. ASSUME NEW op \in {"fetch_package", "fetch_package_bytes"}, NEW handle \in handles,
               Fetch(t, op, handle)
        PROVE  FilesInv'
    <3>1. call'[t].got = <<>>
      BY <1>0, <2>5 DEF Fetch, Call
    <3> QED
      BY <1>0, <2>5, <3>1, TouchesNoFile DEF Fetch, Goes, unchangedKSeF
  <2>6. CASE PackageReady(t)
    <3>1. /\ UNCHANGED <<exports, disk, shared>>
          /\ \/ GoesIdle(t)
             \/ Goes(t, "fetch") /\ UNCHANGED call /\ call[t].op = "export_and_download"
      BY <2>6 DEF PackageReady, unchangedKSeF, unchangedFiles
    <3> QED
      BY <1>0, <3>1, TouchesNoFile DEF GoesIdle, Goes
  <2>7. CASE DecryptToMemory(t)
    <3>1. /\ pc[t] = "fetch" /\ call[t].op # "fetch_package" /\ UNCHANGED <<pc, exports, disk, shared>>
          /\ call' = [call EXCEPT ![t].got = Append(@, Part(t))]
      BY <2>7 DEF DecryptToMemory, PartArrives, Gets, unchangedKSeF, unchangedFiles
    <3>2. call'[t].op # "fetch_package"
      BY <1>0, <3>1 DEF AllCalls
    <3> QED
      BY <1>0, <3>1, <3>2, TouchesNoFile
  <2>8. CASE FetchReturns(t)
    BY <1>0, <2>8, TouchesNoFile DEF FetchReturns, Goes, unchangedKSeF, unchangedFiles
  <2> QED
    BY <1>4, <2>1, <2>2, <2>3, <2>4, <2>5, <2>6, <2>7, <2>8, OpenFileFiles, WriteFileFiles,
       WriteFailsFiles DEF Step
<1> QED
  BY <1>2, <1>3, <1>4 DEF Next

-----------------------------------------------------------------------------
(* Filters.  What KSeF selects for the body of a request is what was meant *)
(* by the filter, or nearly.                                               *)

LEMMA TheDates ==
  ASSUME NEW f \in Filters, NEW i \in Invoices
  PROVE  InDateRange(QueryFilters(f).dateRange, i) <=>
           LET read == InvoiceMetadata(i) IN
           /\ IsWithin(Moment(f.date_from), Moment(f.date_to), read[f.date_type])
           /\ (f.date_type = "permanent_storage" /\ f.restrict = TRUE) =>
                read.permanent_storage <= HwmDate
<1>1. /\ ToAwareDatetime(f.date_from) = Moment(f.date_from)
      /\ ToAwareDatetime(f.date_to) = Moment(f.date_to)
  BY DEF ToAwareDatetime, Moment
<1>2. InvoiceMetadata(i)[f.date_type] = i.dates[DateType[f.date_type]]
  BY FiltersAreTyped DEF InvoiceMetadata, DateType
<1>3. InvoiceMetadata(i).permanent_storage = i.dates["PermanentStorage"]
  BY DEF InvoiceMetadata
<1> QED
  BY <1>1, <1>2, <1>3, NoneIsNoValue DEF QueryFilters, InDateRange, DateRange

LEMMA TheAmount ==
  ASSUME NEW f \in Filters, NEW i \in Invoices
  PROVE  LET amount == QueryFilters(f).amount IN
         (amount # None => IsWithin(amount.from, amount.to, i.amounts[amount.type])) <=>
           IsWithin(f.amount_min, f.amount_max, InvoiceMetadata(i)[f.amount_type])
<1>1. InvoiceMetadata(i)[f.amount_type] = i.amounts[AmountType[f.amount_type]]
  BY FiltersAreTyped DEF InvoiceMetadata, AmountType
<1> QED
  BY <1>1, NoneIsNoValue DEF QueryFilters, Amount, IsWithin

LEMMA TheWords ==
  ASSUME NEW f \in Filters, NEW i \in Invoices
  PROVE  /\ QueryFilters(f).subjectType \in i.parties <=> IsParty(f.role, i)
         /\ Satisfies(QueryFilters(f).invoicingMode, i.invoicingMode) <=>
              Satisfies(f.invoicing_mode, InvoiceMetadata(i).invoicing_mode)
         /\ IsAmong(QueryFilters(f).invoiceTypes, i.invoiceType) <=>
              (f.invoice_types # {} => IsAmong(f.invoice_types, InvoiceMetadata(i).invoice_type))
         /\ IsAmong(QueryFilters(f).currencyCodes, i.currency) <=>
              (f.currency_codes # {} => IsAmong(f.currency_codes, InvoiceMetadata(i).currency))
<1>1. QueryFilters(f).subjectType \in i.parties <=> IsParty(f.role, i)
  BY FiltersAreTyped DEF QueryFilters, SubjectType, IsParty
<1>2. Satisfies(QueryFilters(f).invoicingMode, i.invoicingMode) <=>
        Satisfies(f.invoicing_mode, InvoiceMetadata(i).invoicing_mode)
  <2>1. /\ f.invoicing_mode \in {None} \union DOMAIN InvoicingMode
        /\ i.invoicingMode \in DOMAIN ReadInvoicingMode
        /\ \A word \in DOMAIN InvoicingMode : None # InvoicingMode[word]
    BY FiltersAreTyped, InvoicesAreTyped, NoneIsNoValue
  <2>2. /\ QueryFilters(f).invoicingMode = Word(f.invoicing_mode, InvoicingMode)
        /\ InvoiceMetadata(i).invoicing_mode = ReadInvoicingMode[i.invoicingMode]
    BY DEF QueryFilters, InvoiceMetadata
  <2> QED
    BY <2>1, <2>2 DEF Word, InvoicingMode, Satisfies, ReadInvoicingMode
<1>3. IsAmong(QueryFilters(f).invoiceTypes, i.invoiceType) <=>
        (f.invoice_types # {} => IsAmong(f.invoice_types, InvoiceMetadata(i).invoice_type))
  <2>1. /\ f.invoice_types \subseteq DOMAIN InvoiceType /\ i.invoiceType \in DOMAIN ReadInvoiceType
        /\ None # {InvoiceType[v] : v \in f.invoice_types}
    BY FiltersAreTyped, InvoicesAreTyped, NoneIsNoValue
  <2>2. \A v \in DOMAIN InvoiceType : InvoiceType[v] = i.invoiceType <=> v = ReadInvoiceType[i.invoiceType]
    BY <2>1 DEF InvoiceType, ReadInvoiceType
  <2>3. i.invoiceType \in {InvoiceType[v] : v \in f.invoice_types} <=>
          ReadInvoiceType[i.invoiceType] \in f.invoice_types
    BY <2>1, <2>2
  <2> QED
    BY <2>1, <2>3 DEF QueryFilters, Codes, IsAmong, InvoiceMetadata
<1>4. IsAmong(QueryFilters(f).currencyCodes, i.currency) <=>
        (f.currency_codes # {} => IsAmong(f.currency_codes, InvoiceMetadata(i).currency))
  BY DEF QueryFilters, IsAmong, InvoiceMetadata
<1> QED
  BY <1>1, <1>2, <1>3, <1>4

LEMMA TheForm ==
  ASSUME NEW f \in Filters, NEW i \in Invoices
  PROVE  /\ Satisfies(QueryFilters(f).formType, i.form.value) <=>
              (f.invoice_schema # None => i.form.value = SchemaValue[f.invoice_schema])
         /\ Satisfies(f.invoice_schema, i.form.schema) =>
              Satisfies(QueryFilters(f).formType, i.form.value)
BY FiltersAreTyped, InvoicesAreTyped, NoneIsNoValue
DEF QueryFilters, Word, FormType, SchemaValue, Satisfies

\* The identifier that is sent is one the filter gives.
LEMMA TheBuyer ==
  ASSUME NEW f \in Filters, NEW i \in Invoices
  PROVE  LET isSent == Satisfies(QueryFilters(f).buyerIdentifier, i.buyerIdentifier) IN
         /\ (\A field \in BuyerFields(f) : HasBuyer(f, i, field)) => isSent
         /\ isSent /\ BuyerFields(f) # {} => \E field \in BuyerFields(f) : HasBuyer(f, i, field)
<1> DEFINE id == i.buyerIdentifier
           fields == {"buyer_nip", "buyer_vat_ue", "buyer_other_id"}
<1>1. \A field \in fields : HasBuyer(f, i, field) <=> id = Identifier(field, f[field])
  <2>1. /\ id = [type |-> id.type, value |-> id.value]
        /\ id.type \in {"Nip", "VatUe", "Other", "None"}
    BY InvoicesAreTyped DEF ReadBuyerIdentifierType
  <2>2. InvoiceMetadata(i).buyer = [type |-> ReadBuyerIdentifierType[id.type], value |-> id.value]
    BY DEF InvoiceMetadata
  <2> HIDE DEF id
  <2> QED
    BY <2>1, <2>2 DEF HasBuyer, Identifier, BuyerIdentifierType, ReadBuyerIdentifierType, BuyerWord
<1>2. \/ BuyerFields(f) = {} /\ BuyerIdentifier(f) = None
      \/ \E field \in BuyerFields(f) :
           BuyerIdentifier(f) = Identifier(field, f[field]) /\ BuyerIdentifier(f) # None
  <2>1. \A field \in fields : None # Identifier(field, f[field])
    BY NoneIsNoValue DEF BuyerIdentifierType
  <2> QED
    BY <2>1 DEF BuyerFields, BuyerWord, BuyerIdentifier
<1>3. BuyerFields(f) \subseteq fields /\ QueryFilters(f).buyerIdentifier = BuyerIdentifier(f)
  BY DEF BuyerFields, BuyerWord, QueryFilters
<1> QED
  BY <1>1, <1>2, <1>3 DEF Satisfies

LEMMA SelectedIsMeant ==
  ASSUME NEW f \in Filters, NEW i \in Invoices
  PROVE  /\ Meant(f, i) => Selects(QueryFilters(f), i)
         /\ Selects(QueryFilters(f), i) => NearlyMeant(f, i)
         /\ Selects(QueryFilters(f), i) /\ ~IsWidened(f) => Meant(f, i)
<1> DEFINE body == QueryFilters(f)
           ButFormAndBuyer ==
             /\ body.subjectType \in i.parties
             /\ InDateRange(body.dateRange, i)
             /\ Satisfies(body.ksefNumber, i.ksefNumber)
             /\ Satisfies(body.invoiceNumber, i.invoiceNumber)
             /\ body.amount # None =>
                  IsWithin(body.amount.from, body.amount.to, i.amounts[body.amount.type])
             /\ Satisfies(body.sellerNip, i.sellerNip)
             /\ IsAmong(body.currencyCodes, i.currency)
             /\ Satisfies(body.invoicingMode, i.invoicingMode)
             /\ Satisfies(body.isSelfInvoicing, i.isSelfInvoicing)
             /\ IsAmong(body.invoiceTypes, i.invoiceType)
             /\ Satisfies(body.hasAttachment, i.hasAttachment)
<1>1. Selects(body, i) <=> /\ ButFormAndBuyer
                           /\ Satisfies(body.buyerIdentifier, i.buyerIdentifier)
                           /\ Satisfies(body.formType, i.form.value)
  BY DEF Selects
<1>2. ButFormAndBuyer <=> MeantButFormAndBuyer(f, i)
  <2>1. /\ body.ksefNumber = f.ksef_number /\ body.invoiceNumber = f.invoice_number
        /\ body.sellerNip = f.seller_nip
        /\ body.isSelfInvoicing = f.is_self_invoicing /\ body.hasAttachment = f.has_attachment
    BY DEF QueryFilters
  <2>2. LET read == InvoiceMetadata(i) IN
        /\ read.ksef_number = i.ksefNumber /\ read.invoice_number = i.invoiceNumber
        /\ read.seller_nip = i.sellerNip
        /\ read.is_self_invoicing = i.isSelfInvoicing /\ read.has_attachment = i.hasAttachment
    BY DEF InvoiceMetadata
  <2> HIDE DEF body
  <2> QED
    BY <2>1, <2>2, TheDates, TheAmount, TheWords DEF body, MeantButFormAndBuyer
<1> HIDE DEF body, ButFormAndBuyer
<1>3. Meant(f, i) => Selects(body, i)
  BY <1>1, <1>2, TheForm, TheBuyer DEF Meant, body
<1>4. Selects(body, i) => NearlyMeant(f, i)
  BY <1>1, <1>2, TheForm, TheBuyer DEF NearlyMeant, body
<1>5. NearlyMeant(f, i) /\ ~IsWidened(f) => Meant(f, i)
  BY DEF NearlyMeant, IsWidened, Meant, Satisfies
<1> QED
  BY <1>3, <1>4, <1>5 DEF body

-----------------------------------------------------------------------------
LEMMA Invariant == Spec => [](IInv /\ FilesInv)
<1>1. Init => IInv /\ FilesInv
  BY InitInv, InitFiles
<1>2. IInv /\ FilesInv /\ [Next]_vars => (IInv /\ FilesInv)'
  BY NextInv, NextFiles
<1> QED
  BY <1>1, <1>2, PTL DEF Spec

(* The state has its types, and names only exports that exist.             *)
THEOREM TypeCorrect == Spec => []TypeOK
<1>1. IInv => TypeOK
  <2> SUFFICES ASSUME IInv PROVE TypeOK
    OBVIOUS
  <2>1. Types
    BY DEF IInv, CallsInv, KeysInv, HeldInv, FilesTyped, Types, Places
  <2> QED
    BY <2>1 DEF TypeOK, IInv, CallsInv, CallOK, HandleOK, KeysInv, HeldInv, Refs
<1> QED
  BY <1>1, Invariant, PTL

(* The key a caller is given for an export, or a call uses itself, is the  *)
(* one the export was made with, however many exports are asked for at the *)
(* same time.                                                              *)
THEOREM HandlesAreRight == Spec => []HandlesOpenTheirExports
<1>1. IInv => HandlesOpenTheirExports
  BY DEF IInv, CallsInv, CallOK, HandleOK, KeysInv, HeldInv, HandlesOpenTheirExports, Refs
<1> QED
  BY <1>1, Invariant, PTL

(* What is returned in memory is the package, whole and in order, of an    *)
(* export that is ready and has invoices.                                  *)
THEOREM ReturnedIsWhole == Spec => []ReturnedIsThePackage
<1>1. IInv => ReturnedIsThePackage
  <2> SUFFICES ASSUME IInv, NEW t \in Tasks, pc[t] = "returned"
               PROVE  LET export == exports[call[t].ref] IN
                      /\ export.status = "ready"
                      /\ export.of # {}
                      /\ Len(call[t].got) = Len(export.parts)
                      /\ call[t].op # "fetch_package" =>
                           \A i \in DOMAIN call[t].got : call[t].got[i] = <<call[t].ref, i>>
    BY DEF ReturnedIsThePackage
  <2>1. CallOK("returned", call[t], keys, sent, exports)
    BY DEF IInv, CallsInv
  <2>2. call[t].ref \in Refs /\ exports[call[t].ref].parts # <<>>
    BY <2>1 DEF CallOK, HandleOK, ProgressOK, HasExport, Refs
  <2>3. exports[call[t].ref].status = "ready" /\ exports[call[t].ref].of # {}
    BY <2>2 DEF IInv, KeysInv
  <2> QED
    BY <2>1, <2>3, FilesOfCalls DEF CallOK, ProgressOK
<1> QED
  BY <1>1, Invariant, PTL

(* The files fetch_package returns hold the parts they are returned for,   *)
(* unless another task has opened one of them, or one is named twice.      *)
THEOREM FilesAreRight == Spec => []FilesHoldTheParts
<1>1. IInv /\ FilesInv => FilesHoldTheParts
  <2> SUFFICES ASSUME IInv, FilesInv, NEW t \in Tasks, Fetching(t), pc[t] = "returned",
                      Distinct(call[t].got), NEW i \in DOMAIN call[t].got
               PROVE  disk[call[t].got[i]] = Content("whole", <<call[t].ref, i>>)
    BY DEF FilesHoldTheParts, Distinct, Fetching
  <2> QED
    BY DEF FilesInv, HasWritten
<1> QED
  BY <1>1, Invariant, PTL

(* An export contains the invoices that were meant by the filter it was    *)
(* asked for with, and no other but where the filter is widened.           *)
THEOREM ExportsAreMeant == Spec => []ExportIsOfTheFilter
<1>1. IInv => ExportIsOfTheFilter
  <2> SUFFICES ASSUME IInv, NEW t \in Tasks, call[t].op = "export_and_download", call[t].ref # 0
               PROVE  LET of == exports[call[t].ref].of
                          filter == call[t].filter
                      IN /\ {i \in Invoices : Meant(filter, i)} \subseteq of
                         /\ of \subseteq {i \in Invoices : NearlyMeant(filter, i)}
                         /\ of # {i \in Invoices : Meant(filter, i)} => IsWidened(filter)
    BY DEF ExportIsOfTheFilter
  <2>1. /\ call[t].filter \in Filters
        /\ exports[call[t].ref].of = {i \in Invoices : Selects(QueryFilters(call[t].filter), i)}
    BY DEF IInv, CallsInv, CallOK, AskOK, Selected
  <2> QED
    BY <2>1, SelectedIsMeant
<1> QED
  BY <1>1, Invariant, PTL
=============================================================================

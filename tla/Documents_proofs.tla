-------------------------- MODULE Documents_proofs --------------------------
(***************************************************************************)
(* Proofs about what is kept in documents and read again: the profiles of  *)
(* the CLI (ProfileStore) and FA(3) invoices (InvoiceTotals).              *)
(*                                                                         *)
(* ProfileStore is proved for any number of processes, names and values.   *)
(* The inductive invariant says what a process that nobody has overtaken   *)
(* knows: the file is still what it read, what it emptied, or what it      *)
(* wrote, if that can be read.                                             *)
(*                                                                         *)
(* InvoiceTotals is proved for any lines a caller may construct, any       *)
(* exchange rates, and any number of lines and documents.  Sums come first *)
(* (SumOver by induction over the subsets of a finite set), then the       *)
(* lines: how they are taxed, constructed, written and read.  The          *)
(* inductive invariant says that the last document ends with the lines in  *)
(* force and shows no totals but its own until it is read.                 *)
(***************************************************************************)
EXTENDS ProfileStore, InvoiceTotals, FiniteSetTheorems, WellFoundedInduction, TLAPS

-----------------------------------------------------------------------------
(* Part 1.  The profiles of the CLI.                                       *)

\* A process that has read the file and was not overtaken has read what it holds.
FreshInv ==
  \A p \in Processes :
    pc[p] = "loaded" /\ ~overtaken[p] => ~SomeoneWrites /\ file = before[p]

\* A process that has emptied the file and was not overtaken has it for itself.
AloneInv ==
  \A p \in Processes :
    /\ pc[p] = "opened" /\ ~overtaken[p] =>
         file = EmptyConfig /\ \A q \in Processes : pc[q] = "opened" => q = p
    /\ pc[p] = "written" /\ ~overtaken[p] => ~SomeoneWrites

\* Unless two wrote at once there is one writer, and it finds the file empty.
WriterInv ==
  ~torn =>
    \A p \in Processes : pc[p] = "opened" =>
      file = EmptyConfig /\ \A q \in Processes : pc[q] = "opened" => q = p

\* As long as nothing went wrong the writer was not overtaken.
WindowInv == Undisturbed => \A p \in Processes : pc[p] = "opened" => ~overtaken[p]

\* What a process is about to write is one accepted operation on what it read.
IsChange(c, d) == \E r \in Requests : Accepts(r, c) /\ d = Changed(r, c)

ChangeInv ==
  \A p \in Processes : pc[p] \in {"loaded", "opened"} => IsChange(before[p], config[p])

IInv ==
  /\ TypeOK /\ FreshInv /\ AloneInv /\ AcknowledgedIsWritten /\ WriterInv /\ WindowInv
  /\ ChangeInv /\ NeverLocksOut

-----------------------------------------------------------------------------
LEMMA EmptyIsConfig == EmptyConfig \in ReadableConfigs /\ EmptyConfig \in Configs
BY DEF EmptyConfig, ReadableConfigs, Configs, ConfigShapes, ActiveIsDefined, IsToml

LEMMA GarbledIsUnreadable == Garbled \notin ReadableConfigs
BY GarbledIsNoConfig DEF ReadableConfigs

\* Every accepted operation leaves the active profile defined.
LEMMA ChangedIsConfig ==
  ASSUME NEW r \in Requests, NEW c \in Configs, Accepts(r, c)
  PROVE  Changed(r, c) \in Configs
<1>1. CASE r.op = "save"
  BY <1>1, NoneIsNoValue DEF Requests, Configs, ConfigShapes, ActiveIsDefined, Changed
<1>2. CASE r.op = "use"
  BY <1>2 DEF Requests, Configs, ConfigShapes, ActiveIsDefined, Changed, Accepts
<1>3. CASE r.op = "delete"
  BY <1>3 DEF Requests, Configs, ConfigShapes, ActiveIsDefined, Changed
<1> QED
  BY <1>1, <1>2, <1>3 DEF Requests

(* What a whole write of a configuration leaves is that configuration, or  *)
(* something that cannot be read if it has surrogate escapes.              *)
LEMMA WrittenIsRead ==
  ASSUME NEW c \in Configs
  PROVE  /\ IsToml(c) => WrittenOver(c, EmptyConfig) = {c}
         /\ ~IsToml(c) => WrittenOver(c, EmptyConfig) = {Garbled}
         /\ \A text : WrittenOver(c, text) \subseteq ReadableConfigs \union {Garbled}
         /\ CutShort(c) \subseteq ReadableConfigs \union {Garbled}
BY DEF WrittenOver, CutShort, Parsed, Configs, ReadableConfigs

LEMMA InitInv == Init => IInv
<1> SUFFICES ASSUME Init PROVE IInv
  OBVIOUS
<1> QED
  BY EmptyIsConfig, GarbledIsUnreadable DEF Init, IInv, TypeOK, FreshInv, AloneInv,
     AcknowledgedIsWritten, WriterInv, WindowInv, ChangeInv, NeverLocksOut

LEMMA NextInv == IInv /\ [Next]_vars => IInv'
<1> SUFFICES ASSUME IInv, [Next]_vars PROVE IInv'
  OBVIOUS
<1>0. /\ TypeOK /\ FreshInv /\ AloneInv /\ AcknowledgedIsWritten /\ WriterInv /\ WindowInv
      /\ ChangeInv /\ NeverLocksOut
  BY DEF IInv
<1>1. ASSUME NEW p \in Processes, NEW r \in Requests, Load(p, r) PROVE IInv'
  <2>1. TypeOK'
    <3>1. SomeoneWrites \in BOOLEAN
      BY DEF SomeoneWrites
    <3>2. file \in ReadableConfigs /\ Changed(r, file) \in Configs
      BY <1>0, <1>1, ChangedIsConfig DEF Load, Started, TypeOK, ReadableConfigs
    <3> QED
      BY <1>0, <1>1, <3>1, <3>2 DEF Load, Started, TypeOK
  <2>2. FreshInv'
    BY <1>0, <1>1 DEF Load, Started, FreshInv, SomeoneWrites, TypeOK
  <2>3. AloneInv'
    BY <1>0, <1>1 DEF Load, Started, AloneInv, FreshInv, SomeoneWrites, TypeOK
  <2>4. AcknowledgedIsWritten'
    BY <1>0, <1>1 DEF Load, Started, AcknowledgedIsWritten, AloneInv, FreshInv, TypeOK,
       SomeoneWrites
  <2>5. WriterInv'
    BY <1>0, <1>1 DEF Load, Started, WriterInv, SomeoneWrites, TypeOK
  <2>6. WindowInv'
    BY <1>0, <1>1 DEF Load, Started, WindowInv, SomeoneWrites, TypeOK, Undisturbed
  <2>7. ChangeInv'
    BY <1>0, <1>1 DEF Load, Started, ChangeInv, TypeOK, IsChange
  <2>8. NeverLocksOut'
    BY <1>0, <1>1, GarbledIsUnreadable DEF Load, Started, NeverLocksOut, WriterInv, TypeOK
  <2> QED
    BY <2>1, <2>2, <2>3, <2>4, <2>5, <2>6, <2>7, <2>8 DEF IInv
<1>2. ASSUME NEW p \in Processes, Open(p) PROVE IInv'
  <2>1. TypeOK'
    BY <1>0, <1>2, EmptyIsConfig DEF Open, TypeOK
  <2>2. FreshInv'
    BY <1>0, <1>2, EmptyIsConfig DEF Open, FreshInv, SomeoneWrites, TypeOK
  <2>3. AloneInv'
    BY <1>0, <1>2, EmptyIsConfig DEF Open, AloneInv, FreshInv, SomeoneWrites, TypeOK
  <2>4. AcknowledgedIsWritten'
    BY <1>0, <1>2 DEF Open, AcknowledgedIsWritten, AloneInv, FreshInv, TypeOK,
       SomeoneWrites
  <2>5. WriterInv'
    BY <1>0, <1>2 DEF Open, WriterInv, SomeoneWrites, TypeOK
  <2>6. WindowInv'
    BY <1>0, <1>2 DEF Open, WindowInv, SomeoneWrites, TypeOK, Undisturbed
  <2>7. ChangeInv'
    BY <1>0, <1>2 DEF Open, ChangeInv, TypeOK
  <2>8. NeverLocksOut'
    BY <1>0, <1>2, EmptyIsConfig, GarbledIsUnreadable DEF Open, NeverLocksOut, WriterInv,
       TypeOK
  <2> QED
    BY <2>1, <2>2, <2>3, <2>4, <2>5, <2>6, <2>7, <2>8 DEF IInv
<1>3. ASSUME NEW p \in Processes, OpenFails(p) PROVE IInv'
  <2>1. TypeOK'
    BY <1>0, <1>3, EmptyIsConfig DEF OpenFails, Ends, TypeOK
  <2>2. FreshInv'
    BY <1>0, <1>3, EmptyIsConfig DEF OpenFails, Ends, FreshInv, SomeoneWrites, TypeOK
  <2>3. AloneInv'
    BY <1>0, <1>3, EmptyIsConfig DEF OpenFails, Ends, AloneInv, FreshInv, SomeoneWrites,
       TypeOK
  <2>4. AcknowledgedIsWritten'
    BY <1>0, <1>3 DEF OpenFails, Ends, AcknowledgedIsWritten, AloneInv, FreshInv,
       TypeOK, SomeoneWrites
  <2>5. WriterInv'
    BY <1>0, <1>3 DEF OpenFails, Ends, WriterInv, SomeoneWrites, TypeOK
  <2>6. WindowInv'
    BY <1>0, <1>3 DEF OpenFails, Ends, WindowInv, SomeoneWrites, TypeOK, Undisturbed
  <2>7. ChangeInv'
    BY <1>0, <1>3 DEF OpenFails, Ends, ChangeInv, TypeOK
  <2>8. NeverLocksOut'
    BY <1>0, <1>3, EmptyIsConfig, GarbledIsUnreadable DEF OpenFails, Ends, NeverLocksOut,
       WriterInv, TypeOK
  <2> QED
    BY <2>1, <2>2, <2>3, <2>4, <2>5, <2>6, <2>7, <2>8 DEF IInv
<1>4. ASSUME NEW p \in Processes, Write(p) PROVE IInv'
  <2>1. TypeOK'
    BY <1>0, <1>4, EmptyIsConfig, WrittenIsRead DEF Write, TypeOK
  <2>2. FreshInv'
    BY <1>0, <1>4, EmptyIsConfig, WrittenIsRead DEF Write, FreshInv, SomeoneWrites,
       TypeOK
  <2>3. AloneInv'
    BY <1>0, <1>4, EmptyIsConfig, WrittenIsRead DEF Write, AloneInv, FreshInv,
       SomeoneWrites, TypeOK
  <2>4. AcknowledgedIsWritten'
    BY <1>0, <1>4, WrittenIsRead DEF Write, AcknowledgedIsWritten, AloneInv, FreshInv,
       TypeOK, SomeoneWrites
  <2>5. WriterInv'
    BY <1>0, <1>4, WrittenIsRead DEF Write, WriterInv, SomeoneWrites, TypeOK
  <2>6. WindowInv'
    BY <1>0, <1>4, WrittenIsRead DEF Write, WindowInv, SomeoneWrites, TypeOK,
       Undisturbed
  <2>7. ChangeInv'
    BY <1>0, <1>4 DEF Write, ChangeInv, TypeOK
  <2>8. NeverLocksOut'
    <3> SUFFICES ASSUME ~torn', ~escaped' PROVE file' # Garbled
      BY DEF NeverLocksOut
    <3>1. ~torn /\ IsToml(config[p])
      BY <1>4 DEF Write
    <3>2. file = EmptyConfig
      BY <1>0, <1>4, <3>1 DEF Write, WriterInv
    <3>3. config[p] \in Configs
      BY <1>0 DEF TypeOK
    <3> QED
      BY <1>4, <3>1, <3>2, <3>3, WrittenIsRead, GarbledIsNoConfig DEF Write
  <2> QED
    BY <2>1, <2>2, <2>3, <2>4, <2>5, <2>6, <2>7, <2>8 DEF IInv
<1>5. ASSUME NEW p \in Processes, WriteIsCut(p) PROVE IInv'
  <2>1. TypeOK'
    BY <1>0, <1>5, EmptyIsConfig, WrittenIsRead DEF WriteIsCut, Ends, TypeOK
  <2>2. FreshInv'
    BY <1>0, <1>5, EmptyIsConfig, WrittenIsRead DEF WriteIsCut, Ends, FreshInv,
       SomeoneWrites, TypeOK
  <2>3. AloneInv'
    BY <1>0, <1>5, EmptyIsConfig, WrittenIsRead DEF WriteIsCut, Ends, AloneInv,
       FreshInv, SomeoneWrites, TypeOK
  <2>4. AcknowledgedIsWritten'
    BY <1>0, <1>5, WrittenIsRead DEF WriteIsCut, Ends, AcknowledgedIsWritten, AloneInv,
       FreshInv, TypeOK, SomeoneWrites
  <2>5. WriterInv'
    BY <1>0, <1>5, WrittenIsRead DEF WriteIsCut, Ends, WriterInv, SomeoneWrites, TypeOK
  <2>6. WindowInv'
    BY <1>0, <1>5, WrittenIsRead DEF WriteIsCut, Ends, WindowInv, SomeoneWrites, TypeOK,
       Undisturbed
  <2>7. ChangeInv'
    BY <1>0, <1>5 DEF WriteIsCut, Ends, ChangeInv, TypeOK
  <2>8. NeverLocksOut'
    BY <1>0, <1>5, EmptyIsConfig, WrittenIsRead, GarbledIsUnreadable DEF WriteIsCut, Ends,
       NeverLocksOut, WriterInv, TypeOK
  <2> QED
    BY <2>1, <2>2, <2>3, <2>4, <2>5, <2>6, <2>7, <2>8 DEF IInv
<1>6. ASSUME NEW p \in Processes, Return(p) PROVE IInv'
  <2>1. TypeOK'
    BY <1>0, <1>6, EmptyIsConfig DEF Return, Ends, TypeOK
  <2>2. FreshInv'
    BY <1>0, <1>6, EmptyIsConfig DEF Return, Ends, FreshInv, SomeoneWrites, TypeOK
  <2>3. AloneInv'
    BY <1>0, <1>6, EmptyIsConfig DEF Return, Ends, AloneInv, FreshInv, SomeoneWrites,
       TypeOK
  <2>4. AcknowledgedIsWritten'
    BY <1>0, <1>6 DEF Return, Ends, AcknowledgedIsWritten, AloneInv, FreshInv, TypeOK,
       SomeoneWrites
  <2>5. WriterInv'
    BY <1>0, <1>6 DEF Return, Ends, WriterInv, SomeoneWrites, TypeOK
  <2>6. WindowInv'
    BY <1>0, <1>6 DEF Return, Ends, WindowInv, SomeoneWrites, TypeOK, Undisturbed
  <2>7. ChangeInv'
    BY <1>0, <1>6 DEF Return, Ends, ChangeInv, TypeOK
  <2>8. NeverLocksOut'
    BY <1>0, <1>6, EmptyIsConfig, GarbledIsUnreadable DEF Return, Ends, NeverLocksOut,
       WriterInv, TypeOK
  <2> QED
    BY <2>1, <2>2, <2>3, <2>4, <2>5, <2>6, <2>7, <2>8 DEF IInv
<1>7. ASSUME UNCHANGED vars PROVE IInv'
  <2>1. TypeOK'
    BY <1>0, <1>7, EmptyIsConfig DEF vars, TypeOK
  <2>2. FreshInv'
    BY <1>0, <1>7, EmptyIsConfig DEF vars, FreshInv, SomeoneWrites, TypeOK
  <2>3. AloneInv'
    BY <1>0, <1>7, EmptyIsConfig DEF vars, AloneInv, FreshInv, SomeoneWrites, TypeOK
  <2>4. AcknowledgedIsWritten'
    BY <1>0, <1>7 DEF vars, AcknowledgedIsWritten, AloneInv, FreshInv, TypeOK,
       SomeoneWrites
  <2>5. WriterInv'
    BY <1>0, <1>7 DEF vars, WriterInv, SomeoneWrites, TypeOK
  <2>6. WindowInv'
    BY <1>0, <1>7 DEF vars, WindowInv, SomeoneWrites, TypeOK, Undisturbed
  <2>7. ChangeInv'
    BY <1>0, <1>7 DEF vars, ChangeInv, TypeOK
  <2>8. NeverLocksOut'
    BY <1>0, <1>7, EmptyIsConfig, GarbledIsUnreadable DEF vars, NeverLocksOut, WriterInv,
       TypeOK
  <2> QED
    BY <2>1, <2>2, <2>3, <2>4, <2>5, <2>6, <2>7, <2>8 DEF IInv
<1> QED
  BY <1>1, <1>2, <1>3, <1>4, <1>5, <1>6, <1>7 DEF Next

-----------------------------------------------------------------------------
\* The invariant holds in every reachable state: what all the results below rest on.
LEMMA Inductive == Spec => []IInv
BY InitInv, NextInv, PTL DEF Spec

\* The store's state keeps its types: a process only ever holds a configuration that parses.
THEOREM TypeCorrect == Spec => []TypeOK
BY Inductive, PTL DEF IInv

(* A save, use or delete that is about to return has its change in the     *)
(* file, unless another process has been at the file meanwhile; or, when   *)
(* it was written with surrogate escapes, the file cannot be read.         *)
THEOREM AcknowledgedIsInFile == Spec => []AcknowledgedIsWritten
BY Inductive, PTL DEF IInv

(* However many processes overwrite each other's changes, what they leave  *)
(* parses, unless a write was cut short, two ran at once, or what was      *)
(* saved is written with surrogate escapes.                                *)
THEOREM StoreStaysReadable == Spec => []NeverLocksOut
BY Inductive, PTL DEF IInv

LEMMA UnreadableStep ==
  IInv /\ [Next]_vars =>
    [file = Garbled => \/ file' = file
                       \/ \E p \in Processes : overtaken[p] /\ pc'[p] # pc[p]]_vars
<1> SUFFICES ASSUME IInv, Next, file = Garbled, file' # file
             PROVE  \E p \in Processes : overtaken[p] /\ pc'[p] # pc[p]
  BY DEF vars
<1>1. PICK p \in Processes : Open(p) \/ Write(p) \/ WriteIsCut(p)
  BY DEF Next, Load, Started, OpenFails, Return, Ends
<1>2. pc'[p] # pc[p]
  BY <1>1 DEF IInv, TypeOK, Open, Write, WriteIsCut, Ends
<1>3. overtaken[p]
  <2>1. file \notin ReadableConfigs /\ before[p] \in ReadableConfigs
    BY GarbledIsUnreadable DEF IInv, TypeOK
  <2>2. CASE Open(p)
    BY <2>1, <2>2 DEF IInv, FreshInv, Open
  <2>3. CASE Write(p) \/ WriteIsCut(p)
    BY <2>1, <2>3, EmptyIsConfig DEF IInv, AloneInv, Write, WriteIsCut
  <2> QED
    BY <1>1, <2>2, <2>3
<1> QED
  BY <1>2, <1>3

(* A file that does not parse is never overwritten by a process that reads *)
(* it: its owner can still repair it.                                      *)
THEOREM UnreadableIsKept == Spec => UnreadableIsLeftAlone
BY Inductive, UnreadableStep, PTL DEF Spec, UnreadableIsLeftAlone

-----------------------------------------------------------------------------
(* The refinement.  Only three kinds of steps change the configuration the *)
(* map sees: the end of a write, which is one operation on what was read,  *)
(* and those that end the promise.                                         *)

\* While p is the only writer the map still holds what p has read.
LEMMA WriterIsSeen ==
  ASSUME IInv, Undisturbed, NEW p \in Processes, pc[p] = "opened"
  PROVE  CurrentConfig = before[p] /\ file = EmptyConfig /\ ~overtaken[p]
BY DEF IInv, WriterInv, WindowInv, Undisturbed, CurrentConfig, SomeoneWrites

\* An accepted operation on a configuration is a step of the map.
LEMMA ChangeIsMapStep ==
  ASSUME NEW c \in Configs, NEW d, IsChange(c, d), Undisturbed, Undisturbed',
         CurrentConfig = c, CurrentConfig' = d
  PROVE  Map!Next
<1>1. PICK r \in Requests : Accepts(r, c) /\ d = Changed(r, c)
  BY DEF IsChange
<1>2. CASE r.op = "save"
  <2>1. r.name \in Names /\ r.value \in Values /\ r.activate \in BOOLEAN /\ r.overwrite \in BOOLEAN
    BY <1>2 DEF Requests
  <2>2. Map!Save(r.name, r.value, r.activate, r.overwrite)
    BY <1>1, <1>2 DEF Map!Save, Accepts, Changed
  <2> QED
    BY <2>1, <2>2 DEF Map!Next
<1>3. CASE r.op = "use"
  <2>1. r.name \in Names
    BY <1>3 DEF Requests
  <2>2. Map!Use(r.name)
    BY <1>1, <1>3 DEF Map!Use, Accepts, Changed
  <2> QED
    BY <2>1, <2>2 DEF Map!Next
<1>4. CASE r.op = "delete"
  <2>1. r.name \in Names
    BY <1>4 DEF Requests
  <2>2. Map!Delete(r.name)
    BY <1>1, <1>4 DEF Map!Delete, Accepts, Changed
  <2> QED
    BY <2>1, <2>2 DEF Map!Next
<1> QED
  BY <1>2, <1>3, <1>4 DEF Requests

LEMMA MapInit == Init => Map!Init
BY DEF Init, Map!Init, CurrentConfig, Undisturbed, SomeoneWrites, Map!Configs, Configs,
   ReadableConfigs, ConfigShapes, ActiveIsDefined

LEMMA MapStep == IInv /\ [Next]_vars => [Map!Next]_Map!vars
<1> SUFFICES ASSUME IInv, [Next]_vars
             PROVE  Map!Next \/ UNCHANGED Map!vars
  OBVIOUS
<1>a. Map!EmptyConfig = EmptyConfig
  BY DEF Map!EmptyConfig, EmptyConfig
<1>1. CASE ~Undisturbed'
  BY <1>1, <1>a DEF Map!Next, Map!Upset, CurrentConfig
<1>2. ASSUME Undisturbed' PROVE Undisturbed
  BY <1>2 DEF IInv, TypeOK, Undisturbed, Next, Load, Started, Open, OpenFails, Write,
     WriteIsCut, Return, Ends, vars
<1>3. ASSUME Undisturbed', NEW p \in Processes, NEW r \in Requests, Load(p, r)
      PROVE  UNCHANGED Map!vars
  <2>1. \A q \in Processes : (pc'[q] = "opened") <=> (pc[q] = "opened")
    BY <1>3 DEF Load, Started, IInv, TypeOK
  <2>2. CASE SomeoneWrites
    <3>1. PICK q \in Processes : pc[q] = "opened"
      BY <2>2 DEF SomeoneWrites
    <3>2. CurrentConfig = before[q]
      BY <1>2, <1>3, <3>1, WriterIsSeen
    <3>3. \A u \in Processes : pc[u] = "opened" => u = q
      BY <1>2, <1>3, <3>1 DEF Undisturbed, IInv, WriterInv
    <3>4. CurrentConfig' = before'[q]
      BY <1>3, <2>1, <3>1, <3>3 DEF CurrentConfig, SomeoneWrites
    <3>5. before'[q] = before[q]
      BY <1>3, <3>1 DEF Load, Started, IInv, TypeOK
    <3> QED
      BY <1>2, <1>3, <3>2, <3>4, <3>5 DEF Map!vars
  <2>3. CASE ~SomeoneWrites
    BY <1>2, <1>3, <2>1, <2>3 DEF Map!vars, CurrentConfig, SomeoneWrites, Load, Started
  <2> QED
    BY <2>2, <2>3
<1>4. ASSUME Undisturbed', NEW p \in Processes, Open(p)
      PROVE  UNCHANGED Map!vars
  <2>1. ~overtaken[p] /\ ~SomeoneWrites
    BY <1>4 DEF Open, Undisturbed
  <2>2. CurrentConfig = before[p]
    BY <1>2, <1>4, <2>1 DEF CurrentConfig, Open, IInv, FreshInv
  <2>3. \A q \in Processes : (pc'[q] = "opened") <=> (q = p)
    BY <1>4, <2>1 DEF Open, SomeoneWrites, IInv, TypeOK
  <2>4. CurrentConfig' = before[p]
    BY <1>4, <2>3 DEF CurrentConfig, SomeoneWrites, Open
  <2> QED
    BY <1>2, <1>4, <2>2, <2>4 DEF Map!vars
<1>5. ASSUME Undisturbed', NEW p \in Processes, Write(p)
      PROVE  Map!Next
  <2>1. pc[p] = "opened" /\ IsChange(before[p], config[p])
    BY <1>5 DEF Write, IInv, ChangeInv
  <2>2. CurrentConfig = before[p] /\ file = EmptyConfig
    BY <1>2, <1>5, <2>1, WriterIsSeen
  <2>3. before[p] \in Configs /\ config[p] \in Configs
    BY DEF IInv, TypeOK, ReadableConfigs
  <2>4. file' = config[p]
    BY <1>5, <2>2, <2>3, WrittenIsRead DEF Write, Undisturbed
  <2>5. \A q \in Processes : pc'[q] # "opened"
    BY <1>2, <1>5, <2>1 DEF Write, IInv, TypeOK, WriterInv, Undisturbed
  <2>6. CurrentConfig' = config[p]
    BY <1>5, <2>4, <2>5 DEF CurrentConfig, SomeoneWrites
  <2> QED
    BY <1>2, <1>5, <2>1, <2>2, <2>3, <2>6, ChangeIsMapStep
<1>6. ASSUME Undisturbed', NEW p \in Processes, OpenFails(p) \/ Return(p)
      PROVE  UNCHANGED Map!vars
  <2>1. \A q \in Processes : (pc'[q] = "opened") <=> (pc[q] = "opened")
    BY <1>6 DEF OpenFails, Return, Ends, IInv, TypeOK
  <2>2. \A q \in Processes : pc[q] = "opened" => before'[q] = before[q]
    BY <1>6 DEF OpenFails, Return, Ends, IInv, TypeOK
  <2>3. file' = file
    BY <1>6 DEF OpenFails, Return
  <2>4. CASE SomeoneWrites
    <3>1. PICK q \in Processes : pc[q] = "opened"
      BY <2>4 DEF SomeoneWrites
    <3>2. \A u \in Processes : pc[u] = "opened" => u = q
      BY <1>2, <1>6, <3>1 DEF Undisturbed, IInv, WriterInv
    <3>3. CurrentConfig = before[q] /\ CurrentConfig' = before'[q]
      BY <1>2, <1>6, <2>1, <3>1, <3>2 DEF CurrentConfig, SomeoneWrites
    <3> QED
      BY <1>2, <1>6, <2>2, <3>1, <3>3 DEF Map!vars
  <2>5. CASE ~SomeoneWrites
    BY <1>2, <1>6, <2>1, <2>3, <2>5 DEF Map!vars, CurrentConfig, SomeoneWrites
  <2> QED
    BY <2>4, <2>5
<1>7. ASSUME Undisturbed', NEW p \in Processes, WriteIsCut(p) PROVE FALSE
  BY <1>7 DEF WriteIsCut, Undisturbed
<1>8. ASSUME UNCHANGED vars PROVE UNCHANGED Map!vars
  BY <1>8 DEF vars, Map!vars, CurrentConfig, Undisturbed, SomeoneWrites
<1> QED
  BY <1>1, <1>3, <1>4, <1>5, <1>6, <1>7, <1>8 DEF Next

(* Reading, changing and rewriting the whole file amounts to atomic save,  *)
(* use and delete on one map, as long as no two operations overlap, no     *)
(* write is cut short and none has surrogate escapes.                      *)
THEOREM StoreImplementsMap == Spec => KeepsEveryChange
BY MapInit, MapStep, Inductive, PTL DEF Spec, KeepsEveryChange, Map!Spec

-----------------------------------------------------------------------------
(* Part 2.  Invoices.                                                      *)

(* Sums.                                                                   *)

\* Induction over the subsets of a finite set, for a set of good ones.
LEMMA AllSubsetsAreGood ==
  ASSUME NEW S, IsFiniteSet(S), NEW Good,
         \A s \in SUBSET S : (\A t \in SUBSET s : t # s => t \in Good) => s \in Good
  PROVE  \A s \in SUBSET S : s \in Good
<1> DEFINE Bad == {s \in SUBSET S : s \notin Good}
<1>1. SUFFICES ASSUME Bad # {} PROVE FALSE
  OBVIOUS
<1>2. Bad \subseteq FiniteSubsetsOf(S) /\ IsWellFoundedOn(StrictSubsetOrdering(S), FiniteSubsetsOf(S))
  BY FS_Subset, FS_StrictSubsetOrderingWellFounded DEF FiniteSubsetsOf
<1>3. PICK m \in Bad : \A s \in Bad : <<s, m>> \notin StrictSubsetOrdering(S)
  <2> HIDE DEF Bad
  <2> QED BY <1>1, <1>2, WFMin
<1> QED
  BY <1>3 DEF StrictSubsetOrdering

\* The fold is over sums of subsets, one chosen element after the other.
Chosen(s) == CHOOSE x \in s : TRUE

Rest(s) == s \ {Chosen(s)}

AddsUp(g, a, S) ==
  g = [s \in SUBSET S |-> IF s = {} THEN 0 ELSE a[Chosen(s)] + g[Rest(s)]]

SumsOf(a, S) == CHOOSE g : AddsUp(g, a, S)

\* What is left after one element is taken out.
LEMMA RestIsSmaller ==
  \A s : s # {} => Chosen(s) \in s /\ Rest(s) \in SUBSET s /\ Rest(s) # s
BY DEF Chosen, Rest

\* SumOver is the last of the sums.
LEMMA SumIsLast == \A a, S : SumOver(a, S) = SumsOf(a, S)[S]
BY DEF SumOver, MapThenSumSet, MapThenFoldSet, SumsOf, AddsUp, Chosen, Rest

\* There is at most one way to add up ...
LEMMA SumsAgree ==
  ASSUME NEW a, NEW S, NEW T, IsFiniteSet(S), T \in SUBSET S, NEW g, NEW h,
         AddsUp(g, a, S), AddsUp(h, a, T)
  PROVE  \A s \in SUBSET T : g[s] = h[s]
<1> DEFINE Good == {s \in SUBSET T : g[s] = h[s]}
<1>1. ASSUME NEW s \in SUBSET T, \A t \in SUBSET s : t # s => t \in Good
      PROVE  s \in Good
  <2>1. s # {} => g[Rest(s)] = h[Rest(s)]
    BY <1>1, RestIsSmaller
  <2> QED
    BY <2>1 DEF AddsUp
<1>2. IsFiniteSet(T)
  BY FS_Subset
<1>3. \A s \in SUBSET T : s \in Good
  <2> HIDE DEF Good
  <2> QED BY <1>1, <1>2, AllSubsetsAreGood
<1> QED
  BY <1>3

\* ... and there is one.
LEMMA SumsExist ==
  ASSUME NEW a, NEW S, IsFiniteSet(S)
  PROVE  AddsUp(SumsOf(a, S), a, S)
<1> DEFINE Good == {s \in SUBSET S : AddsUp(SumsOf(a, s), a, s)}
<1>1. ASSUME NEW m \in SUBSET S, \A t \in SUBSET m : t # m => t \in Good
      PROVE  m \in Good
  <2> DEFINE G == [t \in SUBSET m |-> IF t = {} THEN 0
                                      ELSE a[Chosen(t)] + SumsOf(a, Rest(t))[Rest(t)]]
  <2>1. ASSUME NEW t \in SUBSET m, t # {}
        PROVE  G[Rest(t)] = SumsOf(a, Rest(t))[Rest(t)]
    <3> DEFINE u == Rest(t)
    <3>1. u \in SUBSET m /\ u # m
      BY <2>1, RestIsSmaller
    <3>2. IsFiniteSet(u) /\ AddsUp(SumsOf(a, u), a, u)
      BY <3>1, <1>1, FS_Subset
    <3>3. CASE u = {}
      BY <3>1, <3>2, <3>3 DEF AddsUp
    <3>4. CASE u # {}
      <4>1. Rest(u) \in SUBSET m /\ Rest(u) # m /\ Rest(u) \in SUBSET u
        BY <3>1, <3>4, RestIsSmaller
      <4>2. AddsUp(SumsOf(a, Rest(u)), a, Rest(u))
        BY <4>1, <1>1
      <4>3. SumsOf(a, u)[Rest(u)] = SumsOf(a, Rest(u))[Rest(u)]
        BY <4>1, <4>2, <3>2, SumsAgree
      <4>4. SumsOf(a, u)[u] = a[Chosen(u)] + SumsOf(a, u)[Rest(u)]
        BY <3>2, <3>4 DEF AddsUp
      <4> QED
        BY <4>3, <4>4, <3>1, <3>4
    <3> QED
      BY <3>3, <3>4
  <2>2. AddsUp(G, a, m)
    BY <2>1 DEF AddsUp
  <2> QED
    BY <2>2 DEF SumsOf
<1> QED
  <2> HIDE DEF Good
  <2>1. S \in Good
    BY <1>1, AllSubsetsAreGood
  <2> QED
    BY <2>1 DEF Good

\* A sum is that of a chosen element and the rest.
LEMMA SumByChoice ==
  ASSUME NEW a, NEW S, IsFiniteSet(S)
  PROVE  SumOver(a, S) = IF S = {} THEN 0 ELSE a[Chosen(S)] + SumOver(a, Rest(S))
<1>1. AddsUp(SumsOf(a, S), a, S)
  BY SumsExist
<1>2. CASE S = {}
  BY <1>1, <1>2, SumIsLast DEF AddsUp
<1>3. CASE S # {}
  <2>1. IsFiniteSet(Rest(S)) /\ Rest(S) \in SUBSET S
    BY <1>3, RestIsSmaller, FS_Subset
  <2>2. AddsUp(SumsOf(a, Rest(S)), a, Rest(S))
    BY <2>1, SumsExist
  <2>3. SumsOf(a, S)[Rest(S)] = SumsOf(a, Rest(S))[Rest(S)]
    BY <1>1, <2>1, <2>2, SumsAgree
  <2>4. SumsOf(a, S)[S] = a[Chosen(S)] + SumsOf(a, S)[Rest(S)]
    BY <1>1, <1>3 DEF AddsUp
  <2> QED
    BY <2>3, <2>4, <1>3, SumIsLast
<1> QED
  BY <1>2, <1>3

-----------------------------------------------------------------------------
\* What can be summed: integers, over a finite set.
IsSummable(a, S) == IsFiniteSet(S) /\ \A k \in S : a[k] \in Int

\* A sum of integers is an integer.
LEMMA SumIsInteger ==
  ASSUME NEW a, NEW S, IsSummable(a, S)
  PROVE  \A s \in SUBSET S : IsFiniteSet(s) /\ SumOver(a, s) \in Int
<1> DEFINE Good == {s \in SUBSET S : SumOver(a, s) \in Int}
<1>1. \A s \in SUBSET S : IsFiniteSet(s)
  BY FS_Subset DEF IsSummable
<1>2. ASSUME NEW s \in SUBSET S, \A t \in SUBSET s : t # s => t \in Good
      PROVE  s \in Good
  <2>1. s # {} => a[Chosen(s)] \in Int /\ SumOver(a, Rest(s)) \in Int
    BY <1>2, RestIsSmaller DEF IsSummable
  <2> QED
    BY <2>1, <1>1, SumByChoice
<1>3. \A s \in SUBSET S : s \in Good
  <2> HIDE DEF Good
  <2> QED BY <1>2, AllSubsetsAreGood DEF IsSummable
<1> QED
  BY <1>1, <1>3

\* The order does not matter: any element can be taken out of a sum.
LEMMA SumTakesOut ==
  ASSUME NEW a, NEW S, IsSummable(a, S), NEW x \in S
  PROVE  SumOver(a, S) = a[x] + SumOver(a, S \ {x})
<1> DEFINE Good == {s \in SUBSET S : \A y \in s : SumOver(a, s) = a[y] + SumOver(a, s \ {y})}
<1>1. ASSUME NEW m \in SUBSET S, \A t \in SUBSET m : t # m => t \in Good
      PROVE  m \in Good
  <2> SUFFICES ASSUME NEW y \in m PROVE SumOver(a, m) = a[y] + SumOver(a, m \ {y})
    OBVIOUS
  <2>1. PICK c \in m : SumOver(a, m) = a[c] + SumOver(a, m \ {c})
    BY SumByChoice, SumIsInteger, RestIsSmaller DEF Rest
  <2>2. CASE c = y
    BY <2>1, <2>2
  <2>3. CASE c # y
    <3>1. PICK R \in SUBSET S : R = (m \ {c}) \ {y} /\ R = (m \ {y}) \ {c}
      OBVIOUS
    <3>2. SumOver(a, m \ {c}) = a[y] + SumOver(a, R)
      BY <1>1, <2>3, <3>1
    <3>3. SumOver(a, m \ {y}) = a[c] + SumOver(a, R)
      BY <1>1, <2>3, <3>1
    <3>4. a[c] \in Int /\ a[y] \in Int /\ SumOver(a, R) \in Int
      BY SumIsInteger DEF IsSummable
    <3> QED
      BY <2>1, <3>2, <3>3, <3>4
  <2> QED
    BY <2>2, <2>3
<1> QED
  <2> HIDE DEF Good
  <2>1. S \in Good
    BY <1>1, AllSubsetsAreGood DEF IsSummable
  <2> QED
    BY <2>1 DEF Good

\* Equal summands have equal sums.
LEMMA EqualSums ==
  ASSUME NEW a, NEW b, NEW S, IsFiniteSet(S), \A k \in S : a[k] = b[k]
  PROVE  SumOver(a, S) = SumOver(b, S)
<1> DEFINE Good == {s \in SUBSET S : SumOver(a, s) = SumOver(b, s)}
<1>1. ASSUME NEW s \in SUBSET S, \A t \in SUBSET s : t # s => t \in Good
      PROVE  s \in Good
  <2>1. s # {} => Chosen(s) \in S /\ SumOver(a, Rest(s)) = SumOver(b, Rest(s))
    BY <1>1, RestIsSmaller
  <2>2. IsFiniteSet(s)
    BY FS_Subset
  <2>3. SumOver(a, s) = IF s = {} THEN 0 ELSE a[Chosen(s)] + SumOver(a, Rest(s))
    BY <2>2, SumByChoice
  <2>4. SumOver(b, s) = IF s = {} THEN 0 ELSE b[Chosen(s)] + SumOver(b, Rest(s))
    BY <2>2, SumByChoice
  <2> QED
    BY <2>1, <2>3, <2>4
<1> QED
  <2> HIDE DEF Good
  <2>1. S \in Good
    BY <1>1, AllSubsetsAreGood
  <2> QED
    BY <2>1 DEF Good

\* The sum of sums.
LEMMA SumsAddUp ==
  ASSUME NEW a, NEW b, NEW c, NEW S, IsSummable(a, S), IsSummable(b, S),
         \A k \in S : c[k] = a[k] + b[k]
  PROVE  SumOver(c, S) = SumOver(a, S) + SumOver(b, S)
<1> DEFINE Good == {s \in SUBSET S : SumOver(c, s) = SumOver(a, s) + SumOver(b, s)}
<1>1. ASSUME NEW s \in SUBSET S, \A t \in SUBSET s : t # s => t \in Good
      PROVE  s \in Good
  <2>1. IsFiniteSet(s)
    BY FS_Subset DEF IsSummable
  <2>2. \A d : SumOver(d, s) = IF s = {} THEN 0 ELSE d[Chosen(s)] + SumOver(d, Rest(s))
    BY <2>1, SumByChoice
  <2>3. CASE s = {}
    BY <2>2, <2>3
  <2>4. CASE s # {}
    <3>1. PICK x \in s, r \in SUBSET s : r # s /\ \A d : SumOver(d, s) = d[x] + SumOver(d, r)
      BY <2>2, <2>4, RestIsSmaller
    <3>2. SumOver(c, r) = SumOver(a, r) + SumOver(b, r)
      BY <1>1, <3>1
    <3>3. /\ a[x] \in Int /\ b[x] \in Int /\ c[x] = a[x] + b[x]
          /\ SumOver(a, r) \in Int /\ SumOver(b, r) \in Int
      BY SumIsInteger DEF IsSummable
    <3> QED
      BY <3>1, <3>2, <3>3
  <2> QED
    BY <2>3, <2>4
<1> QED
  <2> HIDE DEF Good
  <2>1. S \in Good
    BY <1>1, AllSubsetsAreGood DEF IsSummable
  <2> QED
    BY <2>1 DEF Good

\* Nothing adds up to nothing, and what does not count can be left out.
LEMMA SumOfNothing ==
  ASSUME NEW a, NEW S, IsFiniteSet(S), \A k \in S : a[k] = 0
  PROVE  SumOver(a, S) = 0
<1> DEFINE Good == {s \in SUBSET S : SumOver(a, s) = 0}
<1>1. ASSUME NEW s \in SUBSET S, \A t \in SUBSET s : t # s => t \in Good
      PROVE  s \in Good
  <2>1. s # {} => a[Chosen(s)] = 0 /\ SumOver(a, Rest(s)) = 0
    BY <1>1, RestIsSmaller
  <2> QED
    BY <2>1, SumByChoice, FS_Subset
<1> QED
  <2> HIDE DEF Good
  <2>1. S \in Good
    BY <1>1, AllSubsetsAreGood
  <2> QED
    BY <2>1 DEF Good

\* The sum over two parts without a common element.
LEMMA SumOfParts ==
  ASSUME NEW a, NEW S, NEW T, IsSummable(a, S \union T), S \intersect T = {}
  PROVE  SumOver(a, S \union T) = SumOver(a, S) + SumOver(a, T)
<1> DEFINE Good == {t \in SUBSET T : SumOver(a, S \union t) = SumOver(a, S) + SumOver(a, t)}
<1>1. IsFiniteSet(T)
  BY FS_Subset DEF IsSummable
<1>2. \A s \in SUBSET (S \union T) : IsSummable(a, s) /\ SumOver(a, s) \in Int
  BY SumIsInteger, FS_Subset DEF IsSummable
<1>3. ASSUME NEW t \in SUBSET T, \A u \in SUBSET t : u # t => u \in Good
      PROVE  t \in Good
  <2>1. CASE t = {}
    <3>1. SumOver(a, t) = 0
      BY <2>1, FS_EmptySet, SumByChoice
    <3>2. S \union t = S
      BY <2>1
    <3>3. SumOver(a, S \union t) = SumOver(a, S) /\ SumOver(a, S) \in Int
      BY <3>2, <1>2
    <3> QED
      BY <3>1, <3>3
  <2>2. CASE t # {}
    <3> PICK x \in t : TRUE
      BY <2>2
    <3> DEFINE r == t \ {x}
               s == S \union t
    <3>1. /\ r \in SUBSET t /\ r # t /\ r \in SUBSET (S \union T) /\ t \in SUBSET (S \union T)
          /\ s \in SUBSET (S \union T) /\ S \union r = s \ {x} /\ x \in s
      OBVIOUS
    <3> HIDE DEF s
    <3>2. SumOver(a, t) = a[x] + SumOver(a, r)
      BY <3>1, <1>2, SumTakesOut
    <3>3. SumOver(a, s) = a[x] + SumOver(a, S \union r)
      BY <3>1, <1>2, SumTakesOut
    <3>4. SumOver(a, S \union r) = SumOver(a, S) + SumOver(a, r)
      BY <1>3, <3>1
    <3>5. a[x] \in Int /\ SumOver(a, S) \in Int /\ SumOver(a, r) \in Int
      BY <1>2 DEF IsSummable
    <3> QED
      BY <3>2, <3>3, <3>4, <3>5 DEF s
  <2> QED
    BY <2>1, <2>2
<1>4. T \in Good
  <2> HIDE DEF Good
  <2> QED BY <1>1, <1>3, AllSubsetsAreGood
<1> QED
  BY <1>4

\* Renaming what is summed over.
LEMMA SumRenamed ==
  ASSUME NEW a, NEW b, NEW S, NEW T, NEW h \in [S -> T], IsSummable(a, S), IsFiniteSet(T),
         \A j, k \in S : h[j] = h[k] => j = k, \A t \in T : \E k \in S : h[k] = t,
         \A k \in S : a[k] = b[h[k]]
  PROVE  SumOver(a, S) = SumOver(b, T)
<1> DEFINE Img(s) == {h[k] : k \in s}
           Good == {s \in SUBSET S : SumOver(a, s) = SumOver(b, Img(s))}
<1>1. ASSUME NEW s \in SUBSET S, \A t \in SUBSET s : t # s => t \in Good
      PROVE  s \in Good
  <2>1. CASE s = {}
    BY <2>1, SumByChoice, FS_EmptySet
  <2>2. CASE s # {}
    <3>1. PICK x \in s : SumOver(a, s) = a[x] + SumOver(a, s \ {x})
      BY <2>2, SumTakesOut, FS_Subset DEF IsSummable
    <3>2. Img(s \ {x}) = Img(s) \ {h[x]} /\ h[x] \in Img(s)
      OBVIOUS
    <3>3. IsSummable(b, Img(s))
      BY FS_Subset DEF IsSummable
    <3>4. SumOver(b, Img(s)) = b[h[x]] + SumOver(b, Img(s) \ {h[x]})
      BY <3>2, <3>3, SumTakesOut
    <3>5. SumOver(a, s \ {x}) = SumOver(b, Img(s \ {x}))
      BY <1>1
    <3> QED
      BY <3>1, <3>2, <3>4, <3>5
  <2> QED
    BY <2>1, <2>2
<1>2. S \in Good
  <2> HIDE DEF Good
  <2> QED BY <1>1, AllSubsetsAreGood DEF IsSummable
<1>3. Img(S) = T
  OBVIOUS
<1> QED
  BY <1>2, <1>3

\* A sum stays in a set that is closed under addition.
LEMMA SumStaysInside ==
  ASSUME NEW a, NEW S, IsFiniteSet(S), NEW C, 0 \in C, \A x, y \in C : x + y \in C,
         \A k \in S : a[k] \in C
  PROVE  SumOver(a, S) \in C
<1> DEFINE Good == {s \in SUBSET S : SumOver(a, s) \in C}
<1>1. ASSUME NEW s \in SUBSET S, \A t \in SUBSET s : t # s => t \in Good
      PROVE  s \in Good
  <2>1. s # {} => a[Chosen(s)] \in C /\ SumOver(a, Rest(s)) \in C
    BY <1>1, RestIsSmaller
  <2> QED
    BY <2>1, SumByChoice, FS_Subset
<1> QED
  <2> HIDE DEF Good
  <2>1. S \in Good
    BY <1>1, AllSubsetsAreGood
  <2> QED
    BY <2>1 DEF Good

\* The sum of what is taken away.
LEMMA SumNegated ==
  ASSUME NEW a, NEW b, NEW S, IsSummable(a, S), \A k \in S : b[k] = -a[k]
  PROVE  SumOver(b, S) = -SumOver(a, S)
<1> DEFINE z == [k \in S |-> 0]
<1>1. IsSummable(b, S) /\ IsFiniteSet(S)
  BY DEF IsSummable
<1>2. \A k \in S : z[k] = a[k] + b[k] /\ z[k] = 0
  BY DEF IsSummable
<1> HIDE DEF z
<1>3. SumOver(z, S) = SumOver(a, S) + SumOver(b, S) /\ SumOver(z, S) = 0
  BY <1>1, <1>2, SumsAddUp, SumOfNothing
<1>4. SumOver(a, S) \in Int /\ SumOver(b, S) \in Int
  BY <1>1, SumIsInteger
<1> QED
  BY <1>3, <1>4

\* Row by row or column by column, a table adds up to the same.
LEMMA SumOfSums ==
  ASSUME NEW F, NEW K, IsFiniteSet(F), IsFiniteSet(K), NEW x,
         \A f \in F, k \in K : x[f][k] \in Int
  PROVE  SumOver([f \in F |-> SumOver(x[f], K)], F)
           = SumOver([k \in K |-> SumOver([f \in F |-> x[f][k]], F)], K)
<1> DEFINE InRow == [f \in F |-> SumOver(x[f], K)]
           Col(k) == [f \in F |-> x[f][k]]
           InCol(G) == [k \in K |-> SumOver(Col(k), G)]
           Good == {G \in SUBSET F : SumOver(InRow, G) = SumOver(InCol(G), K)}
<1>1. /\ \A f \in F : IsSummable(x[f], K) /\ SumOver(x[f], K) \in Int
      /\ \A k \in K : IsSummable(Col(k), F)
  BY SumIsInteger DEF IsSummable
<1>2. /\ \A f \in F : InRow[f] = SumOver(x[f], K)
      /\ IsSummable(InRow, F)
  BY <1>1 DEF IsSummable
<1>3. /\ \A G : \A k \in K : InCol(G)[k] = SumOver(Col(k), G)
      /\ \A k \in K : \A f \in F : Col(k)[f] = x[f][k]
  OBVIOUS
<1> HIDE DEF InRow, Col, InCol
<1>4. \A G \in SUBSET F : /\ IsFiniteSet(G) /\ IsSummable(InRow, G)
                         /\ \A k \in K : IsSummable(Col(k), G) /\ SumOver(Col(k), G) \in Int
  BY <1>1, <1>2, FS_Subset, SumIsInteger DEF IsSummable
<1>5. ASSUME NEW G \in SUBSET F, \A H \in SUBSET G : H # G => H \in Good
      PROVE  G \in Good
  <2>1. CASE G = {}
    <3>1. \A k \in K : InCol(G)[k] = 0
      BY <2>1, <1>3, FS_EmptySet, SumByChoice
    <3>2. SumOver(InCol(G), K) = 0
      BY <3>1, SumOfNothing
    <3>3. SumOver(InRow, G) = 0
      BY <2>1, FS_EmptySet, SumByChoice
    <3> QED
      BY <3>2, <3>3
  <2>2. CASE G # {}
    <3> PICK g \in G : TRUE
      BY <2>2
    <3> DEFINE R == G \ {g}
    <3>1. R \in SUBSET G /\ R # G /\ R \in SUBSET F /\ g \in F
      OBVIOUS
    <3>2. SumOver(InRow, R) = SumOver(InCol(R), K)
      BY <1>5, <3>1
    <3>3. SumOver(InRow, G) = SumOver(x[g], K) + SumOver(InRow, R)
      BY <1>2, <1>4, SumTakesOut
    <3>4. ASSUME NEW k \in K
          PROVE  SumOver(Col(k), G) = x[g][k] + SumOver(Col(k), R)
      <4>1. PICK col : col = Col(k)
        OBVIOUS
      <4>2. IsSummable(col, G) /\ col[g] = x[g][k]
        BY <1>3, <1>4, <3>1, <4>1
      <4> QED
        BY <4>1, <4>2, SumTakesOut
    <3> HIDE DEF R
    <3>5. \A k \in K : InCol(G)[k] = x[g][k] + InCol(R)[k]
      BY <1>3, <3>4
    <3>6. IsSummable(x[g], K) /\ IsSummable(InCol(R), K)
      BY <1>1, <1>3, <1>4, <3>1 DEF IsSummable
    <3>7. SumOver(InCol(G), K) = SumOver(x[g], K) + SumOver(InCol(R), K)
      BY <3>5, <3>6, SumsAddUp
    <3> QED
      BY <3>2, <3>3, <3>7
  <2> QED
    BY <2>1, <2>2
<1>6. F \in Good
  <2> HIDE DEF Good
  <2> QED BY <1>5, AllSubsetsAreGood
<1> QED
  BY <1>6 DEF InRow, Col, InCol

\* A sum of multiples.
LEMMA SumMultiplied ==
  ASSUME NEW a, NEW b, NEW S, NEW r \in Int, IsSummable(a, S), \A k \in S : b[k] = a[k] * r
  PROVE  SumOver(b, S) = SumOver(a, S) * r
<1> DEFINE Good == {s \in SUBSET S : SumOver(b, s) = SumOver(a, s) * r}
<1>1. ASSUME NEW s \in SUBSET S, \A t \in SUBSET s : t # s => t \in Good
      PROVE  s \in Good
  <2>1. IsFiniteSet(s)
    BY FS_Subset DEF IsSummable
  <2>2. CASE s = {}
    <3>1. SumOver(a, s) = 0 /\ SumOver(b, s) = 0
      BY <2>1, <2>2, SumByChoice
    <3>2. 0 * r = 0
      OBVIOUS
    <3> QED
      BY <3>1, <3>2
  <2>3. CASE s # {}
    <3> DEFINE x == Chosen(s)
               t == Rest(s)
    <3>1. x \in S /\ t \in SUBSET s /\ t # s
      BY <2>3, RestIsSmaller
    <3>2. SumOver(b, t) = SumOver(a, t) * r /\ b[x] = a[x] * r
      BY <1>1, <3>1
    <3>3. a[x] \in Int /\ SumOver(a, t) \in Int
      BY <3>1, SumIsInteger DEF IsSummable
    <3>4. SumOver(a, s) = a[x] + SumOver(a, t) /\ SumOver(b, s) = b[x] + SumOver(b, t)
      BY <2>1, <2>3, SumByChoice
    <3> HIDE DEF x, t
    <3>5. (a[x] + SumOver(a, t)) * r = a[x] * r + SumOver(a, t) * r
      BY <3>3
    <3> QED
      BY <3>2, <3>4, <3>5
  <2> QED
    BY <2>2, <2>3
<1> QED
  <2> HIDE DEF Good
  <2>1. IsFiniteSet(S)
    BY DEF IsSummable
  <2>2. S \in Good
    BY <1>1, <2>1, AllSubsetsAreGood
  <2> QED
    BY <2>2 DEF Good

\* The rounding helpers.
LEMMA RoundedDivIsInteger ==
  \A a \in Int, b \in Nat \ {0} : RoundedDiv(a, b) \in Int
BY DEF RoundedDiv

\* An amount that was rounded is in whole grosze, and rounding changes no such amount.
LEMMA RoundedIsWhole ==
  /\ \A x \in Int : RoundPln(x) \in WholeGrosze
  /\ \A x \in WholeGrosze : RoundPln(x) = x
BY DEF RoundPln, RoundedDiv, WholeGrosze

\* Sums and differences of whole grosze are whole grosze.
LEMMA WholeGroszeAddUp ==
  /\ 0 \in WholeGrosze /\ WholeGrosze \subseteq Int
  /\ \A x, y \in WholeGrosze : x + y \in WholeGrosze /\ x - y \in WholeGrosze
  /\ \A n \in Int : 10 * n \in WholeGrosze
BY DEF WholeGrosze

-----------------------------------------------------------------------------
(* The tables of the tax.                                                  *)
LEMMA CategoryNames ==
  Categories = {"rate_23", "rate_22", "rate_8", "rate_7", "rate_5", "rate_4", "rate_3",
                "zero_domestic", "zero_wdt", "zero_export", "exempt", "reverse_charge",
                "out_of_scope_outside_territory", "out_of_scope_article_100"}
BY DEF Categories, NumericRate

\* The code of every category is read as that category.
LEMMA SchemaCodesComeBack ==
  \A c \in Categories : /\ FromSchemaCode(SchemaCode[c]) = c
                        /\ SchemaCode[c] \in SchemaCodes
                        /\ SchemaCode[c] # None
<1>1. /\ SchemaCode["rate_23"] = "23" /\ SchemaCode["rate_22"] = "22"
      /\ SchemaCode["rate_8"] = "8" /\ SchemaCode["rate_7"] = "7"
      /\ SchemaCode["rate_5"] = "5" /\ SchemaCode["rate_4"] = "4"
      /\ SchemaCode["rate_3"] = "3" /\ SchemaCode["zero_domestic"] = "0 KR"
      /\ SchemaCode["zero_wdt"] = "0 WDT" /\ SchemaCode["zero_export"] = "0 EX"
      /\ SchemaCode["exempt"] = "zw" /\ SchemaCode["reverse_charge"] = "oo"
      /\ SchemaCode["out_of_scope_outside_territory"] = "np I"
      /\ SchemaCode["out_of_scope_article_100"] = "np II"
  BY DEF SchemaCode, VatRateForCategory
<1>2. ASSUME NEW c \in Categories, NEW d \in Categories, SchemaCode[c] = SchemaCode[d]
      PROVE  c = d
  <2> HIDE DEF SchemaCode
  <2>1. CASE c \in {"rate_23", "rate_22", "rate_8", "rate_7"}
    BY <1>1, <1>2, <2>1, CategoryNames
  <2>2. CASE c \in {"rate_5", "rate_4", "rate_3", "zero_domestic", "zero_wdt"}
    BY <1>1, <1>2, <2>2, CategoryNames
  <2>3. CASE c \in {"zero_export", "exempt", "reverse_charge",
                    "out_of_scope_outside_territory", "out_of_scope_article_100"}
    BY <1>1, <1>2, <2>3, CategoryNames
  <2> QED
    BY <2>1, <2>2, <2>3, CategoryNames
<1> QED
  BY <1>2, NoneIsNothing DEF FromSchemaCode, SchemaCodes

\* A marker stands for a category ...
LEMMA DefaultIsACategory ==
  \A r \in Markers : DefaultCategory(r) \in Categories
BY CategoryNames DEF DefaultCategory, Markers, VatRateForCategory

\* ... which has a rate in percent or none.
LEMMA RatesArePercent ==
  \A c \in Categories : NumericRate[c] \in Nat \union {None}
BY CategoryNames DEF NumericRate

\* What the tax of a line says once it is normalised: the two names of its
\* category agree.
LEMMA NormalizedTax ==
  ASSUME NEW i \in LineInputs, NEW t \in NormalizeTaxFields(i)
  PROVE  /\ t.tax_regime \in TaxRegimes
         /\ t.vat_classification \in Categories \union {None}
         /\ t.sale_category = t.vat_classification
         /\ t.vat_rate \in Markers \union {None}
<1>1. PICK p \in ParseSaleCategory(i.sale_category, i.vat_rate) :
        /\ t.tax_regime = Or(i.tax_regime, Or(p.regime, "standard"))
        /\ t.vat_classification =
              Or(i.vat_classification, Or(p.category,
                 IF i.vat_rate # None /\ t.tax_regime # "margin"
                   THEN DefaultCategory(i.vat_rate) ELSE None))
        /\ t.sale_category = Or(p.category, t.vat_classification)
        /\ t.vat_rate = Or(i.vat_rate, IF t.vat_classification = None THEN None
                              ELSE VatRateForCategory[t.vat_classification])
        /\ i.vat_classification # None => t.sale_category = t.vat_classification
  BY DEF NormalizeTaxFields
<1>2. /\ i.sale_category \in Categories \union TaxRegimes \union {None}
      /\ i.vat_rate \in Markers \union {None}
      /\ i.tax_regime \in TaxRegimes \union {None}
      /\ i.vat_classification \in Categories \union {None}
  BY DEF LineInputs
<1>3. /\ p.category \in Categories \union {None}
      /\ p.regime \in TaxRegimes \union {None}
  BY <1>2, CategoryNames, DefaultIsACategory DEF ParseSaleCategory, TaxRegimes
<1>4. t.tax_regime \in TaxRegimes
  BY <1>1, <1>2, <1>3 DEF Or, TaxRegimes
<1>5. t.vat_classification \in Categories \union {None}
  BY <1>1, <1>2, <1>3, DefaultIsACategory DEF Or
<1>6. t.sale_category = t.vat_classification
  BY <1>1, <1>3 DEF Or
<1>7. t.vat_rate \in Markers \union {None}
  BY <1>1, <1>2, <1>5 DEF Or, Markers
<1> QED
  BY <1>4, <1>5, <1>6, <1>7

-----------------------------------------------------------------------------
(* Lines that are constructed.                                             *)

\* The percentage a line is computed with is a number, if there is one.
LEMMA PercentIsPercent ==
  ASSUME NEW i \in LineInputs, NEW t, t.vat_classification \in Categories \union {None}
  PROVE  VatPercent(t, i.vat_rate_xii) \in Nat \union {None}
BY RatesArePercent DEF VatPercent, LineInputs

\* The net amount and the VAT that are computed of whole grosze are whole grosze.
LEMMA NetAndVatAreWhole ==
  \A x \in WholeGrosze, percent \in Nat \union {None} :
    NetOfGross(x, percent) \in WholeGrosze /\ VatOfNet(x, percent) \in WholeGrosze
<1> SUFFICES ASSUME NEW x \in WholeGrosze, NEW percent \in Nat \union {None}
             PROVE  NetOfGross(x, percent) \in WholeGrosze /\ VatOfNet(x, percent) \in WholeGrosze
  OBVIOUS
<1>1. CASE percent = None
  BY <1>1, WholeGroszeAddUp DEF NetOfGross, VatOfNet
<1>2. CASE percent \in Nat
  <2>1. RoundedDiv(10 * x, 100 + percent) \in Int /\ RoundedDiv(x * percent, 1000) \in Int
    BY <1>2, RoundedDivIsInteger, WholeGroszeAddUp
  <2>2. percent # None
    BY <1>2, NoneIsNothing
  <2>3. NetOfGross(x, percent) \in WholeGrosze
    BY <2>1, <2>2, WholeGroszeAddUp DEF NetOfGross
  <2>4. VatOfNet(x, percent) \in WholeGrosze
    BY <2>1, <2>2, WholeGroszeAddUp DEF VatOfNet
  <2> QED
    BY <2>3, <2>4
<1> QED
  BY <1>1, <1>2

\* What is known of the amounts of a row: the net amount, the VAT and the gross
\* amount are computed together or not at all.
KnowsItsAmounts(r) ==
  /\ {r.net_amount, r.vat_amount, r.gross_amount} \subseteq WholeGrosze \union {None}
  /\ r.net_amount # None => r.vat_amount # None /\ r.gross_amount # None
  /\ r.net_amount = None => r.gross_amount = None

\* compute_financial_fields: amounts that were given stay, the others are computed.
LEMMA ComputedAmounts ==
  ASSUME NEW i \in LineInputs, NEW t, t.vat_classification \in Categories \union {None}
  PROVE  LET a == ComputeFinancialField(i, t)
         IN /\ KnowsItsAmounts(a)
            /\ a.net_amount = None =>
                 i.quantity = None \/ (i.unit_price_net = None /\ i.unit_price_gross = None)
            /\ i.net_amount # None => a.net_amount = i.net_amount
            /\ i.vat_amount # None => a.vat_amount = i.vat_amount
            /\ i.gross_amount # None => a.gross_amount = i.gross_amount
            /\ i.gross_amount # None /\ i.net_amount # None /\ i.vat_amount = None =>
                 a.vat_amount = i.gross_amount - i.net_amount
<1> DEFINE percent == VatPercent(t, i.vat_rate_xii)
           Value(price) == RoundPln(price * i.quantity) - Or(i.discount_amount, 0)
           gross == IF i.gross_amount = None /\ i.net_amount = None
                       /\ i.unit_price_net = None
                       /\ i.unit_price_gross # None /\ i.quantity # None
                      THEN Value(i.unit_price_gross) ELSE i.gross_amount
           net == IF i.net_amount # None THEN i.net_amount
                  ELSE IF gross # None THEN NetOfGross(gross, percent)
                  ELSE IF i.unit_price_net # None /\ i.quantity # None
                    THEN Value(i.unit_price_net) ELSE None
           vat == IF i.vat_amount # None THEN i.vat_amount
                  ELSE IF gross # None THEN RoundPln(gross - net)
                  ELSE IF net # None THEN VatOfNet(net, percent) ELSE None
<1>1. ComputeFinancialField(i, t) =
        [net_amount |-> net, vat_amount |-> vat,
         gross_amount |-> IF gross = None /\ net # None /\ vat # None
                            THEN RoundPln(net + vat) ELSE gross]
  BY DEF ComputeFinancialField
<1>2. /\ {i.net_amount, i.vat_amount, i.gross_amount, i.discount_amount} \subseteq WholeGrosze \union {None}
      /\ {i.quantity, i.unit_price_net, i.unit_price_gross} \subseteq Int \union {None}
      /\ None \notin WholeGrosze /\ percent \in Nat \union {None}
  BY PercentIsPercent, NoneIsNothing, WholeGroszeAddUp DEF LineInputs
<1>3. \A price \in Int : i.quantity # None => Value(price) \in WholeGrosze
  <2> SUFFICES ASSUME NEW price \in Int, i.quantity # None PROVE Value(price) \in WholeGrosze
    OBVIOUS
  <2>1. price * i.quantity \in Int
    BY <1>2
  <2>2. RoundPln(price * i.quantity) \in WholeGrosze /\ Or(i.discount_amount, 0) \in WholeGrosze
    BY <2>1, <1>2, RoundedIsWhole, WholeGroszeAddUp DEF Or
  <2> QED
    BY <2>2, WholeGroszeAddUp
<1> HIDE DEF Value, percent
<1>4. gross \in WholeGrosze \union {None}
  BY <1>2, <1>3
<1> HIDE DEF gross
<1>5. net \in WholeGrosze \union {None} /\ (gross # None => net # None)
  BY <1>2, <1>3, <1>4, NetAndVatAreWhole
<1>6. net = None => /\ gross = None
                    /\ i.quantity = None \/ (i.unit_price_net = None /\ i.unit_price_gross = None)
  BY <1>2, <1>3, <1>5, NetAndVatAreWhole DEF gross
<1>7. i.net_amount # None => net = i.net_amount
  OBVIOUS
<1>8. i.gross_amount # None => gross = i.gross_amount
  BY DEF gross
<1> HIDE DEF net
<1>9. /\ vat \in WholeGrosze \union {None}
      /\ net # None => vat # None
      /\ i.vat_amount # None => vat = i.vat_amount
      /\ i.gross_amount # None /\ i.net_amount # None /\ i.vat_amount = None =>
           vat = i.gross_amount - i.net_amount
  BY <1>2, <1>4, <1>5, <1>7, <1>8, NetAndVatAreWhole, RoundedIsWhole, WholeGroszeAddUp
<1> HIDE DEF vat
<1>10. net # None /\ vat # None => RoundPln(net + vat) \in WholeGrosze
  BY <1>5, <1>9, RoundedIsWhole, WholeGroszeAddUp
<1> QED
  BY <1>1, <1>2, <1>4, <1>5, <1>6, <1>7, <1>8, <1>9, <1>10 DEF KnowsItsAmounts

\* A row that was constructed.
IsRow(r) ==
  /\ r \in LineInputs
  /\ r.tax_regime \in TaxRegimes
  /\ r.vat_classification \in Categories \union {None}
  /\ r.sale_category = r.vat_classification
  /\ r.quantity # 0
  /\ TaxRulesHold(r)
  /\ KnowsItsAmounts(r)
  /\ r.gross_amount # None => r.gross_amount = r.net_amount + r.vat_amount
  /\ r.net_amount = None =>
       r.quantity = None \/ (r.unit_price_net = None /\ r.unit_price_gross = None)

\* The tax of a line, normalised, and its amounts.
IsTax(t) ==
  /\ t.tax_regime \in TaxRegimes
  /\ t.vat_classification \in Categories \union {None}
  /\ t.sale_category = t.vat_classification
  /\ t.vat_rate \in Markers \union {None}

AreAmounts(a) == {a.net_amount, a.vat_amount, a.gross_amount} \subseteq WholeGrosze \union {None}

\* The fields that constructing a line leaves alone.
KeptFields == {"vat_rate_xii", "quantity", "unit_price_net", "unit_price_gross",
               "discount_amount", "currency_exchange_rate", "before_correction"}

\* A line that is put together holds what it was put together of.
LEMMA FieldsOfALine ==
  ASSUME NEW i \in LineInputs, NEW t, IsTax(t), NEW a, AreAmounts(a),
         NEW built, built = WithFields(i, t, a)
  PROVE  /\ built \in LineInputs
         /\ built.tax_regime = t.tax_regime /\ built.vat_classification = t.vat_classification
         /\ built.sale_category = t.sale_category /\ built.vat_rate = t.vat_rate
         /\ built.net_amount = a.net_amount /\ built.vat_amount = a.vat_amount
         /\ built.gross_amount = a.gross_amount
         /\ \A f \in KeptFields : built[f] = i[f]
<1> DEFINE rec == [vat_classification |-> t.vat_classification, vat_rate |-> t.vat_rate,
                  sale_category |-> t.sale_category, tax_regime |-> t.tax_regime,
                  vat_rate_xii |-> i.vat_rate_xii, quantity |-> i.quantity,
                  unit_price_net |-> i.unit_price_net, unit_price_gross |->
                  i.unit_price_gross, discount_amount |-> i.discount_amount, net_amount
                  |-> a.net_amount, vat_amount |-> a.vat_amount, gross_amount |->
                  a.gross_amount, currency_exchange_rate |-> i.currency_exchange_rate,
                  before_correction |-> i.before_correction]
<1>1. built = rec
  BY DEF LineInputs, WithFields
<1>2. rec \in LineInputs
  BY DEF LineInputs, IsTax, AreAmounts
<1> QED
  BY <1>1, <1>2 DEF KeptFields

\* Every row that is constructed.
LEMMA ConstructedRow ==
  ASSUME NEW i \in LineInputs, NEW r \in InvoiceRow(i)
  PROVE  IsRow(r) /\ \A f \in KeptFields : r[f] = i[f]
<1>1. PICK t \in NormalizeTaxFields(i) :
        /\ r = WithFields(i, t, ComputeFinancialField(i, t))
        /\ r.quantity # 0 /\ TaxRulesHold(r)
        /\ r.gross_amount # None => r.gross_amount = r.net_amount + r.vat_amount
  BY DEF InvoiceRow
<1>2. /\ IsTax(t) /\ t.tax_regime \in TaxRegimes
      /\ t.vat_classification \in Categories \union {None}
      /\ t.sale_category = t.vat_classification
  BY NormalizedTax DEF IsTax
<1> DEFINE a == ComputeFinancialField(i, t)
<1>3. /\ KnowsItsAmounts(a)
      /\ a.net_amount = None =>
           i.quantity = None \/ (i.unit_price_net = None /\ i.unit_price_gross = None)
  BY <1>2, ComputedAmounts
<1> HIDE DEF a
<1>4. AreAmounts(a)
  BY <1>3 DEF KnowsItsAmounts, AreAmounts
<1>5. /\ r \in LineInputs
      /\ r.tax_regime = t.tax_regime /\ r.vat_classification = t.vat_classification
      /\ r.sale_category = t.sale_category /\ r.vat_rate = t.vat_rate
      /\ r.net_amount = a.net_amount /\ r.vat_amount = a.vat_amount
      /\ r.gross_amount = a.gross_amount
      /\ \A f \in KeptFields : r[f] = i[f]
  BY <1>1, <1>2, <1>4, FieldsOfALine DEF a
<1>6. r.quantity = i.quantity /\ r.unit_price_net = i.unit_price_net
      /\ r.unit_price_gross = i.unit_price_gross
  BY <1>5 DEF KeptFields
<1>7. KnowsItsAmounts(r)
  BY <1>3, <1>5 DEF KnowsItsAmounts
<1> QED
  BY <1>1, <1>2, <1>3, <1>5, <1>6, <1>7 DEF IsRow

\* An order line that was constructed.
IsOrderLine(l) ==
  /\ l \in LineInputs
  /\ l.tax_regime \in TaxRegimes
  /\ l.vat_classification \in Categories \union {None}
  /\ l.sale_category = l.vat_classification
  /\ OrderTaxRulesHold(l)
  /\ {l.net_amount, l.vat_amount, l.gross_amount} \subseteq WholeGrosze \union {None}
  /\ (l.gross_amount = None) = (None \in {l.net_amount, l.vat_amount})

\* Every line of an order that is constructed.
LEMMA ConstructedOrderLine ==
  ASSUME NEW i \in LineInputs, NEW l \in InvoiceOrderLine(i)
  PROVE  IsOrderLine(l) /\ \A f \in KeptFields : l[f] = i[f]
<1>1. PICK t \in NormalizeTaxFields(i) :
        l = WithFields(i, t, ComputeOrderFields(i, t)) /\ OrderTaxRulesHold(l)
  BY DEF InvoiceOrderLine
<1>2. /\ IsTax(t) /\ t.tax_regime \in TaxRegimes
      /\ t.vat_classification \in Categories \union {None}
      /\ t.sale_category = t.vat_classification
  BY NormalizedTax DEF IsTax
<1> DEFINE percent == VatPercent(t, i.vat_rate_xii)
           gross == IF i.gross_amount = None THEN None ELSE RoundPln(i.gross_amount)
           net == IF i.net_amount = None /\ gross # None
                    THEN NetOfGross(gross, percent) ELSE i.net_amount
           vat == IF i.vat_amount = None /\ gross # None
                    THEN RoundPln(gross - net) ELSE i.vat_amount
           a == [net_amount |-> net, vat_amount |-> vat,
                 gross_amount |-> IF gross = None /\ net # None /\ vat # None
                                    THEN RoundPln(net + vat) ELSE gross]
<1>3. ComputeOrderFields(i, t) = a
  BY DEF ComputeOrderFields
<1>4. /\ {i.net_amount, i.vat_amount, i.gross_amount} \subseteq WholeGrosze \union {None}
      /\ None \notin WholeGrosze /\ percent \in Nat \union {None}
  BY <1>2, PercentIsPercent, NoneIsNothing, WholeGroszeAddUp DEF LineInputs
<1> HIDE DEF percent
<1>5. gross \in WholeGrosze \union {None}
  BY <1>4, RoundedIsWhole, WholeGroszeAddUp
<1> HIDE DEF gross
<1>6. net \in WholeGrosze \union {None} /\ (gross # None => net # None)
  BY <1>4, <1>5, NetAndVatAreWhole
<1> HIDE DEF net
<1>7. vat \in WholeGrosze \union {None} /\ (gross # None => vat # None)
  BY <1>4, <1>5, <1>6, RoundedIsWhole, WholeGroszeAddUp
<1> HIDE DEF vat
<1>8. net # None /\ vat # None => RoundPln(net + vat) \in WholeGrosze
  BY <1>6, <1>7, RoundedIsWhole, WholeGroszeAddUp
<1>9. /\ {a.net_amount, a.vat_amount, a.gross_amount} \subseteq WholeGrosze \union {None}
      /\ AreAmounts(a)
      /\ (a.gross_amount = None) = (None \in {a.net_amount, a.vat_amount})
  BY <1>4, <1>5, <1>6, <1>7, <1>8 DEF AreAmounts
<1> HIDE DEF a
<1>10. /\ l \in LineInputs
       /\ l.tax_regime = t.tax_regime /\ l.vat_classification = t.vat_classification
       /\ l.sale_category = t.sale_category /\ l.vat_rate = t.vat_rate
       /\ l.net_amount = a.net_amount /\ l.vat_amount = a.vat_amount
       /\ l.gross_amount = a.gross_amount
       /\ \A f \in KeptFields : l[f] = i[f]
  BY <1>1, <1>2, <1>3, <1>9, FieldsOfALine
<1> QED
  BY <1>1, <1>2, <1>9, <1>10 DEF IsOrderLine

-----------------------------------------------------------------------------
(* Lines that are read back.                                               *)

\* The category that is written of a line.
WrittenCategory(l) ==
  IF l.tax_regime \in {"margin", "special_xii"} THEN None ELSE l.vat_classification

MarkerOf(c) == IF c = None THEN None ELSE VatRateForCategory[c]

\* What the mapper says of the tax is what normalising it gives.
LEMMA NormalizedRead ==
  ASSUME NEW i \in LineInputs, i.tax_regime \in TaxRegimes,
         i.sale_category = i.vat_classification, i.vat_rate = MarkerOf(i.vat_classification)
  PROVE  NormalizeTaxFields(i) =
           {[tax_regime |-> i.tax_regime, vat_classification |-> i.vat_classification,
             sale_category |-> i.vat_classification, vat_rate |-> i.vat_rate]}
<1> DEFINE c == i.vat_classification
           t == [tax_regime |-> i.tax_regime, vat_classification |-> c,
                 sale_category |-> c, vat_rate |-> i.vat_rate]
<1>1. c \in Categories \union {None} /\ i.tax_regime # None
  BY NoneIsNothing DEF LineInputs
<1>2. ParseSaleCategory(i.sale_category, i.vat_rate) = {[category |-> c, regime |-> None]}
  BY <1>1, NoneIsNothing, CategoryNames DEF ParseSaleCategory, TaxRegimes
<1>3. c # None => VatRateForCategory[c] \in Markers /\ VatRateForCategory[c] # None
  BY <1>1, NoneIsNothing DEF Markers
<1>4. /\ Or(i.tax_regime, Or(None, "standard")) = i.tax_regime
      /\ Or(c, Or(c, IF i.vat_rate # None /\ i.tax_regime # "margin"
                       THEN DefaultCategory(i.vat_rate) ELSE None)) = c
      /\ Or(c, c) = c
      /\ Or(i.vat_rate, IF c = None THEN None ELSE VatRateForCategory[c]) = i.vat_rate
  BY <1>1, <1>3 DEF Or, MarkerOf
<1>5. i.vat_classification # None => i.vat_rate = VatRateForCategory[i.vat_classification]
  BY DEF MarkerOf
<1>6. NormalizeTaxFields(i) = {t}
  <2> DEFINE FieldsOf(p) ==
        LET regime == Or(i.tax_regime, Or(p.regime, "standard"))
            classification ==
              Or(i.vat_classification, Or(p.category,
                 IF i.vat_rate # None /\ regime # "margin"
                   THEN DefaultCategory(i.vat_rate) ELSE None))
        IN [tax_regime |-> regime,
            vat_classification |-> classification,
            sale_category |-> Or(p.category, classification),
            vat_rate |-> Or(i.vat_rate,
                            IF classification = None THEN None
                              ELSE VatRateForCategory[classification])]
  <2>1. FieldsOf([category |-> c, regime |-> None]) = t
    BY <1>4
  <2>2. NormalizeTaxFields(i) =
          {f \in {FieldsOf(p) : p \in ParseSaleCategory(i.sale_category, i.vat_rate)} :
             i.vat_classification # None =>
               /\ f.sale_category = f.vat_classification
               /\ f.vat_rate = VatRateForCategory[f.vat_classification]}
    BY DEF NormalizeTaxFields
  <2> HIDE DEF FieldsOf
  <2>3. {FieldsOf(p) : p \in ParseSaleCategory(i.sale_category, i.vat_rate)} = {t}
    BY <1>2, <2>1
  <2> QED
    BY <2>2, <2>3, <1>5
<1> QED
  BY <1>6

\* What is written of the VAT of a line, and of its category.
LEMMA WhatIsWritten ==
  ASSUME NEW l, l \in LineInputs, l.tax_regime \in TaxRegimes
  PROVE  /\ LineVat(l) \in {None, l.vat_amount}
         /\ WrittenCategory(l) \in Categories \union {None}
         /\ (IF LineRate(l) = None THEN None ELSE FromSchemaCode(LineRate(l))) = WrittenCategory(l)
<1>1. l.vat_classification \in Categories \union {None}
  BY DEF LineInputs
<1> QED
  BY <1>1, SchemaCodesComeBack DEF LineVat, WrittenCategory, LineRate

\* What the mapper of a row, or of an order line, hands to the constructor.
LEMMA RowAsRead ==
  ASSUME NEW r, IsRow(r), NEW margin \in BOOLEAN,
         NEW i, i = LineRead(FakturaFaFaWiersz(r), margin)
  PROVE  /\ i \in LineInputs
         /\ i.vat_classification = WrittenCategory(r) /\ i.sale_category = WrittenCategory(r)
         /\ i.vat_rate = MarkerOf(WrittenCategory(r))
         /\ i.tax_regime = TaxRegimeForLine(margin, WrittenCategory(r), r.vat_rate_xii)
         /\ i.net_amount = r.net_amount /\ i.vat_amount = LineVat(r)
         /\ i.gross_amount = r.gross_amount
         /\ i.discount_amount = OptDec(r.discount_amount)
         /\ \A f \in KeptFields \ {"discount_amount"} : i[f] = r[f]
<1>1. r \in LineInputs /\ r.tax_regime \in TaxRegimes
  BY DEF IsRow
<1>2. /\ LineVat(r) \in {None, r.vat_amount}
      /\ WrittenCategory(r) \in Categories \union {None}
      /\ (IF LineRate(r) = None THEN None ELSE FromSchemaCode(LineRate(r))) = WrittenCategory(r)
  BY <1>1, WhatIsWritten
<1> DEFINE rec ==
      [vat_classification |-> WrittenCategory(r), sale_category |-> WrittenCategory(r),
       vat_rate |-> MarkerOf(WrittenCategory(r)),
       tax_regime |-> TaxRegimeForLine(margin, WrittenCategory(r), r.vat_rate_xii),
       vat_rate_xii |-> r.vat_rate_xii, quantity |-> r.quantity,
       unit_price_net |-> r.unit_price_net, unit_price_gross |-> r.unit_price_gross,
       discount_amount |-> OptDec(r.discount_amount), net_amount |-> r.net_amount,
       vat_amount |-> LineVat(r), gross_amount |-> r.gross_amount,
       currency_exchange_rate |-> r.currency_exchange_rate,
       before_correction |-> r.before_correction]
<1>3. i = rec
  BY <1>2 DEF LineRead, FakturaFaFaWiersz, MarkerOf
<1>4. /\ MarkerOf(WrittenCategory(r)) \in Markers \union {None}
      /\ TaxRegimeForLine(margin, WrittenCategory(r), r.vat_rate_xii) \in TaxRegimes
      /\ OptDec(r.discount_amount) \in {None, r.discount_amount}
  BY <1>2 DEF MarkerOf, Markers, TaxRegimeForLine, TaxRegimes, OptDec
<1>5. rec \in LineInputs
  BY <1>1, <1>2, <1>4 DEF LineInputs
<1> QED
  BY <1>3, <1>5 DEF KeptFields

OrderLineWritten(l) == LineRead(FakturaFaZamowienieWiersz(l), FALSE)

\* What the mapper makes of a line of an order that was written.
LEMMA OrderLineAsRead ==
  ASSUME NEW l, IsOrderLine(l), NEW i, i = OrderLineWritten(l)
  PROVE  /\ i \in LineInputs
         /\ i.vat_classification = WrittenCategory(l) /\ i.sale_category = WrittenCategory(l)
         /\ i.vat_rate = MarkerOf(WrittenCategory(l))
         /\ i.tax_regime = TaxRegimeForLine(FALSE, WrittenCategory(l), l.vat_rate_xii)
         /\ i.net_amount = l.net_amount /\ i.vat_amount = LineVat(l)
         /\ i.gross_amount = None
         /\ i.currency_exchange_rate = None
         /\ i.vat_rate_xii = l.vat_rate_xii /\ i.before_correction = l.before_correction
<1>1. l \in LineInputs /\ l.tax_regime \in TaxRegimes
  BY DEF IsOrderLine
<1>2. /\ LineVat(l) \in {None, l.vat_amount}
      /\ WrittenCategory(l) \in Categories \union {None}
      /\ (IF LineRate(l) = None THEN None ELSE FromSchemaCode(LineRate(l))) = WrittenCategory(l)
  BY <1>1, WhatIsWritten
<1> DEFINE rec ==
      [vat_classification |-> WrittenCategory(l), sale_category |-> WrittenCategory(l),
       vat_rate |-> MarkerOf(WrittenCategory(l)),
       tax_regime |-> TaxRegimeForLine(FALSE, WrittenCategory(l), l.vat_rate_xii),
       vat_rate_xii |-> l.vat_rate_xii, quantity |-> l.quantity,
       unit_price_net |-> l.unit_price_net, unit_price_gross |-> None,
       discount_amount |-> None, net_amount |-> l.net_amount,
       vat_amount |-> LineVat(l), gross_amount |-> None,
       currency_exchange_rate |-> None,
       before_correction |-> l.before_correction]
<1> DEFINE w ==
      [p_8_b |-> l.quantity, p_9_a |-> l.unit_price_net, p_9_b |-> None, p_10 |-> None,
       p_11 |-> l.net_amount, p_11_a |-> None, p_11_vat |-> LineVat(l), p_12 |-> LineRate(l),
       p_12_xii |-> l.vat_rate_xii, kurs_waluty |-> None, stan_przed |-> l.before_correction]
<1>w. FakturaFaZamowienieWiersz(l) = w
  <2> DEFINE w1 == [FakturaFaFaWiersz(l) EXCEPT !.p_9_b = None]
             w2 == [w1 EXCEPT !.p_10 = None]
             w3 == [w2 EXCEPT !.p_11_a = None]
             w4 == [w3 EXCEPT !.kurs_waluty = None]
  <2>1. FakturaFaZamowienieWiersz(l) = w4
    BY DEF FakturaFaZamowienieWiersz
  <2> QED
    BY <2>1 DEF FakturaFaFaWiersz
<1>3. i = rec
  <2>1. LineRead(w, FALSE) = rec
    BY <1>2 DEF LineRead, MarkerOf
  <2> HIDE DEF w, rec
  <2> QED BY <2>1, <1>w DEF OrderLineWritten
<1>4. /\ MarkerOf(WrittenCategory(l)) \in Markers \union {None}
      /\ TaxRegimeForLine(FALSE, WrittenCategory(l), l.vat_rate_xii) \in TaxRegimes
  BY <1>2 DEF MarkerOf, Markers, TaxRegimeForLine, TaxRegimes
<1>5. rec \in LineInputs
  BY <1>1, <1>2, <1>4 DEF LineInputs
<1>6. /\ rec.vat_classification = WrittenCategory(l) /\ rec.sale_category = WrittenCategory(l)
      /\ rec.vat_rate = MarkerOf(WrittenCategory(l))
      /\ rec.tax_regime = TaxRegimeForLine(FALSE, WrittenCategory(l), l.vat_rate_xii)
      /\ rec.net_amount = l.net_amount /\ rec.vat_amount = LineVat(l)
      /\ rec.gross_amount = None /\ rec.currency_exchange_rate = None
      /\ rec.vat_rate_xii = l.vat_rate_xii /\ rec.before_correction = l.before_correction
  OBVIOUS
<1> HIDE DEF rec
<1> QED
  BY <1>3, <1>5, <1>6

\* A row that is read has the amounts it was written with.  It is refused only
\* if it was a margin line of an invoice that does not announce the procedure.
LEMMA RowIsRead ==
  ASSUME NEW r, IsRow(r), NEW margin \in BOOLEAN,
         NEW i, i = LineRead(FakturaFaFaWiersz(r), margin)
  PROVE  /\ i \in LineInputs
         /\ margin \/ r.tax_regime # "margin" => InvoiceRow(i) # {}
         /\ \A l \in InvoiceRow(i) :
              /\ l.net_amount = r.net_amount
              /\ l.vat_amount = IF r.net_amount = None THEN LineVat(r) ELSE r.vat_amount
              /\ l.tax_regime = TaxRegimeForLine(margin, WrittenCategory(r), r.vat_rate_xii)
              /\ l.sale_category = WrittenCategory(r)
              /\ l.currency_exchange_rate = r.currency_exchange_rate
              /\ l.before_correction = r.before_correction
<1> DEFINE c == WrittenCategory(r)
           regime == TaxRegimeForLine(margin, c, r.vat_rate_xii)
           t == [tax_regime |-> i.tax_regime, vat_classification |-> i.vat_classification,
                 sale_category |-> i.vat_classification, vat_rate |-> i.vat_rate]
           a == ComputeFinancialField(i, t)
           l0 == WithFields(i, t, a)
<1>1. /\ i \in LineInputs
      /\ i.vat_classification = c /\ i.sale_category = c
      /\ i.vat_rate = MarkerOf(c) /\ i.tax_regime = regime
      /\ i.net_amount = r.net_amount /\ i.vat_amount = LineVat(r)
      /\ i.gross_amount = r.gross_amount
      /\ i.discount_amount = OptDec(r.discount_amount)
      /\ \A f \in KeptFields \ {"discount_amount"} : i[f] = r[f]
  BY RowAsRead
<1>2. /\ r \in LineInputs /\ r.tax_regime \in TaxRegimes
      /\ r.vat_classification \in Categories \union {None}
      /\ r.sale_category = r.vat_classification /\ r.quantity # 0
      /\ TaxRulesHold(r) /\ KnowsItsAmounts(r)
      /\ r.gross_amount # None => r.gross_amount = r.net_amount + r.vat_amount
      /\ r.net_amount = None =>
           r.quantity = None \/ (r.unit_price_net = None /\ r.unit_price_gross = None)
  BY DEF IsRow
<1>3. LineVat(r) \in {None, r.vat_amount} /\ c \in Categories \union {None}
  BY <1>2, WhatIsWritten
<1>4. regime \in TaxRegimes
  BY DEF TaxRegimeForLine, TaxRegimes
<1>5. NormalizeTaxFields(i) = {t}
  BY <1>1, <1>4, NormalizedRead
<1>6. /\ t.tax_regime = regime /\ t.vat_classification = c /\ t.sale_category = c
      /\ t.vat_rate = MarkerOf(c) /\ MarkerOf(c) \in Markers \union {None}
  BY <1>1, <1>3 DEF MarkerOf, Markers
<1>7. /\ i.vat_rate_xii = r.vat_rate_xii /\ i.quantity = r.quantity
      /\ i.unit_price_net = r.unit_price_net /\ i.unit_price_gross = r.unit_price_gross
      /\ i.currency_exchange_rate = r.currency_exchange_rate
      /\ i.before_correction = r.before_correction
  BY <1>1 DEF KeptFields
<1> HIDE DEF t, a, c, regime
<1>8. /\ KnowsItsAmounts(a)
      /\ a.net_amount = None =>
           i.quantity = None \/ (i.unit_price_net = None /\ i.unit_price_gross = None)
      /\ i.net_amount # None => a.net_amount = i.net_amount
      /\ i.vat_amount # None => a.vat_amount = i.vat_amount
      /\ i.gross_amount # None => a.gross_amount = i.gross_amount
      /\ i.gross_amount # None /\ i.net_amount # None /\ i.vat_amount = None =>
           a.vat_amount = i.gross_amount - i.net_amount
  BY <1>1, <1>3, <1>6, ComputedAmounts DEF a
<1>9. r.net_amount = None =>
        a.net_amount = None /\ a.gross_amount = None /\ a.vat_amount = LineVat(r)
  BY <1>1, <1>2, <1>7 DEF a, ComputeFinancialField, KnowsItsAmounts
<1>10. r.net_amount # None =>
         a.net_amount = r.net_amount /\ a.gross_amount = r.gross_amount
           /\ a.vat_amount = r.vat_amount
  <2> SUFFICES ASSUME r.net_amount # None
               PROVE  a.net_amount = r.net_amount /\ a.gross_amount = r.gross_amount
                        /\ a.vat_amount = r.vat_amount
    OBVIOUS
  <2>1. /\ r.gross_amount # None /\ r.vat_amount # None
        /\ r.net_amount \in Int /\ r.vat_amount \in Int
    BY <1>2, WholeGroszeAddUp DEF KnowsItsAmounts
  <2> QED
    BY <1>1, <1>2, <1>3, <1>8, <2>1
<1>11. AreAmounts(a) /\ IsTax(t)
  BY <1>3, <1>4, <1>6, <1>8 DEF KnowsItsAmounts, AreAmounts, IsTax
<1>12. /\ l0 \in LineInputs
       /\ l0.tax_regime = t.tax_regime /\ l0.vat_classification = t.vat_classification
       /\ l0.sale_category = t.sale_category /\ l0.vat_rate = t.vat_rate
       /\ l0.net_amount = a.net_amount /\ l0.vat_amount = a.vat_amount
       /\ l0.gross_amount = a.gross_amount
       /\ \A f \in KeptFields : l0[f] = i[f]
  BY <1>1, <1>11, FieldsOfALine
<1>13. /\ l0.vat_rate_xii = r.vat_rate_xii /\ l0.quantity = r.quantity
       /\ l0.unit_price_net = r.unit_price_net /\ l0.unit_price_gross = r.unit_price_gross
       /\ l0.discount_amount = OptDec(r.discount_amount)
       /\ l0.currency_exchange_rate = r.currency_exchange_rate
       /\ l0.before_correction = r.before_correction
  BY <1>1, <1>7, <1>12 DEF KeptFields
<1>14. \A l \in InvoiceRow(i) : l = l0
  BY <1>5 DEF InvoiceRow, a
<1> HIDE DEF l0
<1>15. ASSUME margin \/ r.tax_regime # "margin"
       PROVE  TaxRulesHold(l0)
  <2>1. CASE r.vat_rate_xii # None
    BY <2>1, <1>6, <1>12, <1>13 DEF TaxRulesHold, regime, TaxRegimeForLine
  <2>2. CASE r.vat_rate_xii = None /\ c # None
    <3>1. regime = "standard"
      BY <2>2 DEF regime, TaxRegimeForLine
    <3>2. l0.sale_category = c /\ l0.vat_classification = c /\ l0.vat_rate = VatRateForCategory[c]
      BY <2>2, <1>6, <1>12 DEF MarkerOf
    <3> QED
      BY <2>2, <3>1, <3>2, <1>6, <1>12 DEF TaxRulesHold
  <2>3. CASE r.vat_rate_xii = None /\ c = None /\ margin
    BY <2>3, <1>6, <1>12 DEF TaxRulesHold, regime, TaxRegimeForLine, MarkerOf
  <2>4. CASE r.vat_rate_xii = None /\ c = None /\ ~margin
    <3>1. regime = "standard"
      BY <2>4 DEF regime, TaxRegimeForLine
    <3>2. r.tax_regime # "margin" /\ r.tax_regime # "special_xii"
      BY <1>2, <1>15, <2>4 DEF TaxRulesHold
    <3>3. r.vat_classification = None
      BY <2>4, <3>2 DEF c, WrittenCategory
    <3>4. r.tax_regime = "standard" /\ IsDescriptiveOnly(r)
      BY <1>2, <3>2, <3>3 DEF TaxRulesHold, TaxRegimes
    <3>5. /\ r.unit_price_net = None /\ r.unit_price_gross = None
          /\ r.net_amount = None /\ r.gross_amount = None /\ r.vat_amount = None
          /\ r.discount_amount \in {None, 0}
      BY <3>4 DEF IsDescriptiveOnly
    <3>6. LineVat(r) = None
      BY <1>3, <3>5
    <3>7. IsDescriptiveOnly(l0)
      BY <2>4, <3>1, <3>5, <3>6, <1>6, <1>9, <1>12, <1>13 DEF IsDescriptiveOnly, OptDec, MarkerOf
    <3> QED
      BY <2>4, <3>1, <3>7, <1>6, <1>12 DEF TaxRulesHold
  <2> QED
    BY <2>1, <2>2, <2>3, <2>4
<1>16. l0.gross_amount # None => l0.gross_amount = l0.net_amount + l0.vat_amount
  BY <1>2, <1>9, <1>10, <1>12
<1>17. margin \/ r.tax_regime # "margin" => l0 \in InvoiceRow(i)
  BY <1>2, <1>5, <1>13, <1>15, <1>16 DEF InvoiceRow, a, l0
<1> QED
  BY <1>1, <1>6, <1>9, <1>10, <1>12, <1>13, <1>14, <1>17 DEF c, regime

\* An order line that is read has its net amount, and its VAT if that is written.
LEMMA OrderLineIsRead ==
  ASSUME NEW l, IsOrderLine(l), NEW i, i = OrderLineWritten(l)
  PROVE  /\ i \in LineInputs
         /\ l.tax_regime # "margin" => InvoiceOrderLine(i) # {}
         /\ \A m \in InvoiceOrderLine(i) :
              /\ m.net_amount = l.net_amount
              /\ m.vat_amount = LineVat(l)
              /\ m.gross_amount = IF l.net_amount = None \/ LineVat(l) = None
                                    THEN None ELSE l.net_amount + LineVat(l)
              /\ m.tax_regime = TaxRegimeForLine(FALSE, WrittenCategory(l), l.vat_rate_xii)
              /\ m.sale_category = WrittenCategory(l)
              /\ m.currency_exchange_rate = None
              /\ m.before_correction = l.before_correction
<1> DEFINE c == WrittenCategory(l)
           regime == TaxRegimeForLine(FALSE, c, l.vat_rate_xii)
           t == [tax_regime |-> i.tax_regime, vat_classification |-> i.vat_classification,
                 sale_category |-> i.vat_classification, vat_rate |-> i.vat_rate]
           a == ComputeOrderFields(i, t)
           m0 == WithFields(i, t, a)
           gross == IF l.net_amount = None \/ LineVat(l) = None
                      THEN None ELSE l.net_amount + LineVat(l)
<1>1. /\ i \in LineInputs
      /\ i.vat_classification = c /\ i.sale_category = c
      /\ i.vat_rate = MarkerOf(c) /\ i.tax_regime = regime
      /\ i.net_amount = l.net_amount /\ i.vat_amount = LineVat(l)
      /\ i.gross_amount = None
      /\ i.currency_exchange_rate = None
      /\ i.vat_rate_xii = l.vat_rate_xii /\ i.before_correction = l.before_correction
  BY OrderLineAsRead
<1>2. /\ l \in LineInputs /\ l.tax_regime \in TaxRegimes
      /\ l.vat_classification \in Categories \union {None}
      /\ OrderTaxRulesHold(l)
      /\ {l.net_amount, l.vat_amount, l.gross_amount} \subseteq WholeGrosze \union {None}
  BY DEF IsOrderLine
<1>3. LineVat(l) \in {None, l.vat_amount} /\ c \in Categories \union {None}
  BY <1>2, WhatIsWritten
<1>4. regime \in TaxRegimes
  BY DEF TaxRegimeForLine, TaxRegimes
<1>5. NormalizeTaxFields(i) = {t}
  BY <1>1, <1>4, NormalizedRead
<1>6. /\ t.tax_regime = regime /\ t.vat_classification = c /\ t.sale_category = c
      /\ t.vat_rate = MarkerOf(c) /\ MarkerOf(c) \in Markers \union {None}
  BY <1>1, <1>3 DEF MarkerOf, Markers
<1> HIDE DEF t, a, c, regime
<1>7. /\ a.net_amount = l.net_amount /\ a.vat_amount = LineVat(l)
      /\ a.gross_amount = IF l.net_amount # None /\ LineVat(l) # None
                            THEN RoundPln(l.net_amount + LineVat(l)) ELSE None
  BY <1>1 DEF a, ComputeOrderFields
<1>8. l.net_amount # None /\ LineVat(l) # None =>
        /\ l.net_amount + LineVat(l) \in WholeGrosze
        /\ RoundPln(l.net_amount + LineVat(l)) = l.net_amount + LineVat(l)
  BY <1>2, <1>3, WholeGroszeAddUp, RoundedIsWhole
<1>9. a.gross_amount = gross /\ gross \in WholeGrosze \union {None}
  BY <1>7, <1>8
<1> HIDE DEF gross
<1>10. AreAmounts(a) /\ IsTax(t)
  BY <1>2, <1>3, <1>4, <1>6, <1>7, <1>9 DEF AreAmounts, IsTax
<1>11. /\ m0 \in LineInputs
       /\ m0.tax_regime = t.tax_regime /\ m0.vat_classification = t.vat_classification
       /\ m0.sale_category = t.sale_category /\ m0.vat_rate = t.vat_rate
       /\ m0.net_amount = a.net_amount /\ m0.vat_amount = a.vat_amount
       /\ m0.gross_amount = a.gross_amount
       /\ \A f \in KeptFields : m0[f] = i[f]
  BY <1>1, <1>10, FieldsOfALine
<1>12. /\ m0.vat_rate_xii = l.vat_rate_xii /\ m0.currency_exchange_rate = None
       /\ m0.before_correction = l.before_correction
  BY <1>1, <1>11 DEF KeptFields
<1>13. \A m \in InvoiceOrderLine(i) : m = m0
  BY <1>5 DEF InvoiceOrderLine, a
<1> HIDE DEF m0
<1>14. ASSUME l.tax_regime # "margin"
       PROVE  OrderTaxRulesHold(m0)
  <2>1. CASE l.vat_rate_xii # None
    BY <2>1, <1>6, <1>11, <1>12 DEF OrderTaxRulesHold, regime, TaxRegimeForLine
  <2>2. CASE l.vat_rate_xii = None
    <3>1. regime = "standard"
      BY <2>2 DEF regime, TaxRegimeForLine
    <3>2. c # None
      BY <2>2, <1>2, <1>14 DEF OrderTaxRulesHold, c, WrittenCategory
    <3> QED
      BY <3>1, <3>2, <1>6, <1>11 DEF OrderTaxRulesHold
  <2> QED
    BY <2>1, <2>2
<1>15. l.tax_regime # "margin" => m0 \in InvoiceOrderLine(i)
  BY <1>1, <1>5, <1>14 DEF InvoiceOrderLine, a, m0
<1> QED
  BY <1>1, <1>6, <1>7, <1>9, <1>11, <1>12, <1>13, <1>15 DEF c, regime, gross

\* What rows and order lines have in common.
IsLine(l) ==
  /\ l.tax_regime \in TaxRegimes
  /\ l.sale_category \in Categories \union {None}
  /\ l.vat_classification = l.sale_category
  /\ {l.net_amount, l.vat_amount, l.gross_amount} \subseteq WholeGrosze \union {None}
  /\ l.gross_amount = None => None \in {l.net_amount, l.vat_amount}
  /\ l.tax_regime = "margin" => l.sale_category = None
  /\ l.tax_regime = "special_xii" => l.vat_rate_xii # None
  /\ l.tax_regime = "taxi_flat_rate" => l.sale_category = "rate_4"
  /\ l.tax_regime = "standard" /\ l.sale_category = None =>
       l.net_amount = None /\ l.vat_amount = None

\* Rows are lines ...
LEMMA RowsAreLines == ASSUME NEW l, IsRow(l) PROVE IsLine(l)
<1>1. /\ l.tax_regime \in TaxRegimes /\ l.vat_classification \in Categories \union {None}
      /\ l.sale_category = l.vat_classification /\ TaxRulesHold(l) /\ KnowsItsAmounts(l)
  BY DEF IsRow
<1>2. /\ {l.net_amount, l.vat_amount, l.gross_amount} \subseteq WholeGrosze \union {None}
      /\ l.gross_amount = None => l.net_amount = None
  BY <1>1 DEF KnowsItsAmounts
<1>3. l.tax_regime = "standard" /\ l.vat_classification = None =>
        l.net_amount = None /\ l.vat_amount = None
  BY <1>1 DEF TaxRulesHold, IsDescriptiveOnly
<1>4. /\ l.tax_regime = "margin" => l.sale_category = None
      /\ l.tax_regime = "special_xii" => l.vat_rate_xii # None
      /\ l.tax_regime = "taxi_flat_rate" => l.sale_category = "rate_4"
  BY <1>1 DEF TaxRulesHold
<1> QED
  BY <1>1, <1>2, <1>3, <1>4 DEF IsLine

\* ... and so are the lines of orders.
LEMMA OrderLinesAreLines == ASSUME NEW l, IsOrderLine(l) PROVE IsLine(l)
<1>1. /\ l.tax_regime \in TaxRegimes /\ l.vat_classification \in Categories \union {None}
      /\ l.sale_category = l.vat_classification /\ OrderTaxRulesHold(l)
      /\ {l.net_amount, l.vat_amount, l.gross_amount} \subseteq WholeGrosze \union {None}
      /\ (l.gross_amount = None) = (None \in {l.net_amount, l.vat_amount})
  BY DEF IsOrderLine
<1>2. /\ l.tax_regime = "margin" => l.sale_category = None
      /\ l.tax_regime = "special_xii" => l.vat_rate_xii # None
      /\ l.tax_regime = "taxi_flat_rate" => l.sale_category = "rate_4"
      /\ l.tax_regime = "standard" => l.vat_classification # None
  BY <1>1 DEF OrderTaxRulesHold
<1> QED
  BY <1>1, <1>2 DEF IsLine

\* A line as it was before a correction is the same line.
AsBefore(l) == [l EXCEPT !.before_correction = TRUE]

\* A line as it was before a correction counts like the line.
LEMMA BeforeCorrection ==
  ASSUME NEW l, l \in LineInputs, NEW m, m = AsBefore(l)
  PROVE  /\ m \in LineInputs /\ m.before_correction = TRUE
         /\ \A f \in SummaryFields : Share(m, f) = Share(l, f)
         /\ IsRow(l) => IsRow(m)
         /\ IsOrderLine(l) => IsOrderLine(m)
<1> DEFINE rec ==
      [vat_classification |-> l.vat_classification, vat_rate |-> l.vat_rate,
       sale_category |-> l.sale_category, tax_regime |-> l.tax_regime,
       vat_rate_xii |-> l.vat_rate_xii, quantity |-> l.quantity,
       unit_price_net |-> l.unit_price_net, unit_price_gross |-> l.unit_price_gross,
       discount_amount |-> l.discount_amount, net_amount |-> l.net_amount,
       vat_amount |-> l.vat_amount, gross_amount |-> l.gross_amount,
       currency_exchange_rate |-> l.currency_exchange_rate, before_correction |-> TRUE]
<1>1. m = rec
  BY DEF AsBefore, LineInputs
<1>2. rec \in LineInputs
  BY DEF LineInputs
<1>3. /\ m \in LineInputs /\ m.before_correction = TRUE
      /\ m.vat_classification = l.vat_classification /\ m.vat_rate = l.vat_rate
      /\ m.sale_category = l.sale_category /\ m.tax_regime = l.tax_regime
      /\ m.vat_rate_xii = l.vat_rate_xii /\ m.quantity = l.quantity
      /\ m.unit_price_net = l.unit_price_net /\ m.unit_price_gross = l.unit_price_gross
      /\ m.discount_amount = l.discount_amount /\ m.net_amount = l.net_amount
      /\ m.vat_amount = l.vat_amount /\ m.gross_amount = l.gross_amount
  BY <1>1, <1>2
<1> HIDE DEF rec
<1>4. \A f \in SummaryFields : Share(m, f) = Share(l, f)
  BY <1>3 DEF Share, InBucket
<1>5. TaxRulesHold(m) = TaxRulesHold(l) /\ OrderTaxRulesHold(m) = OrderTaxRulesHold(l)
  <2>1. IsDescriptiveOnly(m) = IsDescriptiveOnly(l)
    BY <1>3 DEF IsDescriptiveOnly
  <2> QED
    BY <1>3, <2>1 DEF TaxRulesHold, OrderTaxRulesHold
<1>6. IsRow(l) => IsRow(m)
  BY <1>3, <1>5 DEF IsRow, KnowsItsAmounts
<1>7. IsOrderLine(l) => IsOrderLine(m)
  BY <1>3, <1>5 DEF IsOrderLine
<1> QED
  BY <1>3, <1>4, <1>6, <1>7

\* What a line adds to the summary.
LEMMA SharesAreWhole ==
  \A l, f : IsLine(l) => Share(l, f) \in WholeGrosze /\ Share(l, f) \in Int /\ -Share(l, f) \in WholeGrosze
<1> SUFFICES ASSUME NEW l, NEW f, IsLine(l)
             PROVE  Share(l, f) \in WholeGrosze /\ Share(l, f) \in Int /\ -Share(l, f) \in WholeGrosze
  OBVIOUS
<1>1. Or(l.net_amount, 0) \in WholeGrosze /\ Or(l.vat_amount, 0) \in WholeGrosze
  BY WholeGroszeAddUp DEF IsLine, Or
<1>2. Share(l, f) \in WholeGrosze
  BY <1>1, WholeGroszeAddUp DEF Share
<1>3. \A x \in WholeGrosze : -x \in WholeGrosze
  BY DEF WholeGrosze
<1> QED
  BY <1>2, <1>3, WholeGroszeAddUp

\* The lines that may count otherwise when they are read.
MayCountOtherwise(l) ==
  \/ l.tax_regime = "taxi_flat_rate"
  \/ l.tax_regime = "special_xii" /\ l.sale_category # None
  \/ l.tax_regime # "special_xii" /\ l.vat_rate_xii # None
  \/ l.vat_amount \notin {None, 0} /\ LineVat(l) = None

\* The others do not.
LEMMA SharesAreKept ==
  ASSUME NEW l, NEW m, IsLine(l), IsLine(m), NEW margin \in BOOLEAN, ~MayCountOtherwise(l),
         m.net_amount = l.net_amount, m.vat_amount \in {l.vat_amount, LineVat(l)},
         m.tax_regime = TaxRegimeForLine(margin, WrittenCategory(l), l.vat_rate_xii),
         m.sale_category = WrittenCategory(l)
  PROVE  \A f \in SummaryFields : Share(m, f) = Share(l, f)
<1>1. LineVat(l) \in {None, l.vat_amount}
  BY DEF LineVat
<1>2. Or(m.net_amount, 0) = Or(l.net_amount, 0) /\ Or(m.vat_amount, 0) = Or(l.vat_amount, 0)
  BY <1>1 DEF Or, MayCountOtherwise
<1>3. CASE m.tax_regime = l.tax_regime /\ m.sale_category = l.sale_category
  BY <1>2, <1>3 DEF Share, InBucket
<1>4. CASE m.net_amount = None /\ m.vat_amount = None
  <2>1. Or(l.net_amount, 0) = 0 /\ Or(l.vat_amount, 0) = 0
    BY <1>2, <1>4 DEF Or
  <2> QED
    BY <1>2, <2>1 DEF Share
<1>5. CASE l.tax_regime = "special_xii"
  BY <1>3, <1>5 DEF IsLine, MayCountOtherwise, TaxRegimeForLine, WrittenCategory
<1>6. CASE l.tax_regime = "margin"
  BY <1>3, <1>4, <1>6 DEF IsLine, MayCountOtherwise, TaxRegimeForLine, WrittenCategory
<1>7. CASE l.tax_regime = "standard"
  <2>1. CASE l.sale_category # None
    BY <1>3, <1>7, <2>1 DEF IsLine, MayCountOtherwise, TaxRegimeForLine, WrittenCategory
  <2>2. CASE l.sale_category = None
    BY <1>1, <1>4, <1>7, <2>2 DEF IsLine
  <2> QED
    BY <2>1, <2>2
<1> QED
  BY <1>5, <1>6, <1>7 DEF IsLine, MayCountOtherwise, TaxRegimes

-----------------------------------------------------------------------------
(* The buckets.                                                            *)

Buckets == TaxedBuckets \union NetBuckets

\* The buckets by name.
LEMMA BucketNames ==
  /\ TaxedBuckets = {"base", "first_reduced", "second_reduced", "taxi_flat_rate",
                     "special_procedure_xii"}
  /\ NetBuckets = {"zero_rate_domestic", "zero_rate_wdt", "zero_rate_export", "exempt",
                   "out_of_territory", "article_100_services", "reverse_charge", "margin"}
  /\ ConvertedBuckets = {"base", "first_reduced", "second_reduced", "taxi_flat_rate"}
<1>1. DOMAIN StandardBuckets = {"base", "first_reduced", "second_reduced"}
  BY DEF StandardBuckets
<1>2. DOMAIN RegimeBuckets = {"taxi_flat_rate", "special_procedure_xii"}
  BY DEF RegimeBuckets
<1>3. DOMAIN CategoryBuckets =
        {"zero_rate_domestic", "zero_rate_wdt", "zero_rate_export", "exempt",
         "out_of_territory", "article_100_services", "reverse_charge"}
  BY DEF CategoryBuckets
<1>4. /\ TaxedBuckets = {"base", "first_reduced", "second_reduced", "taxi_flat_rate",
                         "special_procedure_xii"}
      /\ NetBuckets = {"zero_rate_domestic", "zero_rate_wdt", "zero_rate_export", "exempt",
                       "out_of_territory", "article_100_services", "reverse_charge", "margin"}
  BY <1>1, <1>2, <1>3 DEF TaxedBuckets, NetBuckets
<1> QED
  BY <1>4 DEF ConvertedBuckets

\* The lines of each bucket.
LEMMA LinesOfBuckets ==
  ASSUME NEW l
  PROVE  /\ InBucket(l, "base") <=>
              l.tax_regime = "standard" /\ l.sale_category \in {"rate_23", "rate_22"}
         /\ InBucket(l, "first_reduced") <=>
              l.tax_regime = "standard" /\ l.sale_category \in {"rate_8", "rate_7"}
         /\ InBucket(l, "second_reduced") <=>
              l.tax_regime = "standard" /\ l.sale_category = "rate_5"
         /\ InBucket(l, "taxi_flat_rate") <=> l.tax_regime = "taxi_flat_rate"
         /\ InBucket(l, "special_procedure_xii") <=> l.tax_regime = "special_xii"
         /\ InBucket(l, "margin") <=> l.tax_regime = "margin"
         /\ InBucket(l, "zero_rate_domestic") <=> l.sale_category = "zero_domestic"
         /\ InBucket(l, "zero_rate_wdt") <=> l.sale_category = "zero_wdt"
         /\ InBucket(l, "zero_rate_export") <=> l.sale_category = "zero_export"
         /\ InBucket(l, "exempt") <=> l.sale_category = "exempt"
         /\ InBucket(l, "out_of_territory") <=>
              l.sale_category = "out_of_scope_outside_territory"
         /\ InBucket(l, "article_100_services") <=>
              l.sale_category = "out_of_scope_article_100"
         /\ InBucket(l, "reverse_charge") <=> l.sale_category = "reverse_charge"
<1>1. /\ InBucket(l, "base") <=>
           l.tax_regime = "standard" /\ l.sale_category \in {"rate_23", "rate_22"}
      /\ InBucket(l, "first_reduced") <=>
           l.tax_regime = "standard" /\ l.sale_category \in {"rate_8", "rate_7"}
      /\ InBucket(l, "second_reduced") <=>
           l.tax_regime = "standard" /\ l.sale_category = "rate_5"
  BY DEF InBucket, StandardBuckets, RegimeBuckets
<1>2. /\ InBucket(l, "taxi_flat_rate") <=> l.tax_regime = "taxi_flat_rate"
      /\ InBucket(l, "special_procedure_xii") <=> l.tax_regime = "special_xii"
      /\ InBucket(l, "margin") <=> l.tax_regime = "margin"
  BY DEF InBucket, StandardBuckets, RegimeBuckets
<1>3. /\ InBucket(l, "zero_rate_domestic") <=> l.sale_category = "zero_domestic"
      /\ InBucket(l, "zero_rate_wdt") <=> l.sale_category = "zero_wdt"
      /\ InBucket(l, "zero_rate_export") <=> l.sale_category = "zero_export"
      /\ InBucket(l, "exempt") <=> l.sale_category = "exempt"
  BY DEF InBucket, StandardBuckets, RegimeBuckets, CategoryBuckets
<1>4. /\ InBucket(l, "out_of_territory") <=>
           l.sale_category = "out_of_scope_outside_territory"
      /\ InBucket(l, "article_100_services") <=>
           l.sale_category = "out_of_scope_article_100"
      /\ InBucket(l, "reverse_charge") <=> l.sale_category = "reverse_charge"
  BY DEF InBucket, StandardBuckets, RegimeBuckets, CategoryBuckets
<1> QED
  BY <1>1, <1>2, <1>3, <1>4

\* The lines that are in one bucket and no other.
IsOrdinaryLine(l) ==
  /\ l.tax_regime = "standard" => l.sale_category \notin {"rate_4", "rate_3"}
  /\ l.tax_regime = "special_xii" =>
       \A c \in DOMAIN CategoryBuckets : l.sale_category # CategoryBuckets[c]
  /\ (\E c \in NetBuckets : InBucket(l, c)) => l.vat_amount \in {None, 0}

\* An ordinary line that has a category or a regime is in one bucket and no other.
LEMMA OrdinaryLinesAreInOneBucket ==
  ASSUME NEW l, IsLine(l), IsOrdinaryLine(l),
         l.tax_regime # "standard" \/ l.sale_category # None
  PROVE  \E b \in Buckets : \A c \in Buckets : InBucket(l, c) <=> c = b
<1> USE BucketNames, LinesOfBuckets DEF Buckets
<1>1. l.tax_regime \in TaxRegimes /\ l.sale_category \in Categories \union {None}
  BY DEF IsLine
<1>2. CASE l.tax_regime = "standard"
  <2>1. CASE l.sale_category \in {"rate_23", "rate_22"}
    BY <1>2, <2>1
  <2>2. CASE l.sale_category \in {"rate_8", "rate_7"}
    BY <1>2, <2>2
  <2>3. CASE l.sale_category = "rate_5"
    BY <1>2, <2>3
  <2>4. CASE l.sale_category = "zero_domestic"
    BY <1>2, <2>4
  <2>5. CASE l.sale_category = "zero_wdt"
    BY <1>2, <2>5
  <2>6. CASE l.sale_category = "zero_export"
    BY <1>2, <2>6
  <2>7. CASE l.sale_category = "exempt"
    BY <1>2, <2>7
  <2>8. CASE l.sale_category = "reverse_charge"
    BY <1>2, <2>8
  <2>9. CASE l.sale_category = "out_of_scope_outside_territory"
    BY <1>2, <2>9
  <2>10. CASE l.sale_category = "out_of_scope_article_100"
    BY <1>2, <2>10
  <2> QED
    BY <1>1, <1>2, <2>1, <2>2, <2>3, <2>4, <2>5, <2>6, <2>7, <2>8, <2>9, <2>10, CategoryNames
       DEF IsOrdinaryLine
<1>3. CASE l.tax_regime = "taxi_flat_rate"
  <2>1. l.sale_category = "rate_4"
    BY <1>3 DEF IsLine
  <2> QED
    BY <1>3, <2>1
<1>4. CASE l.tax_regime = "special_xii"
  <2>1. l.sale_category \notin {"zero_domestic", "zero_wdt", "zero_export", "exempt",
          "out_of_scope_outside_territory", "out_of_scope_article_100", "reverse_charge"}
    BY <1>4 DEF IsOrdinaryLine, CategoryBuckets
  <2> QED
    BY <1>4, <2>1
<1>5. CASE l.tax_regime = "margin"
  <2>1. l.sale_category = None
    BY <1>5 DEF IsLine
  <2>2. None \notin {"zero_domestic", "zero_wdt", "zero_export", "exempt",
          "out_of_scope_outside_territory", "out_of_scope_article_100", "reverse_charge"}
    BY NoneIsNothing, CategoryNames
  <2> QED
    BY <1>5, <2>1, <2>2
<1> QED
  BY <1>1, <1>2, <1>3, <1>4, <1>5 DEF TaxRegimes

\* Sets of at most four elements are finite.
LEMMA SmallSetsAreFinite == \A a, b, c, d : IsFiniteSet({a, b, c, d})
<1> TAKE a, b, c, d
<1>1. IsFiniteSet({a}) /\ IsFiniteSet({b}) /\ IsFiniteSet({c}) /\ IsFiniteSet({d})
  BY FS_Singleton
<1>2. IsFiniteSet({a} \union {b}) /\ IsFiniteSet({c} \union {d})
  BY <1>1, FS_Union
<1>3. IsFiniteSet(({a} \union {b}) \union ({c} \union {d}))
  BY <1>2, FS_Union
<1>4. {a, b, c, d} = ({a} \union {b}) \union ({c} \union {d})
  OBVIOUS
<1> QED
  BY <1>3, <1>4

\* The image of a finite set is finite.
LEMMA ImagesAreFinite ==
  ASSUME NEW S, IsFiniteSet(S), NEW T, NEW h \in [S -> T], \A t \in T : \E s \in S : h[s] = t
  PROVE  IsFiniteSet(T)
<1>1. h \in Surjection(S, T)
  BY DEF Surjection
<1> QED
  BY <1>1, FS_Surjection

\* The fields of the summary by bucket and kind; there are finitely many.
LEMMA FieldsAreFinite ==
  /\ IsFiniteSet(Fields)
  /\ TotalGross \notin Fields
  /\ \A f \in Fields : /\ f.bucket \in Buckets /\ f.of \in {"net", "vat"}
                       /\ f.of = "vat" => f.bucket \in TaxedBuckets
  /\ \A b \in Buckets : [of |-> "net", bucket |-> b] \in Fields
  /\ \A b \in TaxedBuckets : [of |-> "vat", bucket |-> b] \in Fields
  /\ \A f, g \in Fields : f.of = g.of /\ f.bucket = g.bucket => f = g
<1>1. IsFiniteSet(Buckets)
  <2>1. /\ IsFiniteSet({"base", "first_reduced", "second_reduced", "taxi_flat_rate"})
        /\ IsFiniteSet({"special_procedure_xii", "zero_rate_domestic", "zero_rate_wdt",
                         "zero_rate_export"})
        /\ IsFiniteSet({"exempt", "out_of_territory", "article_100_services",
                         "reverse_charge"})
        /\ IsFiniteSet({"margin"})
    BY SmallSetsAreFinite, FS_Singleton
  <2>2. Buckets = ({"base", "first_reduced", "second_reduced", "taxi_flat_rate"}
                    \union {"special_procedure_xii", "zero_rate_domestic", "zero_rate_wdt",
                            "zero_rate_export"})
                  \union ({"exempt", "out_of_territory", "article_100_services",
                           "reverse_charge"}
                    \union {"margin"})
    BY BucketNames DEF Buckets
  <2> QED
    BY <2>1, <2>2, FS_Union
<1>2. IsFiniteSet(Fields)
  <2> DEFINE Net == {[of |-> "net", bucket |-> b] : b \in Buckets}
             Vat == {[of |-> "vat", bucket |-> b] : b \in Buckets}
  <2>1. IsFiniteSet(Net)
    <3> DEFINE h == [b \in Buckets |-> [of |-> "net", bucket |-> b]]
    <3>1. h \in [Buckets -> Net] /\ \A t \in Net : \E b \in Buckets : h[b] = t
      OBVIOUS
    <3> HIDE DEF h, Net
    <3> QED BY <1>1, <3>1, ImagesAreFinite
  <2>2. IsFiniteSet(Vat)
    <3> DEFINE h == [b \in Buckets |-> [of |-> "vat", bucket |-> b]]
    <3>1. h \in [Buckets -> Vat] /\ \A t \in Vat : \E b \in Buckets : h[b] = t
      OBVIOUS
    <3> HIDE DEF h, Vat
    <3> QED BY <1>1, <3>1, ImagesAreFinite
  <2>3. Fields \subseteq Net \union Vat
    BY DEF Fields, Buckets
  <2> HIDE DEF Net, Vat
  <2> QED
    BY <2>1, <2>2, <2>3, FS_Union, FS_Subset
<1> QED
  BY <1>2 DEF Fields, Buckets, TotalGross

\* An ordinary line counts for its net amount and its VAT, both of them once.
LEMMA LineIsCountedOnce ==
  ASSUME NEW l, IsLine(l), IsOrdinaryLine(l), NEW x, \A f \in Fields : x[f] = Share(l, f)
  PROVE  SumOver(x, Fields) = Share(l, TotalGross)
<1> DEFINE net == Or(l.net_amount, 0)
           vat == Or(l.vat_amount, 0)
<1>1. net \in Int /\ vat \in Int
  BY WholeGroszeAddUp DEF IsLine, Or
<1>2. Share(l, TotalGross) = net + vat
  BY DEF Share
<1>3. \A f \in Fields : x[f] = IF ~InBucket(l, f.bucket) THEN 0
                               ELSE IF f.of = "net" THEN net ELSE vat
  BY FieldsAreFinite DEF Share
<1>4. IsFiniteSet(Fields)
  BY FieldsAreFinite
<1>6. CASE l.tax_regime = "standard" /\ l.sale_category = None
  <2>1. net = 0 /\ vat = 0
    BY <1>6 DEF IsLine, Or
  <2>2. \A f \in Fields : x[f] = 0
    BY <1>3, <2>1
  <2> QED
    BY <1>2, <1>4, <2>1, <2>2, SumOfNothing
<1>7. CASE l.tax_regime # "standard" \/ l.sale_category # None
  <2>1. PICK b \in Buckets : \A c \in Buckets : InBucket(l, c) <=> c = b
    BY <1>7, OrdinaryLinesAreInOneBucket
  <2>2. b \in NetBuckets => vat = 0
    BY <2>1 DEF IsOrdinaryLine, Or, Buckets
  <2> HIDE DEF net, vat
  <2> DEFINE n == [of |-> "net", bucket |-> b]
             v == [of |-> "vat", bucket |-> b]
  <2>3. n \in Fields /\ x[n] = net /\ n.of = "net" /\ n.bucket = b
    BY <1>3, <2>1, FieldsAreFinite
  <2>4. \A f \in Fields : x[f] \in Int
    BY <1>1, <1>3
  <2>5. IsSummable(x, Fields) /\ IsSummable(x, Fields \ {n}) /\ IsSummable(x, (Fields \ {n}) \ {v})
    BY <1>4, <2>4, FS_Subset DEF IsSummable
  <2>6. SumOver(x, Fields) = net + SumOver(x, Fields \ {n})
    BY <2>3, <2>5, SumTakesOut
  <2>7. CASE b \in TaxedBuckets
    <3>1. v \in Fields \ {n} /\ x[v] = vat /\ v.of = "vat" /\ v.bucket = b
      BY <1>3, <2>1, <2>7, FieldsAreFinite
    <3>2. SumOver(x, Fields \ {n}) = vat + SumOver(x, (Fields \ {n}) \ {v})
      BY <2>5, <3>1, SumTakesOut
    <3>3. \A f \in (Fields \ {n}) \ {v} : x[f] = 0
      BY <1>3, <2>1, <2>3, <3>1, FieldsAreFinite
    <3>4. SumOver(x, (Fields \ {n}) \ {v}) = 0
      BY <2>5, <3>3, SumOfNothing DEF IsSummable
    <3> QED
      BY <1>1, <1>2, <2>6, <3>2, <3>4
  <2>8. CASE b \in NetBuckets
    <3>1. \A f \in Fields \ {n} : x[f] = 0
      BY <1>3, <2>1, <2>2, <2>3, <2>8, FieldsAreFinite
    <3>2. SumOver(x, Fields \ {n}) = 0
      BY <2>5, <3>1, SumOfNothing DEF IsSummable
    <3> QED
      BY <1>1, <1>2, <2>2, <2>6, <2>8, <3>2
  <2> QED
    BY <2>7, <2>8 DEF Buckets
<1> QED
  BY <1>6, <1>7

-----------------------------------------------------------------------------
(* The lines of a document and what they add up to.                        *)

\* The lines are of the class that the kind of the document has.
IsLineOf(l) == IF kind = "ZAL" THEN IsOrderLine(l) ELSE IsRow(l)

AreLines(lines) ==
  lines \in Seq(LineInputs) /\ \A k \in DOMAIN lines : IsLineOf(lines[k])

\* What lines add to a field of the summary.
TotalOf(lines, f) == SumOver([k \in DOMAIN lines |-> Share(lines[k], f)], DOMAIN lines)

\* Sequences of lines have finitely many of them.
LEMMA LinesAreFinite ==
  ASSUME NEW lines, lines \in Seq(LineInputs)
  PROVE  DOMAIN lines = 1..Len(lines) /\ Len(lines) \in Nat /\ IsFiniteSet(DOMAIN lines)
<1>1. DOMAIN lines = 1..Len(lines) /\ Len(lines) \in Nat
  OBVIOUS
<1> QED
  BY <1>1, FS_Interval

\* Lines of either class are lines.
LEMMA LinesOfAKind == \A l : IsLineOf(l) => IsLine(l) /\ l \in LineInputs
BY RowsAreLines, OrderLinesAreLines DEF IsLineOf, IsRow, IsOrderLine

\* Totals are in whole grosze ...
LEMMA TotalsAreWhole ==
  ASSUME NEW lines, AreLines(lines), NEW f
  PROVE  /\ TotalOf(lines, f) \in WholeGrosze
         /\ IsSummable([k \in DOMAIN lines |-> Share(lines[k], f)], DOMAIN lines)
<1> DEFINE sh == [k \in DOMAIN lines |-> Share(lines[k], f)]
<1>1. /\ \A k \in DOMAIN lines : sh[k] \in WholeGrosze /\ sh[k] \in Int
      /\ IsFiniteSet(DOMAIN lines)
  BY LinesOfAKind, SharesAreWhole, LinesAreFinite DEF AreLines
<1> HIDE DEF sh
<1>2. SumOver(sh, DOMAIN lines) \in WholeGrosze
  BY <1>1, WholeGroszeAddUp, SumStaysInside
<1> QED
  BY <1>1, <1>2 DEF TotalOf, sh, IsSummable

\* ... and so is every field of a summary.
LEMMA ComputedIsWhole ==
  ASSUME NEW b, AreLines(FinancialRows(b)), NEW f
  PROVE  Computed(b, f) \in WholeGrosze
<1> DEFINE lines == FinancialRows(b)
           sh == [k \in DOMAIN lines |-> CorrectionMultiplier(b, lines[k]) * Share(lines[k], f)]
<1>1. /\ \A k \in DOMAIN lines : Share(lines[k], f) \in WholeGrosze /\ -Share(lines[k], f) \in WholeGrosze
                                 /\ Share(lines[k], f) \in Int
      /\ IsFiniteSet(DOMAIN lines)
  BY LinesOfAKind, SharesAreWhole, LinesAreFinite DEF AreLines
<1>2. \A k \in DOMAIN lines : sh[k] \in WholeGrosze
  BY <1>1 DEF CorrectionMultiplier
<1> HIDE DEF sh
<1>3. SumOver(sh, DOMAIN lines) \in WholeGrosze
  BY <1>1, <1>2, WholeGroszeAddUp, SumStaysInside
<1> QED
  BY <1>3 DEF Computed, sh

\* An original adds up its lines ...
LEMMA OriginalAddsUp ==
  ASSUME NEW b, AreLines(FinancialRows(b)), NEW f,
         \A k \in DOMAIN FinancialRows(b) : ~FinancialRows(b)[k].before_correction
  PROVE  Computed(b, f) = TotalOf(FinancialRows(b), f)
<1> DEFINE lines == FinancialRows(b)
           sh == [k \in DOMAIN lines |-> CorrectionMultiplier(b, lines[k]) * Share(lines[k], f)]
           own == [k \in DOMAIN lines |-> Share(lines[k], f)]
<1>1. IsFiniteSet(DOMAIN lines) /\ \A k \in DOMAIN lines : Share(lines[k], f) \in Int
  BY LinesOfAKind, SharesAreWhole, LinesAreFinite DEF AreLines
<1>2. \A k \in DOMAIN lines : sh[k] = own[k]
  BY <1>1 DEF CorrectionMultiplier
<1> HIDE DEF sh, own
<1>3. SumOver(sh, DOMAIN lines) = SumOver(own, DOMAIN lines)
  BY <1>1, <1>2, EqualSums
<1> QED
  BY <1>3 DEF Computed, TotalOf, sh, own

\* ... and a correction the lines that are added, less those they replace.
LEMMA CorrectionAddsUp ==
  ASSUME NEW b, NEW old, NEW new, AreLines(old), AreLines(new), AreLines(FinancialRows(b)),
         FinancialRows(b) = old \o new, b.invoice_type \in {"KOR", "KOR_ZAL", "KOR_ROZ"},
         \A k \in DOMAIN old : old[k].before_correction,
         \A k \in DOMAIN new : ~new[k].before_correction, NEW f
  PROVE  Computed(b, f) = TotalOf(new, f) - TotalOf(old, f)
<1> DEFINE lines == FinancialRows(b)
           n == Len(old)
           m == Len(new)
           sh == [k \in DOMAIN lines |-> CorrectionMultiplier(b, lines[k]) * Share(lines[k], f)]
           shOld == [k \in DOMAIN old |-> Share(old[k], f)]
           shNew == [k \in DOMAIN new |-> Share(new[k], f)]
<1>1. /\ old \in Seq(LineInputs) /\ new \in Seq(LineInputs) /\ lines \in Seq(LineInputs)
      /\ n \in Nat /\ m \in Nat
      /\ DOMAIN old = 1..n /\ DOMAIN new = 1..m /\ DOMAIN lines = 1..(n + m)
  BY LinesAreFinite DEF AreLines
<1>2. /\ \A k \in 1..n : lines[k] = old[k]
      /\ \A k \in 1..m : lines[n + k] = new[k]
  BY <1>1
<1>3. /\ \A k \in 1..n : Share(old[k], f) \in Int
      /\ \A k \in 1..m : Share(new[k], f) \in Int
  BY <1>1, LinesOfAKind, SharesAreWhole DEF AreLines
<1>4. /\ \A k \in 1..n : sh[k] = -shOld[k] /\ shOld[k] \in Int
      /\ \A k \in 1..m : sh[n + k] = shNew[k] /\ shNew[k] \in Int
  <2>1. ASSUME NEW k \in 1..n
        PROVE  sh[k] = -shOld[k] /\ shOld[k] \in Int
    <3>1. k \in DOMAIN lines /\ k \in DOMAIN old /\ lines[k] = old[k] /\ Share(old[k], f) \in Int
      BY <1>1, <1>2, <1>3
    <3>2. CorrectionMultiplier(b, lines[k]) = -1
      BY <3>1 DEF CorrectionMultiplier
    <3> QED
      BY <3>1, <3>2
  <2>2. ASSUME NEW k \in 1..m
        PROVE  sh[n + k] = shNew[k] /\ shNew[k] \in Int
    <3>1. n + k \in DOMAIN lines /\ k \in DOMAIN new /\ lines[n + k] = new[k] /\ Share(new[k], f) \in Int
      BY <1>1, <1>2, <1>3
    <3>2. CorrectionMultiplier(b, lines[n + k]) = 1
      BY <3>1 DEF CorrectionMultiplier
    <3> QED
      BY <3>1, <3>2
  <2> QED
    BY <2>1, <2>2
<1>5. SumOver(shOld, 1..n) = TotalOf(old, f) /\ SumOver(shNew, 1..m) = TotalOf(new, f)
      /\ SumOver(sh, 1..(n + m)) = Computed(b, f)
  BY <1>1 DEF TotalOf, Computed
<1> HIDE DEF sh, shOld, shNew, lines, n, m
<1> DEFINE P == 1..n
           Q == (n + 1)..(n + m)
           D == 1..(n + m)
<1>6. /\ IsFiniteSet(P) /\ IsFiniteSet(1..m) /\ IsFiniteSet(Q) /\ IsFiniteSet(D)
  <2>1. 1 \in Int /\ n \in Int /\ m \in Int /\ n + 1 \in Int /\ n + m \in Int
    BY <1>1
  <2> QED
    BY <2>1, FS_Interval
<1>7. D = P \union Q /\ P \intersect Q = {}
  BY <1>1
<1>8. \A k \in Q : sh[k] \in Int /\ k - n \in 1..m /\ n + (k - n) = k
  <2> SUFFICES ASSUME NEW k \in Q PROVE sh[k] \in Int /\ k - n \in 1..m /\ n + (k - n) = k
    OBVIOUS
  <2>1. k - n \in 1..m /\ n + (k - n) = k
    BY <1>1
  <2> QED
    BY <1>4, <2>1
<1>9. \A k \in P : sh[k] = -shOld[k] /\ shOld[k] \in Int /\ sh[k] \in Int
  BY <1>4
<1>10. SumOver(shNew, 1..m) = SumOver(sh, Q)
  <2> DEFINE h == [k \in 1..m |-> n + k]
  <2>1. /\ h \in [1..m -> Q]
        /\ \A j, k \in 1..m : h[j] = h[k] => j = k
        /\ \A k \in 1..m : shNew[k] = sh[h[k]]
    BY <1>1, <1>4
  <2>2. \A t \in Q : \E k \in 1..m : h[k] = t
    BY <1>8
  <2>3. IsSummable(shNew, 1..m)
    BY <1>4, <1>6 DEF IsSummable
  <2> DEFINE M == 1..m
  <2>4. /\ h \in [M -> Q] /\ IsSummable(shNew, M) /\ IsFiniteSet(Q)
        /\ \A j, k \in M : h[j] = h[k] => j = k
        /\ \A t \in Q : \E k \in M : h[k] = t
        /\ \A k \in M : shNew[k] = sh[h[k]]
    BY <1>6, <2>1, <2>2, <2>3
  <2> HIDE DEF h, Q, M
  <2>5. SumOver(shNew, M) = SumOver(sh, Q)
    BY <2>4, SumRenamed
  <2> QED
    BY <2>5 DEF M
<1> HIDE DEF P, Q, D
<1>11. IsSummable(shOld, P) /\ IsSummable(sh, P \union Q)
  BY <1>6, <1>7, <1>8, <1>9 DEF IsSummable
<1>12. SumOver(sh, P) = -SumOver(shOld, P) /\ SumOver(shOld, P) \in Int
  BY <1>9, <1>11, SumNegated, SumIsInteger
<1>13. SumOver(sh, D) = SumOver(sh, P) + SumOver(sh, Q)
  BY <1>7, <1>11, SumOfParts
<1>14. SumOver(sh, Q) \in Int
  <2>1. IsSummable(sh, Q)
    BY <1>6, <1>8 DEF IsSummable
  <2> QED
    BY <2>1, SumIsInteger
<1> QED
  BY <1>5, <1>10, <1>12, <1>13, <1>14 DEF P, D

\* Lines that count the same add up to the same.
LEMMA SameTotals ==
  ASSUME NEW lines, NEW others, AreLines(lines), DOMAIN others = DOMAIN lines, NEW f,
         \A k \in DOMAIN lines : Share(others[k], f) = Share(lines[k], f)
  PROVE  TotalOf(others, f) = TotalOf(lines, f)
<1> DEFINE a == [k \in DOMAIN lines |-> Share(lines[k], f)]
           c == [k \in DOMAIN lines |-> Share(others[k], f)]
<1>1. IsFiniteSet(DOMAIN lines)
  BY LinesAreFinite DEF AreLines
<1>2. \A k \in DOMAIN lines : a[k] = c[k]
  OBVIOUS
<1>3. TotalOf(lines, f) = SumOver(a, DOMAIN lines) /\ TotalOf(others, f) = SumOver(c, DOMAIN lines)
  BY DEF TotalOf
<1> HIDE DEF a, c
<1> QED
  BY <1>1, <1>2, <1>3, EqualSums

\* The buckets of a document with ordinary lines add up to its total.
LEMMA BucketsAddUp ==
  ASSUME NEW b, AreLines(FinancialRows(b)),
         \A k \in DOMAIN FinancialRows(b) : IsOrdinaryLine(FinancialRows(b)[k])
  PROVE  Computed(b, TotalGross) = SumOver([f \in Fields |-> Computed(b, f)], Fields)
<1> DEFINE lines == FinancialRows(b)
           K == DOMAIN lines
           mult(k) == CorrectionMultiplier(b, lines[k])
           x == [f \in Fields |-> [k \in K |-> mult(k) * Share(lines[k], f)]]
           total == [k \in K |-> mult(k) * Share(lines[k], TotalGross)]
           inLine(k) == [f \in Fields |-> x[f][k]]
           rows == [f \in Fields |-> SumOver(x[f], K)]
           columns == [k \in K |-> SumOver(inLine(k), Fields)]
<1>1. IsFiniteSet(K) /\ IsFiniteSet(Fields)
  BY LinesAreFinite, FieldsAreFinite DEF AreLines
<1>2. \A k \in K : IsLine(lines[k])
  BY LinesOfAKind DEF AreLines
<1>3. \A k \in K, f \in Fields : x[f][k] = mult(k) * Share(lines[k], f) /\ x[f][k] \in Int
  BY <1>2, SharesAreWhole DEF CorrectionMultiplier
<1>4. SumOver(rows, Fields) = SumOver(columns, K)
  <2> HIDE DEF x, K
  <2> QED BY <1>1, <1>3, SumOfSums
<1>5. ASSUME NEW k \in K
      PROVE  columns[k] = total[k]
  <2> DEFINE l == lines[k]
             own == [f \in Fields |-> Share(l, f)]
             u == inLine(k)
  <2>1. SumOver(own, Fields) = Share(l, TotalGross)
    BY <1>2, LineIsCountedOnce
  <2>2. IsSummable(own, Fields) /\ Share(l, TotalGross) \in Int
    BY <1>1, <1>2, SharesAreWhole DEF IsSummable
  <2>3. \A f \in Fields : u[f] = mult(k) * own[f] /\ own[f] \in Int
    BY <1>2, <1>3, SharesAreWhole
  <2>4. columns[k] = SumOver(u, Fields) /\ total[k] = mult(k) * Share(l, TotalGross)
    OBVIOUS
  <2>5. mult(k) \in {1, -1}
    BY DEF CorrectionMultiplier
  <2> HIDE DEF own, l, u, mult, columns, total
  <2>6. CASE mult(k) = 1
    <3>1. \A f \in Fields : u[f] = own[f]
      BY <2>3, <2>6
    <3>2. SumOver(u, Fields) = SumOver(own, Fields)
      BY <1>1, <3>1, EqualSums
    <3> QED
      BY <2>1, <2>2, <2>4, <2>6, <3>2
  <2>7. CASE mult(k) = -1
    <3>1. \A f \in Fields : u[f] = -own[f]
      BY <2>3, <2>7
    <3>2. SumOver(u, Fields) = -SumOver(own, Fields)
      BY <2>2, <3>1, SumNegated
    <3> QED
      BY <2>1, <2>2, <2>4, <2>7, <3>2
  <2> QED
    BY <2>5, <2>6, <2>7
<1>6. SumOver(columns, K) = SumOver(total, K)
  <2> HIDE DEF columns, total, K
  <2> QED BY <1>1, <1>5, EqualSums
<1>7. Computed(b, TotalGross) = SumOver(total, K)
  BY DEF Computed
<1>8. \A f \in Fields : Computed(b, f) = rows[f]
  BY DEF Computed
<1>9. SumOver([f \in Fields |-> Computed(b, f)], Fields) = SumOver(rows, Fields)
  <2> DEFINE c == [f \in Fields |-> Computed(b, f)]
  <2>1. \A f \in Fields : c[f] = rows[f]
    BY <1>8
  <2> HIDE DEF c, rows
  <2>2. SumOver(c, Fields) = SumOver(rows, Fields)
    BY <1>1, <2>1, EqualSums
  <2> QED BY <2>2 DEF c
<1> HIDE DEF total, rows, columns
<1> QED
  BY <1>4, <1>6, <1>7, <1>9

-----------------------------------------------------------------------------
(* New documents.                                                          *)

KindOfDocument == kind \in {"VAT", "ZAL", "ROZ"}

\* The type of the correcting invoice of each kind.
LEMMA TypesOfDocuments ==
  CorrectingType["VAT"] = "KOR" /\ CorrectingType["ZAL"] = "KOR_ZAL" /\ CorrectingType["ROZ"] = "KOR_ROZ"
BY DEF CorrectingType

\* The lines that count are those of the order, or of the invoice.
IsBodyOfKind(b) ==
  /\ b.currency = currency /\ b.vat_currency_exchange_rate = rate
  /\ b.margin_procedure \in BOOLEAN
  /\ b.invoice_type \in {kind, CorrectingType[kind]}
  /\ IsValidBody(b)
  /\ IF kind = "ZAL" THEN b.rows = <<>> /\ b.order.order_lines # <<>>
                     ELSE b.order = NoOrder

\* The financial rows of a body by its kind.
LEMMA LinesThatCount ==
  ASSUME KindOfDocument, NEW b, IsBodyOfKind(b)
  PROVE  FinancialRows(b) = IF kind = "ZAL" THEN b.order.order_lines ELSE b.rows
BY TypesOfDocuments DEF KindOfDocument, IsBodyOfKind, FinancialRows, NoOrder

\* A new document: its lines are those it was made of, and it has no totals but theirs.
LEMMA NewBody ==
  ASSUME KindOfDocument, NEW type \in {kind, CorrectingType[kind]},
         NEW lines, lines \in Seq(LineInputs), NEW margin \in BOOLEAN,
         NEW b \in NewBodies(type, lines, margin)
  PROVE  /\ IsBodyOfKind(b) /\ b.invoice_type = type /\ b.summary_overrides = NoOverrides
         /\ FinancialRows(b) = lines
         /\ kind = "ZAL" => b.order \in InvoiceOrder(None, lines)
<1> DEFINE Body(rows, order) ==
        [invoice_type |-> type, currency |-> currency, vat_currency_exchange_rate |-> rate,
         margin_procedure |-> margin, rows |-> rows, order |-> order,
         summary_overrides |-> NoOverrides]
<1>1. type \in {"ZAL", "KOR_ZAL"} <=> kind = "ZAL"
  BY TypesOfDocuments DEF KindOfDocument
<1>2. CASE kind = "ZAL"
  <2>1. PICK o \in InvoiceOrder(None, lines) : b = Body(<<>>, o) /\ IsValidBody(b)
    BY <1>1, <1>2 DEF NewBodies
  <2>2. lines # <<>> /\ o.order_lines = lines
    BY DEF InvoiceOrder
  <2>4. IsBodyOfKind(b)
    BY <1>2, <2>1, <2>2 DEF IsBodyOfKind
  <2> QED
    BY <1>2, <2>1, <2>2, <2>4, LinesThatCount
<1>3. CASE kind # "ZAL"
  <2>1. b = Body(lines, NoOrder) /\ IsValidBody(b)
    BY <1>1, <1>3 DEF NewBodies
  <2>2. IsBodyOfKind(b)
    BY <1>3, <2>1 DEF IsBodyOfKind
  <2> QED
    BY <1>3, <2>1, <2>2, LinesThatCount
<1> QED
  BY <1>2, <1>3

-----------------------------------------------------------------------------
(* What is read of a document that was written.                            *)

RowsRead(b) ==
  [k \in DOMAIN b.rows |-> InvoiceRow(LineRead(FakturaFaFaWiersz(b.rows[k]), b.margin_procedure))]

ItemsRead(b) ==
  [k \in DOMAIN b.order.order_lines |-> InvoiceOrderLine(OrderLineWritten(b.order.order_lines[k]))]

OrdersRead(b) ==
  IF b.order.order_lines = <<>> THEN {NoOrder}
  ELSE UNION {InvoiceOrder(b.order.total_value, lines) : lines \in AllRead(ItemsRead(b))}

Rounded(x) == IF x = None THEN None ELSE RoundPln(x)

OverridesRead(b) ==
  [amounts |-> [f \in SummaryFields |->
                  Rounded(IF f = TotalGross THEN SummaryValue(b, f) ELSE OptDec(SummaryValue(b, f)))],
   pln |-> [c \in ConvertedBuckets |->
              Rounded(IF VatTotalPln(b, c) = None THEN None ELSE OptDec(VatTotalPln(b, c)))]]

BodyRead(b, rows, order) ==
  [invoice_type |-> b.invoice_type, currency |-> b.currency,
   vat_currency_exchange_rate |-> b.vat_currency_exchange_rate,
   margin_procedure |-> b.margin_procedure,
   rows |-> rows, order |-> order, summary_overrides |-> OverridesRead(b)]

\* ReadBodies of a document that was written, spelled out.
LEMMA WhatIsRead ==
  ASSUME NEW b, b.order.order_lines \in Seq(LineInputs)
  PROVE  ReadBodies(FakturaFa(b)) =
           {c \in {BodyRead(b, rows, order) : rows \in AllRead(RowsRead(b)), order \in OrdersRead(b)} :
              IsValidBody(c)}
<1> DEFINE doc == FakturaFa(b)
           items == [k \in DOMAIN b.order.order_lines |->
                       FakturaFaZamowienieWiersz(b.order.order_lines[k])]
           Items(written) == [k \in DOMAIN written |-> InvoiceOrderLine(LineRead(written[k], FALSE))]
           rowsRead == [k \in DOMAIN doc.fa_wiersz |->
                          InvoiceRow(LineRead(doc.fa_wiersz[k], doc.margin_procedure))]
           orders  == IF doc.zamowienie.wiersze = <<>> THEN {NoOrder}
                      ELSE UNION {InvoiceOrder(doc.zamowienie.wartosc, lines) :
                                    lines \in AllRead(Items(doc.zamowienie.wiersze))}
           overrides == [amounts |-> [f \in SummaryFields |-> Rounded(doc.amounts[f])],
                         pln     |-> [c \in ConvertedBuckets |-> Rounded(doc.pln[c])]]
           Body(rows, order) ==
             [invoice_type |-> doc.invoice_type, currency |-> doc.currency,
              vat_currency_exchange_rate |-> doc.kurs_waluty_z,
              margin_procedure |-> doc.margin_procedure,
              rows |-> rows, order |-> order, summary_overrides |-> overrides]
<1>1. ReadBodies(doc) =
        {c \in {Body(rows, order) : rows \in AllRead(rowsRead), order \in orders} : IsValidBody(c)}
  BY DEF ReadBodies, Rounded
<1>2. /\ doc.invoice_type = b.invoice_type /\ doc.currency = b.currency
      /\ doc.kurs_waluty_z = b.vat_currency_exchange_rate
      /\ doc.margin_procedure = b.margin_procedure
      /\ doc.fa_wiersz = [k \in DOMAIN b.rows |-> FakturaFaFaWiersz(b.rows[k])]
      /\ doc.zamowienie.wartosc = b.order.total_value
      /\ doc.zamowienie.wiersze = items
      /\ doc.amounts = [f \in SummaryFields |->
                          IF f = TotalGross THEN SummaryValue(b, f) ELSE OptDec(SummaryValue(b, f))]
      /\ doc.pln = [c \in ConvertedBuckets |->
                      IF VatTotalPln(b, c) = None THEN None ELSE OptDec(VatTotalPln(b, c))]
  BY DEF FakturaFa
<1> HIDE DEF doc
<1>3. rowsRead = RowsRead(b)
  BY <1>2 DEF RowsRead
<1>4. overrides = OverridesRead(b)
  BY <1>2 DEF OverridesRead
<1>5. Items(items) = ItemsRead(b)
  BY DEF ItemsRead, OrderLineWritten
<1>6. items = <<>> <=> b.order.order_lines = <<>>
  <2>1. DOMAIN items = 1..Len(b.order.order_lines) /\ Len(b.order.order_lines) \in Nat
    OBVIOUS
  <2> QED
    BY <2>1
<1> HIDE DEF items, Items
<1>7. orders = OrdersRead(b)
  BY <1>2, <1>5, <1>6 DEF OrdersRead
<1> HIDE DEF rowsRead, orders, overrides
<1>8. \A rows, order : Body(rows, order) = BodyRead(b, rows, order)
  BY <1>2, <1>4 DEF BodyRead
<1> HIDE DEF Body
<1> QED
  BY <1>1, <1>3, <1>7, <1>8 DEF doc

\* All lines of a document are read, or none.
LEMMA EveryLineIsRead ==
  ASSUME NEW read
  PROVE  /\ \A s \in AllRead(read) : /\ DOMAIN s = DOMAIN read
                                     /\ s = [k \in DOMAIN read |-> s[k]]
                                     /\ \A k \in DOMAIN read : s[k] \in read[k]
         /\ (\A k \in DOMAIN read : read[k] # {}) => AllRead(read) # {}
BY DEF AllRead

\* A function on the places of some lines that returns lines is a sequence of lines.
LEMMA MadeOfLines ==
  ASSUME NEW old, old \in Seq(LineInputs), NEW new, new = [k \in DOMAIN old |-> new[k]],
         \A k \in DOMAIN old : new[k] \in LineInputs
  PROVE  new \in Seq(LineInputs)
<1>1. DOMAIN old = 1..Len(old) /\ Len(old) \in Nat
  BY LinesAreFinite
<1>2. new \in [1..Len(old) -> LineInputs]
  BY <1>1
<1> QED
  BY <1>1, <1>2

\* The line that was read for a line of the document.
IsReadOf(m, l, margin) ==
  IF kind = "ZAL" THEN m \in InvoiceOrderLine(OrderLineWritten(l))
                  ELSE m \in InvoiceRow(LineRead(FakturaFaFaWiersz(l), margin))

\* A document that is read is the document that was written, line by line.
LEMMA ReadBody ==
  ASSUME KindOfDocument, NEW b, IsBodyOfKind(b), AreLines(FinancialRows(b)),
         NEW c \in ReadBodies(FakturaFa(b))
  PROVE  /\ IsBodyOfKind(c)
         /\ c.invoice_type = b.invoice_type
         /\ c.margin_procedure = b.margin_procedure
         /\ c.summary_overrides = OverridesRead(b)
         /\ AreLines(FinancialRows(c))
         /\ DOMAIN FinancialRows(c) = DOMAIN FinancialRows(b)
         /\ \A k \in DOMAIN FinancialRows(b) :
              IsReadOf(FinancialRows(c)[k], FinancialRows(b)[k], b.margin_procedure)
<1>1. b.order.order_lines \in Seq(LineInputs)
  <2>1. CASE kind = "ZAL"
    BY <2>1, LinesThatCount DEF AreLines
  <2>2. CASE kind # "ZAL"
    <3>1. b.order.order_lines = <<>>
      BY <2>2 DEF IsBodyOfKind, NoOrder
    <3> QED
      BY <3>1
  <2> QED
    BY <2>1, <2>2
<1>2. PICK rows \in AllRead(RowsRead(b)), order \in OrdersRead(b) :
        c = BodyRead(b, rows, order) /\ IsValidBody(c)
  BY <1>1, WhatIsRead
<1>3. /\ c.invoice_type = b.invoice_type /\ c.currency = b.currency
      /\ c.vat_currency_exchange_rate = b.vat_currency_exchange_rate
      /\ c.margin_procedure = b.margin_procedure
      /\ c.rows = rows /\ c.order = order
      /\ c.summary_overrides = OverridesRead(b)
  BY <1>2 DEF BodyRead
<1>4. CASE kind = "ZAL"
  <2> DEFINE old == b.order.order_lines
  <2>1. FinancialRows(b) = old /\ b.invoice_type \in {"ZAL", "KOR_ZAL"}
    BY <1>4, LinesThatCount, TypesOfDocuments DEF IsBodyOfKind
  <2>2. old \in Seq(LineInputs) /\ \A k \in DOMAIN old : IsOrderLine(old[k])
    BY <1>4, <2>1 DEF AreLines, IsLineOf
  <2>3. old # <<>>
    BY <1>4 DEF IsBodyOfKind
  <2>4. PICK new \in AllRead(ItemsRead(b)) : order \in InvoiceOrder(b.order.total_value, new)
    BY <1>2, <2>3 DEF OrdersRead
  <2>5. /\ DOMAIN new = DOMAIN old /\ new = [k \in DOMAIN old |-> new[k]]
        /\ \A k \in DOMAIN old : new[k] \in InvoiceOrderLine(OrderLineWritten(old[k]))
    BY <2>4, EveryLineIsRead DEF ItemsRead
  <2>6. \A k \in DOMAIN old : IsOrderLine(new[k]) /\ new[k] \in LineInputs
    BY <2>2, <2>5, OrderLineIsRead, ConstructedOrderLine DEF IsOrderLine
  <2>7. new \in Seq(LineInputs)
    BY <1>1, <2>5, <2>6, MadeOfLines
  <2>8. order.order_lines = new /\ new # <<>>
    BY <2>4 DEF InvoiceOrder
  <2>9. order # NoOrder
    BY <2>8 DEF NoOrder
  <2>10. IsBodyOfKind(c)
    BY <1>2, <1>3, <1>4, <2>1, <2>8, <2>9 DEF IsBodyOfKind, IsValidBody
  <2>11. FinancialRows(c) = new
    BY <1>3, <1>4, <2>8, <2>10, LinesThatCount
  <2> QED
    BY <1>3, <1>4, <2>1, <2>5, <2>6, <2>7, <2>10, <2>11 DEF AreLines, IsLineOf, IsReadOf
<1>5. CASE kind # "ZAL"
  <2> DEFINE old == b.rows
  <2>1. FinancialRows(b) = old /\ b.order = NoOrder
    BY <1>5, LinesThatCount DEF IsBodyOfKind
  <2>2. old \in Seq(LineInputs) /\ \A k \in DOMAIN old : IsRow(old[k])
    BY <1>5, <2>1 DEF AreLines, IsLineOf
  <2>3. order = NoOrder
    BY <1>2, <2>1 DEF OrdersRead, NoOrder
  <2>4. /\ DOMAIN rows = DOMAIN old /\ rows = [k \in DOMAIN old |-> rows[k]]
        /\ \A k \in DOMAIN old :
             rows[k] \in InvoiceRow(LineRead(FakturaFaFaWiersz(old[k]), b.margin_procedure))
    BY <1>2, EveryLineIsRead DEF RowsRead
  <2>5. b.margin_procedure \in BOOLEAN
    BY DEF IsBodyOfKind
  <2>6. \A k \in DOMAIN old : IsRow(rows[k]) /\ rows[k] \in LineInputs
    BY <2>2, <2>4, <2>5, RowIsRead, ConstructedRow DEF IsRow
  <2>7. rows \in Seq(LineInputs)
    BY <2>2, <2>4, <2>6, MadeOfLines
  <2>8. IsBodyOfKind(c)
    BY <1>2, <1>3, <1>5, <2>3 DEF IsBodyOfKind
  <2>9. FinancialRows(c) = rows
    BY <1>3, <1>5, <2>8, LinesThatCount
  <2> QED
    BY <1>3, <1>5, <2>1, <2>4, <2>6, <2>7, <2>8, <2>9 DEF AreLines, IsLineOf, IsReadOf
<1> QED
  BY <1>4, <1>5

\* What is the same of a line that was read.
LEMMA LineIsRead ==
  ASSUME NEW l, IsLineOf(l), NEW margin \in BOOLEAN, kind = "ZAL" => ~margin,
         NEW m, IsReadOf(m, l, margin)
  PROVE  /\ IsLine(l) /\ IsLineOf(m) /\ IsLine(m)
         /\ m.net_amount = l.net_amount /\ m.vat_amount \in {l.vat_amount, LineVat(l)}
         /\ m.tax_regime = TaxRegimeForLine(margin, WrittenCategory(l), l.vat_rate_xii)
         /\ m.sale_category = WrittenCategory(l)
         /\ m.currency_exchange_rate = IF kind = "ZAL" THEN None ELSE l.currency_exchange_rate
         /\ m.before_correction = l.before_correction
<1>1. CASE kind = "ZAL"
  <2>1. IsOrderLine(l) /\ m \in InvoiceOrderLine(OrderLineWritten(l)) /\ margin = FALSE
    BY <1>1 DEF IsLineOf, IsReadOf
  <2>2. OrderLineWritten(l) \in LineInputs
    BY <2>1, OrderLineIsRead
  <2>3. IsOrderLine(m)
    BY <2>1, <2>2, ConstructedOrderLine
  <2>4. /\ m.net_amount = l.net_amount /\ m.vat_amount = LineVat(l)
        /\ m.tax_regime = TaxRegimeForLine(FALSE, WrittenCategory(l), l.vat_rate_xii)
        /\ m.sale_category = WrittenCategory(l)
        /\ m.currency_exchange_rate = None
        /\ m.before_correction = l.before_correction
    BY <2>1, OrderLineIsRead
  <2>5. IsLine(l) /\ IsLine(m)
    BY <2>1, <2>3, OrderLinesAreLines
  <2> QED
    BY <1>1, <2>1, <2>3, <2>4, <2>5 DEF IsLineOf
<1>2. CASE kind # "ZAL"
  <2>1. IsRow(l) /\ m \in InvoiceRow(LineRead(FakturaFaFaWiersz(l), margin))
    BY <1>2 DEF IsLineOf, IsReadOf
  <2>2. LineRead(FakturaFaFaWiersz(l), margin) \in LineInputs
    BY <2>1, RowIsRead
  <2>3. IsRow(m)
    BY <2>1, <2>2, ConstructedRow
  <2>4. /\ m.net_amount = l.net_amount
        /\ m.vat_amount = IF l.net_amount = None THEN LineVat(l) ELSE l.vat_amount
        /\ m.tax_regime = TaxRegimeForLine(margin, WrittenCategory(l), l.vat_rate_xii)
        /\ m.sale_category = WrittenCategory(l)
        /\ m.currency_exchange_rate = l.currency_exchange_rate
        /\ m.before_correction = l.before_correction
    BY <2>1, RowIsRead
  <2>5. IsLine(l) /\ IsLine(m)
    BY <2>1, <2>3, RowsAreLines
  <2> QED
    BY <1>2, <2>3, <2>4, <2>5 DEF IsLineOf
<1> QED
  BY <1>1, <1>2

\* An order has no margin procedure.
LEMMA OrdersHaveNoMargin ==
  ASSUME NEW b, IsBodyOfKind(b)
  PROVE  b.margin_procedure \in BOOLEAN /\ (kind = "ZAL" => ~b.margin_procedure)
BY DEF IsBodyOfKind, IsValidBody

-----------------------------------------------------------------------------
(* What is refused.                                                        *)

\* An invoice whose margin lines are announced is not refused.
LEMMA InvoiceCanBeRead ==
  ASSUME KindOfDocument, kind # "ZAL", NEW b, IsBodyOfKind(b), AreLines(FinancialRows(b)),
         b.margin_procedure \/ \A k \in DOMAIN FinancialRows(b) :
                                 FinancialRows(b)[k].tax_regime # "margin"
  PROVE  ReadBodies(FakturaFa(b)) # {}
<1> DEFINE old == b.rows
<1>1. FinancialRows(b) = old /\ b.order = NoOrder /\ b.margin_procedure \in BOOLEAN
  BY LinesThatCount DEF IsBodyOfKind
<1>2. old \in Seq(LineInputs) /\ \A k \in DOMAIN old : IsRow(old[k])
  BY <1>1 DEF AreLines, IsLineOf
<1>3. AllRead(RowsRead(b)) # {}
  <2>1. DOMAIN RowsRead(b) = DOMAIN old
    BY DEF RowsRead
  <2>2. \A k \in DOMAIN old : RowsRead(b)[k] # {}
    BY <1>1, <1>2, RowIsRead DEF RowsRead
  <2> QED
    BY <2>1, <2>2, EveryLineIsRead
<1>4. PICK rows \in AllRead(RowsRead(b)) : TRUE
  BY <1>3
<1>5. /\ DOMAIN rows = DOMAIN old /\ rows = [k \in DOMAIN old |-> rows[k]]
      /\ \A k \in DOMAIN old :
           rows[k] \in InvoiceRow(LineRead(FakturaFaFaWiersz(old[k]), b.margin_procedure))
  BY <1>4, EveryLineIsRead DEF RowsRead
<1>6. \A k \in DOMAIN old : rows[k] \in LineInputs
  BY <1>1, <1>2, <1>5, RowIsRead, ConstructedRow DEF IsRow
<1>7. rows \in Seq(LineInputs)
  BY <1>2, <1>5, <1>6, MadeOfLines
<1>8. rows = <<>> <=> old = <<>>
  <2>1. DOMAIN rows = 1..Len(rows) /\ DOMAIN old = 1..Len(old)
        /\ Len(rows) \in Nat /\ Len(old) \in Nat
    BY <1>2, <1>7, LinesAreFinite
  <2>2. Len(rows) = Len(old)
    BY <1>5, <2>1
  <2> QED
    BY <1>2, <1>7, <2>2
<1>9. NoOrder \in OrdersRead(b) /\ b.order.order_lines \in Seq(LineInputs)
  <2>1. b.order.order_lines = <<>>
    BY <1>1 DEF NoOrder
  <2> QED
    BY <2>1 DEF OrdersRead
<1>10. IsValidBody(BodyRead(b, rows, NoOrder))
  <2> DEFINE c == BodyRead(b, rows, NoOrder)
  <2>1. /\ c.invoice_type = b.invoice_type /\ c.currency = b.currency
        /\ c.vat_currency_exchange_rate = b.vat_currency_exchange_rate
        /\ c.margin_procedure = b.margin_procedure
        /\ c.rows = rows /\ c.order = NoOrder
    BY DEF BodyRead
  <2>2. IsValidBody(b) /\ b.invoice_type \in {"VAT", "ROZ", "KOR", "KOR_ROZ"}
    BY TypesOfDocuments DEF IsBodyOfKind, KindOfDocument
  <2> HIDE DEF c
  <2>3. /\ b.vat_currency_exchange_rate # None => b.currency # "PLN"
        /\ b.invoice_type # "KOR" => b.rows # <<>>
        /\ b.margin_procedure => b.rows # <<>>
    BY <2>2 DEF IsValidBody
  <2>4. IsValidBody(c)
    BY <1>1, <1>8, <2>1, <2>2, <2>3 DEF IsValidBody
  <2> QED
    BY <2>4 DEF c
<1> QED
  BY <1>4, <1>9, <1>10, WhatIsRead

\* The VAT of the line is known, and not written.
VatIsLeftOut(l) == l.vat_amount # None /\ LineVat(l) = None

\* The value of an order is that of the lines that were read, unless ...
LEMMA ValueOfTheOrder ==
  ASSUME NEW old, old \in Seq(LineInputs), \A k \in DOMAIN old : IsOrderLine(old[k]),
         NEW new, DOMAIN new = DOMAIN old,
         \A k \in DOMAIN old : new[k] \in InvoiceOrderLine(OrderLineWritten(old[k])),
         NEW order \in InvoiceOrder(None, old), order.total_value > 0,
         \A k \in LinesForTotal(old) :
           old[k].gross_amount # None => old[k].gross_amount = old[k].net_amount + old[k].vat_amount,
         \A j, k \in LinesForTotal(old) :
           VatIsLeftOut(old[j]) => VatIsLeftOut(old[k]) /\ old[j].vat_amount = 0
  PROVE  RoundPln(order.total_value) \in {GrossOf(new), NetOf(new)}
         /\ RoundPln(order.total_value) = order.total_value
<1> DEFINE K == LinesForTotal(old)
           net(s) == [k \in DOMAIN s |-> Or(s[k].net_amount, 0)]
           gross(s) == [k \in DOMAIN s |-> Or(s[k].gross_amount, 0)]
<1>1. \A k \in DOMAIN old :
        /\ new[k].net_amount = old[k].net_amount
        /\ new[k].gross_amount = IF old[k].net_amount = None \/ LineVat(old[k]) = None
                                   THEN None ELSE old[k].net_amount + LineVat(old[k])
        /\ new[k].before_correction = old[k].before_correction
  <2> TAKE k \in DOMAIN old
  <2> DEFINE l == old[k]
             m == new[k]
  <2>1. IsOrderLine(l) /\ m \in InvoiceOrderLine(OrderLineWritten(l))
    OBVIOUS
  <2> HIDE DEF l, m
  <2>2. /\ m.net_amount = l.net_amount
        /\ m.gross_amount = IF l.net_amount = None \/ LineVat(l) = None
                              THEN None ELSE l.net_amount + LineVat(l)
        /\ m.before_correction = l.before_correction
    BY <2>1, OrderLineIsRead
  <2> QED
    BY <2>2 DEF l, m
<1>2. LinesForTotal(new) = K
  BY <1>1 DEF LinesForTotal
<1>3. K \subseteq DOMAIN old /\ IsFiniteSet(K)
  BY LinesAreFinite, FS_Subset DEF LinesForTotal
<1>4. /\ NetOf(old) = SumOver(net(old), K) /\ NetOf(new) = SumOver(net(new), K)
      /\ GrossOf(old) = SumOver(gross(old), K) /\ GrossOf(new) = SumOver(gross(new), K)
  BY <1>2 DEF NetOf, GrossOf
<1>5. \A k \in K : /\ net(old)[k] = Or(old[k].net_amount, 0)
                   /\ net(new)[k] = Or(new[k].net_amount, 0)
                   /\ gross(old)[k] = Or(old[k].gross_amount, 0)
                   /\ gross(new)[k] = Or(new[k].gross_amount, 0)
  BY <1>3
<1>6. \A k \in K :
        /\ {old[k].net_amount, old[k].vat_amount, old[k].gross_amount} \subseteq WholeGrosze \union {None}
        /\ (old[k].gross_amount = None) = (None \in {old[k].net_amount, old[k].vat_amount})
  BY <1>3 DEF IsOrderLine
<1> HIDE DEF net, gross, K
<1>7. NetOf(new) = NetOf(old)
  <2>1. \A k \in K : net(new)[k] = net(old)[k]
    BY <1>1, <1>3, <1>5
  <2>2. SumOver(net(new), K) = SumOver(net(old), K)
    BY <1>3, <2>1, EqualSums
  <2> QED
    BY <1>4, <2>2
<1>8. NetOf(old) \in WholeGrosze /\ GrossOf(old) \in WholeGrosze
  <2>1. \A k \in K : net(old)[k] \in WholeGrosze /\ gross(old)[k] \in WholeGrosze
    BY <1>5, <1>6, WholeGroszeAddUp DEF Or
  <2>2. SumOver(net(old), K) \in WholeGrosze /\ SumOver(gross(old), K) \in WholeGrosze
    BY <1>3, <2>1, WholeGroszeAddUp, SumStaysInside
  <2> QED
    BY <1>4, <2>2
<1>9. order.total_value = IF GrossOf(old) > 0 THEN GrossOf(old) ELSE NetOf(old)
  BY DEF InvoiceOrder
<1>10. RoundPln(order.total_value) = order.total_value
  BY <1>8, <1>9, RoundedIsWhole
<1>11. CASE \A k \in K : ~VatIsLeftOut(old[k])
  <2>1. ASSUME NEW k \in K
        PROVE  gross(new)[k] = gross(old)[k]
    <3>1. LineVat(old[k]) = old[k].vat_amount
      BY <1>11 DEF VatIsLeftOut, LineVat
    <3>2. new[k].gross_amount = old[k].gross_amount
      BY <1>1, <1>3, <1>6, <3>1 DEF K
    <3> QED
      BY <1>5, <3>2
  <2>2. SumOver(gross(new), K) = SumOver(gross(old), K)
    BY <1>3, <2>1, EqualSums
  <2> QED
    BY <1>4, <1>7, <1>9, <1>10, <2>2
<1>12. CASE \E k \in K : VatIsLeftOut(old[k])
  <2>1. \A k \in K : VatIsLeftOut(old[k]) /\ old[k].vat_amount = 0
    BY <1>12 DEF K
  <2>2. ASSUME NEW k \in K
        PROVE  gross(old)[k] = net(old)[k]
    <3>1. old[k].vat_amount = 0 /\ 0 # None
      BY <2>1, NoneIsNothing
    <3>2. old[k].gross_amount = None <=> old[k].net_amount = None
      BY <1>6, <3>1
    <3>3. old[k].gross_amount # None => old[k].gross_amount = old[k].net_amount
      <4> SUFFICES ASSUME old[k].gross_amount # None
                   PROVE  old[k].gross_amount = old[k].net_amount
        OBVIOUS
      <4>1. old[k].net_amount \in Int
        BY <1>6, <3>2, WholeGroszeAddUp
      <4>2. old[k].gross_amount = old[k].net_amount + old[k].vat_amount
        BY DEF K
      <4> QED
        BY <3>1, <4>1, <4>2
    <3> QED
      BY <1>5, <3>2, <3>3 DEF Or
  <2>3. SumOver(gross(old), K) = SumOver(net(old), K)
    BY <1>3, <2>2, EqualSums
  <2> QED
    BY <1>4, <1>7, <1>9, <1>10, <2>3
<1> QED
  BY <1>10, <1>11, <1>12

\* The value that is computed for an order is a number.
LEMMA OrderHasAValue ==
  ASSUME NEW old, old \in Seq(LineInputs), \A k \in DOMAIN old : IsOrderLine(old[k]),
         NEW order \in InvoiceOrder(None, old)
  PROVE  order.total_value \in Int
<1>1. GrossOf(old) \in Int /\ NetOf(old) \in Int
  <2>1. LinesForTotal(old) \subseteq DOMAIN old /\ IsFiniteSet(LinesForTotal(old))
    BY LinesAreFinite, FS_Subset DEF LinesForTotal
  <2> DEFINE g == [k \in DOMAIN old |-> Or(old[k].gross_amount, 0)]
             n == [k \in DOMAIN old |-> Or(old[k].net_amount, 0)]
  <2>2. \A k \in DOMAIN old : g[k] \in Int /\ n[k] \in Int
    BY WholeGroszeAddUp DEF IsOrderLine, Or
  <2>3. GrossOf(old) = SumOver(g, LinesForTotal(old)) /\ NetOf(old) = SumOver(n, LinesForTotal(old))
    BY DEF GrossOf, NetOf
  <2> HIDE DEF g, n
  <2>4. IsSummable(g, LinesForTotal(old)) /\ IsSummable(n, LinesForTotal(old))
    BY <2>1, <2>2 DEF IsSummable
  <2> QED
    BY <2>3, <2>4, SumIsInteger
<1>2. order.total_value = IF GrossOf(old) > 0 THEN GrossOf(old) ELSE NetOf(old)
  BY DEF InvoiceOrder
<1> QED
  BY <1>1, <1>2

\* ... an order is refused: for a margin line, or for its value.
LEMMA OrderCanBeRead ==
  ASSUME KindOfDocument, kind = "ZAL", NEW b, IsBodyOfKind(b), AreLines(FinancialRows(b)),
         b.order \in InvoiceOrder(None, FinancialRows(b)), b.order.total_value > 0,
         \A k \in DOMAIN FinancialRows(b) : FinancialRows(b)[k].tax_regime # "margin",
         \A k \in LinesForTotal(FinancialRows(b)) :
           LET l == FinancialRows(b)[k]
           IN l.gross_amount # None => l.gross_amount = l.net_amount + l.vat_amount,
         \A j, k \in LinesForTotal(FinancialRows(b)) :
           VatIsLeftOut(FinancialRows(b)[j]) =>
             VatIsLeftOut(FinancialRows(b)[k]) /\ FinancialRows(b)[j].vat_amount = 0
  PROVE  ReadBodies(FakturaFa(b)) # {}
<1> DEFINE old == b.order.order_lines
<1>1. FinancialRows(b) = old /\ b.rows = <<>> /\ old # <<>> /\ ~b.margin_procedure
  BY LinesThatCount, OrdersHaveNoMargin DEF IsBodyOfKind
<1>2. old \in Seq(LineInputs) /\ \A k \in DOMAIN old : IsOrderLine(old[k])
  BY <1>1 DEF AreLines, IsLineOf
<1>3. AllRead(ItemsRead(b)) # {}
  <2>1. DOMAIN ItemsRead(b) = DOMAIN old
    BY DEF ItemsRead
  <2>2. \A k \in DOMAIN old : IsOrderLine(old[k]) /\ old[k].tax_regime # "margin"
    BY <1>1, <1>2
  <2>3. \A k \in DOMAIN old : InvoiceOrderLine(OrderLineWritten(old[k])) # {}
    <3> HIDE DEF old
    <3> QED BY <2>2, OrderLineIsRead
  <2>4. \A k \in DOMAIN old : ItemsRead(b)[k] # {}
    BY <2>3 DEF ItemsRead
  <2> QED
    BY <2>1, <2>4, EveryLineIsRead
<1>4. PICK new \in AllRead(ItemsRead(b)) : TRUE
  BY <1>3
<1>5. /\ DOMAIN new = DOMAIN old /\ new = [k \in DOMAIN old |-> new[k]]
      /\ \A k \in DOMAIN old : new[k] \in InvoiceOrderLine(OrderLineWritten(old[k]))
  BY <1>4, EveryLineIsRead DEF ItemsRead
<1>6. \A k \in DOMAIN old : new[k] \in LineInputs
  BY <1>2, <1>5, OrderLineIsRead, ConstructedOrderLine DEF IsOrderLine
<1>7. new \in Seq(LineInputs) /\ new # <<>>
  <2>1. new \in Seq(LineInputs)
    BY <1>2, <1>5, <1>6, MadeOfLines
  <2>2. DOMAIN new = 1..Len(new) /\ DOMAIN old = 1..Len(old)
        /\ Len(new) \in Nat /\ Len(old) \in Nat
    BY <1>2, <2>1, LinesAreFinite
  <2>3. Len(new) = Len(old)
    BY <1>5, <2>2
  <2> QED
    BY <1>1, <1>2, <2>1, <2>3
<1>8. RoundPln(b.order.total_value) \in {GrossOf(new), NetOf(new)}
  <2> HIDE DEF old
  <2> QED BY <1>1, <1>2, <1>5, ValueOfTheOrder
<1> DEFINE order == [total_value |-> RoundPln(b.order.total_value), order_lines |-> new]
<1>9. b.order.total_value # None
  BY <1>1, <1>2, OrderHasAValue, NoneIsNothing
<1>10. order \in InvoiceOrder(b.order.total_value, new)
  BY <1>7, <1>8, <1>9 DEF InvoiceOrder
<1>11. order \in OrdersRead(b)
  BY <1>1, <1>4, <1>10 DEF OrdersRead
<1>12. <<>> \in AllRead(RowsRead(b))
  <2>1. DOMAIN RowsRead(b) = {}
    BY <1>1 DEF RowsRead
  <2>2. PICK rows \in AllRead(RowsRead(b)) : TRUE
    BY <2>1, EveryLineIsRead
  <2>3. DOMAIN rows = {} /\ rows = [k \in {} |-> rows[k]]
    BY <2>1, <2>2, EveryLineIsRead
  <2>4. rows = <<>>
    BY <2>3
  <2> QED
    BY <2>2, <2>4
<1>13. IsValidBody(BodyRead(b, <<>>, order))
  <2> DEFINE c == BodyRead(b, <<>>, order)
  <2>1. /\ c.invoice_type = b.invoice_type /\ c.currency = b.currency
        /\ c.vat_currency_exchange_rate = b.vat_currency_exchange_rate
        /\ c.margin_procedure = b.margin_procedure
        /\ c.rows = <<>> /\ c.order = order
    BY DEF BodyRead
  <2>2. IsValidBody(b) /\ b.invoice_type \in {"ZAL", "KOR_ZAL"}
    BY TypesOfDocuments DEF IsBodyOfKind
  <2>3. order # NoOrder
    <3>1. order.order_lines = new /\ NoOrder.order_lines = <<>>
      BY DEF NoOrder
    <3> QED
      BY <3>1, <1>7
  <2> HIDE DEF c, order
  <2>4. b.vat_currency_exchange_rate # None => b.currency # "PLN"
    BY <2>2 DEF IsValidBody
  <2>5. IsValidBody(c)
    BY <1>1, <2>1, <2>2, <2>3, <2>4 DEF IsValidBody
  <2> QED
    BY <2>5 DEF c
<1> HIDE DEF order
<1> QED
  BY <1>2, <1>11, <1>12, <1>13, WhatIsRead

-----------------------------------------------------------------------------
(* What is read of the summary.                                            *)

\* The rate of the documents is a number, if there is one.
RateIsKnown == rate \in Int \union {None}

\* The summary of a document that is read is the one that was written.
LEMMA SummaryIsRead ==
  ASSUME KindOfDocument, NEW b, IsBodyOfKind(b), AreLines(FinancialRows(b)),
         b.summary_overrides = NoOverrides, NEW c, c.summary_overrides = OverridesRead(b)
  PROVE  /\ \A f \in SummaryFields : SummaryValue(c, f) = SummaryValue(b, f)
         /\ \A f \in SummaryFields : SummaryValue(b, f) \in WholeGrosze
<1>1. \A f \in SummaryFields : SummaryValue(b, f) \in WholeGrosze
  BY ComputedIsWhole DEF SummaryValue
<1>2. \A f \in SummaryFields :
        c.summary_overrides.amounts[f] =
          Rounded(IF f = TotalGross THEN SummaryValue(b, f) ELSE OptDec(SummaryValue(b, f)))
  BY DEF OverridesRead
<1>3. TotalGross \in SummaryFields
  BY DEF SummaryFields
<1>4. None \notin WholeGrosze /\ None # 0 /\ \A x \in WholeGrosze : RoundPln(x) = x
  BY NoneIsNothing, WholeGroszeAddUp, RoundedIsWhole
<1>5. c.summary_overrides # NoOverrides
  <2>1. c.summary_overrides.amounts[TotalGross] \in WholeGrosze
    BY <1>1, <1>2, <1>3, <1>4 DEF Rounded
  <2>2. NoOverrides.amounts[TotalGross] = None
    BY <1>3 DEF NoOverrides
  <2> QED
    BY <1>4, <2>1, <2>2
<1>6. ASSUME NEW f \in SummaryFields
      PROVE  SummaryValue(c, f) = SummaryValue(b, f)
  <2>1. SummaryValue(c, f) = Or(c.summary_overrides.amounts[f], 0)
    BY <1>5 DEF SummaryValue
  <2> DEFINE x == SummaryValue(b, f)
  <2>2. Or(Rounded(IF f = TotalGross THEN x ELSE OptDec(x)), 0) = x
    <3>1. x \in WholeGrosze
      BY <1>1
    <3> HIDE DEF x
    <3> QED BY <1>4, <3>1 DEF Or, Rounded, OptDec
  <2> QED
    BY <1>2, <2>1, <2>2
<1> QED
  BY <1>1, <1>6

-----------------------------------------------------------------------------
(* The VAT in PLN.                                                         *)

\* The VAT of a bucket in PLN, line by line.
PlnOf(lines, bucket) ==
  SumOver([k \in DOMAIN lines |-> VatInPln(lines[k], bucket)], DOMAIN lines)

\* The VAT of some lines in PLN is a number.
LEMMA PlnIsANumber ==
  ASSUME NEW lines, AreLines(lines), NEW bucket
  PROVE  PlnOf(lines, bucket) \in Int
<1> DEFINE a == [k \in DOMAIN lines |-> VatInPln(lines[k], bucket)]
<1>1. ASSUME NEW k \in DOMAIN lines
      PROVE  a[k] \in Int
  <2>1. IsLine(lines[k]) /\ lines[k] \in LineInputs
    BY LinesOfAKind DEF AreLines
  <2>2. lines[k].currency_exchange_rate \in Int \union {None}
    BY <2>1 DEF LineInputs
  <2>3. lines[k].vat_amount \in Int \union {None}
    BY <2>1, WholeGroszeAddUp DEF IsLine
  <2> QED
    BY <2>2, <2>3 DEF VatInPln
<1> HIDE DEF a
<1>2. IsSummable(a, DOMAIN lines)
  BY <1>1, LinesAreFinite DEF IsSummable, AreLines
<1>3. SumOver(a, DOMAIN lines) \in Int
  BY <1>2, SumIsInteger
<1> QED
  BY <1>3 DEF PlnOf, a

\* A line that is read brings its VAT in PLN to the same bucket, or to none.
LEMMA PlnOfALine ==
  ASSUME NEW l, NEW m, NEW margin \in BOOLEAN, IsLine(l), IsLine(m),
         m.vat_amount \in {l.vat_amount, LineVat(l)},
         m.tax_regime = TaxRegimeForLine(margin, WrittenCategory(l), l.vat_rate_xii),
         m.sale_category = WrittenCategory(l),
         l.tax_regime = "standard" => l.vat_rate_xii = None,
         NEW bucket \in ConvertedBuckets
  PROVE  /\ bucket = "taxi_flat_rate" => VatInPln(m, bucket) = 0
         /\ bucket # "taxi_flat_rate" /\ m.currency_exchange_rate = l.currency_exchange_rate =>
              VatInPln(m, bucket) = VatInPln(l, bucket)
<1>1. m.tax_regime # "taxi_flat_rate"
  BY DEF TaxRegimeForLine
<1>2. bucket = "taxi_flat_rate" => VatInPln(m, bucket) = 0
  BY <1>1, LinesOfBuckets DEF VatInPln
<1>3. ASSUME bucket # "taxi_flat_rate", m.currency_exchange_rate = l.currency_exchange_rate
      PROVE  VatInPln(m, bucket) = VatInPln(l, bucket)
  <2> DEFINE Of == CASE bucket = "base" -> {"rate_23", "rate_22"}
                     [] bucket = "first_reduced" -> {"rate_8", "rate_7"}
                     [] OTHER -> {"rate_5"}
  <2>1. \A n : InBucket(n, bucket) <=> n.tax_regime = "standard" /\ n.sale_category \in Of
    BY <1>3, LinesOfBuckets, BucketNames
  <2>2. "rate_4" \notin Of /\ None \notin Of /\ Of \subseteq Categories
    BY NoneIsNothing, CategoryNames
  <2>3. \A c \in Of : NumericRate[c] # None
    <3>1. Of \subseteq {"rate_23", "rate_22", "rate_8", "rate_7", "rate_5"}
      OBVIOUS
    <3>2. {23, 22, 8, 7, 5} \subseteq Int
      OBVIOUS
    <3> QED
      BY <3>1, <3>2, NoneIsNothing DEF NumericRate
  <2> HIDE DEF Of
  <2>4. InBucket(l, bucket) => InBucket(m, bucket) /\ LineVat(l) = l.vat_amount
    BY <2>1, <2>2, <2>3 DEF TaxRegimeForLine, WrittenCategory, LineVat, IsLine
  <2>5. InBucket(m, bucket) => InBucket(l, bucket)
    BY <2>1, <2>2 DEF WrittenCategory, IsLine, TaxRegimes
  <2>6. InBucket(l, bucket) => m.vat_amount = l.vat_amount
    BY <2>4
  <2> QED
    BY <1>3, <2>4, <2>5, <2>6 DEF VatInPln
<1> QED
  BY <1>2, <1>3

\* The lines that were read make the same VAT in PLN, or none.
LEMMA PlnOfTheLines ==
  ASSUME NEW old, NEW new, AreLines(old), DOMAIN new = DOMAIN old,
         NEW margin \in BOOLEAN, kind = "ZAL" => ~margin,
         \A k \in DOMAIN old : IsReadOf(new[k], old[k], margin),
         \A k \in DOMAIN old : old[k].tax_regime = "standard" => old[k].vat_rate_xii = None,
         NEW bucket \in ConvertedBuckets
  PROVE  PlnOf(new, bucket) \in {0, PlnOf(old, bucket)}
<1> DEFINE a == [k \in DOMAIN old |-> VatInPln(old[k], bucket)]
           c == [k \in DOMAIN old |-> VatInPln(new[k], bucket)]
<1>1. IsFiniteSet(DOMAIN old)
  BY LinesAreFinite DEF AreLines
<1>2. PlnOf(old, bucket) = SumOver(a, DOMAIN old) /\ PlnOf(new, bucket) = SumOver(c, DOMAIN old)
  BY DEF PlnOf
<1>3. \A k \in DOMAIN old :
        /\ IsLine(old[k]) /\ IsLine(new[k])
        /\ new[k].vat_amount \in {old[k].vat_amount, LineVat(old[k])}
        /\ new[k].tax_regime = TaxRegimeForLine(margin, WrittenCategory(old[k]), old[k].vat_rate_xii)
        /\ new[k].sale_category = WrittenCategory(old[k])
        /\ new[k].currency_exchange_rate =
             IF kind = "ZAL" THEN None ELSE old[k].currency_exchange_rate
  BY LineIsRead DEF AreLines
<1>4. \A k \in DOMAIN old : a[k] = VatInPln(old[k], bucket) /\ c[k] = VatInPln(new[k], bucket)
  OBVIOUS
<1> HIDE DEF a, c
<1>5. CASE bucket = "taxi_flat_rate"
  <2>1. \A k \in DOMAIN old : c[k] = 0
    BY <1>3, <1>4, <1>5, PlnOfALine
  <2> QED
    BY <1>1, <1>2, <2>1, SumOfNothing
<1>6. CASE kind = "ZAL"
  <2>1. \A k \in DOMAIN old : c[k] = 0
    BY <1>3, <1>4, <1>6 DEF VatInPln
  <2> QED
    BY <1>1, <1>2, <2>1, SumOfNothing
<1>7. CASE bucket # "taxi_flat_rate" /\ kind # "ZAL"
  <2>1. \A k \in DOMAIN old : c[k] = a[k]
    BY <1>3, <1>4, <1>7, PlnOfALine
  <2> QED
    BY <1>1, <1>2, <2>1, EqualSums
<1> QED
  BY <1>5, <1>6, <1>7

\* The VAT in PLN that a document shows after it was read.
LEMMA PlnIsRead ==
  ASSUME KindOfDocument, RateIsKnown, NEW b, IsBodyOfKind(b), AreLines(FinancialRows(b)),
         b.summary_overrides = NoOverrides, NEW c \in ReadBodies(FakturaFa(b)),
         NEW bucket \in ConvertedBuckets,
         \/ b.vat_currency_exchange_rate # None
         \/ Or(VatTotalPln(b, bucket), 0) # 0
         \/ \A k \in DOMAIN FinancialRows(b) :
              FinancialRows(b)[k].tax_regime = "standard" => FinancialRows(b)[k].vat_rate_xii = None
  PROVE  Or(VatTotalPln(c, bucket), 0) = Or(VatTotalPln(b, bucket), 0)
<1> DEFINE v == VatTotalInPln(b, bucket)
           w == VatTotalInPln(c, bucket)
           field == [of |-> "vat", bucket |-> bucket]
<1>1. /\ c.currency = b.currency
      /\ c.vat_currency_exchange_rate = b.vat_currency_exchange_rate
      /\ b.vat_currency_exchange_rate \in Int \union {None}
      /\ c.summary_overrides = OverridesRead(b)
      /\ DOMAIN FinancialRows(c) = DOMAIN FinancialRows(b)
      /\ \A k \in DOMAIN FinancialRows(b) :
           IsReadOf(FinancialRows(c)[k], FinancialRows(b)[k], b.margin_procedure)
  BY ReadBody DEF IsBodyOfKind, RateIsKnown
<1>2. field \in SummaryFields
  BY DEF SummaryFields, Fields, ConvertedBuckets
<1>3. SummaryValue(c, field) = SummaryValue(b, field) /\ SummaryValue(b, field) \in Int
  BY <1>1, <1>2, SummaryIsRead, WholeGroszeAddUp
<1> HIDE DEF field
<1>4. PlnOf(FinancialRows(b), bucket) \in Int
  BY PlnIsANumber
<1>5. /\ v = IF b.currency = "PLN" THEN None
             ELSE IF b.vat_currency_exchange_rate # None
               THEN 10 * RoundedDiv(SummaryValue(b, field) * b.vat_currency_exchange_rate, 1000)
             ELSE IF PlnOf(FinancialRows(b), bucket) = 0 THEN None
               ELSE 10 * RoundedDiv(PlnOf(FinancialRows(b), bucket), 1000)
      /\ w = IF c.currency = "PLN" THEN None
             ELSE IF c.vat_currency_exchange_rate # None
               THEN 10 * RoundedDiv(SummaryValue(c, field) * c.vat_currency_exchange_rate, 1000)
             ELSE IF PlnOf(FinancialRows(c), bucket) = 0 THEN None
               ELSE 10 * RoundedDiv(PlnOf(FinancialRows(c), bucket), 1000)
  BY DEF VatTotalInPln, PlnOf, field
<1> HIDE DEF v, w
<1>6. v \in WholeGrosze \union {None}
  <2>1. \A x \in Int : 10 * RoundedDiv(x, 1000) \in WholeGrosze
    BY RoundedDivIsInteger, WholeGroszeAddUp
  <2> QED
    BY <1>1, <1>3, <1>4, <1>5, <2>1
<1>7. VatTotalPln(b, bucket) = v
  BY DEF VatTotalPln, NoOverrides, Or, v
<1>8. VatTotalPln(c, bucket) = Or(Rounded(IF v = None THEN None ELSE OptDec(v)), w)
  BY <1>1, <1>7 DEF VatTotalPln, OverridesRead, w
<1>9. CASE v # None /\ v # 0
  <2>1. Rounded(IF v = None THEN None ELSE OptDec(v)) = v
    BY <1>6, <1>9, RoundedIsWhole DEF Rounded, OptDec
  <2> QED
    BY <1>7, <1>8, <1>9, <2>1 DEF Or
<1>10. CASE v = None \/ v = 0
  <2>1. VatTotalPln(c, bucket) = w /\ Or(VatTotalPln(b, bucket), 0) = 0
    BY <1>7, <1>8, <1>10 DEF Or, Rounded, OptDec
  <2>2. CASE b.currency = "PLN"
    BY <1>1, <1>5, <2>1, <2>2 DEF Or
  <2>3. CASE b.currency # "PLN" /\ b.vat_currency_exchange_rate # None
    <3>1. w = v
      BY <1>1, <1>3, <1>5, <2>3
    <3> QED
      BY <1>7, <2>1, <3>1
  <2>4. CASE b.currency # "PLN" /\ b.vat_currency_exchange_rate = None
    <3>1. \A k \in DOMAIN FinancialRows(b) :
            FinancialRows(b)[k].tax_regime = "standard" => FinancialRows(b)[k].vat_rate_xii = None
      BY <2>1, <2>4
    <3>2. PlnOf(FinancialRows(c), bucket) \in {0, PlnOf(FinancialRows(b), bucket)}
      BY <1>1, <3>1, OrdersHaveNoMargin, PlnOfTheLines
    <3>3. w \in {None, v}
      BY <1>1, <1>5, <2>4, <3>2
    <3> QED
      BY <1>10, <2>1, <3>3 DEF Or
  <2> QED
    BY <2>2, <2>3, <2>4
<1> QED
  BY <1>9, <1>10

\* The VAT in PLN of lines at one rate is their VAT at that rate.
LEMMA PlnAtOneRate ==
  ASSUME NEW lines, AreLines(lines), NEW r \in Int,
         \A k \in DOMAIN lines : lines[k].currency_exchange_rate = r,
         NEW bucket \in ConvertedBuckets
  PROVE  PlnOf(lines, bucket) = TotalOf(lines, [of |-> "vat", bucket |-> bucket]) * r
<1> DEFINE f == [of |-> "vat", bucket |-> bucket]
           a == [k \in DOMAIN lines |-> Share(lines[k], f)]
           b == [k \in DOMAIN lines |-> VatInPln(lines[k], bucket)]
<1>1. IsSummable(a, DOMAIN lines)
  BY TotalsAreWhole
<1>2. ASSUME NEW l, IsLine(l), l.currency_exchange_rate = r
      PROVE  VatInPln(l, bucket) = Share(l, f) * r
  <2>1. f # TotalGross /\ f.of = "vat" /\ f.bucket = bucket
    BY DEF TotalGross
  <2>2. Share(l, f) = IF InBucket(l, bucket) THEN Or(l.vat_amount, 0) ELSE 0
    BY <2>1 DEF Share
  <2>3. l.vat_amount \in Int \union {None} /\ r # None
    BY <1>2, WholeGroszeAddUp, NoneIsNothing DEF IsLine
  <2> QED
    BY <1>2, <2>2, <2>3 DEF VatInPln, Or
<1>3. \A k \in DOMAIN lines : b[k] = a[k] * r
  BY <1>2, LinesOfAKind DEF AreLines
<1> HIDE DEF a, b
<1>4. SumOver(b, DOMAIN lines) = SumOver(a, DOMAIN lines) * r
  BY <1>1, <1>3, SumMultiplied
<1> QED
  BY <1>4 DEF PlnOf, TotalOf, a, b

-----------------------------------------------------------------------------
(* The inductive invariant.                                                *)

ScalarsInv ==
  /\ kind \in InvoiceKinds
  /\ currency \in {"PLN", "EUR"}
  /\ rate \in ExchangeRates \union {None}
  /\ issued \in 0..MaxDocuments
  /\ reading \in {"no", "read", "refused"}
  /\ lossy \in BOOLEAN
  /\ \A f \in SummaryFields : ledger[f] \in WholeGrosze

\* The lines drafted and those in force were constructed, and none of them is
\* a line as it was before a correction.
LinesInv ==
  \A lines \in {draft, standing} :
    AreLines(lines) /\ \A k \in DOMAIN lines : ~lines[k].before_correction

\* The last document ends with the lines in force; as long as it was not read it
\* has no totals but its own, and an order the value that was computed for it.
DocumentInv ==
  issued > 0 =>
    LET lines == FinancialRows(body)
    IN /\ IsBodyOfKind(body) /\ AreLines(lines)
       /\ Len(standing) <= Len(lines)
       /\ \A k \in 1..Len(standing) : lines[Len(lines) - Len(standing) + k] = standing[k]
       /\ reading # "read" => body.summary_overrides = NoOverrides
       /\ kind = "ZAL" /\ reading # "read" => body.order \in InvoiceOrder(None, lines)

StartInv == issued = 0 => standing = <<>> /\ \A f \in SummaryFields : ledger[f] = 0

TotalsInv ==
  ScalarsInv /\ LinesInv /\ DocumentInv /\ StartInv /\ LedgerFollowsLines /\ RefusalIsKnown

\* What the kinds and rates of the constants come to.
LEMMA KindIsKnown == ScalarsInv => KindOfDocument /\ RateIsKnown
BY KindsAreKinds, RatesAreIntegers DEF ScalarsInv, KindOfDocument, RateIsKnown

\* No lines add up to nothing.
LEMMA NoLines ==
  /\ AreLines(<<>>)
  /\ \A f : TotalOf(<<>>, f) = 0
<1>1. AreLines(<<>>) /\ DOMAIN <<>> = {}
  BY DEF AreLines
<1>2. \A a : SumOver(a, {}) = 0
  BY FS_EmptySet, SumByChoice
<1> QED
  BY <1>1, <1>2 DEF TotalOf

\* Lines one behind the other are lines.
LEMMA TogetherAreLines ==
  ASSUME NEW s, NEW t, AreLines(s), AreLines(t)
  PROVE  AreLines(s \o t)
<1>1. s \in Seq(LineInputs) /\ t \in Seq(LineInputs)
  BY DEF AreLines
<1>2. s \o t \in Seq(LineInputs) /\ DOMAIN (s \o t) = 1..(Len(s) + Len(t))
      /\ Len(s) \in Nat /\ Len(t) \in Nat
  BY <1>1
<1>3. ASSUME NEW k \in 1..(Len(s) + Len(t))
      PROVE  IsLineOf((s \o t)[k])
  <2>1. CASE k \in 1..Len(s)
    <3>1. (s \o t)[k] = s[k] /\ k \in DOMAIN s
      BY <1>1, <1>2, <2>1
    <3> QED
      BY <3>1 DEF AreLines
  <2>2. CASE k \notin 1..Len(s)
    <3>1. (s \o t)[k] = t[k - Len(s)] /\ k - Len(s) \in DOMAIN t
      BY <1>1, <1>2, <2>2
    <3> QED
      BY <3>1 DEF AreLines
  <2> QED
    BY <2>1, <2>2
<1> QED
  BY <1>2, <1>3 DEF AreLines

\* A ledger that follows the lines, in the terms of the proofs.
LEMMA LedgerIsTotal ==
  LedgerFollowsLines <=>
    (issued > 0 /\ ~lossy => \A f \in SummaryFields : ledger[f] = TotalOf(standing, f))
BY DEF LedgerFollowsLines, TotalOf

\* The invariant holds at the start.
LEMMA TotalsStart == TotalsInit => TotalsInv
<1> SUFFICES ASSUME TotalsInit PROVE TotalsInv
  OBVIOUS
<1> USE DEF TotalsInit
<1>1. ScalarsInv
  <2>1. \A f \in SummaryFields : ledger[f] \in WholeGrosze
    BY WholeGroszeAddUp
  <2>2. issued \in 0..MaxDocuments
    BY BoundsArePositive
  <2>3. kind \in InvoiceKinds /\ currency \in {"PLN", "EUR"} /\ rate \in ExchangeRates \union {None}
    OBVIOUS
  <2>4. reading \in {"no", "read", "refused"} /\ lossy \in BOOLEAN
    OBVIOUS
  <2> QED
    BY <2>1, <2>2, <2>3, <2>4 DEF ScalarsInv
<1>2. LinesInv
  BY NoLines DEF LinesInv
<1>3. DocumentInv /\ StartInv /\ LedgerFollowsLines /\ RefusalIsKnown
  BY DEF DocumentInv, StartInv, LedgerFollowsLines, RefusalIsKnown
<1> QED
  BY <1>1, <1>2, <1>3 DEF TotalsInv

\* A line that is constructed leaves the last document as it is.
LEMMA AddingALine ==
  ASSUME TotalsInv, NEW i \in Inputs, AddLine(i)
  PROVE  TotalsInv'
<1>1. PICK l \in IF kind = "ZAL" THEN InvoiceOrderLine(i) ELSE InvoiceRow(i) :
        draft' = Append(draft, l)
  BY DEF AddLine
<1>2. UNCHANGED <<kind, currency, rate, body, issued, standing, ledger, reading, lossy>>
  BY DEF AddLine
<1>3. i \in LineInputs /\ ~i.before_correction
  BY InputsAreTyped
<1>4. IsLineOf(l) /\ ~l.before_correction /\ l \in LineInputs
  BY <1>1, <1>3, ConstructedRow, ConstructedOrderLine DEF IsLineOf, KeptFields, IsRow, IsOrderLine
<1>5. AreLines(draft) /\ \A k \in DOMAIN draft : ~draft[k].before_correction
  BY DEF TotalsInv, LinesInv
<1>6. AreLines(draft') /\ \A k \in DOMAIN draft' : ~draft'[k].before_correction
  <2>1. draft \in Seq(LineInputs) /\ draft' \in Seq(LineInputs) /\ DOMAIN draft' = 1..(Len(draft) + 1)
        /\ Len(draft) \in Nat
    BY <1>1, <1>4, <1>5 DEF AreLines
  <2>2. ASSUME NEW k \in DOMAIN draft'
        PROVE  IsLineOf(draft'[k]) /\ ~draft'[k].before_correction
    <3>1. draft'[k] = l \/ (k \in DOMAIN draft /\ draft'[k] = draft[k])
      BY <1>1, <1>4, <2>1
    <3> QED
      BY <1>4, <1>5, <3>1 DEF AreLines
  <2> QED
    BY <2>1, <2>2 DEF AreLines
<1>7. ScalarsInv' /\ StartInv'
  BY <1>2 DEF TotalsInv, ScalarsInv, StartInv
<1>8. LinesInv'
  BY <1>2, <1>6 DEF TotalsInv, LinesInv, AreLines, IsLineOf
<1>9. DocumentInv'
  BY <1>2 DEF TotalsInv, DocumentInv, AreLines, IsLineOf, IsBodyOfKind
<1>10. LedgerFollowsLines' /\ RefusalIsKnown'
  BY <1>2 DEF TotalsInv, LedgerFollowsLines, RefusalIsKnown
<1> QED
  BY <1>7, <1>8, <1>9, <1>10 DEF TotalsInv

-----------------------------------------------------------------------------
(* The steps.                                                              *)

\* A document brings the ledger to its lines, if it was right for those the
\* document replaces.
LEMMA IssueFollowsLines ==
  ASSUME KindOfDocument, NEW type \in {kind, CorrectingType[kind]},
         NEW old, AreLines(old), AreLines(draft),
         \A k \in DOMAIN old : old[k].before_correction,
         \A k \in DOMAIN draft : ~draft[k].before_correction,
         old = <<>> \/ type = CorrectingType[kind],
         NEW b, b.invoice_type = type, b.summary_overrides = NoOverrides,
         FinancialRows(b) = old \o draft, NEW f
  PROVE  SummaryValue(b, f) = TotalOf(draft, f) - TotalOf(old, f)
<1>1. AreLines(old \o draft) /\ old \o draft \in Seq(LineInputs)
  BY TogetherAreLines DEF AreLines
<1>3. SummaryValue(b, f) = Computed(b, f)
  BY DEF SummaryValue
<1>4. CASE old = <<>>
  <2>1. FinancialRows(b) = draft
    <3>1. draft \in Seq(LineInputs)
      BY DEF AreLines
    <3> QED BY <1>4, <3>1
  <2>2. Computed(b, f) = TotalOf(draft, f)
    BY <2>1, OriginalAddsUp
  <2>3. TotalOf(draft, f) \in Int
    BY TotalsAreWhole, WholeGroszeAddUp
  <2> QED
    BY <1>3, <1>4, <2>2, <2>3, NoLines
<1>5. CASE type = CorrectingType[kind]
  <2>1. b.invoice_type \in {"KOR", "KOR_ZAL", "KOR_ROZ"}
    BY <1>5, TypesOfDocuments DEF KindOfDocument
  <2> QED
    BY <1>1, <1>3, <2>1, CorrectionAddsUp
<1> QED
  BY <1>4, <1>5

\* What issuing a document does to the invariant.
LEMMA IssueKeepsInv ==
  ASSUME TotalsInv, NEW type \in {kind, CorrectingType[kind]}, NEW old, AreLines(old),
         \A k \in DOMAIN old : old[k].before_correction,
         old = <<>> \/ type = CorrectingType[kind],
         ~lossy => \A f \in SummaryFields : ledger[f] = TotalOf(old, f),
         Issue(type, old)
  PROVE  TotalsInv'
<1>1. KindOfDocument /\ ScalarsInv
  BY KindIsKnown DEF TotalsInv
<1>2. AreLines(draft) /\ \A k \in DOMAIN draft : ~draft[k].before_correction
  BY DEF TotalsInv, LinesInv
<1>a. PICK margin \in Annotations(old \o draft) :
        \E b \in NewBodies(type, old \o draft, margin) :
          /\ body' = b
          /\ ledger' = [f \in SummaryFields |-> ledger[f] + SummaryValue(b, f)]
  BY DEF Issue
<1>3. PICK b \in NewBodies(type, old \o draft, margin) :
        /\ body' = b
        /\ ledger' = [f \in SummaryFields |-> ledger[f] + SummaryValue(b, f)]
  BY <1>a
<1>4. /\ issued < MaxDocuments /\ issued' = issued + 1 /\ standing' = draft /\ draft' = <<>>
      /\ reading' = "no" /\ UNCHANGED <<kind, currency, rate, lossy>>
  BY DEF Issue
<1>5. AreLines(old \o draft) /\ old \o draft \in Seq(LineInputs) /\ margin \in BOOLEAN
  BY <1>2, TogetherAreLines DEF AreLines, Annotations
<1>6. /\ IsBodyOfKind(b) /\ b.invoice_type = type /\ b.summary_overrides = NoOverrides
      /\ FinancialRows(b) = old \o draft
      /\ kind = "ZAL" => b.order \in InvoiceOrder(None, old \o draft)
  BY <1>1, <1>5, NewBody
<1>7. \A f \in SummaryFields : SummaryValue(b, f) = TotalOf(draft, f) - TotalOf(old, f)
  <2> SUFFICES ASSUME NEW f \in SummaryFields
               PROVE  SummaryValue(b, f) = TotalOf(draft, f) - TotalOf(old, f)
    OBVIOUS
  <2> QED
    BY <1>1, <1>2, <1>6, IssueFollowsLines
<1>8. \A f : TotalOf(draft, f) \in WholeGrosze /\ TotalOf(old, f) \in WholeGrosze
  BY <1>2, TotalsAreWhole
<1>9. ScalarsInv'
  <2>1. \A f \in SummaryFields : ledger'[f] \in WholeGrosze
    BY <1>1, <1>3, <1>7, <1>8, WholeGroszeAddUp DEF ScalarsInv
  <2>2. issued' \in 0..MaxDocuments
    BY <1>1, <1>4, BoundsArePositive DEF ScalarsInv
  <2> QED
    BY <1>1, <1>4, <2>1, <2>2 DEF ScalarsInv
<1>10. LinesInv'
  <2>1. AreLines(draft)' /\ AreLines(standing)'
    BY <1>2, <1>4, NoLines DEF AreLines, IsLineOf
  <2>2. \A k \in DOMAIN draft' : FALSE
    BY <1>4
  <2>3. \A k \in DOMAIN standing' : ~standing'[k].before_correction
    BY <1>2, <1>4
  <2> QED
    BY <2>1, <2>2, <2>3 DEF LinesInv
<1>11. DocumentInv'
  <2>1. /\ Len(draft) <= Len(old \o draft)
        /\ \A k \in 1..Len(draft) :
             (old \o draft)[Len(old \o draft) - Len(draft) + k] = draft[k]
    <3>1. old \in Seq(LineInputs) /\ draft \in Seq(LineInputs)
      BY <1>2 DEF AreLines
    <3>2. Len(old) \in Nat /\ Len(draft) \in Nat /\ Len(old \o draft) = Len(old) + Len(draft)
      BY <3>1
    <3> QED
      BY <3>1, <3>2
  <2>2. FinancialRows(body') = old \o draft /\ standing' = draft
    BY <1>3, <1>4, <1>6
  <2>3. IsBodyOfKind(body)' /\ AreLines(FinancialRows(body))'
    BY <1>3, <1>4, <1>5, <1>6 DEF IsBodyOfKind, AreLines, IsLineOf
  <2>4. body'.summary_overrides = NoOverrides
    BY <1>3, <1>6
  <2>5. kind' = "ZAL" => body'.order \in InvoiceOrder(None, FinancialRows(body'))
    BY <1>3, <1>4, <1>6
  <2> QED
    BY <2>1, <2>2, <2>3, <2>4, <2>5 DEF DocumentInv
<1>12. StartInv' /\ RefusalIsKnown'
  <2>1. issued' # 0
    BY <1>1, <1>4 DEF ScalarsInv
  <2> QED
    BY <1>4, <2>1 DEF StartInv, RefusalIsKnown
<1>13. LedgerFollowsLines'
  <2> SUFFICES ASSUME ~lossy', NEW f \in SummaryFields
               PROVE  ledger'[f] = TotalOf(draft, f)
    BY <1>4 DEF LedgerFollowsLines, TotalOf
  <2>1. ledger'[f] = ledger[f] + SummaryValue(b, f) /\ ledger[f] = TotalOf(old, f)
    BY <1>3, <1>4
  <2>2. SummaryValue(b, f) = TotalOf(draft, f) - TotalOf(old, f)
    BY <1>7
  <2>3. TotalOf(draft, f) \in Int /\ TotalOf(old, f) \in Int
    BY <1>8, WholeGroszeAddUp
  <2> QED
    BY <2>1, <2>2, <2>3
<1> QED
  BY <1>9, <1>10, <1>11, <1>12, <1>13 DEF TotalsInv

\* The original replaces no lines.
LEMMA IssuingAnOriginal ==
  ASSUME TotalsInv, IssueOriginal
  PROVE  TotalsInv'
<1>1. issued = 0 /\ Issue(kind, <<>>)
  BY DEF IssueOriginal
<1>2. \A f \in SummaryFields : ledger[f] = TotalOf(<<>>, f)
  BY <1>1, NoLines DEF TotalsInv, StartInv
<1>3. DOMAIN <<>> = {}
  OBVIOUS
<1> QED
  BY <1>1, <1>2, <1>3, NoLines, IssueKeepsInv

\* A correcting invoice replaces the lines in force, as they were before it.
LEMMA IssuingACorrection ==
  ASSUME TotalsInv, IssueCorrection
  PROVE  TotalsInv'
<1> DEFINE old == Before(standing)
<1>1. issued > 0 /\ Issue(CorrectingType[kind], old)
  BY DEF IssueCorrection
<1>2. AreLines(standing)
  BY DEF TotalsInv, LinesInv
<1>3. DOMAIN old = DOMAIN standing /\ \A k \in DOMAIN standing : old[k] = AsBefore(standing[k])
  BY DEF Before, AsBefore
<1>4. \A k \in DOMAIN standing :
        /\ old[k] \in LineInputs /\ old[k].before_correction /\ IsLineOf(old[k])
        /\ \A f \in SummaryFields : Share(old[k], f) = Share(standing[k], f)
  <2> TAKE k \in DOMAIN standing
  <2>1. standing[k] \in LineInputs /\ IsLineOf(standing[k])
    BY <1>2, LinesOfAKind DEF AreLines
  <2>2. old[k] = AsBefore(standing[k])
    BY <1>3
  <2> HIDE DEF old
  <2> QED
    BY <2>1, <2>2, BeforeCorrection DEF IsLineOf
<1>5. AreLines(old)
  <2>1. old = [k \in DOMAIN standing |-> old[k]]
    BY DEF Before
  <2>2. standing \in Seq(LineInputs)
    BY <1>2 DEF AreLines
  <2> HIDE DEF old
  <2>3. old \in Seq(LineInputs)
    BY <1>4, <2>1, <2>2, MadeOfLines
  <2> QED
    BY <1>3, <1>4, <2>3 DEF AreLines
<1> HIDE DEF old
<1>6. \A f \in SummaryFields : TotalOf(old, f) = TotalOf(standing, f)
  BY <1>2, <1>3, <1>4, SameTotals
<1>7. ~lossy => \A f \in SummaryFields : ledger[f] = TotalOf(old, f)
  BY <1>1, <1>6, LedgerIsTotal DEF TotalsInv
<1>8. \A k \in DOMAIN old : old[k].before_correction
  BY <1>3, <1>4
<1> QED
  BY <1>1, <1>5, <1>7, <1>8, IssueKeepsInv

\* What the invariant says of a document that is about to be read.
LEMMA DocumentToRead ==
  ASSUME TotalsInv, ReadBack
  PROVE  /\ KindOfDocument /\ RateIsKnown /\ issued > 0 /\ reading = "no"
         /\ IsBodyOfKind(body) /\ AreLines(FinancialRows(body))
         /\ body.summary_overrides = NoOverrides
         /\ kind = "ZAL" => body.order \in InvoiceOrder(None, FinancialRows(body))
         /\ Len(standing) <= Len(FinancialRows(body))
         /\ \A k \in 1..Len(standing) :
              FinancialRows(body)[Len(FinancialRows(body)) - Len(standing) + k] = standing[k]
<1>1. issued > 0 /\ reading = "no"
  BY DEF ReadBack
<1>2. KindOfDocument /\ RateIsKnown
  BY KindIsKnown DEF TotalsInv
<1>3. DocumentInv
  BY DEF TotalsInv
<1> QED
  BY <1>1, <1>2, <1>3 DEF DocumentInv

\* A document is refused for one of the reasons that are known.
LEMMA RefusalsAreKnown ==
  ASSUME TotalsInv, ReadBack, ReadBodies(FakturaFa(body)) = {}
  PROVE  LET lines == FinancialRows(body)
         IN \/ ~body.margin_procedure /\ \E k \in DOMAIN lines : lines[k].tax_regime = "margin"
            \/ /\ body.order # NoOrder
               /\ \/ body.order.total_value <= 0
                  \/ \E k \in LinesForTotal(lines) :
                       /\ lines[k].gross_amount # None
                       /\ lines[k].gross_amount # lines[k].net_amount + lines[k].vat_amount
                  \/ \E j, k \in LinesForTotal(lines) :
                       /\ VatIsLeftOut(lines[j])
                       /\ ~VatIsLeftOut(lines[k]) \/ lines[j].vat_amount # 0
<1> DEFINE lines == FinancialRows(body)
<1>1. /\ KindOfDocument /\ IsBodyOfKind(body) /\ AreLines(lines)
      /\ kind = "ZAL" => body.order \in InvoiceOrder(None, lines)
  BY DocumentToRead
<1>2. CASE kind # "ZAL"
  BY <1>1, <1>2, InvoiceCanBeRead
<1>3. CASE kind = "ZAL"
  <2>1. ~body.margin_procedure
    BY <1>1, <1>3, OrdersHaveNoMargin
  <2>2. body.order # NoOrder
    BY <1>1, <1>3 DEF IsBodyOfKind, NoOrder
  <2>3. body.order.total_value \in Int
    BY <1>1, <1>3, OrderHasAValue DEF AreLines, IsLineOf
  <2>4. \/ ~(body.order.total_value > 0)
        \/ \E k \in DOMAIN lines : lines[k].tax_regime = "margin"
        \/ \E k \in LinesForTotal(lines) :
             lines[k].gross_amount # None /\ lines[k].gross_amount # lines[k].net_amount + lines[k].vat_amount
        \/ \E j, k \in LinesForTotal(lines) :
             VatIsLeftOut(lines[j]) /\ ~(VatIsLeftOut(lines[k]) /\ lines[j].vat_amount = 0)
    BY <1>1, <1>3, OrderCanBeRead
  <2> HIDE DEF lines
  <2> QED
    BY <2>1, <2>2, <2>3, <2>4 DEF lines
<1> QED
  BY <1>2, <1>3

\* What is read of the lines in force is the lines in force.
LEMMA LinesInForceAreRead ==
  ASSUME NEW lines, NEW new, NEW last, AreLines(lines), AreLines(new), AreLines(last),
         DOMAIN new = DOMAIN lines, Len(last) <= Len(lines),
         \A k \in 1..Len(last) : lines[Len(lines) - Len(last) + k] = last[k],
         NEW margin, \A k \in DOMAIN lines : IsReadOf(new[k], lines[k], margin)
  PROVE  LET read == LastOf(new, Len(last))
         IN /\ AreLines(read) /\ DOMAIN read = DOMAIN last
            /\ Len(read) = Len(last) /\ Len(new) = Len(lines)
            /\ \A k \in 1..Len(last) : /\ new[Len(new) - Len(last) + k] = read[k]
                                       /\ Len(new) - Len(last) + k \in DOMAIN lines
                                       /\ IsReadOf(read[k], last[k], margin)
<1> DEFINE read == LastOf(new, Len(last))
<1>1. /\ lines \in Seq(LineInputs) /\ new \in Seq(LineInputs) /\ last \in Seq(LineInputs)
      /\ \A k \in DOMAIN new : IsLineOf(new[k]) /\ new[k] \in LineInputs
  BY LinesOfAKind DEF AreLines
<1>2. /\ Len(lines) \in Nat /\ Len(new) \in Nat /\ Len(last) \in Nat
      /\ DOMAIN lines = 1..Len(lines) /\ DOMAIN new = 1..Len(new) /\ DOMAIN last = 1..Len(last)
  BY <1>1, LinesAreFinite
<1>3. Len(new) = Len(lines)
  BY <1>2
<1>4. /\ DOMAIN read = DOMAIN last
      /\ \A k \in 1..Len(last) : read[k] = new[Len(new) - Len(last) + k]
      /\ read = [k \in DOMAIN last |-> read[k]]
  BY <1>2 DEF LastOf
<1> HIDE DEF read
<1>5. \A k \in 1..Len(last) : Len(new) - Len(last) + k \in DOMAIN lines
  BY <1>2, <1>3
<1>6. \A k \in DOMAIN last : IsLineOf(read[k]) /\ read[k] \in LineInputs
  BY <1>1, <1>2, <1>4, <1>5
<1>7. read \in Seq(LineInputs)
  BY <1>1, <1>4, <1>6, MadeOfLines
<1>8. AreLines(read)
  BY <1>4, <1>6, <1>7 DEF AreLines
<1>9. Len(read) = Len(last)
  <2>1. DOMAIN read = 1..Len(read) /\ Len(read) \in Nat
    BY <1>7, LinesAreFinite
  <2> QED
    BY <1>2, <1>4, <2>1
<1>10. \A k \in 1..Len(last) : IsReadOf(read[k], last[k], margin)
  BY <1>3, <1>4, <1>5
<1> QED
  BY <1>3, <1>4, <1>5, <1>8, <1>9, <1>10 DEF read

\* A document that is refused changes nothing.
LEMMA RefusingADocument ==
  ASSUME TotalsInv, ReadBack, ReadBodies(FakturaFa(body)) = {}, reading' = "refused",
         UNCHANGED <<body, standing, lossy>>
  PROVE  TotalsInv'
<1>1. UNCHANGED <<kind, currency, rate, draft, issued, ledger, body, standing, lossy>>
  BY DEF ReadBack
<1>2. reading' \in {"no", "read", "refused"} /\ reading' # "read" /\ reading = "no"
  BY DocumentToRead
<1>3. ScalarsInv' /\ StartInv' /\ LedgerFollowsLines'
  BY <1>1, <1>2 DEF TotalsInv, ScalarsInv, StartInv, LedgerFollowsLines
<1>4. LinesInv'
  BY <1>1 DEF TotalsInv, LinesInv, AreLines, IsLineOf
<1>5. DocumentInv'
  BY <1>1, <1>2 DEF TotalsInv, DocumentInv, AreLines, IsLineOf, IsBodyOfKind
<1>6. RefusalIsKnown'
  BY <1>1, RefusalsAreKnown DEF RefusalIsKnown, VatIsLeftOut
<1> QED
  BY <1>3, <1>4, <1>5, <1>6 DEF TotalsInv

\* A document that is read takes the place of the one that was written.
LEMMA ReadingADocument ==
  ASSUME TotalsInv, ReadBack, NEW c \in ReadBodies(FakturaFa(body)), reading' = "read",
         body' = c, standing' = LastOf(FinancialRows(c), Len(standing)),
         lossy' = \/ lossy
                  \/ \E k \in DOMAIN FinancialRows(c) : \E f \in SummaryFields :
                       Share(FinancialRows(c)[k], f) # Share(FinancialRows(body)[k], f)
  PROVE  TotalsInv'
<1> DEFINE lines == FinancialRows(body)
           new == FinancialRows(c)
           margin == body.margin_procedure
<1>1. UNCHANGED <<kind, currency, rate, draft, issued, ledger>>
  BY DEF ReadBack
<1>2. /\ KindOfDocument /\ issued > 0
      /\ IsBodyOfKind(body) /\ AreLines(lines)
      /\ Len(standing) <= Len(lines)
      /\ \A k \in 1..Len(standing) : lines[Len(lines) - Len(standing) + k] = standing[k]
  BY DocumentToRead
<1>3. /\ IsBodyOfKind(c) /\ AreLines(new) /\ DOMAIN new = DOMAIN lines
      /\ \A k \in DOMAIN lines : IsReadOf(new[k], lines[k], margin)
  BY <1>2, ReadBody
<1>4. margin \in BOOLEAN /\ (kind = "ZAL" => ~margin)
  BY <1>2, OrdersHaveNoMargin
<1>5. /\ AreLines(draft) /\ AreLines(standing)
      /\ \A k \in DOMAIN draft : ~draft[k].before_correction
      /\ \A k \in DOMAIN standing : ~standing[k].before_correction
  BY DEF TotalsInv, LinesInv
<1> HIDE DEF lines, new, margin
<1>6. standing' = LastOf(new, Len(standing))
  BY DEF new
<1>7. /\ AreLines(standing') /\ DOMAIN standing' = DOMAIN standing
      /\ Len(standing') = Len(standing) /\ Len(new) = Len(lines)
      /\ \A k \in 1..Len(standing) : /\ new[Len(new) - Len(standing) + k] = standing'[k]
                                     /\ Len(new) - Len(standing) + k \in DOMAIN lines
                                     /\ IsReadOf(standing'[k], standing[k], margin)
  <2> DEFINE read == LastOf(new, Len(standing))
  <2>1. /\ AreLines(read) /\ DOMAIN read = DOMAIN standing
        /\ Len(read) = Len(standing) /\ Len(new) = Len(lines)
        /\ \A k \in 1..Len(standing) : /\ new[Len(new) - Len(standing) + k] = read[k]
                                       /\ Len(new) - Len(standing) + k \in DOMAIN lines
                                       /\ IsReadOf(read[k], standing[k], margin)
    BY <1>2, <1>3, <1>5, LinesInForceAreRead
  <2> HIDE DEF read
  <2>2. standing' = read
    BY <1>6 DEF read
  <2> QED
    BY <2>1, <2>2
<1>8. DOMAIN standing = 1..Len(standing)
  BY <1>5 DEF AreLines
<1>9. \A k \in DOMAIN standing : ~standing'[k].before_correction
  <2> TAKE k \in DOMAIN standing
  <2>1. IsLineOf(standing[k]) /\ IsReadOf(standing'[k], standing[k], margin)
    BY <1>5, <1>7, <1>8 DEF AreLines
  <2>2. standing'[k].before_correction = standing[k].before_correction
    BY <1>4, <2>1, LineIsRead
  <2> QED
    BY <1>5, <2>2
<1>10. ScalarsInv' /\ StartInv' /\ RefusalIsKnown'
  BY <1>1, <1>2 DEF TotalsInv, ScalarsInv, StartInv, RefusalIsKnown
<1>11. LinesInv'
  <2>1. AreLines(draft)' /\ AreLines(standing)'
    BY <1>1, <1>5, <1>7 DEF AreLines, IsLineOf
  <2>2. /\ \A k \in DOMAIN draft' : ~draft'[k].before_correction
        /\ \A k \in DOMAIN standing' : ~standing'[k].before_correction
    BY <1>1, <1>5, <1>7, <1>9
  <2> QED
    BY <2>1, <2>2 DEF LinesInv
<1>12. DocumentInv'
  <2>1. FinancialRows(body)' = new
    BY DEF new, FinancialRows
  <2>2. IsBodyOfKind(body)' /\ AreLines(FinancialRows(body))'
    BY <1>1, <1>3, <2>1 DEF IsBodyOfKind, AreLines, IsLineOf
  <2>3. /\ Len(standing') <= Len(new)
        /\ \A k \in 1..Len(standing') : new[Len(new) - Len(standing') + k] = standing'[k]
    BY <1>2, <1>7
  <2> QED
    BY <2>1, <2>2, <2>3 DEF DocumentInv
<1>13. LedgerFollowsLines'
  <2> SUFFICES ASSUME ~lossy', NEW f \in SummaryFields
               PROVE  ledger[f] = TotalOf(standing', f)
    BY <1>1 DEF LedgerFollowsLines, TotalOf
  <2>1. ~lossy /\ \A k \in DOMAIN new : Share(new[k], f) = Share(lines[k], f)
    BY DEF lines, new
  <2>2. \A k \in DOMAIN standing : Share(standing'[k], f) = Share(standing[k], f)
    BY <1>2, <1>3, <1>7, <1>8, <2>1
  <2>3. TotalOf(standing', f) = TotalOf(standing, f)
    BY <1>5, <1>7, <2>2, SameTotals
  <2>4. ledger[f] = TotalOf(standing, f)
    BY <1>2, <2>1, LedgerIsTotal DEF TotalsInv
  <2> QED
    BY <2>3, <2>4
<1> QED
  BY <1>10, <1>11, <1>12, <1>13 DEF TotalsInv

\* Both outcomes of reading.
LEMMA ReadingBack == ASSUME TotalsInv, ReadBack PROVE TotalsInv'
<1>1. CASE ReadBodies(FakturaFa(body)) = {} /\ reading' = "refused" /\ UNCHANGED <<body, standing, lossy>>
  BY <1>1, RefusingADocument
<1>2. CASE /\ reading' = "read"
           /\ \E b \in ReadBodies(FakturaFa(body)) :
                /\ body' = b
                /\ standing' = LastOf(FinancialRows(b), Len(standing))
                /\ lossy' = \/ lossy
                            \/ \E k \in DOMAIN FinancialRows(b) : \E f \in SummaryFields :
                                 Share(FinancialRows(b)[k], f) # Share(FinancialRows(body)[k], f)
  BY <1>2, ReadingADocument
<1> QED
  BY <1>1, <1>2 DEF ReadBack

\* Every step keeps the invariant.
LEMMA TotalsInvIsKept == TotalsInv /\ [TotalsNext]_totalsVars => TotalsInv'
<1> SUFFICES ASSUME TotalsInv, [TotalsNext]_totalsVars PROVE TotalsInv'
  OBVIOUS
<1>1. ASSUME NEW i \in Inputs, AddLine(i) PROVE TotalsInv'
  BY <1>1, AddingALine
<1>2. CASE IssueOriginal
  BY <1>2, IssuingAnOriginal
<1>3. CASE IssueCorrection
  BY <1>3, IssuingACorrection
<1>4. CASE ReadBack
  BY <1>4, ReadingBack
<1>5. CASE UNCHANGED totalsVars
  <2>1. UNCHANGED <<kind, currency, rate, draft, body, issued, standing, ledger, reading, lossy>>
    BY <1>5 DEF totalsVars
  <2>2. ScalarsInv' /\ StartInv' /\ LedgerFollowsLines' /\ RefusalIsKnown'
    BY <2>1 DEF TotalsInv, ScalarsInv, StartInv, LedgerFollowsLines, RefusalIsKnown
  <2>3. LinesInv' /\ DocumentInv'
    BY <2>1 DEF TotalsInv, LinesInv, DocumentInv, AreLines, IsLineOf, IsBodyOfKind
  <2> QED
    BY <2>2, <2>3 DEF TotalsInv
<1> QED
  BY <1>1, <1>2, <1>3, <1>4, <1>5 DEF TotalsNext

\* TotalsInv is an invariant.
LEMMA TotalsInvAlways == TotalsSpec => []TotalsInv
BY TotalsStart, TotalsInvIsKept, PTL DEF TotalsSpec

-----------------------------------------------------------------------------
(* The theorems.                                                           *)

\* The lines and the amounts have their types, in every state.
THEOREM TotalsAreTyped == TotalsSpec => []TotalsTypeOK
<1>1. TotalsInv => TotalsTypeOK
  <2> SUFFICES ASSUME TotalsInv PROVE TotalsTypeOK
    OBVIOUS
  <2>1. ScalarsInv /\ AreLines(draft) /\ AreLines(standing)
    BY DEF TotalsInv, LinesInv
  <2>2. \A l : IsLine(l) =>
          /\ l.tax_regime \in TaxRegimes
          /\ l.sale_category \in Categories \union {None}
          /\ {l.net_amount, l.vat_amount, l.gross_amount} \subseteq WholeGrosze \union {None}
          /\ l.gross_amount = None => None \in {l.net_amount, l.vat_amount}
    BY DEF IsLine
  <2>3. \A lines \in {draft, standing} : \A k \in DOMAIN lines : IsLine(lines[k])
    BY <2>1, LinesOfAKind DEF AreLines
  <2> QED
    BY <2>1, <2>2, <2>3 DEF TotalsTypeOK, ScalarsInv
<1> QED
  BY <1>1, TotalsInvAlways, PTL

\* An original and its corrections add up to the lines in force.
THEOREM LedgersFollowLines == TotalsSpec => []LedgerFollowsLines
<1>1. TotalsInv => LedgerFollowsLines
  BY DEF TotalsInv
<1> QED
  BY <1>1, TotalsInvAlways, PTL

\* P_15 is the sum of the buckets.
THEOREM BucketsAreComplete == TotalsSpec => []BucketsMakeUpTheTotal
<1>1. TotalsInv => BucketsMakeUpTheTotal
  <2> SUFFICES ASSUME TotalsInv, issued > 0, body.summary_overrides = NoOverrides,
                      \A k \in DOMAIN FinancialRows(body) : IsOrdinaryLine(FinancialRows(body)[k])
               PROVE  SummaryValue(body, TotalGross)
                        = SumOver([f \in Fields |-> SummaryValue(body, f)], Fields)
    BY DEF BucketsMakeUpTheTotal, IsOrdinaryLine
  <2>1. AreLines(FinancialRows(body))
    BY DEF TotalsInv, DocumentInv
  <2>2. \A f : SummaryValue(body, f) = Computed(body, f)
    BY DEF SummaryValue
  <2>3. [f \in Fields |-> SummaryValue(body, f)] = [f \in Fields |-> Computed(body, f)]
    BY <2>2
  <2> QED
    BY <2>1, <2>2, <2>3, BucketsAddUp
<1> QED
  BY <1>1, TotalsInvAlways, PTL

\* A document the SDK wrote is refused only for the reasons that are known.
THEOREM RefusalsAreExplained == TotalsSpec => []RefusalIsKnown
<1>1. TotalsInv => RefusalIsKnown
  BY DEF TotalsInv
<1> QED
  BY <1>1, TotalsInvAlways, PTL

\* An invoice that is read back shows the totals it was written with.
THEOREM TotalsAreReadBack == TotalsSpec => ReadsBackTheSame
<1> DEFINE Shown ==
      reading' = "read" /\ reading = "no" =>
       /\ \A f \in SummaryFields : SummaryValue(body', f) = SummaryValue(body, f)
       /\ \A c \in ConvertedBuckets :
            \/ Or(VatTotalPln(body', c), 0) = Or(VatTotalPln(body, c), 0)
            \/ /\ body.vat_currency_exchange_rate = None
               /\ Or(VatTotalPln(body, c), 0) = 0
               /\ \E k \in DOMAIN FinancialRows(body) :
                    LET l == FinancialRows(body)[k]
                    IN l.tax_regime = "standard" /\ l.vat_rate_xii # None
<1>1. TotalsInv /\ [TotalsNext]_totalsVars => [Shown]_totalsVars
  <2> SUFFICES ASSUME TotalsInv, TotalsNext, reading' = "read", reading = "no"
               PROVE  Shown
    OBVIOUS
  <2>1. ReadBack
    BY DEF TotalsNext, AddLine, IssueOriginal, IssueCorrection, Issue
  <2>2. PICK b \in ReadBodies(FakturaFa(body)) : body' = b
    BY <2>1 DEF ReadBack
  <2>3. /\ KindOfDocument /\ RateIsKnown
        /\ IsBodyOfKind(body) /\ AreLines(FinancialRows(body))
        /\ body.summary_overrides = NoOverrides
    BY <2>1, DocumentToRead
  <2>4. b.summary_overrides = OverridesRead(body)
    BY <2>2, <2>3, ReadBody
  <2>5. \A f \in SummaryFields : SummaryValue(b, f) = SummaryValue(body, f)
    BY <2>3, <2>4, SummaryIsRead
  <2>6. ASSUME NEW c \in ConvertedBuckets, Or(VatTotalPln(b, c), 0) # Or(VatTotalPln(body, c), 0)
        PROVE  /\ body.vat_currency_exchange_rate = None
               /\ Or(VatTotalPln(body, c), 0) = 0
               /\ \E k \in DOMAIN FinancialRows(body) :
                    LET l == FinancialRows(body)[k]
                    IN l.tax_regime = "standard" /\ l.vat_rate_xii # None
    BY <2>2, <2>3, <2>6, PlnIsRead
  <2> QED
    BY <2>2, <2>5, <2>6
<1> QED
  BY <1>1, TotalsInvAlways, PTL DEF TotalsSpec, ReadsBackTheSame

\* A line counts otherwise after reading only for the reasons that are named.
THEOREM OnlyKnownLinesCountOtherwise == TotalsSpec => OnlyRegimesAreLost
<1> DEFINE Known ==
      lossy' /\ ~lossy =>
       \E k \in DOMAIN FinancialRows(body) :
         LET l == FinancialRows(body)[k]
         IN \/ l.tax_regime = "taxi_flat_rate"
            \/ l.tax_regime = "special_xii" /\ l.sale_category # None
            \/ l.tax_regime # "special_xii" /\ l.vat_rate_xii # None
            \/ l.vat_amount \notin {None, 0} /\ LineVat(l) = None
<1>1. TotalsInv /\ [TotalsNext]_totalsVars => [Known]_totalsVars
  <2> SUFFICES ASSUME TotalsInv, TotalsNext, lossy', ~lossy
               PROVE  \E k \in DOMAIN FinancialRows(body) : MayCountOtherwise(FinancialRows(body)[k])
    BY DEF MayCountOtherwise
  <2>1. ReadBack
    BY DEF TotalsNext, AddLine, IssueOriginal, IssueCorrection, Issue
  <2>2. PICK b \in ReadBodies(FakturaFa(body)) :
          \E k \in DOMAIN FinancialRows(b) : \E f \in SummaryFields :
            Share(FinancialRows(b)[k], f) # Share(FinancialRows(body)[k], f)
    BY <2>1 DEF ReadBack
  <2> DEFINE margin == body.margin_procedure
  <2>3. /\ KindOfDocument /\ IsBodyOfKind(body) /\ AreLines(FinancialRows(body))
        /\ margin \in BOOLEAN /\ (kind = "ZAL" => ~margin)
    BY <2>1, DocumentToRead, OrdersHaveNoMargin
  <2>4. /\ DOMAIN FinancialRows(b) = DOMAIN FinancialRows(body)
        /\ \A k \in DOMAIN FinancialRows(body) :
             IsReadOf(FinancialRows(b)[k], FinancialRows(body)[k], margin)
    BY <2>2, <2>3, ReadBody
  <2> HIDE DEF margin
  <2>5. PICK k \in DOMAIN FinancialRows(body) :
          \E f \in SummaryFields : Share(FinancialRows(b)[k], f) # Share(FinancialRows(body)[k], f)
    BY <2>2, <2>4
  <2> DEFINE l == FinancialRows(body)[k]
             m == FinancialRows(b)[k]
  <2>6. IsLineOf(l) /\ IsReadOf(m, l, margin)
    BY <2>3, <2>4, <2>5 DEF AreLines
  <2>7. \E f \in SummaryFields : Share(m, f) # Share(l, f)
    BY <2>5
  <2> HIDE DEF l, m
  <2>8. /\ IsLine(l) /\ IsLine(m) /\ m.net_amount = l.net_amount
        /\ m.vat_amount \in {l.vat_amount, LineVat(l)}
        /\ m.tax_regime = TaxRegimeForLine(margin, WrittenCategory(l), l.vat_rate_xii)
        /\ m.sale_category = WrittenCategory(l)
    BY <2>3, <2>6, LineIsRead
  <2>9. MayCountOtherwise(l)
    BY <2>3, <2>7, <2>8, SharesAreKept
  <2> QED
    BY <2>5, <2>9 DEF l
<1> QED
  BY <1>1, TotalsInvAlways, PTL DEF TotalsSpec, OnlyRegimesAreLost

\* The VAT in PLN of a document that corrects nothing is its VAT converted.
THEOREM OriginalsAreConverted == TotalsSpec => []PlnVatOfOriginalsIsConverted
<1>1. TotalsInv => PlnVatOfOriginalsIsConverted
  <2> SUFFICES ASSUME TotalsInv, issued > 0, body.currency # "PLN",
                      body.vat_currency_exchange_rate = None,
                      body.summary_overrides = NoOverrides,
                      NEW c \in ConvertedBuckets, NEW r \in ExchangeRates,
                      \A k \in DOMAIN FinancialRows(body) :
                        /\ FinancialRows(body)[k].currency_exchange_rate = r
                        /\ ~FinancialRows(body)[k].before_correction
               PROVE  Or(VatTotalPln(body, c), 0)
                        = 10 * RoundedDiv(SummaryValue(body, [of |-> "vat", bucket |-> c]) * r, 1000)
    BY DEF PlnVatOfOriginalsIsConverted
  <2> DEFINE lines == FinancialRows(body)
             f == [of |-> "vat", bucket |-> c]
             pln == PlnOf(lines, c)
  <2>1. AreLines(lines)
    BY DEF TotalsInv, DocumentInv
  <2>2. SummaryValue(body, f) = TotalOf(lines, f)
    BY <2>1, OriginalAddsUp DEF SummaryValue
  <2>3. r \in Int /\ pln = TotalOf(lines, f) * r
    BY <2>1, RatesAreIntegers, PlnAtOneRate
  <2>4. VatTotalInPln(body, c) = IF pln = 0 THEN None ELSE 10 * RoundedDiv(pln, 1000)
    BY DEF VatTotalInPln, PlnOf
  <2>5. VatTotalPln(body, c) = VatTotalInPln(body, c)
    BY DEF VatTotalPln, NoOverrides, Or
  <2>6. pln \in Int
    BY <2>1, PlnIsANumber
  <2> HIDE DEF pln, lines
  <2>7. 10 * RoundedDiv(0, 1000) = 0
    BY DEF RoundedDiv
  <2>8. 10 * RoundedDiv(pln, 1000) # None
    BY <2>6, RoundedDivIsInteger, NoneIsNothing
  <2>9. Or(VatTotalPln(body, c), 0) = 10 * RoundedDiv(pln, 1000)
    BY <2>4, <2>5, <2>7, <2>8 DEF Or
  <2> QED
    BY <2>2, <2>3, <2>9 DEF lines
<1> QED
  BY <1>1, TotalsInvAlways, PTL
=============================================================================

---------------------------- MODULE ProfileStore ----------------------------
(***************************************************************************)
(* clients/profiles.py: ProfileStore, which keeps named profiles and the   *)
(* active one in one TOML file.  Every change reads the whole file,        *)
(* changes the configuration in memory and writes the whole file again:    *)
(* open it (which empties it), write, set its mode.  Several processes     *)
(* share the file without a lock, a write can fail half way, and a process *)
(* can die at any moment.                                                  *)
(*                                                                         *)
(* An operation that raises before it writes changes nothing and is no     *)
(* step.  The file is represented by what reading it gives: a missing      *)
(* file, an empty one and one with no profiles are the empty               *)
(* configuration.  The order of the profiles is left out, so a file cut    *)
(* short keeps any of its sections; so is the mode of the file.            *)
(*                                                                         *)
(* Names and values are written as JSON strings.  A character outside the  *)
(* basic plane, or a byte of a path that is not text, becomes surrogate    *)
(* escapes, which no TOML parser takes: what is written is not always what *)
(* is read again.                                                          *)
(***************************************************************************)
CONSTANTS
  Processes,  \* the processes that use the store
  Names,      \* the names of profiles
  Values,     \* what a profile can say
  Surrogates, \* the names and values that JSON writes with surrogate escapes
  NoName,     \* active_profile is None
  NoValue,    \* the name is not in profiles
  Garbled     \* reading the file raises

VARIABLES
  file,        \* what reading the file gives
  pc,          \* pc[p]: "idle", "loaded", "opened" or "written"
  before,      \* before[p]: the configuration p has read (history)
  config,      \* config[p]: the configuration p writes
  overtaken,   \* overtaken[p]: the file was opened for writing since p read
               \*   it, or p read it while it was open for writing (history)
  overlapped,  \* an overtaken process has gone on to write (history)
  escaped,     \* surrogate escapes have been written (history)
  torn         \* a write was cut short, or two ran at the same time (history)

vars == <<file, pc, before, config, overtaken, overlapped, escaped, torn>>

-----------------------------------------------------------------------------
ConfigShapes ==
  [profiles : [Names -> Values \union {NoValue}], active : Names \union {NoName}]

\* _validate_active_profile
ActiveIsDefined(c) == c.active # NoName => c.profiles[c.active] # NoValue

Configs == {c \in ConfigShapes : ActiveIsDefined(c)}

\* _toml_string, _toml_key: what is rendered parses again.
IsToml(c) ==
  \A n \in Names : c.profiles[n] # NoValue => {n, c.profiles[n]} \intersect Surrogates = {}

ReadableConfigs == {c \in Configs : IsToml(c)}

ASSUME NoneIsNoName == NoName \notin Names
ASSUME NoneIsNoValue == NoValue \notin Values
ASSUME GarbledIsNoConfig == Garbled \notin Configs

EmptyConfig == [profiles |-> [n \in Names |-> NoValue], active |-> NoName]

(* load_profile_config raises when the text is no TOML and when the active *)
(* profile is not in the file.                                             *)
Parsed(c) == IF ActiveIsDefined(c) /\ IsToml(c) THEN c ELSE Garbled

(* What a write of c that stops early leaves in the file.  A section that  *)
(* lacks its last keys can read as another profile.                        *)
CutShort(c) ==
  {Garbled} \union
  {d \in ReadableConfigs :
     /\ d.active \in {c.active, NoName}
     /\ \A n \in Names : c.profiles[n] = NoValue => d.profiles[n] = NoValue}

(* A write starts at the front of the file: what another process has       *)
(* written since the file was emptied stays behind the end of the new      *)
(* text, cut anywhere.                                                     *)
WrittenOver(c, text) ==
  IF text = EmptyConfig THEN {Parsed(c)} ELSE {Garbled} \union ReadableConfigs

-----------------------------------------------------------------------------
(* The operations, on the configuration that was read.                     *)

Requests ==
  [op : {"save"}, name : Names, value : Values, activate : BOOLEAN, overwrite : BOOLEAN]
    \union [op : {"use", "delete"}, name : Names]

\* Fault: a name that is not in the file can be activated.
AcceptsAnyUse(r, c) ==
  IF r.op = "save" THEN r.overwrite \/ c.profiles[r.name] = NoValue
  ELSE r.op = "use" \/ c.profiles[r.name] # NoValue

Accepts(r, c) ==
  IF r.op = "save" THEN r.overwrite \/ c.profiles[r.name] = NoValue
  ELSE c.profiles[r.name] # NoValue

\* Fault: delete leaves active_profile as it is.
ChangedKeepingActive(r, c) ==
  CASE r.op = "save" ->
         [profiles |-> [c.profiles EXCEPT ![r.name] = r.value],
          active   |-> IF r.activate THEN r.name ELSE c.active]
    [] r.op = "use" -> [c EXCEPT !.active = r.name]
    [] r.op = "delete" -> [c EXCEPT !.profiles[r.name] = NoValue]

Changed(r, c) ==
  CASE r.op = "save" ->
         [profiles |-> [c.profiles EXCEPT ![r.name] = r.value],
          active   |-> IF r.activate THEN r.name ELSE c.active]
    [] r.op = "use" -> [c EXCEPT !.active = r.name]
    [] r.op = "delete" ->
         [profiles |-> [c.profiles EXCEPT ![r.name] = NoValue],
          active   |-> IF c.active = r.name THEN NoName ELSE c.active]

-----------------------------------------------------------------------------
TypeOK ==
  /\ file \in ReadableConfigs \union {Garbled}
  /\ pc \in [Processes -> {"idle", "loaded", "opened", "written"}]
  /\ before \in [Processes -> ReadableConfigs]
  /\ config \in [Processes -> Configs]
  /\ overtaken \in [Processes -> BOOLEAN]
  /\ overlapped \in BOOLEAN /\ escaped \in BOOLEAN /\ torn \in BOOLEAN

Init ==
  /\ file \in ReadableConfigs
  /\ pc = [p \in Processes |-> "idle"]
  /\ before = [p \in Processes |-> EmptyConfig]
  /\ config = [p \in Processes |-> EmptyConfig]
  /\ overtaken = [p \in Processes |-> FALSE]
  /\ overlapped = FALSE /\ escaped = FALSE /\ torn = FALSE

SomeoneWrites == \E q \in Processes : pc[q] = "opened"

\* p returns, raises, or starts again after its death.
Ends(p) ==
  /\ pc' = [pc EXCEPT ![p] = "idle"]
  /\ before' = [before EXCEPT ![p] = EmptyConfig]
  /\ config' = [config EXCEPT ![p] = EmptyConfig]
  /\ overtaken' = [overtaken EXCEPT ![p] = FALSE]

Started(p, r, c) ==
  /\ Accepts(r, c)
  /\ pc' = [pc EXCEPT ![p] = "loaded"]
  /\ before' = [before EXCEPT ![p] = c]
  /\ config' = [config EXCEPT ![p] = Changed(r, c)]
  /\ overtaken' = [overtaken EXCEPT ![p] = SomeoneWrites]
  /\ UNCHANGED <<file, overlapped, escaped, torn>>

\* The file is read, the operation accepted and made in memory.
Load(p, r) ==
  /\ pc[p] = "idle"
  /\ file # Garbled
  /\ Started(p, r, file)

\* write_text opens the file, which empties it.
Open(p) ==
  /\ pc[p] = "loaded"
  /\ file' = EmptyConfig
  /\ pc' = [pc EXCEPT ![p] = "opened"]
  /\ overtaken' = [q \in Processes |-> overtaken[q] \/ (q # p /\ pc[q] # "idle")]
  /\ overlapped' = (overlapped \/ overtaken[p])
  /\ torn' = (torn \/ SomeoneWrites)
  /\ UNCHANGED <<before, config, escaped>>

\* The file cannot be opened, or p dies first.
OpenFails(p) ==
  /\ pc[p] = "loaded"
  /\ Ends(p)
  /\ UNCHANGED <<file, overlapped, escaped, torn>>

Write(p) ==
  /\ pc[p] = "opened"
  /\ file' \in WrittenOver(config[p], file)
  /\ pc' = [pc EXCEPT ![p] = "written"]
  /\ before' = [before EXCEPT ![p] = EmptyConfig]
  /\ escaped' = (escaped \/ ~IsToml(config[p]))
  /\ UNCHANGED <<config, overtaken, overlapped, torn>>

\* The disk is full, or p dies: part of the text is in the file.
WriteIsCut(p) ==
  /\ pc[p] = "opened"
  /\ file' \in CutShort(config[p])
  /\ torn' = TRUE
  /\ Ends(p)
  /\ UNCHANGED <<overlapped, escaped>>

\* chmod succeeds or not, or p dies first: the change is in the file.
Return(p) ==
  /\ pc[p] = "written"
  /\ Ends(p)
  /\ UNCHANGED <<file, overlapped, escaped, torn>>

Next ==
  \E p \in Processes :
    \/ \E r \in Requests : Load(p, r)
    \/ Open(p) \/ OpenFails(p)
    \/ Write(p) \/ WriteIsCut(p)
    \/ Return(p)

Spec == Init /\ [][Next]_vars

-----------------------------------------------------------------------------
(* Safety.  As long as no two operations overlapped, every write ran to    *)
(* its end and none had surrogate escapes, the file is one configuration   *)
(* changed by whole operations.                                            *)

Undisturbed == ~overlapped /\ ~escaped /\ ~torn

\* The configuration while a process is rewriting the file is the one it read.
CurrentConfig ==
  IF ~Undisturbed THEN EmptyConfig
  ELSE IF SomeoneWrites THEN before[CHOOSE p \in Processes : pc[p] = "opened"]
  ELSE file

Map == INSTANCE ProfileMap WITH config <- CurrentConfig, upset <- ~Undisturbed

(* No profile is lost, replaced or altered except by an operation on its   *)
(* own name that may do so, and the active profile is always the one last  *)
(* activated: load, change and write of the whole file amount to atomic    *)
(* save, use and delete, failed and repeated operations included.          *)
KeepsEveryChange == Map!Spec

(* An operation that is about to be acknowledged is in the file, whole,    *)
(* unless another process has been at the file since it was read; when it  *)
(* was written with surrogate escapes, the file cannot be read at all.     *)
AcknowledgedIsWritten ==
  \A p \in Processes : pc[p] = "written" /\ ~overtaken[p] =>
    file = IF IsToml(config[p]) THEN config[p] ELSE Garbled

(* Even when changes of other processes are lost, the file parses and its  *)
(* active profile is defined, unless a write was cut short, two ran at     *)
(* once, or what was saved is written with surrogate escapes.              *)
NeverLocksOut == ~torn /\ ~escaped => file # Garbled

(* A file that does not parse is left as it is, for its owner to repair;   *)
(* only a process that had read it before can still write over it.         *)
UnreadableIsLeftAlone ==
  [][file = Garbled => \/ file' = file
                       \/ \E p \in Processes : overtaken[p] /\ pc'[p] # pc[p]]_vars
=============================================================================

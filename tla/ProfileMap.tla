----------------------------- MODULE ProfileMap -----------------------------
(***************************************************************************)
(* What a profile store promises: one configuration that is changed by one *)
(* whole operation at a time.  The promise ends when it is "upset": when   *)
(* two operations overlapped, a write did not run to its end, or what was  *)
(* written is no TOML.                                                     *)
(***************************************************************************)
CONSTANTS
  Names,     \* the names of profiles
  Values,    \* what a profile can say
  NoName,    \* no profile is active
  NoValue    \* the name is not defined

VARIABLES
  config,    \* the profiles and the active one
  upset      \* the promise is off

vars == <<config, upset>>

Configs ==
  {c \in [profiles : [Names -> Values \union {NoValue}], active : Names \union {NoName}] :
     c.active # NoName => c.profiles[c.active] # NoValue}

EmptyConfig == [profiles |-> [n \in Names |-> NoValue], active |-> NoName]

Init == config \in Configs /\ upset = FALSE

\* A name that is taken is given a new value only if the caller says so.
Save(n, v, activate, overwrite) ==
  /\ ~upset
  /\ overwrite \/ config.profiles[n] = NoValue
  /\ config' = [profiles |-> [config.profiles EXCEPT ![n] = v],
                active   |-> IF activate THEN n ELSE config.active]
  /\ UNCHANGED upset

Use(n) ==
  /\ ~upset
  /\ config.profiles[n] # NoValue
  /\ config' = [config EXCEPT !.active = n]
  /\ UNCHANGED upset

Delete(n) ==
  /\ ~upset
  /\ config.profiles[n] # NoValue
  /\ config' = [profiles |-> [config.profiles EXCEPT ![n] = NoValue],
                active   |-> IF config.active = n THEN NoName ELSE config.active]
  /\ UNCHANGED upset

Upset == upset' = TRUE /\ config' = EmptyConfig

Next ==
  \/ \E n \in Names :
       \/ \E v \in Values, activate, overwrite \in BOOLEAN :
            Save(n, v, activate, overwrite)
       \/ Use(n)
       \/ Delete(n)
  \/ Upset

Spec == Init /\ [][Next]_vars
=============================================================================

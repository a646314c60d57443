-------------------------- MODULE InstanceRegistry --------------------------
(***************************************************************************)
(* What acquire_instance promises its callers, whatever the pool does to   *)
(* keep within its limits: a registry with at most one instance under a    *)
(* name.  A client is served either by the instance that is registered     *)
(* under its name at that moment, and was founded for the same identity,   *)
(* or by one it founds and registers in the same step.  Any entry may be   *)
(* dropped at any time; an instance that is dropped is never registered    *)
(* again, and is lost only to new clients.                                 *)
(***************************************************************************)
CONSTANTS
  Clients,    \* callers; the instance a caller founds has its name
  Names,      \* logic ids
  None

VARIABLES
  name,       \* name[c]: the logic id client c asks for
  identity,   \* identity[c]: the identity it presents
  entry,      \* entry[n]: the instance registered under n, or None
  using,      \* using[c]: the instance that serves c, or None
  stage       \* stage[c]: "waiting", "served" or "gone"

vars == <<name, identity, entry, using, stage>>

Init ==
  /\ name \in [Clients -> Names]
  /\ entry = [n \in Names |-> None]
  /\ using = [c \in Clients |-> None]
  /\ stage = [c \in Clients |-> "waiting"]

\* c is served by the registered instance.
Join(c) ==
  /\ stage[c] = "waiting"
  /\ LET i == entry[name[c]]
     IN /\ i # None /\ identity[i] = identity[c] /\ name[i] = name[c]
        /\ using' = [using EXCEPT ![c] = i]
  /\ stage' = [stage EXCEPT ![c] = "served"]
  /\ UNCHANGED <<name, identity, entry>>

\* c registers an instance of its own, in the place of one that is there.
Found(c) ==
  /\ stage[c] = "waiting"
  /\ entry' = [entry EXCEPT ![name[c]] = c]
  /\ using' = [using EXCEPT ![c] = c]
  /\ stage' = [stage EXCEPT ![c] = "served"]
  /\ UNCHANGED <<name, identity>>

\* c is done with its instance, or gives up.
Leave(c) ==
  /\ stage[c] # "gone"
  /\ using' = [using EXCEPT ![c] = None]
  /\ stage' = [stage EXCEPT ![c] = "gone"]
  /\ UNCHANGED <<name, identity, entry>>

\* Entries are dropped; who is served by them stays served.
Discard ==
  /\ \E S \in SUBSET Names : entry' = [n \in Names |-> IF n \in S THEN None ELSE entry[n]]
  /\ UNCHANGED <<name, identity, using, stage>>

Next ==
  \/ \E c \in Clients : Join(c) \/ Found(c) \/ Leave(c)
  \/ Discard

Spec == Init /\ [][Next]_vars
=============================================================================

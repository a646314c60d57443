------------------------------ MODULE ApiKeys ------------------------------
(***************************************************************************)
(* The API keys of cli-server/src/key_manager.rs (KeyManager) and the      *)
(* handlers of /v1/keys: the keys in memory under a lock, and their copy   *)
(* in api_keys.json.                                                       *)
(*                                                                         *)
(* A call edits the list in memory and then rewrites the file, all under   *)
(* the write lock; nobody else reads the list in between, but the process  *)
(* may die and the file system may refuse.  The file is truncated and then *)
(* filled; caught between the two it does not parse (Torn).                *)
(* Names and dates of keys decide nothing and are left out.                *)
(***************************************************************************)
EXTENDS Naturals, FiniteSets

CONSTANTS
  Keys,        \* the values an API key may have
  DefaultKey,  \* the key made up when there is no file
  MaxKeyCalls, \* bound on the calls of /v1/keys
  MaxCrashes,  \* bound on the deaths of the process
  None,
  Torn         \* the content of a file that is only partly written

ASSUME DefaultKeyAssumption == DefaultKey \in Keys
ASSUME KeySentinelAssumption ==
  /\ None # Torn /\ {None, Torn} \cap Keys = {}
  /\ \A K \in SUBSET Keys : None # K /\ Torn # K
ASSUME KeyBoundsAssumption == MaxKeyCalls \in Nat /\ MaxCrashes \in Nat

VARIABLES
  up,        \* the process runs
  keys,      \* the keys in memory
  keyFile,   \* api_keys.json: None, Torn or a set of keys
  saving,    \* the call that holds the write lock, or None
  acked,     \* history: acked[k]: what the last answered call said of k
  lost,      \* history: keys acknowledged in a file that a start then found torn
  keyCalls,  \* calls so far
  crashes    \* deaths so far

keyVars == <<up, keys, keyFile, saving, acked, lost, keyCalls, crashes>>

Says == {"in", "out", "open"}  \* valid, not valid, unknown after an error
Call == [valid : SUBSET Keys, gone : SUBSET Keys, step : {"edited", "truncated"}]

KeysTypeOK ==
  /\ up \in BOOLEAN
  /\ keys \in SUBSET Keys
  /\ keyFile \in (SUBSET Keys) \cup {None, Torn}
  /\ saving \in Call \cup {None}
  /\ acked \in [Keys -> Says] /\ lost \subseteq Keys
  /\ keyCalls \in 0 .. MaxKeyCalls
  /\ crashes \in 0 .. MaxCrashes

\* The first start; later ones follow deaths.
KeysInit ==
  /\ up = FALSE
  /\ keys = {}
  /\ keyFile = None
  /\ saving = None
  /\ acked = [k \in Keys |-> "open"] /\ lost = {}
  /\ keyCalls = 0
  /\ crashes = 0

-----------------------------------------------------------------------------
\* Mutant: the file is written with the keys as they were before the call.
SavedBefore == (keys \ saving.valid) \cup saving.gone

\* What save_to_disk writes: the list as the call has edited it.
Saved == keys

\* new: an unreadable file counts as an empty one; without a file there is a default
\* key, which is written at once.  No call is served before.
Start ==
  /\ ~up
  /\ saving = None
  /\ keys' = CASE keyFile = None -> {DefaultKey}
               [] keyFile = Torn -> {}
               [] OTHER -> keyFile
  /\ IF keyFile = None
     THEN /\ saving' = [valid |-> {}, gone |-> {}, step |-> "edited"]
          /\ UNCHANGED up
     ELSE /\ up' = TRUE
          /\ UNCHANGED saving
  /\ lost' = IF keyFile = Torn THEN {k \in Keys : acked[k] = "in"} ELSE lost
  /\ UNCHANGED <<keyFile, acked, keyCalls, crashes>>

\* A call that changes the list takes the lock, edits, and goes on to save.
Edit(valid, gone) ==
  /\ up /\ saving = None
  /\ keyCalls < MaxKeyCalls
  /\ keyCalls' = keyCalls + 1
  /\ keys' = (keys \ gone) \cup valid
  /\ saving' = [valid |-> valid, gone |-> gone, step |-> "edited"]
  /\ acked' = [k \in Keys |-> IF k \in valid \cup gone THEN "open" ELSE acked[k]]
  /\ UNCHANGED <<up, keyFile, lost, crashes>>

\* create_key draws a new value.
CreateKey == \E k \in Keys \ keys : Edit({k}, {})

\* delete_key; a key that is not there changes nothing.
DeleteKey == \E k \in keys : Edit({}, {k})

\* update_key gives a key another value, unless another key has it.
UpdateKey == \E k \in keys, new \in Keys :
  /\ new \notin keys \ {k}
  /\ Edit({new}, {k} \ {new})

\* The call is answered: with success, or with an error that leaves the list in
\* memory as the call edited it.
Answer(file, says) ==
  /\ keyFile' = file
  /\ saving' = None
  /\ acked' = [k \in Keys |->
                CASE ~says -> acked[k]
                  [] says /\ k \in saving.valid -> "in"
                  [] says /\ k \in saving.gone -> "out"
                  [] OTHER -> acked[k]]
  /\ lost' = IF says THEN lost \ saving.valid ELSE lost
  /\ up' = (up \/ says)

Truncate ==
  /\ saving # None /\ saving.step = "edited"
  /\ keyFile' = Torn
  /\ saving' = [saving EXCEPT !.step = "truncated"]
  /\ UNCHANGED <<up, keys, acked, lost, keyCalls, crashes>>

SaveSucceeds ==
  /\ saving # None /\ saving.step = "truncated"
  /\ Answer(Saved, TRUE)
  /\ UNCHANGED <<keys, keyCalls, crashes>>

\* The file cannot be opened, or not be filled.  At the start that ends the process.
SaveFails ==
  /\ saving # None
  /\ Answer(keyFile, FALSE)
  /\ keys' = IF up THEN keys ELSE {}
  /\ UNCHANGED <<keyCalls, crashes>>

\* The process dies, perhaps in the middle of a save.
Crash ==
  /\ up \/ saving # None
  /\ crashes < MaxCrashes
  /\ up' = FALSE
  /\ keys' = {}
  /\ saving' = None
  /\ crashes' = crashes + 1
  /\ UNCHANGED <<keyFile, acked, lost, keyCalls>>

KeysNext ==
  \/ Start \/ CreateKey \/ DeleteKey \/ UpdateKey
  \/ Truncate \/ SaveSucceeds \/ SaveFails

\* is_valid waits for the lock.
ReadableKeys == up /\ saving = None
IsValid(k) == k \in keys

-----------------------------------------------------------------------------
\* What a call of /v1/keys was told holds until another call changes it, across failed
\* saves, deaths and restarts: a deleted or replaced key is never accepted again, and a
\* created key is accepted by every process that runs, unless a start found the file torn
\* by a death or an error in a later save (key_manager.rs:26 then forgets all keys).
KeysHoldUnlessTorn ==
  saving = None =>
    \A k \in Keys :
      /\ acked[k] = "out" => /\ up => ~IsValid(k)
                             /\ keyFile \notin {None, Torn} => k \notin keyFile
      /\ acked[k] = "in" /\ k \notin lost =>
           /\ up => IsValid(k)
           /\ keyFile \notin {None, Torn} => k \in keyFile

\* What README.md:78 promises of a power cut (API keys are written atomically): every
\* created key is accepted by the process that runs after it.  The code breaks this: a key
\* is created, the process dies after Truncate of the next call, Start forgets all keys.
KeysSurvivePowerLoss ==
  up /\ saving = None => \A k \in Keys : acked[k] = "in" => IsValid(k)

=============================================================================

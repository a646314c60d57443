----------------------------- MODULE AppSettings -----------------------------
(***************************************************************************)
(* The settings of the program (handlers/settings.rs): in memory behind a  *)
(* read-write lock, in the environment, and in app_settings.json.  A call  *)
(* of PUT /v1/settings changes the three one after the other, the lock     *)
(* held for the first only; the boot task (lib.rs) puts in the path of a   *)
(* running Antigravity when there is none.                                 *)
(*                                                                         *)
(* Of the settings the model keeps antigravity_executable, the one other   *)
(* code acts on; the installed Antigravity that the provisioner takes the  *)
(* assets from depends on it (ide.rs).                                     *)
(***************************************************************************)
EXTENDS Naturals

CONSTANTS
  Puts,      \* calls of PUT /v1/settings
  Paths,     \* paths at which an Antigravity is installed
  Offered,   \* the settings that calls may put: paths or None
  Initially, \* the installations and saved paths the program may start with
  Torn,      \* a file opened for writing and not written yet
  None

ASSUME PathAssumption ==
  /\ None \notin Paths /\ Torn \notin Paths \cup {None}
  /\ Offered \subseteq Paths \cup {None}

ASSUME InitiallyAssumption == Initially \subseteq (Paths \cup {None}) \X (Paths \cup {None})

VARIABLES
  standard, \* a path that is found without a setting, or None
  mem,     \* app_settings
  env,     \* ANT_EXECUTABLE_PATH
  sfile,   \* app_settings.json: None also stands for a missing file
  put,     \* put[p]: where call p is
  value,   \* value[p]: the path it sets
  detect   \* where the first step of the boot task is

settingsVars == <<standard, mem, env, sfile, put, value, detect>>

Setting == Paths \cup {None}

SettingsTypeOK ==
  /\ standard \in Setting /\ mem \in Setting /\ env \in Setting /\ sfile \in Setting \cup {Torn}
  /\ put \in [Puts -> {"idle", "env", "save", "write", "done"}]
  /\ value \in [Puts -> Setting]
  /\ detect \in {"start", "found", "save", "write", "done"}

\* AppSettings::load: a file that cannot be parsed means the defaults.
Load == IF sfile = Torn THEN None ELSE sfile

SettingsInit ==
  /\ \E i \in Initially : standard = i[1] /\ sfile = i[2]
  /\ mem = Load /\ env = mem
  /\ put = [p \in Puts |-> "idle"] /\ value = [p \in Puts |-> None]
  /\ detect = "start"

\* get_antigravity_executable_path: the saved path, the environment, then the process
\* that runs or the standard place.
LocalPath ==
  CASE sfile \in Paths -> sfile
    [] sfile \notin Paths /\ env \in Paths -> env
    [] OTHER -> standard

-----------------------------------------------------------------------------
\* The settings in memory change; the boot task may hold the lock.  (A call whose
\* port, interval or retention is out of range is refused and changes nothing.)
PutMemory(p) ==
  /\ put[p] = "idle" /\ detect \notin {"save", "write"}
  /\ \E v \in Offered : mem' = v /\ value' = [value EXCEPT ![p] = v]
  /\ put' = [put EXCEPT ![p] = "env"]
  /\ UNCHANGED <<standard, env, sfile, detect>>

PutEnv(p) ==
  /\ put[p] = "env"
  /\ env' = value[p]
  /\ put' = [put EXCEPT ![p] = "save"]
  /\ UNCHANGED <<standard, mem, sfile, value, detect>>

PutOpen(p) ==
  /\ put[p] = "save"
  /\ sfile' = Torn
  /\ put' = [put EXCEPT ![p] = "write"]
  /\ UNCHANGED <<standard, mem, env, value, detect>>

\* The call is over.
Answer(p) ==
  /\ put' = [put EXCEPT ![p] = "done"]
  /\ value' = [value EXCEPT ![p] = None]

\* The file is written and the call answered.
PutWrite(p) ==
  /\ put[p] = "write"
  /\ sfile' = value[p]
  /\ Answer(p)
  /\ UNCHANGED <<standard, mem, env, detect>>

\* The file cannot be opened or written: the call answers 500, the rest stays changed.
PutFails(p) ==
  /\ put[p] \in {"save", "write"}
  /\ Answer(p)
  /\ UNCHANGED <<standard, mem, env, sfile, detect>>

-----------------------------------------------------------------------------
\* The boot task finds a path of its own, or has no need of one.
Detect ==
  /\ detect = "start"
  /\ detect' \in IF mem = None /\ standard # None THEN {"found", "done"} ELSE {"done"}
  /\ UNCHANGED <<standard, mem, env, sfile, put, value>>

\* It stores what it has found, over what a call may have set since it looked, and
\* keeps the lock until the file is written.
DetectStore ==
  /\ detect = "found"
  /\ mem' = standard /\ env' = standard
  /\ detect' = "save"
  /\ UNCHANGED <<standard, sfile, put, value>>

DetectOpen ==
  /\ detect = "save"
  /\ sfile' = Torn
  /\ detect' = "write"
  /\ UNCHANGED <<standard, mem, env, put, value>>

DetectWrite ==
  /\ detect = "write"
  /\ sfile' = standard
  /\ detect' = "done"
  /\ UNCHANGED <<standard, mem, env, put, value>>

DetectFails ==
  /\ detect \in {"save", "write"}
  /\ detect' = "done"
  /\ UNCHANGED <<standard, mem, env, sfile, put, value>>

-----------------------------------------------------------------------------
SettingsNext ==
  \/ \E p \in Puts : \/ PutMemory(p) \/ PutEnv(p) \/ PutOpen(p)
                     \/ PutWrite(p) \/ PutFails(p)
  \/ Detect \/ DetectStore \/ DetectOpen \/ DetectWrite \/ DetectFails

\* The process dies and starts again: the settings are what the file says.
SettingsRestart ==
  /\ mem' = Load /\ env' = Load
  /\ put' = [p \in Puts |-> IF put[p] = "idle" THEN "idle" ELSE "done"]
  /\ detect' = "start"
  /\ value' = [p \in Puts |-> None]
  /\ UNCHANGED <<standard, sfile>>

-----------------------------------------------------------------------------
\* What README.md:78 promises of a power cut (settings are written atomically): no start
\* finds the settings lost, so whoever looks at the file while nobody writes it finds them
\* whole.  The code breaks this: settings.rs:64 truncates the file that holds the settings
\* of an answered call, the process dies, and AppSettings::load takes the defaults.
SettingsSurvivePowerLoss ==
  sfile = Torn => detect = "write" \/ \E p \in Puts : put[p] = "write"

\* With nobody changing the settings, memory, environment and file agree: what settings.rs
\* keeps in step with three writes.  Overlapping calls break it (only the first write holds
\* the lock), and so does a save that fails.
SettingsAgree ==
  detect = "done" /\ (\A p \in Puts : put[p] \in {"idle", "done"}) =>
    mem = env /\ mem = sfile
=============================================================================

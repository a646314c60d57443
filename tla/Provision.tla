------------------------------ MODULE Provision ------------------------------
(***************************************************************************)
(* How the program gets the language server it runs: the boot task of      *)
(* lib.rs and the calls of POST /v1/provision/sync run the asset           *)
(* provisioner (provisioner.rs), which copies ls_core and cert.pem from an *)
(* installed Antigravity, or fetches a release, and then writes the        *)
(* version to ls_config.json.  Nothing excludes one run from another; the  *)
(* process may die between any two steps.  A run reports its progress to a *)
(* broadcast channel and a snapshot, from which the settings page learns   *)
(* that its sync has ended (provision.rs, Settings.jsx).                   *)
(*                                                                         *)
(* A file holds a version, is Torn while it is copied or after a copy was  *)
(* broken off, or is None.                                                 *)
(***************************************************************************)
EXTENDS AppSettings, Sequences, FiniteSets

CONSTANTS
  Boot,        \* the run of the boot task
  Syncs,       \* the runs of POST /v1/provision/sync
  Versions,    \* versions of the assets
  Installed,   \* Installed[p]: the version at path p
  Whole,       \* the paths whose installation has the binary
  Certified,   \* the paths whose installation has the certificate
  Latest,      \* the newest release
  Placed,      \* the files ls_core, cert.pem and ls_config.json there may be at first
  Default,     \* the version assumed without ls_config.json: LS_METADATA_IDE_VERSION
  Capacity,    \* the room of the broadcast channel: 16
  MaxRuns,     \* bound on the runs that begin, those of a boot task that died left out
  MaxEvents    \* bound on what comes from outside: settings calls, syncs, deaths

ASSUME VersionAssumption ==
  /\ Installed \in [Paths -> Versions] /\ Whole \subseteq Paths /\ Certified \subseteq Paths
  /\ Latest \in Versions /\ Default \in Versions /\ {None, Torn} \cap Versions = {}
  /\ Placed \subseteq (Versions \cup {None}) \X (Versions \cup {None}) \X (Versions \cup {None})
ASSUME RunAssumption == Boot \notin Syncs
ASSUME BoundsAssumption ==
  /\ Capacity \in Nat \ {0} /\ MaxEvents \in Nat /\ MaxRuns \in Nat
  /\ IsFiniteSet(Puts) /\ IsFiniteSet(Syncs)

Runs == Syncs \cup {Boot}

VARIABLES
  ls,        \* bin/ls_core
  cert,      \* bin/cert.pem
  config,    \* the version in data/ls_config.json
  work,      \* the work directory of the release, and who opened its package last
  run,       \* run[r]: a run of ensure_assets_with_progress
  boot,      \* where the boot task is after its run
  crashes,   \* deaths so far
  last,      \* last_sync_event
  page,      \* the settings page's event stream
  shows,     \* what the page shows
  unread,    \* events on the stream
  lagged,    \* the stream has lost events
  ends,      \* history: a run has announced its end while the page listened
  clean      \* history, clean[r]: no other run has had a file open since r began its work

assetVars == <<ls, cert, config, work>>
bootVars == <<boot, crashes>>
pageVars == <<last, page, shows, unread, lagged, ends>>
vars == <<settingsVars, assetVars, run, bootVars, pageVars, clean>>

File == Versions \cup {Torn, None}
Ended == {"idle", "ok", "failed"}
PCs == Ended \cup {"begin", "look", "lookup", "clear", "open", "fetch", "unpack", "ls",
                   "ls_write", "cert", "cert_write", "remove", "finish", "write", "check"}
Run == [pc : PCs, strategy : {"auto", "force_remote", "local_only"}, missing : BOOLEAN,
        version : Versions, from : Paths \cup {None},
        synced : BOOLEAN, copied : SUBSET {"ls", "cert"}]
Event == {"busy", "completed", "error"}
ASSUME NoneAssumption == None \notin Event

TypeOK ==
  /\ SettingsTypeOK
  /\ ls \in File /\ cert \in File /\ config \in File
  /\ work \in [is : {"absent", "empty", "partial", "package", "unpacked"},
               by : Runs \cup {None}]
  /\ run \in [Runs -> Run]
  /\ boot \in {"off", "assets", "up", "down"}
  /\ crashes \in 0 .. MaxEvents
  /\ last \in {"busy", "completed", None}
  /\ page \in {"closed", "posted", "subscribed", "replaying", "open"}
  /\ shows \in Event \cup {"idle"}
  /\ unread \in Seq(Event) /\ Len(unread) <= Capacity
  /\ lagged \in BOOLEAN /\ ends \in BOOLEAN
  /\ clean \in [Runs -> BOOLEAN]

Fresh == [pc |-> "idle", strategy |-> "auto", missing |-> FALSE,
          version |-> Default, from |-> None, synced |-> FALSE, copied |-> {}]
Failed == [Fresh EXCEPT !.pc = "failed"]

\* Whatever an earlier process, or somebody by hand, has put in place.
Init ==
  /\ SettingsInit
  /\ \E f \in Placed : ls = f[1] /\ cert = f[2] /\ config = f[3]
  /\ work = [is |-> "absent", by |-> None]
  /\ run = [r \in Runs |-> Fresh]
  /\ boot = "off" /\ crashes = 0
  /\ last = None /\ page = "closed" /\ shows = "idle"
  /\ unread = <<>> /\ lagged = FALSE /\ ends = FALSE
  /\ clean = [r \in Runs |-> FALSE]

\* get_runtime_config: a file that is missing or cannot be parsed means the default.
RuntimeVersion == IF config \in Versions THEN config ELSE Default

Missing == ls = None \/ cert = None

AtWork == {r \in Runs : run[r].pc \notin Ended}

\* A run that has one of the three files open.
Filling(r) == run[r].pc \in {"ls_write", "cert_write", "write"}

\* What has come from outside so far.
Events == Cardinality({p \in Puts : put[p] # "idle"})
            + Cardinality({s \in Syncs : run[s].pc # "idle"}) + crashes

MayStart == Cardinality({r \in Runs : run[r].pc # "idle"}) < MaxRuns

Goto(r, pc) == run' = [run EXCEPT ![r].pc = pc]

\* The strategy has decided what it decides.
Decided(r, pc) == run' = [run EXCEPT ![r].pc = pc, ![r].strategy = "auto"]

-----------------------------------------------------------------------------
(* Progress.                                                               *)

\* The page's stream has subscribed to the channel.
Subscribed == page \in {"subscribed", "replaying", "open"}

\* A sync keeps its progress as the snapshot, unless somebody has the lock just now: the
\* page while its replay is sent, another reader or another sync.
Record(e) == last' \in IF page = "replaying" THEN {last} ELSE {last, e}

\* Mutant: the stream subscribes only after it has read the snapshot.
SendUnsubscribed(e) ==
  LET hears == page \in {"replaying", "open"}
      full == Len(unread) = Capacity
  IN /\ unread' = IF hears /\ ~full THEN Append(unread, e) ELSE unread
     /\ lagged' = (lagged \/ (hears /\ full))
     /\ ends' = (ends \/ (Subscribed /\ e # "busy"))

\* Mutant: the channel has no bound.
SendUncapped(e) ==
  /\ unread' = IF Subscribed THEN Append(unread, e) ELSE unread
  /\ ends' = (ends \/ (Subscribed /\ e # "busy"))
  /\ UNCHANGED lagged

\* The channel passes an event to those who have subscribed.
Send(e) ==
  LET full == Len(unread) = Capacity
  IN /\ unread' = IF Subscribed /\ ~full THEN Append(unread, e) ELSE unread
     /\ lagged' = (lagged \/ (Subscribed /\ full))
     /\ ends' = (ends \/ (Subscribed /\ e # "busy"))

\* Progress is recorded by a sync, not by the boot task, and sent.
Emit(r, e) ==
  /\ IF r = Boot THEN UNCHANGED last ELSE Record(e)
  /\ Send(e)
  /\ UNCHANGED <<page, shows>>

\* A run that fails: the boot task says nothing and ends for good, a sync sends the error
\* without recording it.
Fails(r) ==
  /\ run' = [run EXCEPT ![r] = Failed]
  /\ IF r = Boot
     THEN boot' = "down" /\ UNCHANGED <<crashes, pageVars>>
     ELSE Send("error") /\ UNCHANGED <<last, page, shows, bootVars>>
  /\ clean' = [clean EXCEPT ![r] = FALSE]
  /\ UNCHANGED <<settingsVars, assetVars>>

\* The button of the page: it opens its event stream and posts the sync.
Click(s) ==
  /\ page = "closed" /\ run[s].pc = "idle" /\ MayStart /\ Events < MaxEvents
  /\ \E how \in {"auto", "force_remote", "local_only"} :
       run' = [run EXCEPT ![s].pc = "begin", ![s].strategy = how]
  /\ page' = "posted" /\ shows' = "busy"
  /\ UNCHANGED <<settingsVars, assetVars, bootVars, last, unread, lagged, ends, clean>>

\* Somebody else posts a sync.
Post(s) ==
  /\ run[s].pc = "idle" /\ MayStart /\ Events < MaxEvents
  /\ \E how \in {"auto", "force_remote", "local_only"} :
       run' = [run EXCEPT ![s].pc = "begin", ![s].strategy = how]
  /\ UNCHANGED <<settingsVars, assetVars, bootVars, pageVars, clean>>

Subscribe ==
  /\ page = "posted"
  /\ page' = "subscribed"
  /\ UNCHANGED <<settingsVars, assetVars, run, bootVars, last, shows, unread, lagged,
                 ends, clean>>

Close(as) ==
  /\ page' = "closed" /\ shows' = as
  /\ unread' = <<>> /\ lagged' = FALSE /\ ends' = FALSE

\* The stream's first message is the snapshot; the lock on it is held until the stream
\* is asked for the next one.
Replay ==
  /\ page = "subscribed"
  /\ CASE last = None -> page' = "open" /\ UNCHANGED <<shows, unread, lagged, ends>>
       [] last = "busy" -> page' = "replaying" /\ UNCHANGED <<shows, unread, lagged, ends>>
       [] last = "completed" -> Close("completed")
  /\ UNCHANGED <<settingsVars, assetVars, run, bootVars, last, clean>>

Replayed ==
  /\ page = "replaying"
  /\ page' = "open"
  /\ UNCHANGED <<settingsVars, assetVars, run, bootVars, last, shows, unread, lagged,
                 ends, clean>>

Hear ==
  /\ page = "open" /\ ~lagged /\ unread # <<>>
  /\ IF Head(unread) = "busy"
     THEN unread' = Tail(unread) /\ UNCHANGED <<page, shows, lagged, ends>>
     ELSE Close(Head(unread))
  /\ UNCHANGED <<settingsVars, assetVars, run, bootVars, last, clean>>

\* recv() answers Lagged, the stream ends and the page gives up.
LagOut ==
  /\ page = "open" /\ lagged
  /\ Close("idle")
  /\ UNCHANGED <<settingsVars, assetVars, run, bootVars, last, clean>>

-----------------------------------------------------------------------------
(* The run of the provisioner.                                             *)

\* The boot task has dealt with the path and starts its run.
StartBoot ==
  /\ boot = "off" /\ detect = "done" /\ run[Boot].pc = "idle" /\ MayStart
  /\ Goto(Boot, "begin")
  /\ UNCHANGED <<settingsVars, assetVars, bootVars, pageVars, clean>>

\* The version and what is missing are read once.
Begin(r) ==
  /\ run[r].pc = "begin"
  /\ run' = [run EXCEPT ![r].pc = "look", ![r].missing = Missing,
                        ![r].version = RuntimeVersion]
  /\ Emit(r, "busy")
  /\ clean' = [clean EXCEPT ![r] = \A q \in Runs \ {r} : ~Filling(q)]
  /\ UNCHANGED <<settingsVars, assetVars, bootVars>>

\* Mutant: the version of an installation is taken over only when files are missing.
LookMissing(r) ==
  /\ run[r].pc = "look"
  /\ LET p == LocalPath
         copies == \/ Installed[p] # run[r].version
                   \/ run[r].missing \/ run[r].strategy = "local_only"
     IN IF run[r].strategy # "force_remote" /\ p # None
        THEN run' = [run EXCEPT ![r].pc = IF copies THEN "ls" ELSE "finish",
                       ![r].strategy = "auto", ![r].from = p, ![r].synced = TRUE,
                       ![r].version = IF run[r].missing THEN Installed[p] ELSE @]
        ELSE IF run[r].strategy = "local_only" THEN Decided(r, "finish") ELSE Goto(r, "lookup")
  /\ UNCHANGED <<settingsVars, assetVars, bootVars, pageVars, clean>>

\* An installation comes first, unless a release is forced: it is copied when its
\* version differs, files are missing or it alone is wanted.  Its version counts even
\* where it has no binary to copy.
Look(r) ==
  /\ run[r].pc = "look"
  /\ LET p == LocalPath
         copies == \/ Installed[p] # run[r].version
                   \/ run[r].missing \/ run[r].strategy = "local_only"
     IN IF run[r].strategy # "force_remote" /\ p # None
        THEN run' = [run EXCEPT ![r].pc = IF copies THEN "ls" ELSE "finish",
                       ![r].strategy = "auto", ![r].from = p, ![r].synced = TRUE,
                       ![r].version = IF copies THEN Installed[p] ELSE @]
        ELSE IF run[r].strategy = "local_only" THEN Decided(r, "finish") ELSE Goto(r, "lookup")
  /\ UNCHANGED <<settingsVars, assetVars, bootVars, pageVars, clean>>

\* The newest release is fetched when it is forced, files are missing or it is another
\* version; a lookup that fails counts as nothing to do.
Lookup(r) ==
  /\ run[r].pc = "lookup"
  /\ LET fetch == \/ run[r].strategy = "force_remote"
                  \/ run[r].missing \/ Latest # run[r].version
     IN Decided(r, IF fetch THEN "clear" ELSE "finish") \/ Decided(r, "finish")
  /\ UNCHANGED <<settingsVars, assetVars, bootVars, pageVars, clean>>

\* The work directory, the same for every run of a release, is emptied.
Clear(r) ==
  /\ run[r].pc = "clear"
  /\ work' = [is |-> "empty", by |-> None]
  /\ Goto(r, "open")
  /\ UNCHANGED <<settingsVars, ls, cert, config, bootVars, pageVars, clean>>

\* The download is answered, the package opened; another run may have removed the
\* directory.
OpenPackage(r) ==
  /\ run[r].pc = "open" /\ work.is # "absent"
  /\ work' = [is |-> "partial", by |-> r]
  /\ Goto(r, "fetch")
  /\ UNCHANGED <<settingsVars, ls, cert, config, bootVars, pageVars, clean>>

\* The download is complete: so is the package, if it is still the one this run opened.
Fetch(r) ==
  /\ run[r].pc = "fetch"
  /\ work' = IF work.is = "partial" /\ work.by = r THEN [is |-> "package", by |-> None] ELSE work
  /\ Goto(r, "unpack")
  /\ UNCHANGED <<settingsVars, ls, cert, config, bootVars, pageVars, clean>>

Unpack(r) ==
  /\ run[r].pc = "unpack" /\ work.is \in {"package", "unpacked"}
  /\ work' = [is |-> "unpacked", by |-> None]
  /\ Goto(r, "ls")
  /\ UNCHANGED <<settingsVars, ls, cert, config, bootVars, pageVars, clean>>

\* What the run copies: the version at its path, or the release.
Source(r) == IF run[r].from = None THEN Latest ELSE Installed[run[r].from]

HasSource(r) == run[r].from # None \/ work.is = "unpacked"

\* A file is opened: the other runs are no longer by themselves.
Opened(r) == clean' = [q \in Runs |-> q = r /\ clean[q]]

\* ls_core is opened, which truncates it.
CopyLs(r) ==
  /\ run[r].pc = "ls" /\ HasSource(r) /\ run[r].from \in Whole \cup {None}
  /\ ls' = Torn /\ Opened(r)
  /\ Goto(r, "ls_write")
  /\ UNCHANGED <<settingsVars, cert, config, work, bootVars, pageVars>>

\* The installation has no binary for this platform.
SkipLs(r) ==
  /\ run[r].pc = "ls" /\ run[r].from \notin Whole \cup {None}
  /\ Goto(r, "cert")
  /\ UNCHANGED <<settingsVars, assetVars, bootVars, pageVars, clean>>

WriteLs(r) ==
  /\ run[r].pc = "ls_write"
  /\ ls' = Source(r)
  /\ run' = [run EXCEPT ![r].pc = "cert", ![r].copied = @ \cup {"ls"}]
  /\ UNCHANGED <<settingsVars, cert, config, work, bootVars, pageVars, clean>>

CopyCert(r) ==
  /\ run[r].pc = "cert" /\ HasSource(r) /\ run[r].from \in Certified \cup {None}
  /\ cert' = Torn /\ Opened(r)
  /\ Goto(r, "cert_write")
  /\ UNCHANGED <<settingsVars, ls, config, work, bootVars, pageVars>>

\* Where the run goes after the certificate.
AfterCert(r) == IF run[r].from = None THEN "remove" ELSE "finish"

\* The installation has no certificate, or the package that was unpacked has none.
SkipCert(r) ==
  /\ run[r].pc = "cert" /\ HasSource(r) /\ run[r].from \notin Certified
  /\ Goto(r, AfterCert(r))
  /\ UNCHANGED <<settingsVars, assetVars, bootVars, pageVars, clean>>

WriteCert(r) ==
  /\ run[r].pc = "cert_write"
  /\ cert' = Source(r)
  /\ run' = [run EXCEPT ![r].pc = AfterCert(r), ![r].copied = @ \cup {"cert"}]
  /\ UNCHANGED <<settingsVars, ls, config, work, bootVars, pageVars, clean>>

\* The work directory goes and the release's version counts.
Remove(r) ==
  /\ run[r].pc = "remove" /\ work.is # "absent"
  /\ work' = [is |-> "absent", by |-> None]
  /\ run' = [run EXCEPT ![r].pc = "finish", ![r].version = Latest, ![r].synced = TRUE]
  /\ UNCHANGED <<settingsVars, ls, cert, config, bootVars, pageVars, clean>>

\* A step fails: a directory that cannot be made or cleared, no answer, a directory that
\* another run has removed or not filled, a file that cannot be opened (a running binary)
\* or a disk that is full.
StepFails(r) ==
  /\ run[r].pc \in {"look", "clear", "open", "fetch", "unpack", "ls", "ls_write", "cert",
                    "cert_write", "remove", "write"}
  /\ Fails(r)

\* The version goes to ls_config.json if there is anything to record.
Finish(r) ==
  /\ run[r].pc = "finish"
  /\ Emit(r, "busy")
  /\ IF (run[r].synced \/ run[r].missing) /\ ~Missing
     THEN config' = Torn /\ Opened(r) /\ Goto(r, "write")
     ELSE Goto(r, "check") /\ UNCHANGED <<config, clean>>
  /\ UNCHANGED <<settingsVars, ls, cert, work, bootVars>>

WriteConfig(r) ==
  /\ run[r].pc = "write"
  /\ config' = run[r].version
  /\ Goto(r, "check")
  /\ UNCHANGED <<settingsVars, ls, cert, work, bootVars, pageVars, clean>>

Succeed(r) ==
  /\ run[r].pc = "check" /\ ~Missing
  /\ run' = [run EXCEPT ![r] = [Fresh EXCEPT !.pc = "ok"]]
  /\ Emit(r, "completed")
  /\ boot' = IF r = Boot THEN "assets" ELSE boot
  /\ clean' = [clean EXCEPT ![r] = FALSE]
  /\ UNCHANGED <<settingsVars, assetVars, crashes>>

LackAssets(r) ==
  /\ run[r].pc = "check" /\ Missing
  /\ Fails(r)

-----------------------------------------------------------------------------
(* The rest of the boot task.                                              *)

\* The certificate is loaded and the gateway started; the provider of instances is
\* set up with the run's version, or the boot task ends without one for good.
Provide ==
  /\ boot = "assets"
  /\ boot' \in {"up", "down"}
  /\ UNCHANGED <<settingsVars, assetVars, run, crashes, pageVars, clean>>

\* The process dies and is started again: the files stay as they are.
Crash ==
  /\ Events < MaxEvents
  /\ crashes' = crashes + 1
  /\ SettingsRestart
  /\ run' = [r \in Runs |-> IF r = Boot \/ run[r].pc = "idle" THEN Fresh
                            ELSE Failed]
  /\ boot' = "off"
  /\ last' = None /\ Close("idle")
  /\ clean' = [r \in Runs |-> FALSE]
  /\ UNCHANGED assetVars

-----------------------------------------------------------------------------
Provisioning(r) ==
  \/ Begin(r) \/ Look(r) \/ Lookup(r) \/ Clear(r) \/ OpenPackage(r) \/ Fetch(r)
  \/ Unpack(r) \/ CopyLs(r) \/ SkipLs(r) \/ WriteLs(r) \/ CopyCert(r) \/ SkipCert(r)
  \/ WriteCert(r) \/ Remove(r) \/ StepFails(r) \/ Finish(r) \/ WriteConfig(r) \/ Succeed(r) \/ LackAssets(r)

Next ==
  \/ /\ SettingsNext /\ UNCHANGED <<assetVars, run, bootVars, pageVars, clean>>
     /\ Events' <= MaxEvents
  \/ StartBoot \/ Provide \/ Crash
  \/ \E s \in Syncs : Click(s) \/ Post(s)
  \/ \E r \in Runs : Provisioning(r)
  \/ Subscribe \/ Replay \/ Replayed \/ Hear \/ LagOut

Spec == Init /\ [][Next]_vars

-----------------------------------------------------------------------------
(* Properties.                                                             *)

\* A run that has copied both files ends with files that are whole and of the version it
\* has written to ls_config.json, whatever dead or failed runs and hands had left there, and
\* while other runs look, fetch and empty the shared work directory: unless one of them had
\* one of the three files open meanwhile, which nothing prevents.
CopiesAlign ==
  \A r \in Runs : run[r].pc = "check" /\ clean[r] /\ run[r].copied = {"ls", "cert"} =>
    ls = run[r].version /\ cert = run[r].version /\ config = run[r].version

\* What README.md:181 says of every sync (strict consistency of the binary and the recorded
\* version): at rest after a run has ended well.  The code breaks this: a file torn by a
\* death or a run that failed is "aligned" to the next one if the version matches
\* (provisioner.rs:61, 92), an installation without the binary or the certificate counts as
\* copied (63, 71), overlapping runs mix their files.
StrictlyAligned ==
  AtWork = {} /\ (\E r \in Runs : run[r].pc = "ok") => ls = config /\ cert = config

\* A page that was subscribed when a run announced its end does not wait for one any more
\* once its stream is read: the stream subscribes before it reads the snapshot
\* (provision.rs:108, 112), so no end falls between the two.
EndsAreHeard == page = "open" /\ unread = <<>> /\ ~lagged => ~ends

\* What Settings.jsx:308 says (the loading state is always taken back in the end): the page
\* does not wait with nobody at work.  The code breaks this: a run may end after the click
\* and before the stream subscribes, and its error is not in the snapshot, nor is its
\* completion if somebody had the lock.
LoadingTakenBack ==
  page = "open" /\ unread = <<>> /\ ~lagged /\ shows = "busy" => AtWork # {}
=============================================================================

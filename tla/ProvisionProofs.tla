--------------------------- MODULE ProvisionProofs ---------------------------
(***************************************************************************)
(* Proofs about Provision and the settings it extends, for all paths,      *)
(* versions, installations, calls and runs, whatever the program starts    *)
(* with and however much happens from outside.                             *)
(***************************************************************************)
EXTENDS Provision, TLAPS, FiniteSetTheorems

-----------------------------------------------------------------------------
(* The inductive invariants.                                               *)

Early == {"idle", "begin", "look", "lookup", "clear", "open", "fetch", "unpack"}
Copying == {"ls", "ls_write", "cert", "cert_write"}

\* What a run has decided and copied by where it is.
RunShape(r) ==
  /\ run[r].pc \in Early => run[r].from = None /\ ~run[r].synced
  /\ run[r].pc \in Early \cup {"ls", "ls_write"} => run[r].copied = {}
  /\ run[r].pc \in {"cert", "cert_write"} => "cert" \notin run[r].copied
  /\ run[r].pc \in Copying /\ run[r].from # None =>
       run[r].synced /\ run[r].version = Installed[run[r].from]
  /\ run[r].pc = "remove" => run[r].from = None

\* While a run is by itself nobody else has a file open.
CleanInv == \A r \in Runs : clean[r] => \A q \in Runs \ {r} : ~Filling(q)

\* What a run that is by itself has made of the files so far.
CopiedBoth(r) == run[r].copied = {"ls", "cert"}
Heals(r) ==
  /\ run[r].pc \in {"cert", "cert_write"} /\ "ls" \in run[r].copied => ls = Source(r)
  /\ run[r].pc = "remove" /\ CopiedBoth(r) => ls = Latest /\ cert = Latest
  /\ run[r].pc \in {"finish", "write", "check"} /\ CopiedBoth(r) =>
       run[r].synced /\ ls = run[r].version /\ cert = run[r].version
  /\ run[r].pc = "check" /\ CopiedBoth(r) => config = run[r].version

ShapeInv == TypeOK /\ \A r \in Runs : RunShape(r)
HealInv == ShapeInv /\ CleanInv /\ \A r \in Runs : clean[r] => Heals(r)

\* An end that was announced while the page listened is lost to a lag or still waits.
EndWaits == lagged \/ \E i \in 1 .. Len(unread) : unread[i] # "busy"
PageInv == TypeOK /\ (ends => EndWaits)

-----------------------------------------------------------------------------
(* Settings.                                                               *)

\* The program starts with what the file says, nobody at work.
LEMMA InitSettings == SettingsInit => SettingsTypeOK
<1>. SUFFICES ASSUME SettingsInit PROVE SettingsTypeOK
  OBVIOUS
<1>1. standard \in Setting /\ sfile \in Setting
  BY InitiallyAssumption DEF SettingsInit, Setting
<1>2. mem \in Setting /\ env \in Setting
  BY <1>1, PathAssumption DEF SettingsInit, Load, Setting
<1>. QED
  BY <1>1, <1>2 DEF SettingsInit, SettingsTypeOK, Setting

\* Calls and the boot task keep the settings to what can be set.
LEMMA StepSettings ==
  ASSUME SettingsTypeOK, SettingsNext
  PROVE  SettingsTypeOK'
<1>. USE DEF SettingsTypeOK
<1>1. None \in Setting /\ Offered \subseteq Setting
  BY PathAssumption DEF Setting
<1>2. ASSUME NEW p \in Puts, PutMemory(p) PROVE SettingsTypeOK'
  <2>1. PICK v \in Offered : mem' = v /\ value' = [value EXCEPT ![p] = v]
    BY <1>2 DEF PutMemory
  <2>. QED
    BY <1>1, <1>2, <2>1 DEF PutMemory
<1>3. ASSUME NEW p \in Puts, PutEnv(p) \/ PutOpen(p) PROVE SettingsTypeOK'
  BY <1>3 DEF PutEnv, PutOpen
<1>4. ASSUME NEW p \in Puts, PutWrite(p) \/ PutFails(p) PROVE SettingsTypeOK'
  BY <1>1, <1>4 DEF PutWrite, PutFails, Answer
<1>5. CASE Detect \/ DetectStore \/ DetectOpen \/ DetectWrite \/ DetectFails
  BY <1>5 DEF Detect, DetectStore, DetectOpen, DetectWrite, DetectFails
<1>. QED
  BY <1>2, <1>3, <1>4, <1>5 DEF SettingsNext

\* A restart takes up what the file says.
LEMMA RestartSettings ==
  ASSUME SettingsTypeOK, SettingsRestart
  PROVE  SettingsTypeOK'
<1>1. Load \in Setting /\ None \in Setting
  BY DEF Load, SettingsTypeOK, Setting
<1>. QED
  BY <1>1 DEF SettingsRestart, SettingsTypeOK

\* Nothing else touches the settings.
LEMMA KeepSettings ==
  ASSUME SettingsTypeOK, UNCHANGED settingsVars
  PROVE  SettingsTypeOK'
BY DEF SettingsTypeOK, settingsVars

-----------------------------------------------------------------------------
(* Types.                                                                  *)

\* The path an installation is found at is one of the paths.
LEMMA LocalPathType == SettingsTypeOK => LocalPath \in Paths \cup {None}
<1>. SUFFICES ASSUME SettingsTypeOK PROVE LocalPath \in Paths \cup {None}
  OBVIOUS
<1>1. CASE sfile \in Paths
  BY <1>1 DEF LocalPath
<1>2. CASE sfile \notin Paths /\ env \in Paths
  BY <1>2 DEF LocalPath
<1>3. CASE sfile \notin Paths /\ env \notin Paths
  BY <1>3 DEF LocalPath, SettingsTypeOK, Setting
<1>. QED
  BY <1>1, <1>2, <1>3

\* The records runs begin and end with.
LEMMA FreshTypes ==
  /\ Fresh \in Run
  /\ Failed \in Run
  /\ [Fresh EXCEPT !.pc = "ok"] \in Run /\ [Fresh EXCEPT !.pc = "ok"].pc = "ok"
  /\ Fresh.pc = "idle" /\ Fresh.from = None /\ ~Fresh.synced /\ Fresh.copied = {}
  /\ Failed.pc = "failed"
BY VersionAssumption DEF Fresh, Failed, Run, PCs, Ended

\* The version assumed is one.
LEMMA RuntimeVersionType == RuntimeVersion \in Versions
BY VersionAssumption DEF RuntimeVersion

\* The start satisfies them.
LEMMA InitTypes == Init => TypeOK
<1>. SUFFICES ASSUME Init PROVE TypeOK
  OBVIOUS
<1>1. SettingsTypeOK
  BY InitSettings DEF Init
<1>2. ls \in File /\ cert \in File /\ config \in File
  <2>1. PICK f \in Placed : ls = f[1] /\ cert = f[2] /\ config = f[3]
    BY DEF Init
  <2>2. f \in (Versions \cup {None}) \X (Versions \cup {None}) \X (Versions \cup {None})
    BY VersionAssumption
  <2>. QED
    BY <2>1, <2>2 DEF File
<1>3. run \in [Runs -> Run]
  BY FreshTypes DEF Init
<1>4. unread \in Seq(Event) /\ Len(unread) <= Capacity
  BY BoundsAssumption DEF Init
<1>5. crashes \in 0 .. MaxEvents
  BY BoundsAssumption DEF Init
<1>6. clean \in [Runs -> BOOLEAN]
  BY DEF Init
<1>7. work \in [is : {"absent", "empty", "partial", "package", "unpacked"}, by : Runs \cup {None}]
  BY DEF Init
<1>. QED
  BY <1>1, <1>2, <1>3, <1>4, <1>5, <1>6, <1>7 DEF Init, TypeOK, Event

\* What the page gets to know of a run: an event, and what is recorded of it.
Told(e) ==
  /\ Send(e)
  /\ last' \in {"busy", "completed", None}
  /\ UNCHANGED <<page, shows>>

\* Progress is told.
LEMMA EmitTells ==
  ASSUME TypeOK, NEW r, NEW e \in {"busy", "completed"}, Emit(r, e)
  PROVE  Told(e)
BY DEF Emit, Record, Told, TypeOK

\* An event keeps the types of what the page knows.
LEMMA SendTypes ==
  ASSUME TypeOK, NEW e \in Event, Send(e)
  PROVE  /\ unread' \in Seq(Event) /\ Len(unread') <= Capacity
         /\ lagged' \in BOOLEAN /\ ends' \in BOOLEAN
<1>. DEFINE full == Len(unread) = Capacity
<1>1. /\ unread' = IF Subscribed /\ ~full THEN Append(unread, e) ELSE unread
      /\ lagged' = (lagged \/ (Subscribed /\ full))
      /\ ends' = (ends \/ (Subscribed /\ e # "busy"))
  BY DEF Send
<1>2. unread' \in Seq(Event) /\ Len(unread') <= Capacity
  <2>1. unread \in Seq(Event) /\ Len(unread) <= Capacity /\ Len(unread) \in Nat
    BY DEF TypeOK
  <2>2. CASE unread' = unread
    BY <2>1, <2>2
  <2>3. CASE ~full /\ unread' = Append(unread, e)
    BY <2>1, <2>3, BoundsAssumption
  <2>. QED
    BY <1>1, <2>2, <2>3
<1>. QED
  BY <1>1, <1>2

\* There are only so many calls, syncs and deaths.
LEMMA EventsType ==
  ASSUME TypeOK
  PROVE  Events \in Nat /\ crashes <= Events
<1>1. /\ Cardinality({p \in Puts : put[p] # "idle"}) \in Nat
      /\ Cardinality({s \in Syncs : run[s].pc # "idle"}) \in Nat
  BY BoundsAssumption, FS_Subset, FS_CardinalityType
<1>2. crashes \in Nat
  BY BoundsAssumption DEF TypeOK
<1>. QED
  BY <1>1, <1>2 DEF Events

\* A step of a run: its own record, and the files it leaves.
RunStep(r) ==
  /\ run' \in [Runs -> Run]
  /\ \A q \in Runs \ {r} : run'[q] = run[q]
  /\ ls' \in File /\ cert' \in File /\ config' \in File
  /\ work' \in [is : {"absent", "empty", "partial", "package", "unpacked"},
                by : Runs \cup {None}]
  /\ boot' \in {"off", "assets", "up", "down"} /\ crashes' = crashes
  /\ clean' \in [Runs -> BOOLEAN]
  /\ UNCHANGED settingsVars
  /\ UNCHANGED pageVars \/ \E e \in Event : Told(e)

\* A run that fails.
LEMMA FailsTypes ==
  ASSUME TypeOK, NEW r \in Runs, Fails(r)
  PROVE  RunStep(r)
<1>1. UNCHANGED pageVars \/ Told("error")
  BY DEF Fails, Told, TypeOK
<1>2. boot' \in {"off", "assets", "up", "down"} /\ crashes' = crashes
  BY DEF Fails, TypeOK, bootVars
<1>3. run' \in [Runs -> Run] /\ \A q \in Runs \ {r} : run'[q] = run[q]
  BY FreshTypes DEF Fails, TypeOK
<1>4. clean' \in [Runs -> BOOLEAN] /\ UNCHANGED <<settingsVars, assetVars>>
  BY DEF Fails, TypeOK
<1>. QED
  BY <1>1, <1>2, <1>3, <1>4 DEF RunStep, TypeOK, Event, assetVars

\* What the first step of a run records.
LEMMA BeginFields ==
  ASSUME TypeOK, NEW r \in Runs, Begin(r)
  PROVE  /\ run' \in [Runs -> Run] /\ \A q \in Runs \ {r} : run'[q] = run[q]
         /\ run[r].pc = "begin" /\ run'[r].pc = "look"
         /\ run'[r].from = run[r].from /\ run'[r].synced = run[r].synced
         /\ run'[r].copied = run[r].copied
<1>1. run[r] \in Run /\ run \in [Runs -> Run] /\ Missing \in BOOLEAN
  BY DEF TypeOK, Missing
<1>2. run' = [run EXCEPT ![r].pc = "look", ![r].missing = Missing, ![r].version = RuntimeVersion]
  BY DEF Begin
<1>. DEFINE n == [run[r] EXCEPT !.pc = "look", !.missing = Missing, !.version = RuntimeVersion]
<1>3. n \in Run
  BY <1>1, RuntimeVersionType DEF Run, PCs
<1>4. run' = [run EXCEPT ![r] = n]
  BY <1>2
<1>5. n.pc = "look" /\ n.from = run[r].from /\ n.synced = run[r].synced /\ n.copied = run[r].copied
  BY <1>1 DEF Run
<1>. HIDE DEF n
<1>. QED
  BY <1>1, <1>3, <1>4, <1>5 DEF Begin

\* A step that only moves its run on keeps what the run has decided.
LEMMA GotoFields ==
  ASSUME TypeOK, NEW r \in Runs, NEW pc \in PCs, Goto(r, pc) \/ Decided(r, pc)
  PROVE  /\ run' \in [Runs -> Run] /\ \A q \in Runs \ {r} : run'[q] = run[q]
         /\ run'[r].pc = pc /\ run'[r].version = run[r].version
         /\ run'[r].from = run[r].from /\ run'[r].synced = run[r].synced
         /\ run'[r].copied = run[r].copied
<1>1. run[r] \in Run /\ run \in [Runs -> Run]
  BY DEF TypeOK
<1>2. ASSUME NEW n, n \in {[run[r] EXCEPT !.pc = pc],
                            [run[r] EXCEPT !.pc = pc, !.strategy = "auto"]}
      PROVE  /\ n \in Run /\ n.pc = pc /\ n.version = run[r].version
             /\ n.from = run[r].from /\ n.synced = run[r].synced /\ n.copied = run[r].copied
  BY <1>1, <1>2 DEF Run
<1>3. \E n \in {[run[r] EXCEPT !.pc = pc], [run[r] EXCEPT !.pc = pc, !.strategy = "auto"]} :
        run' = [run EXCEPT ![r] = n]
  <2>1. Goto(r, pc) => run' = [run EXCEPT ![r] = [run[r] EXCEPT !.pc = pc]]
    BY DEF Goto
  <2>2. Decided(r, pc) =>
          run' = [run EXCEPT ![r] = [run[r] EXCEPT !.pc = pc, !.strategy = "auto"]]
    BY DEF Decided
  <2>. QED
    BY <2>1, <2>2
<1>. QED
  BY <1>1, <1>2, <1>3

\* What a run makes of an installation: its version counts when it is copied.
LEMMA LookFields ==
  ASSUME TypeOK, NEW r \in Runs, Look(r)
  PROVE  /\ run' \in [Runs -> Run] /\ \A q \in Runs \ {r} : run'[q] = run[q]
         /\ run[r].pc = "look" /\ run'[r].copied = run[r].copied
         /\ \/ /\ run'[r].pc = "ls" /\ run'[r].synced
               /\ run'[r].from \in Paths /\ run'[r].version = Installed[run'[r].from]
            \/ run'[r].pc = "finish"
            \/ /\ run'[r].pc = "lookup"
               /\ run'[r].from = run[r].from /\ run'[r].synced = run[r].synced
<1>1. run[r] \in Run /\ run \in [Runs -> Run] /\ run[r].pc = "look"
  BY DEF TypeOK, Look
<1>. DEFINE p == LocalPath
            copies == \/ Installed[p] # run[r].version
                      \/ run[r].missing \/ run[r].strategy = "local_only"
<1>2. CASE run[r].strategy # "force_remote" /\ p # None
  <2>. DEFINE n == [run[r] EXCEPT !.pc = IF copies THEN "ls" ELSE "finish",
                      !.strategy = "auto", !.from = p, !.synced = TRUE,
                      !.version = IF copies THEN Installed[p] ELSE @]
  <2>1. run' = [run EXCEPT ![r].pc = IF copies THEN "ls" ELSE "finish",
                      ![r].strategy = "auto", ![r].from = p, ![r].synced = TRUE,
                      ![r].version = IF copies THEN Installed[p] ELSE @]
    BY <1>2 DEF Look
  <2>2. p \in Paths /\ Installed[p] \in Versions
    BY <1>2, LocalPathType, VersionAssumption DEF TypeOK
  <2>3. run' = [run EXCEPT ![r] = n]
    BY <2>1
  <2>. HIDE DEF p, copies
  <2>4. /\ n \in Run /\ n.pc = IF copies THEN "ls" ELSE "finish"
        /\ n.from = p /\ n.synced /\ n.copied = run[r].copied
        /\ copies => n.version = Installed[p]
    BY <1>1, <2>2 DEF Run, PCs
  <2>. HIDE DEF n
  <2>. QED
    BY <1>1, <2>2, <2>3, <2>4
<1>3. CASE ~(run[r].strategy # "force_remote" /\ p # None)
  <2>1. Decided(r, "finish") \/ Goto(r, "lookup")
    BY <1>3 DEF Look
  <2>. QED
    BY <1>1, <2>1, GotoFields DEF PCs
<1>. QED
  BY <1>2, <1>3

\* What a run makes of the newest release.
LEMMA LookupFields ==
  ASSUME TypeOK, NEW r \in Runs, Lookup(r)
  PROVE  /\ run' \in [Runs -> Run] /\ \A q \in Runs \ {r} : run'[q] = run[q]
         /\ run[r].pc = "lookup" /\ run'[r].pc \in {"clear", "finish"}
         /\ run'[r].from = run[r].from /\ run'[r].synced = run[r].synced
         /\ run'[r].copied = run[r].copied
<1>1. Decided(r, "clear") \/ Decided(r, "finish")
  BY DEF Lookup
<1>. QED
  BY <1>1, GotoFields DEF Lookup, PCs

\* A file that is written counts as copied.
LEMMA WriteFields ==
  ASSUME TypeOK, NEW r \in Runs, WriteLs(r) \/ WriteCert(r)
  PROVE  /\ run' \in [Runs -> Run] /\ \A q \in Runs \ {r} : run'[q] = run[q]
         /\ run'[r].version = run[r].version
         /\ run'[r].from = run[r].from /\ run'[r].synced = run[r].synced
         /\ WriteLs(r) => run'[r].pc = "cert" /\ run'[r].copied = run[r].copied \cup {"ls"}
         /\ WriteCert(r) => run'[r].pc = AfterCert(r) /\ run'[r].copied = run[r].copied \cup {"cert"}
<1>1. run[r] \in Run /\ run \in [Runs -> Run] /\ AfterCert(r) \in PCs /\ "cert" \in PCs
  BY DEF TypeOK, AfterCert, PCs
<1>2. ASSUME NEW pc \in PCs, NEW f \in {"ls", "cert"},
             run' = [run EXCEPT ![r].pc = pc, ![r].copied = @ \cup {f}]
      PROVE  /\ run' \in [Runs -> Run] /\ \A q \in Runs \ {r} : run'[q] = run[q]
             /\ run'[r].version = run[r].version
             /\ run'[r].from = run[r].from /\ run'[r].synced = run[r].synced
             /\ run'[r].pc = pc /\ run'[r].copied = run[r].copied \cup {f}
  <2>. DEFINE n == [run[r] EXCEPT !.pc = pc, !.copied = run[r].copied \cup {f}]
  <2>1. run' = [run EXCEPT ![r] = n]
    BY <1>2
  <2>2. /\ n \in Run /\ n.version = run[r].version /\ n.from = run[r].from
        /\ n.synced = run[r].synced /\ n.pc = pc /\ n.copied = run[r].copied \cup {f}
    BY <1>1 DEF Run
  <2>. HIDE DEF n
  <2>. QED
    BY <1>1, <2>1, <2>2
<1>3. WriteLs(r) => run' = [run EXCEPT ![r].pc = "cert", ![r].copied = @ \cup {"ls"}]
  BY DEF WriteLs
<1>4. WriteCert(r) => run' = [run EXCEPT ![r].pc = AfterCert(r), ![r].copied = @ \cup {"cert"}]
  BY DEF WriteCert
<1>5. ~(WriteLs(r) /\ WriteCert(r))
  BY DEF WriteLs, WriteCert
<1>6. CASE WriteLs(r)
  BY <1>1, <1>2, <1>3, <1>5, <1>6
<1>7. CASE WriteCert(r)
  BY <1>1, <1>2, <1>4, <1>5, <1>7
<1>. QED
  BY <1>6, <1>7

\* The release counts once its files are there.
LEMMA RemoveFields ==
  ASSUME TypeOK, NEW r \in Runs, Remove(r)
  PROVE  /\ run' \in [Runs -> Run] /\ \A q \in Runs \ {r} : run'[q] = run[q]
         /\ run[r].pc = "remove" /\ run'[r].pc = "finish" /\ run'[r].version = Latest
         /\ run'[r].synced /\ run'[r].copied = run[r].copied
<1>1. run[r] \in Run /\ run \in [Runs -> Run] /\ Latest \in Versions /\ "finish" \in PCs
  BY VersionAssumption DEF TypeOK, PCs
<1>. DEFINE n == [run[r] EXCEPT !.pc = "finish", !.version = Latest, !.synced = TRUE]
<1>2. run' = [run EXCEPT ![r] = n]
  BY DEF Remove
<1>3. n \in Run /\ n.pc = "finish" /\ n.version = Latest /\ n.synced /\ n.copied = run[r].copied
  BY <1>1 DEF Run
<1>. HIDE DEF n
<1>. QED
  BY <1>1, <1>2, <1>3 DEF Remove

\* What is left of a run that has ended.
LEMMA EndFields ==
  ASSUME TypeOK, NEW r \in Runs, Fails(r) \/ Succeed(r)
  PROVE  /\ run' \in [Runs -> Run] /\ \A q \in Runs \ {r} : run'[q] = run[q]
         /\ run'[r].pc \in {"failed", "ok"}
BY FreshTypes DEF Fails, Succeed, TypeOK

-----------------------------------------------------------------------------
\* Steps that move their run on to the files.
Fetching(r) == Clear(r) \/ OpenPackage(r) \/ Fetch(r) \/ Unpack(r)
Opening(r) == CopyLs(r) \/ CopyCert(r)
Skipping(r) == SkipLs(r) \/ SkipCert(r)

\* What these are called in the specification.
LEMMA Steps ==
  ASSUME NEW r \in Runs, Provisioning(r)
  PROVE  \/ Begin(r) \/ Look(r) \/ Lookup(r) \/ Fetching(r) \/ Opening(r) \/ Skipping(r)
         \/ WriteLs(r) \/ WriteCert(r) \/ Remove(r) \/ Finish(r) \/ WriteConfig(r)
         \/ Succeed(r) \/ Fails(r)
BY DEF Provisioning, Fetching, Opening, Skipping, StepFails, LackAssets

\* Where these steps lead.
LEMMA MoveFields ==
  ASSUME TypeOK, NEW r \in Runs,
         Fetching(r) \/ Opening(r) \/ Skipping(r) \/ Finish(r) \/ WriteConfig(r)
  PROVE  /\ run' \in [Runs -> Run] /\ \A q \in Runs \ {r} : run'[q] = run[q]
         /\ run'[r].version = run[r].version
         /\ run'[r].from = run[r].from /\ run'[r].synced = run[r].synced
         /\ run'[r].copied = run[r].copied
         /\ Fetching(r) => /\ run[r].pc \in {"clear", "open", "fetch", "unpack"}
                           /\ run'[r].pc \in {"open", "fetch", "unpack", "ls"}
         /\ CopyLs(r) => run[r].pc = "ls" /\ run'[r].pc = "ls_write"
         /\ CopyCert(r) => run[r].pc = "cert" /\ run'[r].pc = "cert_write"
         /\ SkipLs(r) => run[r].pc = "ls" /\ run'[r].pc = "cert"
         /\ SkipCert(r) => run[r].pc = "cert" /\ run'[r].pc = AfterCert(r)
         /\ Finish(r) => run[r].pc = "finish" /\ run'[r].pc \in {"write", "check"}
         /\ WriteConfig(r) => run[r].pc = "write" /\ run'[r].pc = "check"
<1>1. ASSUME NEW pc \in PCs, Goto(r, pc)
      PROVE  /\ run' \in [Runs -> Run] /\ \A q \in Runs \ {r} : run'[q] = run[q]
             /\ run'[r].pc = pc /\ run'[r].version = run[r].version
             /\ run'[r].from = run[r].from /\ run'[r].synced = run[r].synced
             /\ run'[r].copied = run[r].copied
  BY <1>1, GotoFields
<1>2. Fetching(r) => /\ run[r].pc \in {"clear", "open", "fetch", "unpack"}
                     /\ \E pc \in {"open", "fetch", "unpack", "ls"} : Goto(r, pc)
  BY DEF Fetching, Clear, OpenPackage, Fetch, Unpack
<1>3. CopyLs(r) => run[r].pc = "ls" /\ Goto(r, "ls_write")
  BY DEF CopyLs
<1>4. CopyCert(r) => run[r].pc = "cert" /\ Goto(r, "cert_write")
  BY DEF CopyCert
<1>5. SkipLs(r) => run[r].pc = "ls" /\ Goto(r, "cert")
  BY DEF SkipLs
<1>6. SkipCert(r) => run[r].pc = "cert" /\ Goto(r, AfterCert(r))
  BY DEF SkipCert
<1>7. Finish(r) => run[r].pc = "finish" /\ (Goto(r, "write") \/ Goto(r, "check"))
  BY DEF Finish
<1>8. WriteConfig(r) => run[r].pc = "write" /\ Goto(r, "check")
  BY DEF WriteConfig
<1>9. /\ {"open", "fetch", "unpack", "ls", "ls_write", "cert_write", "cert", "write", "check"} \subseteq PCs
      /\ AfterCert(r) \in PCs
  BY DEF PCs, AfterCert
<1>10. \E pc \in PCs : Goto(r, pc)
  BY <1>2, <1>3, <1>4, <1>5, <1>6, <1>7, <1>8, <1>9 DEF Opening, Skipping
<1>. QED
  BY <1>1, <1>2, <1>3, <1>4, <1>5, <1>6, <1>7, <1>8, <1>9, <1>10

\* What is copied is a version.
LEMMA SourceType ==
  ASSUME TypeOK, NEW r \in Runs
  PROVE  Source(r) \in Versions
<1>1. run[r].from \in Paths \cup {None}
  BY DEF TypeOK, Run
<1>. QED
  BY <1>1, VersionAssumption DEF Source

\* Every step of a run moves its run only.
LEMMA RunMoves ==
  ASSUME TypeOK, NEW r \in Runs, Provisioning(r)
  PROVE  run' \in [Runs -> Run] /\ \A q \in Runs \ {r} : run'[q] = run[q]
BY Steps, BeginFields, LookFields, LookupFields, MoveFields, WriteFields, RemoveFields, EndFields

\* Every step of a run is one.
LEMMA ProvisioningTypes ==
  ASSUME TypeOK, NEW r \in Runs, Provisioning(r)
  PROVE  RunStep(r)
<1>1. run' \in [Runs -> Run] /\ \A q \in Runs \ {r} : run'[q] = run[q]
  BY RunMoves
<1>2. CASE Fails(r)
  BY <1>2, FailsTypes
<1>3. CASE Begin(r)
  <2>1. clean' \in [Runs -> BOOLEAN]
    BY <1>3 DEF Begin, TypeOK
  <2>2. Told("busy") /\ UNCHANGED <<settingsVars, assetVars, bootVars>>
    BY <1>3, EmitTells DEF Begin
  <2>. QED
    BY <1>1, <2>1, <2>2 DEF RunStep, TypeOK, assetVars, bootVars, Event
<1>4. CASE Look(r) \/ Lookup(r) \/ Skipping(r)
  <2>1. UNCHANGED <<settingsVars, assetVars, bootVars, pageVars, clean>>
    BY <1>4 DEF Look, Lookup, Skipping, SkipLs, SkipCert
  <2>. QED
    BY <1>1, <2>1 DEF RunStep, TypeOK, assetVars, bootVars
<1>5. CASE Fetching(r) \/ Remove(r)
  <2>1. UNCHANGED <<settingsVars, ls, cert, config, bootVars, pageVars, clean>>
    BY <1>5 DEF Fetching, Clear, OpenPackage, Fetch, Unpack, Remove
  <2>2. work' \in [is : {"absent", "empty", "partial", "package", "unpacked"}, by : Runs \cup {None}]
    BY <1>5 DEF Fetching, Clear, OpenPackage, Fetch, Unpack, Remove, TypeOK
  <2>. QED
    BY <1>1, <2>1, <2>2 DEF RunStep, TypeOK, bootVars
<1>6. CASE Opening(r) \/ WriteLs(r) \/ WriteCert(r)
  <2>1. UNCHANGED <<settingsVars, config, work, bootVars, pageVars>>
    BY <1>6 DEF Opening, CopyLs, CopyCert, WriteLs, WriteCert
  <2>2. ls' \in {ls, Torn, Source(r)} /\ cert' \in {cert, Torn, Source(r)}
    BY <1>6 DEF Opening, CopyLs, CopyCert, WriteLs, WriteCert
  <2>3. clean' \in [Runs -> BOOLEAN]
    BY <1>6 DEF Opening, CopyLs, CopyCert, WriteLs, WriteCert, Opened, TypeOK
  <2>. QED
    BY <1>1, <2>1, <2>2, <2>3, SourceType DEF RunStep, TypeOK, File, bootVars
<1>7. CASE Finish(r)
  <2>1. Told("busy") /\ UNCHANGED <<settingsVars, ls, cert, work, bootVars>>
    BY <1>7, EmitTells DEF Finish
  <2>2. config' \in {config, Torn} /\ clean' \in [Runs -> BOOLEAN]
    BY <1>7 DEF Finish, Opened, TypeOK
  <2>. QED
    BY <1>1, <2>1, <2>2 DEF RunStep, TypeOK, File, bootVars, Event
<1>8. CASE WriteConfig(r)
  <2>1. UNCHANGED <<settingsVars, ls, cert, work, bootVars, pageVars, clean>>
    BY <1>8 DEF WriteConfig
  <2>2. config' \in Versions
    BY <1>8 DEF WriteConfig, TypeOK, Run
  <2>. QED
    BY <1>1, <2>1, <2>2 DEF RunStep, TypeOK, File, bootVars
<1>9. CASE Succeed(r)
  <2>1. Told("completed") /\ UNCHANGED <<settingsVars, assetVars, crashes>>
    BY <1>9, EmitTells DEF Succeed
  <2>2. boot' \in {boot, "assets"} /\ clean' \in [Runs -> BOOLEAN]
    BY <1>9 DEF Succeed, TypeOK
  <2>. QED
    BY <1>1, <2>1, <2>2 DEF RunStep, TypeOK, assetVars, Event
<1>. QED
  BY <1>2, <1>3, <1>4, <1>5, <1>6, <1>7, <1>8, <1>9, Steps

\* The start of a run: by the boot task, by a click on the page or by another client.
Starts(r) ==
  /\ run[r].pc = "idle"
  /\ \E how \in {"auto", "force_remote", "local_only"} :
       run' = [run EXCEPT ![r].pc = "begin", ![r].strategy = how]
  /\ UNCHANGED <<settingsVars, assetVars, bootVars, clean, last, unread, lagged, ends>>
  /\ \/ UNCHANGED <<page, shows>>
     \/ page' = "posted" /\ shows' = "busy"

PageStep == Subscribe \/ Replay \/ Replayed \/ Hear \/ LagOut

\* A step is one of the settings, of a run, of the page, or the start of a run, the rest of
\* the boot task or a death.
LEMMA StepKinds ==
  ASSUME TypeOK, [Next]_vars
  PROVE  \/ SettingsNext /\ UNCHANGED <<assetVars, run, bootVars, pageVars, clean>>
         \/ \E r \in Runs : Starts(r) \/ Provisioning(r)
         \/ Provide \/ Crash \/ PageStep
         \/ UNCHANGED vars
<1>1. ASSUME StartBoot PROVE Starts(Boot)
  <2>1. run[Boot] \in Run /\ run \in [Runs -> Run] /\ run' = [run EXCEPT ![Boot].pc = "begin"]
    BY <1>1 DEF StartBoot, Goto, TypeOK, Runs
  <2>2. run' = [run EXCEPT ![Boot].pc = "begin", ![Boot].strategy = run[Boot].strategy]
    BY <2>1 DEF Run
  <2>3. run[Boot].strategy \in {"auto", "force_remote", "local_only"}
    BY <2>1 DEF Run
  <2>. QED
    BY <1>1, <2>2, <2>3 DEF StartBoot, Starts, pageVars
<1>2. ASSUME NEW s \in Syncs, Click(s) \/ Post(s) PROVE Starts(s)
  BY <1>2 DEF Click, Post, Starts, pageVars
<1>. QED
  BY <1>1, <1>2 DEF Next, PageStep, Runs

\* A run that starts is of its type.
LEMMA StartTypes ==
  ASSUME TypeOK, NEW r \in Runs, Starts(r)
  PROVE  /\ run' \in [Runs -> Run]
         /\ \A q \in Runs \ {r} : run'[q] = run[q]
         /\ run'[r].pc = "begin"
         /\ run'[r].from = run[r].from /\ run'[r].synced = run[r].synced
         /\ run'[r].copied = run[r].copied
<1>1. run[r] \in Run /\ run \in [Runs -> Run]
  BY DEF TypeOK
<1>2. PICK how \in {"auto", "force_remote", "local_only"} :
        run' = [run EXCEPT ![r].pc = "begin", ![r].strategy = how]
  BY DEF Starts
<1>3. [run[r] EXCEPT !.pc = "begin", !.strategy = how] \in Run
  BY <1>1 DEF Run, PCs
<1>4. run'[r] = [run[r] EXCEPT !.pc = "begin", !.strategy = how]
  BY <1>1, <1>2
<1>. QED
  BY <1>1, <1>2, <1>3, <1>4 DEF Run

\* The page keeps its types.
LEMMA PageTypes ==
  ASSUME TypeOK, PageStep
  PROVE  TypeOK'
<1>1. UNCHANGED <<settingsVars, assetVars, run, bootVars, last, clean>>
  BY DEF PageStep, Subscribe, Replay, Replayed, Hear, LagOut, Close
<1>2. /\ page' \in {"closed", "posted", "subscribed", "replaying", "open"}
      /\ lagged' \in BOOLEAN /\ ends' \in BOOLEAN
  BY DEF PageStep, Subscribe, Replay, Replayed, Hear, LagOut, Close, TypeOK
<1>3. unread' \in Seq(Event) /\ Len(unread') <= Capacity
  <2>1. unread \in Seq(Event) /\ Len(unread) <= Capacity
    BY DEF TypeOK
  <2>2. \/ unread' = unread
        \/ unread' = <<>>
        \/ unread # <<>> /\ unread' = Tail(unread)
    <3>1. CASE Replay
      BY <3>1 DEF Replay, Close, TypeOK
    <3>2. CASE Hear
      <4>1. CASE Head(unread) = "busy"
        BY <3>2, <4>1 DEF Hear
      <4>2. CASE Head(unread) # "busy"
        BY <3>2, <4>2 DEF Hear, Close
      <4>. QED
        BY <4>1, <4>2
    <3>3. CASE Subscribe \/ Replayed \/ LagOut
      BY <3>3 DEF Subscribe, Replayed, LagOut, Close
    <3>. QED
      BY <3>1, <3>2, <3>3 DEF PageStep
  <2>3. CASE unread' = unread
    BY <2>1, <2>3
  <2>4. CASE unread' = <<>>
    <3>1. Len(<<>>) = 0 /\ <<>> \in Seq(Event)
      OBVIOUS
    <3>. QED
      BY <2>4, <3>1, BoundsAssumption
  <2>5. CASE unread # <<>> /\ unread' = Tail(unread)
    <3>1. Tail(unread) \in Seq(Event) /\ Len(Tail(unread)) = Len(unread) - 1 /\ Len(unread) \in Nat
      BY <2>1, <2>5
    <3>. QED
      BY <2>1, <2>5, <3>1, BoundsAssumption
  <2>. QED
    BY <2>2, <2>3, <2>4, <2>5
<1>4. shows' \in Event \cup {"idle"}
  <2>1. unread # <<>> => Head(unread) \in Event
    BY DEF TypeOK
  <2>. QED
    BY <2>1 DEF PageStep, Subscribe, Replay, Replayed, Hear, LagOut, Close, TypeOK, Event
<1>5. SettingsTypeOK'
  BY <1>1, KeepSettings DEF TypeOK
<1>. QED
  BY <1>1, <1>2, <1>3, <1>4, <1>5 DEF TypeOK, assetVars, bootVars

\* A death leaves the files and ends everything else.
LEMMA CrashTypes ==
  ASSUME TypeOK, Crash
  PROVE  TypeOK'
<1>1. SettingsTypeOK'
  BY RestartSettings DEF Crash, TypeOK
<1>2. crashes' \in 0 .. MaxEvents
  <2>1. crashes \in Nat /\ Events \in Nat /\ crashes <= Events
    BY EventsType, BoundsAssumption DEF TypeOK
  <2>2. Events < MaxEvents /\ crashes' = crashes + 1
    BY DEF Crash
  <2>. QED
    BY <2>1, <2>2, BoundsAssumption
<1>3. run' \in [Runs -> Run]
  BY FreshTypes DEF Crash, TypeOK
<1>4. clean' \in [Runs -> BOOLEAN]
  BY DEF Crash
<1>5. /\ boot' = "off" /\ last' = None /\ page' = "closed" /\ shows' = "idle"
      /\ unread' = <<>> /\ lagged' = FALSE /\ ends' = FALSE
      /\ UNCHANGED assetVars
  BY DEF Crash, Close
<1>6. unread' \in Seq(Event) /\ Len(unread') <= Capacity
  <2>1. Len(<<>>) = 0 /\ <<>> \in Seq(Event)
    OBVIOUS
  <2>. QED
    BY <1>5, <2>1, BoundsAssumption
<1>. QED
  BY <1>1, <1>2, <1>3, <1>4, <1>5, <1>6 DEF TypeOK, assetVars

\* Every step keeps them.
LEMMA StepTypes == TypeOK /\ [Next]_vars => TypeOK'
<1>. SUFFICES ASSUME TypeOK, [Next]_vars PROVE TypeOK'
  OBVIOUS
<1>0. SettingsTypeOK
  BY DEF TypeOK
<1>1. CASE SettingsNext /\ UNCHANGED <<assetVars, run, bootVars, pageVars, clean>>
  BY <1>0, <1>1, StepSettings DEF TypeOK, assetVars, bootVars, pageVars
<1>2. ASSUME NEW r \in Runs, Starts(r) PROVE TypeOK'
  <2>1. SettingsTypeOK' /\ UNCHANGED <<assetVars, bootVars, clean, last, unread, lagged, ends>>
    BY <1>0, <1>2, KeepSettings DEF Starts
  <2>2. /\ page' \in {"closed", "posted", "subscribed", "replaying", "open"}
        /\ shows' \in Event \cup {"idle"}
    BY <1>2 DEF Starts, TypeOK, Event
  <2>. QED
    BY <1>2, <2>1, <2>2, StartTypes DEF TypeOK, assetVars, bootVars
<1>3. ASSUME NEW r \in Runs, Provisioning(r) PROVE TypeOK'
  <2>1. RunStep(r)
    BY <1>3, ProvisioningTypes
  <2>2. SettingsTypeOK'
    BY <1>0, <2>1, KeepSettings DEF RunStep
  <2>3. /\ last' \in {"busy", "completed", None} /\ unread' \in Seq(Event)
        /\ Len(unread') <= Capacity /\ lagged' \in BOOLEAN /\ ends' \in BOOLEAN
        /\ UNCHANGED <<page, shows>>
    <3>1. CASE UNCHANGED pageVars
      BY <3>1 DEF pageVars, TypeOK
    <3>2. CASE \E e \in Event : Told(e)
      BY <3>2, SendTypes DEF Told
    <3>. QED
      BY <2>1, <3>1, <3>2 DEF RunStep
  <2>. QED
    BY <2>1, <2>2, <2>3 DEF RunStep, TypeOK
<1>4. CASE Provide \/ UNCHANGED vars
  <2>1. /\ UNCHANGED <<settingsVars, assetVars, run, crashes, pageVars, clean>>
        /\ boot' \in {boot, "up", "down"}
    BY <1>4 DEF Provide, vars, bootVars
  <2>. QED
    BY <1>0, <2>1, KeepSettings DEF TypeOK, assetVars, pageVars
<1>. QED
  BY <1>1, <1>2, <1>3, <1>4, StepKinds, CrashTypes, PageTypes

\* Files, runs, the page and the settings keep their types, however runs, calls and
\* deaths interleave; the stream never holds more than it has room for.
THEOREM ProvisionTypes == Spec => []TypeOK
BY InitTypes, StepTypes, PTL DEF Spec

-----------------------------------------------------------------------------
(* What runs make of the files.                                            *)

\* The record of a run fits where it is.
LEMMA RunKeepsShape ==
  ASSUME ShapeInv, NEW r \in Runs, Provisioning(r)
  PROVE  RunShape(r)'
<1>1. TypeOK /\ RunShape(r)
  BY DEF ShapeInv
<1>. USE DEF RunShape, Early, Copying
<1>2. CASE Begin(r)
  BY <1>1, <1>2, BeginFields
<1>3. CASE Look(r)
  BY <1>1, <1>3, LookFields
<1>4. CASE Lookup(r)
  BY <1>1, <1>4, LookupFields
<1>5. CASE Fetching(r)
  BY <1>1, <1>5, MoveFields
<1>6. CASE Opening(r)
  BY <1>1, <1>6, MoveFields DEF Opening
<1>7. CASE Skipping(r)
  BY <1>1, <1>7, MoveFields DEF Skipping, AfterCert
<1>8. CASE WriteLs(r)
  <2>1. run[r].pc = "ls_write"
    BY <1>8 DEF WriteLs
  <2>. QED
    BY <1>1, <1>8, <2>1, WriteFields
<1>9. CASE WriteCert(r)
  <2>1. run'[r].pc \in {"remove", "finish"} /\ (run'[r].pc = "remove" => run'[r].from = None)
    BY <1>1, <1>9, WriteFields DEF AfterCert
  <2>. QED
    BY <2>1
<1>10. CASE Remove(r)
  BY <1>1, <1>10, RemoveFields
<1>11. CASE Finish(r) \/ WriteConfig(r)
  BY <1>1, <1>11, MoveFields
<1>12. CASE Succeed(r) \/ Fails(r)
  BY <1>1, <1>12, EndFields
<1>. QED
  BY <1>2, <1>3, <1>4, <1>5, <1>6, <1>7, <1>8, <1>9, <1>10, <1>11, <1>12, Steps

\* A run keeps its record while others work.
LEMMA OthersKeepShape ==
  ASSUME NEW r \in Runs, RunShape(r), run'[r] = run[r]
  PROVE  RunShape(r)'
BY DEF RunShape

\* Every step keeps the records fitting.
LEMMA StepShape == ShapeInv /\ [Next]_vars => ShapeInv'
<1>. SUFFICES ASSUME ShapeInv, [Next]_vars, NEW r \in Runs PROVE RunShape(r)'
  BY StepTypes DEF ShapeInv
<1>. USE DEF ShapeInv
<1>1. ASSUME run' = run PROVE RunShape(r)'
  BY <1>1, OthersKeepShape
<1>2. ASSUME NEW q \in Runs, Provisioning(q) PROVE RunShape(r)'
  <2>1. q # r => run'[r] = run[r]
    BY <1>2, RunMoves
  <2>. QED
    BY <1>2, <2>1, RunKeepsShape, OthersKeepShape
<1>3. ASSUME NEW q \in Runs, Starts(q) PROVE RunShape(r)'
  <2>1. CASE q = r
    <3>1. run[r].pc = "idle" /\ RunShape(r)
      BY <1>3, <2>1 DEF Starts
    <3>. QED
      BY <1>3, <2>1, <3>1, StartTypes DEF RunShape, Early, Copying
  <2>2. CASE q # r
    BY <1>3, <2>2, StartTypes, OthersKeepShape
  <2>. QED
    BY <2>1, <2>2
<1>4. CASE Crash
  <2>1. run'[r] \in {Fresh, Failed}
    BY <1>4 DEF Crash
  <2>. QED
    BY <2>1, FreshTypes DEF RunShape, Early, Copying
<1>5. CASE Provide \/ PageStep \/ UNCHANGED vars
  BY <1>5, <1>1 DEF Provide, PageStep, Subscribe, Replay, Replayed, Hear, LagOut, vars
<1>. QED
  BY <1>1, <1>2, <1>3, <1>4, <1>5, StepKinds

\* A step of a run opens a file, fills one it has open, or leaves the files.
LEMMA StepFiles ==
  ASSUME TypeOK, NEW r \in Runs, Provisioning(r)
  PROVE  \/ Opened(r)
         \/ Filling(r) /\ ~Filling(r)' /\ clean' = clean
         \/ /\ ~Filling(r)' /\ UNCHANGED <<ls, cert, config>>
            /\ \/ clean' = clean
               \/ \E b \in BOOLEAN : /\ clean' = [clean EXCEPT ![r] = b]
                                     /\ b => \A q \in Runs \ {r} : ~Filling(q)
<1>. USE DEF Filling
<1>1. CASE Begin(r)
  <2>1. /\ clean' = [clean EXCEPT ![r] = \A q \in Runs \ {r} : ~Filling(q)]
        /\ UNCHANGED <<ls, cert, config>> /\ run'[r].pc = "look"
    BY <1>1, BeginFields DEF Begin, assetVars
  <2>2. (\A q \in Runs \ {r} : ~Filling(q)) \in BOOLEAN
    OBVIOUS
  <2>. QED
    BY <2>1, <2>2
<1>2. CASE Look(r) \/ Lookup(r) \/ Fetching(r) \/ Skipping(r) \/ Remove(r)
  <2>1. UNCHANGED <<ls, cert, config, clean>>
    BY <1>2 DEF Look, Lookup, Fetching, Clear, OpenPackage, Fetch, Unpack, Skipping, SkipLs, SkipCert,
                Remove, assetVars
  <2>2. run'[r].pc \notin {"ls_write", "cert_write", "write"}
    BY <1>2, LookFields, LookupFields, MoveFields, RemoveFields DEF Skipping, AfterCert
  <2>. QED
    BY <2>1, <2>2
<1>3. CASE Opening(r)
  BY <1>3 DEF Opening, CopyLs, CopyCert
<1>4. CASE WriteLs(r) \/ WriteCert(r) \/ WriteConfig(r)
  <2>1. run[r].pc \in {"ls_write", "cert_write", "write"} /\ clean' = clean
    BY <1>4 DEF WriteLs, WriteCert, WriteConfig
  <2>2. run'[r].pc \in {"cert", "remove", "finish", "check"}
    BY <1>4, WriteFields, MoveFields DEF AfterCert
  <2>. QED
    BY <2>1, <2>2
<1>5. CASE Finish(r)
  <2>1. Opened(r) \/ (Goto(r, "check") /\ UNCHANGED <<ls, cert, config, clean>>)
    BY <1>5 DEF Finish
  <2>. QED
    BY <2>1, GotoFields DEF PCs
<1>6. CASE Succeed(r) \/ Fails(r)
  <2>1. UNCHANGED <<ls, cert, config>> /\ clean' = [clean EXCEPT ![r] = FALSE]
    BY <1>6 DEF Succeed, Fails, assetVars
  <2>2. run'[r].pc \in {"failed", "ok"}
    BY <1>6, EndFields
  <2>. QED
    BY <2>1, <2>2
<1>. QED
  BY <1>1, <1>2, <1>3, <1>4, <1>5, <1>6, Steps

\* A run that stays by itself finds the files as it left them.
LEMMA OthersLeave ==
  ASSUME HealInv, NEW r \in Runs, Provisioning(r), NEW q \in Runs \ {r}, clean'[q]
  PROVE  clean[q] /\ run'[q] = run[q] /\ ~Filling(r)' /\ UNCHANGED <<ls, cert, config>>
<1>1. TypeOK /\ clean \in [Runs -> BOOLEAN]
  BY DEF HealInv, ShapeInv, TypeOK
<1>2. run'[q] = run[q]
  BY <1>1, RunMoves
<1>3. ~Opened(r)
  BY DEF Opened
<1>4. clean'[q] = clean[q]
  BY <1>1, <1>3, StepFiles
<1>5. ~Filling(r)
  BY <1>4 DEF HealInv, CleanInv
<1>. QED
  BY <1>1, <1>2, <1>3, <1>4, <1>5, StepFiles

\* A step of a run leaves nobody by himself whom it disturbs.
LEMMA RunKeepsClean ==
  ASSUME HealInv, NEW r \in Runs, Provisioning(r)
  PROVE  CleanInv'
<1>1. TypeOK /\ clean \in [Runs -> BOOLEAN] /\ \A q \in Runs \ {r} : run'[q] = run[q]
  BY RunMoves DEF HealInv, ShapeInv, TypeOK
<1>2. ASSUME clean'[r] PROVE \A q \in Runs \ {r} : ~Filling(q)'
  <2>1. \A q \in Runs \ {r} : ~Filling(q)
    <3>1. clean[r] \/ \A q \in Runs \ {r} : ~Filling(q)
      BY <1>1, <1>2, StepFiles DEF Opened
    <3>. QED
      BY <3>1 DEF HealInv, CleanInv
  <2>. QED
    BY <1>1, <2>1 DEF Filling
<1>3. ASSUME NEW q \in Runs \ {r}, clean'[q] PROVE \A s \in Runs \ {q} : ~Filling(s)'
  <2>1. clean[q] /\ ~Filling(r)'
    BY <1>3, OthersLeave
  <2>2. \A s \in Runs \ {q} : ~Filling(s)
    BY <2>1 DEF HealInv, CleanInv
  <2>. QED
    BY <1>1, <2>1, <2>2 DEF Filling
<1>. QED
  BY <1>2, <1>3 DEF CleanInv

\* A run by itself brings the files to the version of its source, one after the other.
LEMMA RunHeals ==
  ASSUME HealInv, NEW r \in Runs, Provisioning(r), clean'[r]
  PROVE  Heals(r)'
<1>1. TypeOK /\ RunShape(r) /\ clean \in [Runs -> BOOLEAN]
  BY DEF HealInv, ShapeInv, TypeOK
<1>. USE DEF Heals, CopiedBoth
<1>2. CASE Begin(r)
  BY <1>1, <1>2, BeginFields
<1>3. ASSUME ~Begin(r) PROVE clean[r] /\ Heals(r)
  <2>1. CASE Opened(r)
    BY <2>1 DEF Opened, HealInv
  <2>2. CASE clean' = clean
    BY <2>2 DEF HealInv
  <2>3. CASE Succeed(r) \/ Fails(r)
    BY <1>1, <2>3 DEF Succeed, Fails
  <2>. QED
    BY <1>3, <2>1, <2>2, <2>3, Steps
       DEF Look, Lookup, Fetching, Clear, OpenPackage, Fetch, Unpack, Opening, CopyLs, CopyCert,
           Skipping, SkipLs, SkipCert, WriteLs, WriteCert, WriteConfig, Finish, Remove
<1>4. CASE Look(r) \/ Lookup(r) \/ Fetching(r)
  <2>1. /\ run'[r].pc \notin {"cert", "cert_write", "remove", "write", "check"}
        /\ run'[r].copied = {}
    BY <1>1, <1>4, LookFields, LookupFields, MoveFields DEF RunShape, Early
  <2>. QED
    BY <2>1
<1>5. CASE CopyLs(r)
  <2>1. run'[r].pc = "ls_write"
    BY <1>1, <1>5, MoveFields DEF Opening
  <2>. QED
    BY <2>1
<1>6. CASE SkipLs(r)
  <2>1. run'[r].pc = "cert" /\ run'[r].copied = {}
    BY <1>1, <1>6, MoveFields DEF Skipping, RunShape
  <2>. QED
    BY <2>1
<1>7. CASE WriteLs(r)
  <2>1. run'[r].pc = "cert" /\ run'[r].from = run[r].from
    BY <1>1, <1>7, WriteFields
  <2>2. ls' = Source(r)
    BY <1>7 DEF WriteLs
  <2>3. Source(r)' = Source(r)
    BY <2>1 DEF Source
  <2>. QED
    BY <2>1, <2>2, <2>3
<1>8. CASE CopyCert(r)
  <2>1. ~Begin(r) /\ ls' = ls
    BY <1>8 DEF CopyCert, Begin
  <2>2. /\ run[r].pc = "cert" /\ run'[r].pc = "cert_write"
        /\ run'[r].copied = run[r].copied /\ Source(r)' = Source(r)
    BY <1>1, <1>8, MoveFields DEF Opening, Source
  <2>. QED
    BY <1>3, <2>1, <2>2
<1>9. CASE SkipCert(r)
  <2>1. run'[r].pc \in {"remove", "finish"} /\ "cert" \notin run'[r].copied
    BY <1>1, <1>9, MoveFields DEF Skipping, RunShape, AfterCert
  <2>. QED
    BY <2>1
<1>10. CASE WriteCert(r)
  <2>1. /\ run[r].pc = "cert_write" /\ ~Begin(r) /\ ls' = ls /\ cert' = Source(r)
    BY <1>10 DEF WriteCert, Begin
  <2>2. /\ run'[r].pc = AfterCert(r) /\ run'[r].copied = run[r].copied \cup {"cert"}
        /\ run'[r].version = run[r].version /\ run'[r].synced = run[r].synced
    BY <1>1, <1>10, WriteFields
  <2>3. "ls" \in run[r].copied => ls = Source(r)
    BY <1>3, <2>1
  <2>4. CASE run[r].from = None
    <3>1. Source(r) = Latest /\ run'[r].pc = "remove"
      BY <2>2, <2>4 DEF Source, AfterCert
    <3>. QED
      BY <2>1, <2>2, <2>3, <3>1
  <2>5. CASE run[r].from # None
    <3>1. Source(r) = run[r].version /\ run[r].synced /\ run'[r].pc = "finish"
      BY <1>1, <2>1, <2>2, <2>5 DEF Source, AfterCert, RunShape, Copying
    <3>. QED
      BY <2>1, <2>2, <2>3, <3>1
  <2>. QED
    BY <2>4, <2>5
<1>11. CASE Remove(r)
  <2>1. ~Begin(r) /\ UNCHANGED <<ls, cert>>
    BY <1>11 DEF Remove, Begin
  <2>. QED
    BY <1>1, <1>3, <1>11, <2>1, RemoveFields
<1>12. CASE Finish(r)
  <2>1. ~Begin(r) /\ UNCHANGED <<ls, cert>>
    BY <1>12 DEF Finish, Begin
  <2>2. /\ run[r].pc = "finish" /\ run'[r].pc \in {"write", "check"}
        /\ run'[r].version = run[r].version /\ run'[r].synced = run[r].synced
        /\ run'[r].copied = run[r].copied
    BY <1>1, <1>12, MoveFields
  <2>3. ASSUME CopiedBoth(r) PROVE run'[r].pc = "write"
    <3>1. run[r].synced /\ ls = run[r].version /\ cert = run[r].version
      BY <1>3, <2>1, <2>2, <2>3
    <3>2. run[r].version # None
      BY <1>1, VersionAssumption DEF TypeOK, Run
    <3>3. ~Missing
      BY <3>1, <3>2 DEF Missing
    <3>4. Goto(r, "write")
      BY <1>12, <3>1, <3>3 DEF Finish
    <3>. QED
      BY <1>1, <3>4, GotoFields DEF PCs
  <2>. QED
    BY <1>3, <2>1, <2>2, <2>3
<1>13. CASE WriteConfig(r)
  <2>1. ~Begin(r) /\ UNCHANGED <<ls, cert>> /\ config' = run[r].version
    BY <1>13 DEF WriteConfig, Begin
  <2>. QED
    BY <1>1, <1>3, <1>13, <2>1, MoveFields
<1>14. CASE Succeed(r) \/ Fails(r)
  BY <1>1, <1>14, EndFields
<1>. QED
  BY <1>2, <1>4, <1>5, <1>6, <1>7, <1>8, <1>9, <1>10, <1>11, <1>12, <1>13, <1>14, Steps
     DEF Opening, Skipping

\* Every step keeps it.
LEMMA StepHeals == HealInv /\ [Next]_vars => HealInv'
<1>. SUFFICES ASSUME HealInv, [Next]_vars PROVE HealInv'
  OBVIOUS
<1>0. ShapeInv' /\ TypeOK
  BY StepShape DEF HealInv, ShapeInv
<1>1. ASSUME run' = run, UNCHANGED <<assetVars, clean>> PROVE HealInv'
  <2>1. \A r \in Runs : Source(r)' = Source(r)
    BY <1>1 DEF Source
  <2>. QED
    BY <1>0, <1>1, <2>1 DEF HealInv, CleanInv, Filling, Heals, CopiedBoth, assetVars
<1>2. ASSUME NEW r \in Runs, Starts(r) PROVE HealInv'
  <2>1. /\ UNCHANGED <<assetVars, clean>> /\ run'[r].pc = "begin"
        /\ \A q \in Runs \ {r} : run'[q] = run[q]
    BY <1>0, <1>2, StartTypes DEF Starts
  <2>2. CleanInv'
    BY <2>1 DEF HealInv, CleanInv, Filling
  <2>3. Heals(r)'
    BY <2>1 DEF Heals
  <2>4. ASSUME NEW q \in Runs \ {r}, clean'[q] PROVE Heals(q)'
    <3>1. Heals(q) /\ run'[q] = run[q] /\ Source(q)' = Source(q)
      BY <2>1, <2>4 DEF HealInv, Source
    <3>. QED
      BY <2>1, <3>1 DEF Heals, CopiedBoth, assetVars
  <2>. QED
    BY <1>0, <2>2, <2>3, <2>4 DEF HealInv
<1>3. ASSUME NEW r \in Runs, Provisioning(r) PROVE HealInv'
  <2>1. ASSUME NEW q \in Runs \ {r}, clean'[q] PROVE Heals(q)'
    <3>1. clean[q] /\ run'[q] = run[q] /\ UNCHANGED <<ls, cert, config>>
      BY <1>3, <2>1, OthersLeave
    <3>2. Heals(q) /\ Source(q)' = Source(q)
      BY <3>1 DEF HealInv, Source
    <3>. QED
      BY <3>1, <3>2 DEF Heals, CopiedBoth
  <2>. QED
    BY <1>0, <1>3, <2>1, RunKeepsClean, RunHeals DEF HealInv
<1>4. CASE Crash
  <2>1. \A r \in Runs : ~clean'[r]
    BY <1>4 DEF Crash
  <2>. QED
    BY <1>0, <2>1 DEF HealInv, CleanInv
<1>5. CASE Provide \/ PageStep
  BY <1>1, <1>5 DEF Provide, PageStep, Subscribe, Replay, Replayed, Hear, LagOut
<1>6. CASE UNCHANGED vars
  BY <1>1, <1>6 DEF vars
<1>. QED
  BY <1>0, <1>1, <1>2, <1>3, <1>4, <1>5, <1>6, StepKinds

\* A run that has copied both files ends with three files of one version, whatever was
\* there before it and while others look, fetch and empty the shared work directory, unless
\* another run had one of the three files open meanwhile.
THEOREM RunsAlign == Spec => []CopiesAlign
<1>1. Init => HealInv
  <2>. SUFFICES ASSUME Init PROVE HealInv
    OBVIOUS
  <2>1. \A r \in Runs : run[r] = Fresh /\ ~clean[r]
    BY DEF Init
  <2>. QED
    BY <2>1, InitTypes, FreshTypes
       DEF HealInv, ShapeInv, RunShape, CleanInv, Early, Copying
<1>2. HealInv => CopiesAlign
  BY DEF HealInv, Heals, CopiedBoth, CopiesAlign
<1>. QED
  BY <1>1, <1>2, StepHeals, PTL DEF Spec

-----------------------------------------------------------------------------
(* The page.                                                               *)

\* An event takes no end away, and an end that is announced to the page waits for it.
LEMMA SendKeeps ==
  ASSUME TypeOK, NEW e \in Event, Send(e), ends => EndWaits
  PROVE  ends' => EndWaits'
<1>1. /\ unread' = IF Subscribed /\ Len(unread) # Capacity THEN Append(unread, e) ELSE unread
      /\ lagged' = (lagged \/ (Subscribed /\ Len(unread) = Capacity))
      /\ ends' = (ends \/ (Subscribed /\ e # "busy"))
  BY DEF Send
<1>2. unread \in Seq(Event) /\ Len(unread) \in Nat
  BY DEF TypeOK
<1>3. CASE lagged'
  BY <1>3 DEF EndWaits
<1>4. CASE ~lagged' /\ unread' = Append(unread, e)
  <2>1. Len(unread') = Len(unread) + 1 /\ unread'[Len(unread) + 1] = e
    BY <1>2, <1>4
  <2>2. \A i \in 1 .. Len(unread) : unread'[i] = unread[i]
    BY <1>2, <1>4
  <2>3. CASE e # "busy"
    <3>1. Len(unread) + 1 \in 1 .. Len(unread')
      BY <1>2, <2>1
    <3>. QED
      BY <2>1, <2>3, <3>1 DEF EndWaits
  <2>4. CASE e = "busy" /\ ends'
    <3>1. ends /\ ~lagged
      BY <1>1, <1>4, <2>4
    <3>2. PICK i \in 1 .. Len(unread) : unread[i] # "busy"
      BY <3>1 DEF EndWaits
    <3>3. i \in 1 .. Len(unread') /\ unread'[i] # "busy"
      BY <1>2, <2>1, <2>2, <3>2
    <3>. QED
      BY <3>3 DEF EndWaits
  <2>. QED
    BY <2>3, <2>4
<1>5. CASE ~lagged' /\ unread' = unread /\ ~Subscribed
  BY <1>1, <1>5 DEF EndWaits
<1>. QED
  BY <1>1, <1>3, <1>4, <1>5

\* Reading an event that is no end leaves the ends that wait.
LEMMA TailKeeps ==
  ASSUME TypeOK, unread # <<>>, Head(unread) = "busy", unread' = Tail(unread), lagged' = lagged,
         EndWaits
  PROVE  EndWaits'
<1>1. unread \in Seq(Event)
  BY DEF TypeOK
<1>2. ASSUME NEW i \in 1 .. Len(unread), unread[i] # "busy"
      PROVE  i - 1 \in 1 .. Len(unread') /\ unread'[i - 1] # "busy"
  <2>1. Head(unread) = unread[1] /\ Len(unread) \in Nat \ {0} /\ Len(Tail(unread)) = Len(unread) - 1
    BY <1>1
  <2>2. i # 1
    BY <1>2, <2>1
  <2>3. i \in 2 .. Len(unread) /\ i - 1 \in 1 .. Len(Tail(unread))
    BY <2>1, <2>2
  <2>4. Tail(unread)[i - 1] = unread[i]
    BY <1>1, <2>3
  <2>. QED
    BY <1>2, <2>3, <2>4
<1>. QED
  BY <1>2 DEF EndWaits

\* The page closes its stream or goes on with the ends that wait.
LEMMA PageHears ==
  ASSUME PageInv, PageStep
  PROVE  PageInv'
<1>. USE DEF PageInv
<1>1. CASE ~ends'
  BY <1>1, PageTypes
<1>2. CASE UNCHANGED <<unread, lagged, ends>>
  BY <1>2, PageTypes DEF EndWaits
<1>3. CASE Hear /\ Head(unread) = "busy"
  <2>1. unread # <<>> /\ unread' = Tail(unread) /\ UNCHANGED <<lagged, ends>>
    BY <1>3 DEF Hear
  <2>. QED
    BY <1>3, <2>1, PageTypes, TailKeeps
<1>4. CASE Hear /\ Head(unread) # "busy"
  <2>1. ends' = FALSE
    BY <1>4 DEF Hear, Close
  <2>. QED
    BY <1>1, <2>1
<1>5. CASE Replay
  <2>1. last \in {"busy", "completed", None} /\ None \notin {"busy", "completed"}
    BY NoneAssumption DEF TypeOK, Event
  <2>2. UNCHANGED <<unread, lagged, ends>> \/ ends' = FALSE
    BY <1>5, <2>1 DEF Replay, Close
  <2>. QED
    BY <1>1, <1>2, <2>2
<1>6. CASE Subscribe \/ Replayed
  BY <1>2, <1>6 DEF Subscribe, Replayed
<1>7. CASE LagOut
  BY <1>1, <1>7 DEF LagOut, Close
<1>. QED
  BY <1>3, <1>4, <1>5, <1>6, <1>7 DEF PageStep

\* Every step keeps the end in store.
LEMMA StepPage == PageInv /\ [Next]_vars => PageInv'
<1>. SUFFICES ASSUME PageInv, [Next]_vars PROVE PageInv'
  OBVIOUS
<1>. USE DEF PageInv
<1>0. TypeOK'
  BY StepTypes
<1>1. ASSUME UNCHANGED <<unread, lagged, ends>> PROVE PageInv'
  BY <1>0, <1>1 DEF EndWaits
<1>2. ASSUME NEW r \in Runs, Provisioning(r) PROVE PageInv'
  <2>1. UNCHANGED pageVars \/ \E e \in Event : Send(e)
    BY <1>2, ProvisioningTypes DEF RunStep, Told
  <2>. QED
    BY <1>0, <1>1, <2>1, SendKeeps DEF pageVars
<1>3. CASE Crash
  BY <1>0, <1>3 DEF Crash, Close
<1>4. ASSUME NEW r \in Runs, Starts(r) PROVE PageInv'
  BY <1>1, <1>4 DEF Starts
<1>5. CASE Provide \/ UNCHANGED vars
             \/ (SettingsNext /\ UNCHANGED <<assetVars, run, bootVars, pageVars, clean>>)
  BY <1>1, <1>5 DEF Provide, vars, pageVars
<1>. QED
  BY <1>2, <1>3, <1>4, <1>5, StepKinds, PageHears

\* No end of a run that was announced since the page subscribed is lost to a page whose
\* stream has not lagged: whoever had the lock on the snapshot, and however many runs.
THEOREM EndsReachThePage == Spec => []EndsAreHeard
<1>1. Init => PageInv
  BY InitTypes DEF Init, PageInv
<1>2. PageInv => EndsAreHeard
  <2>. SUFFICES ASSUME PageInv, unread = <<>>, ~lagged PROVE ~ends
    BY DEF EndsAreHeard
  <2>1. Len(unread) = 0
    OBVIOUS
  <2>. QED
    BY <2>1 DEF EndWaits, PageInv
<1>. QED
  BY <1>1, <1>2, StepPage, PTL DEF Spec

=============================================================================

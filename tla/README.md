# A verification of Antigravity-Tools-LS in TLA+

Antigravity-Tools-LS is a gateway: it takes requests in the OpenAI, Anthropic or Gemini
protocol, routes each to one of several Google accounts, runs a language-server process
(`ls_core`) per account, and translates the answer of its "cascade" back into the protocol of
the client. This directory models the parts of it that are hard to test, checks them with TLC
on small instances, and proves their main invariants with TLAPS for all instances.

Paths are relative to the root of the repository. `PROJECT.json` maps every definition to the
lines it stands for, and lists components, runs, findings, hazards and theorems.

## 1. The system

| Part | Where | State | Operations | Talks to |
|---|---|---|---|---|
| Instance pool | `ls-orchestrator/src/native.rs`, `handlers/instances.rs` | map `instances`, per instance `last_accessed`, `expires_at`, `last_error`, a data directory, a child process | `acquire_instance`, `perform_ttl_cleanup`, `remove_instance`, `update_config`, the renewal task | token endpoint, `ls_core`, extension server |
| Account store | `ls-accounts/src/store.rs` | `accounts/<id>.json`, `accounts.json`, `index`, `token_map`, `refresh_locks` | `upsert_account`, `remove_account`, `update_*`, `reorder_accounts`, `mark_account_as_forbidden`, `get_best_account`, `new` | disk |
| Token resolution | `handlers/mod.rs`, `handlers/auth.rs` | the lock per refresh token | `resolve_access_token`, `get_access_token_full`, `manual_import_account_core` | account store, token endpoint |
| Cascade stream | `cascade/client.rs`, `mappers/engine.rs`, `handlers/chat.rs` | a polling task, a channel of 128 deltas, the transcoding loop, the SSE response | `chat_stream`, `handle_generic_stream`, `run_transcode_loop_with_client`, `handle_protocol_generic` | `ls_core`, pool, store |
| Protocol mappers | `mappers/{anthropic,openai,gemini}.rs`, `tools.rs` | `tool_call_buffer`, `in_tool_call`, `tool_call_index` | `build_prompt`, `map_delta` | cascade stream, client |
| Routing | `handlers/chat.rs:19-70`, `extractors.rs` | none of its own | `AuthContext`, `route_and_resolve` | API keys, account store, Google |
| Quota probes | `handlers/probes.rs`, `lib.rs:200-232` | quota, status and flags in the account files | `refresh_quota_internal` | account store, Google, dashboard |
| Extension server | `ls-orchestrator/src/extension_server.rs` | a watch channel with the token, a queue per subscription | subscription stream, heartbeats | `ls_core`, renewal task |
| API keys | `key_manager.rs`, `handlers/keys.rs` | a list in memory, `api_keys.json` | `create_key`, `update_key`, `delete_key`, `is_valid` | disk, routing |
| Settings | `handlers/settings.rs`, `lib.rs:55-129`, `ide.rs:168-230` | a value in memory, the environment, `app_settings.json` | `PUT /v1/settings`, the detection at the start | disk, provisioner |
| Asset provisioner | `provisioner.rs`, `handlers/provision.rs`, `lib.rs:131-197` | `ls_core`, `cert.pem`, `ls_config.json`, a work directory, `last_sync_event` | `ensure_assets_with_progress`, the sync and its event stream | installed Antigravity, Google, settings page |
| OAuth login | `handlers/auth.rs:37-200, 371-465` | map of pending states | login, callback | Google, store |
| Event streams, logger | `account_events.rs`, `logger.rs` | broadcast channels, a ring of lines | subscribe, push | dashboard |
| IDE switch, version probing, proxy, traffic database, statistics | `ide.rs`, `version.rs`, `proxy.rs`, `traffic_db.rs`, `stats.rs` | files and SQL | I/O in sequence | host |
| Dashboard, desktop shell, installers | `apps/web-dashboard`, `apps/desktop`, `install.*` | – | – | HTTP |

A request goes: `route_and_resolve` picks an account, `resolve_access_token` makes sure of a
token, `acquire_instance` finds or starts a process, `handle_generic_stream` opens the cascade,
a task polls it, the transcoder maps the deltas, the handler writes them out. Everything runs
as tokio tasks on several threads, so any two of these interleave at each `.await`.

What is hard, per part, and what makes it correct:

* **Pool.** Checks and insertion are a process start apart; two identities can share a slot; a
  sweep works on stale ids; Arcs decide how long processes live. Correct: nobody is served by
  a stranger's instance, the pool stays bounded, calls return, idle instances go, and what is
  reclaimed ends.
* **Store.** Account files are read, edited and written without a lock and not atomically; the
  index is a second copy; the process may die anywhere. Correct: the index is well formed,
  rotation is fair, nobody is lost, a ban stays.
* **Token resolution.** Several tasks find the same token expired. Correct: one exchange per
  token at a time, one refresh for all who wait, no lock left behind.
* **Stream.** A poller, a bounded channel, a reader that may go away, calls that fail, a status
  that may be read too early. Correct: the text arrives in order and whole, everything ends,
  and only a denied request costs the account.
* **Mappers.** Deltas cut the text anywhere, also inside tool calls; blocks are numbered from a
  counter. Correct: nothing is lost, the cuts do not matter, the blocks nest, results come back.
* **Routing.** A request looks at the keys twice and at the accounts one after the other, while
  both change. Correct: it is refused only if nobody could serve it, and a key stays a secret.
* **Probes.** A probe decides in two steps, beside other probes and the dashboard; its writes may
  fail; the dashboard loads by requests that overlap. Correct: a ban stays a ban, and the
  dashboard ends up showing what is stored.
* **Token push.** A subscription and a renewal each take several steps. Correct: the process
  ends up with the current token.
* **Keys and settings.** Each lives in two or three places; saves fail, the process dies.
  Correct: what was acknowledged holds.
* **Provisioner.** Three files that belong together, written without a lock by runs that may
  overlap or die; a page that learns of a run from a channel and a snapshot. Correct: a run
  leaves files that belong together, and the page learns of its end.

All hazards, with the line where each bites and the property that watches it, are in
`PROJECT.json` under `hazards`.

## 2. The modules

### InstancePool (`MCInstancePool`, `InstancePoolProofs`)

A request is one call of `acquire_instance`; it starts at most one instance, which has its
name. `pool` is the map, `lease` the Arc a request holds, `renewing` the Arcs of the renewal
tasks, `alive` what has not been dropped. One action is the code between two points where
another task may run:

| Action | Code |
|---|---|
| `Reuse`, `Miss` | the reuse block, with the slot mismatch and the expiry test |
| `Evict` | the write-lock block: removal of the old entry and LRU |
| `Prepare`, `Launch`, `StartFails`, `Ready`, `ProbeTimeout`, `Insert` | the start path and its error returns |
| `Renew`, `RenewalPanics` | the renewal task; the panic is the underflow of `expires_in - 300` |
| `SweepScan`, `SweepRemove` | the TTL task, between whose two locks anything may happen |
| `Remove`, `UpdateConfig` | the HTTP handlers |
| `Finish`, `Cancel` | the stream is through; the client is gone and the future dropped |
| `Age`, `Expire` | time |

Time is kept as the comparisons the code makes: who was accessed before whom (`older`), who is
beyond the idle timeout (`idle`), who is past `expires_at` (`expired`). Dropping an Arc is part
of the step that gives up the last one (`DropUnreferenced`).

`InstanceRegistry` is the abstract pool: a caller gets the instance that stands under its name
and was founded for its identity, or registers its own; entries may vanish at any time. The
refinement mapping is `Registry` in `InstancePool`: `entry` is the map, `using` the lease of a
request that is served, and the whole start path is a stutter until `Insert`.

### AccountStore (`MCAccountStore`, `AccountStoreProofs`)

A task is one call of an operation. `file` and `disk` are the account files and `accounts.json`,
with `Torn` for a file between truncation and the end of the write. Operations share their
shape (read, edit, truncate, fill, edit the index, save it) and differ in `Edited` and
`IndexEdits`. The write lock of the index is held from the edit to the end of the save, as in
the code. `Crash` may strike anywhere, `Restart` is `AccountManager::new`, `CrashInRestart` a
death during its save. `handed` is a history variable: the last accounts handed out. The
candidates of the rotation are the eligible positions of the index in their order (`Ordered`); a
reorder is any order of the listed ids in which the named ones come first (`NamedFirst`), because
the rest come out of a hash map.

### TokenRefresh (`MCTokenRefresh`, `TokenRefreshProofs`)

Callers of `resolve_access_token`, imports and instances that start or renew. The store appears
as the one file that holds the refresh token, which others may write back (`OtherReads`,
`OtherWrites`), remove, or leave half-written. Access tokens are numbered as they are issued.
`refreshed` is a history variable.

### CascadeStream (`AnswerProofs`)

One request. A text is a length, a trajectory the sequence of the lengths of its planner
responses, a delta a piece of one of them. `Poll`, `PollNothing`, `PollFails`, `Send` are the
poller with its exits and its retries; `FirstFrame`, `NextFrame` the transcoder; `Open`,
`OpenFails`, `Refuse`, `Close`, `Disconnect` the handler. The language server is an environment
(`Begin`, `Write`, `Finish`, `Deny`), and other requests on it appear as the line on stderr
they may leave (`OtherDenied`). The slice that panics inside a character is a branch of `Poll`.

### ToolMapper (`MCToolMapper`, `AnswerProofs`)

A conversation: the prompt of a request (`Ask`), the answer in deltas (`Deliver`), the loop of
`map_delta` one pass at a time (`PassText`, `OpenCall`, `KeepCall`, `CloseCall`), errors and the
end (`Fail`, `GiveUp`, `EndEmpty`, `End`), and the client's next turn (`Reply`). A text is a
sequence of symbols, a tag two of them, so that a delta can cut it. `Whole` is the reference:
what the text means in one piece. `CollectedText` and `CollectedCalls` are what the
non-streaming handler of `/v1/messages` puts together; it keeps the call blocks as they were
opened, with an empty input. `cut` (a tag was cut by two deltas) and `clean` (every call that
ended was JSON) are history variables. Its specification is `MapperSpec`, because
`AnswerProofs` extends this module and `CascadeStream`.

### ApiKeys, Routing (`MCRouting`, `RoutingProofs`)

`Routing` extends `ApiKeys`: its `ChangeKeys` and `Die` are the steps of the other module. A
call of `/v1/keys` edits the list, truncates the file and fills it under the write lock;
`SaveFails` may come at either point and `Crash` anywhere. A request goes `Extract`, `List`,
`CheckKey`, then `Pass` or `Consider` for one account after the other, and `RunOut`. Of the
account store it sees the listing and the files (`OpenFile`, `FillFile`, `Relist`, `RemoveFile`,
`Unlist`). What is left of the listing is a set of summaries with their place, and the next one
is the one with the lowest (`Turn`). `held`, `able` and `skewed` are history variables, and so are
`acked`, what the last answered call said of a key, and `lost`, the keys it had called valid when
a start found the file torn; only the next successful call takes a key out of `lost`.

### QuotaProbe (`MCQuotaProbe`, `QuotaProbeProofs`)

A task is a probe or a call of the dashboard. A probe goes `Resolve`, `Find`, `Load`, `Fetch`,
and between these performs calls of the account store, each three steps (`Read`, `Write`,
`List`); `Edited` is what each makes of the record, `After` what follows. `ReadFails` and
`WriteFails` are the errors of a call, which a probe ignores but for `update_quota`; `ProbeFails`
are those of Google. `Send` is the broadcast channel with its bound, `StreamEnds` and `Connect`
the dashboard's event stream. A load of the dashboard is asked by `Open` or `Hear`, whatever
other loads are under way; the server takes the listing (`Summaries`) and then reads one account
after the other (`Serve`); `Answer` shows what came back, in any order of the loads, and
`LoadFails` shows nothing. History variables: `seen` is what the load asked last has read, `missed`
that since then an event was lost or that load failed, `silent` that since then a task failed
which had set about writing (`changed`); `banned` and `unhindered` are about one probe.

### TokenPush (`MCTokenPush`, `TokenPushProofs`)

The renewal (`Store`, `Date`, `Announce`, `Panic`) against a subscription (`Subscribe`, `Open`)
and its task: `Changed`, `Borrow` and `Push` for a token, `Tick` and `Beat` for the timer,
`SendFails` when the reader is gone. `SenderDropped` is when both holders of the sender are
gone; then `changed()` is always ready.

### AppSettings, Provision (`MCProvision`, `ProvisionProofs`)

`Provision` extends `AppSettings`. `PUT /v1/settings` is `PutMemory`, `PutEnv`, `PutOpen`,
`PutWrite`, with `PutFails`; the detection at the start is `Detect` and its three steps, under
the lock. `LocalPath` is where the provisioner looks for an installation. A run is
`Begin`, `Look`, `Lookup`, the download (`Clear` to `Unpack`, in a directory that all runs of a
release share), the copies (`CopyLs` to `WriteCert`, with `SkipLs` and `SkipCert` where the source
has no such file), `Remove`, `Finish`, `WriteConfig`, `Succeed` or `LackAssets`, and `StepFails` at
every step that can fail. `Emit` is the progress: a sync records it as the snapshot, unless
somebody has the lock of it at that moment (`Record`; the page, another reader, or another sync),
and the channel passes it on (`Send`); the boot task only sends. `Click`, `Subscribe`, `Replay`,
`Hear`, `LagOut` are the settings page, `Post` is a sync somebody else asks for. A file is a
version, `Torn` or `None`, and at the start whatever earlier processes or hands have left
(`Placed`). `clean` (no other run has had one of the files open since this one began) and `ends`
(a run has announced its end to the page's stream) are history variables, and so is `copied`.

## 3. The runs

| Run | Configuration | Result |
|---|---|---|
| `pool` | 3 requests, one slot shared by two tokens and a caller without slot, `max_instances` 1, 2 starts at once | `TypeOK`, `ServedMatchesRequest`, `PoolBounded` hold |
| `pool_live` | 2 requests for one slot or without, 2 tokens | `AcquireReturns`, `IdleReclaimed`, `RegistryImplemented` hold |
| `pool_leak` | 2 requests of one identity | `ReclaimedProcessesEnd` is violated |
| `store` | 3 accounts, 1 token, 2 operations, 2 deaths | `TypeOK`, `IndexWellFormed`, `RotationFair`, `OnlyRemovalUnlists`, `RestartHonoursBan` hold |
| `store_ban` | 2 accounts, 2 operations, no death | `BanPersisted` is violated |
| `refresh` | 2 callers, 1 import, 1 instance, 1 refresh token, 2 OAuth clients | `TypeOK`, `ResolveExclusive`, `RefreshedOnce`, `CallersReturn` hold |
| `stream` | 2 responses of length up to 3, channel of 2, limits 10/100/5 scaled to 2/5/2 | `TypeOK`, `InOrder`, `TailDelivered`, `StreamEnds`, `PollerStops` hold |
| `mapper` | 3 protocols, 2 turns, answers of up to 3 pieces in any order or 2 whole segments, every cut | `MapperTypeOK`, `NothingLost`, `SplitInvariant`, `BlocksWellFormed`, `ResultsReachModel` hold |
| `routing` | 1 request, 2 accounts, 2 models, 5 quotas, 2 keys, 2 key calls, 1 account write, 1 death | `TypeOK`, `KeysHoldUnlessTorn`, `RefusedOnlyWhenExhausted`, `KeyNotUsedAsToken` hold |
| `probe` | 1 account, 2 tasks, 2 starts, 2 loads, channel of 1 (code: 32) | `TypeOK`, `LastLoadIsFresh`, `BanSettles` hold |
| `push` | 1 subscription, 2 topics, 2 keys, queue of 2 (code: 10), 3 renewals | `TypeOK`, `AtRestCurrent`, `TokenArrives`, `TaskEnds` hold |
| `boot` | boot, 2 syncs, 1 settings call, 2 installations, 3 placements of files, 2 runs, channel of 1 (code: 16), 2 events from outside | `TypeOK`, `CopiesAlign`, `EndsAreHeard` hold |

**Bounds.** With three requests a start can overtake a start while a third is served; one slot
with two tokens gives every mismatch, and the cap of 1 makes every start evict. A caller
without a slot is keyed by the md5 of its token, which `KeysAssumption` keeps apart from the
slot ids. Three accounts are needed to see a rotation skip; two operations are every
pair that can race; two deaths are one in an operation and one in the restart. With two callers
one waits for the other, and the other two parties bypass the lock. In the stream the limits
keep their order (retries below the maximum, idle exit below it), the channel can fill, and the
second response can start while deltas of the first are under way. Three pieces make every
pair of tags with something inside, an unbalanced tag and a call that is not JSON; two whole
segments make two calls in a row. Requests do not meet in routing, so one is enough; two accounts
let one be passed over before the other, and one write is enough to change an account behind
it. Probes of different accounts share only the channel; two tasks are every pair of probes and
calls that can race for an account, two loads are enough for one to overtake the other, and the
channel of one overflows. The run does not tell states apart that differ only in what the page
shows, which nothing but `TypeOK` reads. A queue of two holds less than the
initial message and the two keys of a renewal, so that the pusher waits. In `boot` one
installation has the version that is also the default, binary and certificate, the other the
version of the newest release and neither; the process starts with the path to the former saved,
or finds the latter without a setting, and the settings call takes the path back, which leaves
the former start without any installation. The files at the start are none, older ones under a
version put in by hand, or a binary without a certificate; the channel of one passes an event
on and overflows; two events from outside are any two of: a
sync, a settings call, a death; two runs are the boot task and a sync or two syncs, in all their
overlaps, with each death at each step. Symmetry is used only in runs that check no liveness
property. All runs switch deadlock checking off: requests, operations and callers are finitely
many and end.

**Fairness.** Tokio polls every task that can go on, so the steps of one task are weakly fair.
The TTL task is a timer loop and fair as well. Calls to Google and to `ls_core` are assumed to
return or fail: for `ls_core` the channel has HTTP/2 keep-alive (`client.rs:97-99`); the HTTP
client for Google has no timeout of its own (`lib.rs:75`), so `CallersReturn` rests on the
connection failing at last. In `TokenPush` the announcement and the steps of a subscription's
task are weakly fair, and the process reads its streams. `Changed` and `Tick` are strongly
fair: each `select!` polls its branches in random order, so neither a change nor the timer is
passed over for ever, although the other may disable it meanwhile. Nothing is assumed of
clients, of the planner, of the order in which operations are called, or of failures.

## 4. What the models found

Two disagreements are shown by a run of their own.

1. *Reclaimed instances live on* (`pool_leak`). The renewal task holds an Arc for ever
   (`native.rs:517`), so LRU, TTL and `DELETE` only forget the entry. `README.md:77` and `:232`
   say the process is reclaimed.
2. *A ban can be overwritten* (`store_ban`): an operation that had read the file before writes
   the active record back (`store.rs:197`), which `probes.rs:352` wants to exclude.

The rest are stated in the modules and are violated too; put the name as an `INVARIANT` into the
configuration named to see how.

3. *Files are not written atomically*, against `README.md:78`, which promises it for "all global
   settings, account ordering, and API Keys" and a power cut. Each file is truncated and
   rewritten in place, and one that does not parse is read as empty:
   `accounts.json` (`OrderingSurvivesPowerLoss`, `AccountStore.cfg`; `store.rs:118`),
   `api_keys.json` (`KeysSurvivePowerLoss`, `Routing.cfg`; `key_manager.rs:123` and `:26`: a key is
   created and acknowledged, the process dies in the save of a later call, and the next start
   knows no keys) and `app_settings.json` (`SettingsSurvivePowerLoss`, `Provision.cfg`;
   `settings.rs:64`).
4. *The refresh lock does not cover all exchanges* (`OneExchangePerToken`, `TokenRefresh.cfg`):
   `native.rs:338, 535` and `auth.rs:493` ask without it, against `handlers/mod.rs:122`.
5. *An old 403 bans again* (`BanOnlyDenied`, `CascadeStream.cfg`): the last error of an instance is
   never cleared, and a later failure of any kind is taken for it (`engine.rs:80`), against
   `chat.rs:144`. With 1 it lasts: the instance that keeps the line never ends.
6. *A sync may end well without the consistency* that `README.md:181` calls strict
   (`StrictlyAligned`, `Provision.cfg`). A file torn by a death or a failed run counts as aligned
   if the recorded version matches (`provisioner.rs:61, 92`), although `README.md:185` speaks of
   atomic replacement; an installation without the binary or the certificate counts as copied
   (`:63, 71`), and its version is recorded; runs that overlap mix their files; a version put in by
   hand is believed.
7. *The settings page may wait for ever*, or be told of another run (`LoadingTakenBack`,
   `Provision.cfg`), against the comment at `Settings.jsx:308`, by which the loading state is
   always taken back, and `README.md:79`. A run may end before the page's stream subscribes; its
   error is never in the snapshot (`provision.rs:85`), nor is its end if anybody has the lock of
   it at that moment (`:72`). A snapshot of an earlier run, or the end of one that runs beside,
   closes the page before its own run is through.
8. *The dashboard may stay old*, against `README.md:79` (real-time push of account changes) and the
   comment at `Accounts.jsx:857`. `ShowsLastLoad` (`QuotaProbe.cfg` without its `VIEW`): loads overlap
   (`useAccountStore.js:10`), and one that is answered late shows its older accounts over the newer
   ones. `ChangesReachThePage` (`QuotaProbe.cfg`): an event that is lost with the stream, or sent
   before it is open again, is not made up for; a load that fails is not repeated; a probe that
   fails sends no event, whatever it has changed (`probes.rs:312`).
9. *Settings calls that overlap*, or meet the detection at the start (`lib.rs:114`), or whose save
   fails, leave memory, environment and file different (`SettingsAgree`, `Provision.cfg`): the lock
   is held for the first of the three writes only (`settings.rs:77-118`).

`LastLoadIsFresh`, `CopiesAlign`, `EndsAreHeard` and `KeysHoldUnlessTorn` are what is left beside
6, 7, 8 and 3; the comment of each says what it leaves out.

Where no document promises anything, or a document is more general than the case, a property
names its exception and the model reaches it:

* A tag cut by two deltas is text, so `SplitInvariant` asks for whole tags; `README.md:57` and `:101`
  advertise the extraction of tags from the stream without a word about cuts. The chunk of a call
  that is not JSON has the index of a tool block (`anthropic.rs:177`), and a stream that ends inside
  a call stops a block that is stopped already, so `BlocksWellFormed` asks for clean calls and
  an end outside a call; cut tags do it no harm. A call without its closing tag is buffered and
  dropped at the end.
* The Gemini prompt leaves out the results of calls, the OpenAI prompt the calls.
* `target_model_name` as one account renames it is carried to the next (`chat.rs:41`); a request
  this reaches is exempt from `RefusedOnlyWhenExhausted`. A file that is being rewritten hides
  its account, which costs a request that needed it (`able` then drops the account).
* A key that is revoked between the two checks is sent to Google as a token (`chat.rs:27, 64`).
  `KeyNotUsedAsToken` is about keys that were not (`held`).
* A delete of a key whose save failed answers an error, and the key is back after a restart.
* A ban whose write fails is ignored (`let _ =`, `probes.rs:247-250, 354`): the event says
  "forbidden", the account stays as it was. `BanSettles` is about a probe that no other task meets
  and whose writes succeed (`unhindered`).
* A further planner response that is no longer than what was sent of an earlier one is never
  delivered (`client.rs:253`); `TailDelivered` speaks of lengths only.
* A renewal whose answer lives less than 300 seconds stores its token, panics and never
  announces one again (`native.rs:539`).
* If the boot task fails, nothing starts the provider later (`lib.rs:144-148`).

## 5. What is proved

TLAPS checks the following for every value of the constants that satisfies the named
assumptions; TLC checked each inductive invariant first. Each theorem has the form
`Spec => []P`, or `Spec => P` for an action property and the refinement, and is shown from
three facts: the initial states satisfy the invariant, every step keeps it, it implies `P`.

* `InstancePoolProofs`. `PoolTypes`: `TypeOK` is inductive. `PoolIdentity`: the invariant adds
  that an entry stands under the logic_id of the instance (`PoolKeyed`) — without it nothing
  links a lookup to who was started — and `ReuseMatches` shows that what the reuse block returns
  has the caller's token. It needs `KeysAssumption`. `PoolSize`: the bound on the occupied
  entries and the starts is strengthened by the bound on the requests in flight, because
  `Insert` turns one into the other; cardinalities come from `FiniteSetTheorems`.
  `PoolImplementsRegistry`: the refinement. Every step is a step of `InstanceRegistry` or a
  stutter; it needs `PoolIdentity`'s invariant for `Join` and, for `Found`, that a request
  inserts the instance it started itself (`InsertsOwn`). `EvictionFindsOne`: the access times order
  the instances that may be looked up (`AccessOrder`), so among any entries exactly one is the
  least recent, and the LRU block never waits. `RequestsComeCloser`: see below.
* `AccountStoreProofs`. `StoreTypes`: an operation that has read keeps a record to write
  (`TaskShape`). `ListingWellFormed`: the file `accounts.json` must be well formed as well
  (`IndexInv`), or a restart would spoil the index. `RemovalAloneUnlists`: from what each edit
  does to the set of listed ids. `StartsHonourBans`: a record that is marked forbidden is also
  disabled, in the files and in what operations are about to write (`BanInv`); the restart copies
  the flag, though not the status. `RotationIsFair`: the accounts handed out are, read
  backwards, the candidates read backwards from the current position (`Rotation`), so two of
  them differ as long as they are no more than the candidates.
* `TokenRefreshProofs`. `RefreshTypes`: with the types, the clients left in the loop.
  `RefreshExclusive` and `RefreshOnce`: one invariant. A caller between double check and save
  holds the lock (`HoldsLock`), so two such callers are one; what a caller stored is usable
  until others write or it expires (`StillUsable`), so the double check of the next one returns;
  hence who asks with an account has nobody before him (`NobodyElse`). `LocksComeBack`: who has the
  lock is between double check and save. `CallersComeCloser`: see below.
* `AnswerProofs`, for `CascadeStream`. `StreamTypes`: the counter of the poller and the channel keep their
  bounds. `StreamInOrder`: `OrderInv` follows a delta from the poller (`NextFits`) through the
  channel (`ChanInOrder`, `FailureLast`) to the transcoder (`ChanFits`), with `last_sent_len` as
  the end of what was sent last (`SentIsEnd`); `InOrder` alone says nothing of what is on its
  way. `StreamTail`: a cascade of which a delta was read and that was idle then does not go on
  (`Settles`), so `last_sent_len` is at least the length of its last response (`Caught`; of one
  that is shorter than an earlier one nothing was sent, and nothing is claimed), and what was sent last is what is
  heard last (`SentArrives`), because the final frame waits for an empty channel (`FinalGone`).
  `PollerComesCloser`: see below.
* `AnswerProofs`, for `ToolMapper`, all five invariants. `MapperTypes`: `MapperLoop` adds to the
  types that outside the loop nothing is pending and a new request starts fresh. `MapperKeeps`:
  ink shown, buffered and pending are ink given (`Balanced`), pass by pass of the loop.
  `MapperResults`: filtering a filtered list by the same kinds changes nothing. `MapperBlocks`: the
  chunks so far nest and exactly one block is open, whose index the counter gives, or none
  inside a call (`Blocks`); appending a start, a delta or a stop keeps this. `MapperSplit`:
  however the text given so far goes on (`Tally`), its reference translation is what has been
  written, followed by the reference translation of the rest, where inside a call the rest
  begins with the open tag and the buffer (`Sewn`). A delta may be appended because no tag is made
  where two texts meet (`Apart`), unless a cut made it, and then `cut` holds.
* `RoutingProofs`. `KeysStayDecided`: `KeysInv` speaks of the file and of the save under
  way as well, since a restart reads the one and a failed save leaves the other; keys that a start
  has found torn are in `lost`.
  `KeysAreNotTokens`: a key that was held is in the list until the second check (`HeldInv`).
  `RefusalsAreRight`: an account that could have served all along is still to be visited
  (`AbleInv`), with the name of the model as the request came, unless a rule has changed it.
* `QuotaProbeProofs`. `BansSettle`: what a lone task holds is what the file holds, and from the
  ban on each call leaves the mark (`BanOf`). `LastLoadReadsAll`: `ChangeInv`, a task that has set
  about writing says so until its event is sent, and `LoadInv`, what the newest load has read of
  an account, and which accounts it has found listed, is as it is now unless something is on its
  way that makes the page ask again or is known not to come (`Pending`).
* `TokenPushProofs`. `RestCurrent`: `PushOf` places the newest token on its way: stored and not
  announced, announced and not seen, in the hand of the pusher, in the queue, or shown.
* `ProvisionProofs`. `RunsAlign`: while a run is clean nobody else has a file open (`CleanInv`),
  so what it has copied stays as it is and is of the version it goes on to record (`Heals`),
  whatever the others do to the work directory they share; where a run is in the code says what it
  has decided and copied (`RunShape`). `EndsReachThePage`: an end that was announced to the page's
  stream waits in it, or the stream has lagged (`EndWaits`).

Facts about sequences and finite sets are taken from the library. The induction theorems of the
library cannot be used here, so an induction is done by a least counterexample: in
`AccountStoreProofs` on a finite set (the candidates are the eligible positions in their order,
and there is such an order), in `AnswerProofs` on the numbers and on the length of a sequence
(`Least`, `Induct`, `SeqInduct`). With these a recursive function is shown to exist and to be
the only one with its equation, which then is all that is used of it: for the filter
(`KeepingExists`, `KeepingAgree`), the flattening of a list of texts (`JoiningExists`,
`JoiningAgree`) and the reference translation (`UnfoldingExists`, `UnfoldingAgree`, `WholeIs`).

The proofs changed the models in five places.

* `enable` on a forbidden account matched two arms of the `CASE` in `Edited`, which leaves the
  value open; its arm now says whom it is for.
* In `Routing` the listing a request walks through is a set of numbered summaries, and
  `AccountStore` removes at a position and orders by positions, as the code does, where both had
  used `SelectSeq`, of which the provers know nothing.
* `ToolMapper` filters with `Kept`, a recursive function, for the same reason.
* `BlocksWellFormed` asked that no tag be cut. The invariant does not need it: what a cut tag
  does to the blocks it does to the text as well. The property now says more.
* What it does need, that each call which ended was JSON, was read off the reference translation
  of the answer, which cut tags lead astray; it is now the history variable `clean`.

Liveness itself is out of the prover's reach, because it has no ENABLED. Of three liveness
properties the safety part is proved: a measure (`StepsLeft`) that each step of the actor lowers
and no other step raises, for every number of clients, rounds or requests. With it an actor can
fail to end only by standing still, and what two of them may stand still for is proved as well.
`resolve_access_token` waits for a lock that somebody past the double check has (`CallersReturn`,
from `CallersComeCloser` and `LocksComeBack`). In `acquire_instance` the LRU block has its entry to
remove (`AcquireReturns`, from `RequestsComeCloser` and `EvictionFindsOne`). The poller waits for
room in the channel only, which its reader makes (`PollerStops`, from `PollerComesCloser`).

So these are only model-checked: `AcquireReturns`, `IdleReclaimed`, `CallersReturn`, `StreamEnds`,
`PollerStops`, `TokenArrives`, `TaskEnds`. Every invariant and action property of a passing run is
proved.

## 6. What is abstracted, and what is not modelled

Ports, file contents beyond status, flag and token, e-mail addresses, prompts, statistics and
log lines are left out. In `InstancePool` the readiness probe is one step that succeeds or
times out. In `AccountStore` the access and the refresh token are one token; label, quota and
profile have no influence. In `TokenRefresh` a token that starts with `ya29.` is returned as it
is and never gets here. In `CascadeStream` a planner response only grows. In `ToolMapper` a JSON
object is a pair of braces with text between them, and ids and token counts are left out.
`Routing` and `QuotaProbe` each keep the part of the account store they read, with the windows
in which a file is torn; the locks and deaths of the store are in `AccountStore`. In `QuotaProbe`
the answers of Google are choices, the statuses are Active and Forbidden, and the mark of a ban
in the quota data is left out. Of the dashboard the loads that follow its own calls are left out
(they would be one more load beside those of the events), and the row it takes off by itself. In `TokenPush` the
handlers of the extension server that answer with constants are left out. `AppSettings` keeps
the one setting other code acts on; `PUT` calls that are refused change nothing. In `Provision`
progress messages are "busy", one at each end of a run stands for them all, and the lookup of a
release is one step. Two runs that fill one file at the same time may leave a mixture of bytes; in
the model the last to finish wins, and such runs are not `clean` in either case.

Not modelled are the login flow (a map that one browser writes and polls), the traffic database
and statistics (SQL behind one lock), the IDE switch and version probing (host I/O in
sequence), the reverse proxy, and the front ends but for the two pages that listen to events:
none has control of its own that interleaves with the rest. The components that are not modelled
are listed with their reason in `PROJECT.json`.

## 7. The plan

Done: `InstancePool` with `InstanceRegistry`, `AccountStore`, `TokenRefresh`, `CascadeStream`,
`ToolMapper`, `ApiKeys` and `Routing`, `QuotaProbe`, `TokenPush`, `AppSettings` and `Provision`,
with the runs of section 3 and the proofs of section 5. Next, in this order:

1. The safety part of `TokenArrives` and `TaskEnds`, as it is done for other liveness properties.
2. `AccountStore` as the store that `Routing`, `QuotaProbe` and `TokenRefresh` see: their account
   actions as steps of it.

## 8. Running it

    tlc -workers 2 -config InstancePool.cfg MCInstancePool.tla
    tlc -workers 2 -config CascadeStream.cfg CascadeStream.tla
    tlapm InstancePoolProofs.tla
    tlapm AnswerProofs.tla

The runs take from a second to about three minutes each, the proofs of one module from half a
minute to about ten. Operators whose comment begins with
"Mutant" are wrong variants of the operator after them; no specification uses them. Put in its
place, each makes the property named in `PROJECT.json` fail, which shows that the property can
tell.

# 3x-ui in TLA+

Models of the parts of 3x-ui (a web panel for Xray-core servers, Go, under
`internal/`) whose correctness depends on order, failure or several goroutines,
the TLC runs that check them, and proofs for TLAPS. Source paths below are
relative to `src/`. Read a module beside the files named in its first comment;
`PROJECT.json` gives the lines behind every definition.

## 1. The system

One process (`main.go`, `internal/web/web.go`) runs an HTTP panel, a
subscription server, about twenty cron jobs, a Telegram bot, and supervises the
processes that carry the traffic: `xray` and the `mtg` sidecars. The state that
outlives it is a database (SQLite or PostgreSQL) reached through gorm. A panel
may manage other panels, its *nodes*, over their HTTP API.

| Component | State it keeps | Operations | Talks to |
|---|---|---|---|
| Traffic writer (`web/service/traffic_writer.go`) | `twQueue`, `twCtx`, `twDone`, lock `twMu` | Start, Stop, submit, run | every service that writes traffic rows |
| Inbounds (`inbound.go`, `inbound_protocol.go`, `port_conflict.go`) | rows of `inbounds` | add, update, enable, delete, port-conflict check | runtime, clients, nodes |
| Clients (`client_*.go`) | `settings.clients` of each inbound, `client_records`, `client_inbounds`, per-inbound locks, tombstones | create, attach, detach, update, delete, bulk, groups | inbounds, runtime, traffic rows |
| Node configuration sync (`inbound_node.go`, `node.go`, `runtime/remote.go`, `job/node_traffic_sync_job.go`) | `config_dirty`, `config_dirty_at`, `inbounds_adopted_at`, `pushedFP` | mark, push, reconcile, pull, merge, sweep | the nodes' HTTP APIs, the writer |
| Node traffic (`inbound_node.go`) | `node_client_traffics` baselines, shared `client_traffics` | merge of counters, expiry, renewal | as above |
| Traffic and limits (`inbound_traffic.go`, `inbound_disable.go`, `inbound_traffic_global.go`, `job/xray_traffic_job.go`) | `client_traffics`, `inbounds.up/down`, globals | add, disable, renew, reset, delete depleted | xray API, the writer, nodes |
| Runtime (`web/runtime`) | remotes by node, caches | add, delete, update on the local Xray or a node | xray API, nodes |
| Xray process (`xray/process.go`, `service/xray.go`, `xray/hot_diff.go`, `xray/api.go`) | the process, its exit error, online lists, `isNeedXrayRestart` | start, stop, restart, hot apply, crash check | cron, the bus |
| MTProto (`mtproto/`) | the manager's table of `mtg` processes | ensure, reconcile, collect, stop all | inbounds, the traffic job |
| Event bus (`eventbus/bus.go`) | channel of 256, subscribers, a worker and a queue of 64 each | subscribe, unsubscribe, publish, stop | tunnel monitor, bot, mail, xray |
| WebSocket hub (`web/websocket`) | clients, send buffers, throttle stamps | register, unregister, broadcast, evict | the jobs, the browsers |
| Tunnel monitor (`tunnelmonitor/`) | failure count, last state | probe, report, recover | xray, the bus |
| Client IPs (`inbound_client_ips.go`, `inbound_node_ips.go`, `job/check_client_ip_job.go`) | IPs by client with their last times | merge, limit, ban through fail2ban's log | access log, nodes |
| Login (`controller/login_limiter.go`, `session`, `panel/user.go`, `totp`) | failures and blocks by address and user | allow, fail, succeed | the login handler |
| Outbound subscriptions (`outbound_subscription.go`) | subscriptions and their generated outbounds | refresh, merge | xray configuration |
| Subscription server (`internal/sub`) | none | renders links, JSON, Clash | database |
| Settings (`setting.go`, `xray_setting*.go`) | key/value rows | get, set, template edits | everything |
| Telegram bot, mail (`tgbot/`, `email/`) | conversation state, hash storage | commands, reports | services, the bus |
| LDAP sync (`job/ldap_sync_job.go`) | none | creates, enables and disables clients | clients |
| Server, metrics (`server.go`, `metric_history.go`, `xray_metrics.go`) | ring buffers, status | sample, update, upgrade | OS |
| Database (`database/`) | schema, migrations, copies | open, migrate, import, export | files |
| Controllers, SPA, docs, front ends, tools, deploy scripts | none of their own | requests, assets | services |

### What is hard

* **Concurrency.** Handlers run in a goroutine each; cron jobs in theirs; node
  syncs in up to eight. What excludes what is uneven: traffic rows are written by one
  goroutine, client edits hold a lock per inbound, other inbound edits hold none, and
  merges of snapshots go through the writer while edits go straight to the
  database.
* **Two copies of everything.** An inbound lives in the panel's database, in the
  node's database, and, as a hash, in `pushedFP`; a counter lives in Xray, on
  the node, in the panel's baseline and in the shared row. Each copy is made at
  a time of its own, and used later.
* **Failure.** A node's request may fail, or take effect without an answer; a
  node may answer with nothing while it restarts; the panel is stopped, reloaded
  (SIGHUP) or restarts Xray (SIGUSR1) while jobs run.
* **Time.** Grace periods, tombstones of 90 s, timers of 4, 5, 10 and 30 s, stamps
  with a resolution of a millisecond.

`PROJECT.json` lists the hazards line by line, and which property covers each.

### What makes each component correct

* Traffic writer: an accepted write runs exactly once and its caller learns the truth;
  writes never overlap; every call returns; stopping drains.
* Node configuration: an edit is never taken back by an older snapshot; the
  dirty flag goes only when the node serves everything that is enabled; nothing is
  deleted that the other side still wants; both sides agree in the end.
* Node traffic: every byte a node reports is counted once, however its counters
  restart, and a reset is not undone.
* Traffic and limits: a client over its limit or past its date is cut off on every inbound, a
  renewed or reset one is not, and the panel's three records of that say the same.
* Xray process: one process at a time, with what the database asks for; a manual stop
  holds; a crash leads to a restart.
* Event bus, hub: delivery in order to each subscriber, publishers never block,
  everything closed on stop.
* Client IPs, login: limits are enforced at the configured count and blocks end.

## 2. Plan

The order follows what is lost when it goes wrong: first the component every
counter passes through, then the one that decides whose configuration wins.

| # | Module | State |
|---|---|---|
| 1 | `WriteService` abstract, `TrafficWriter` implements it, `TrafficWriterProofs` | done |
| 2 | `NodeConfig`: edits and one node's sync, `NodeConfigProofs`, `MCNodeConfigProofs` | done |
| 3 | `EventBus`, `EventBusProofs` | done |
| 4 | `NodeTraffic`: baselines, resets, renewals, several nodes on one row, `NodeTrafficProofs`, `SumTheorems` | done |
| 5 | `XrayRuntime`: RestartXray and its callers, hot apply, crash check, pushes, `XrayRuntimeProofs` | done |
| 6 | `ClientLimits`: the poll, and the calls that enable, edit, adjust and reset a client, `ClientLimitsProofs` | done |
| 7 | `WebsocketHub`: a slow browser, eviction, a restart of the hub | left |
| 8 | `Mtproto`: the sidecars against their rows, with crashes | left |
| 9 | composition of `NodeConfig` with `NodeTraffic` on one snapshot | left |

Theorems left: none of the safety properties that the runs check. With fewer restrictions than `PlainSpec` has, the
three that are proved of it fail.

The number of runs is kept at about a dozen, so that all of them can be repeated
at every change. A disagreement between the code and what it says keeps a run of its
own where no other run would show it; the others are listed in section 4 with the
restriction that bars them.

## 3. The modules

### `TrafficWriter`, `WriteService`

`traffic_writer.go` as a whole. A *generation* is what one effective
`StartTrafficWriter` makes: a queue, a context, a done channel and a goroutine.
`cur` is the generation in the package variables. `mu` is held across actions only
where the code blocks with `twMu` held, which is the send into a full queue with its
5 s timer (`Enqueue`, `SubmitTimeout`). The writer's `select` prefers nothing:
`Take` may be chosen with the context cancelled, as in Go. A submitter is in one
call at a time, and its name stands for its request and its function.

`WriteService` is what callers rely on: pending, then applied exactly once or
refused, then returned. `ImplementsService` maps `spc`, `res` and `reply` to it.

### `NodeConfig`

One node, its inbounds, and the panel's rows for them. A row is the pair of its
enable flag and its set of clients, because operations write these two parts in
different ways: `SetInboundEnable` updates one column, the client edits save
every column of a row read before the transaction, `UpdateInbound` saves the
form. A client of a row is the pair of its email and its other fields; `Off` are the
fields of a client whose own enable flag is off. Each operation has its action (`AddClients`, `Detach`, `UpdateClient`, `Delete`
with `NextInbound`, `ChangeInbound`), which reads the row, takes the inbound's lock where
the code does, and plans the push; the rest of the call is `Commit` (the transaction with
the dirty mark), one `PushClient` per request or one `PushRow`, and `EndPush` (the
fingerprint and the lock), with other goroutines between any two of them. The calls differ as
in the code: a batch stops at its first failed `AddClient` but not at a failed
`DeleteUser`; bulk deletions and adjustments push before they commit; `DeleteClient` takes the client from
all inbounds of the node while the panel's rows follow one by one; batches over
`NodeBulkPushThreshold` are not pushed; a node refuses the update of a client that it does not have.
`BulkSetEnable` is the update of each of its clients. `AddInbound` and the two updates of a node's own
row (`UpdateNode`) make no request and are one step each.

`job` holds the local variables of `syncOne`: the row of the node as `Run` loaded it,
the inbounds `ReconcileNode` read, the tags it listed, the payload it has sent, the snapshot, and the
dirty flag it passes to the merge. Its program counter follows the code:
`read`, `list`, `push`/`record`, `fetch`, `check`, `merge`, `adopt`, `mark`. The merge is one step, as it is one
transaction on the writer. `CheckDirty` may fail, which the code ignores: the node then counts as clean.

A reconcile does not send the row. It sends what `buildRuntimeInboundForAPI` makes of it (`Built`: without
the clients that are off), or the row itself when that function's query fails (`Payloads`); the calls
push rows and clients as they are. `fp` is `pushedFP`, with the payload in place of its hash: of a row after a call, of
what was sent after a reconcile, of what the node reported after a merge. So after a reconcile a node
lacks the clients that are off, reports a list without them, and the next clean merge takes that list
for the panel's row: a disabled client is lost from the settings on this way. That is what the code does, and `Serves`
is what it keeps: a node's row *serves* a row of the panel when it has the same enable flag, every
client that is on, and no client that the row does not have.

`tomb` is `recentlyDeleted`; a tombstone does not expire between the fetch of a snapshot and its
merge, since the fetch times out after 4 s and the tombstone lives for 90 s.
A request fails, succeeds, or succeeds without an answer (`LostReplies`).
`imported` is a history that only properties read.

Not in the model: counters (they are `NodeTraffic`'s), tag prefixes, host groups, the
"selected" mode, and loops of Attach, Detach and Update over several
inbounds, which are the same as several calls. Of the payload, the fallbacks that `buildRuntimeInboundForAPI` adds to the
settings are left out: they change the payload and not the clients, and the merge adopts them with the
settings as it does whatever the node reports. `Built` also drops the clients whose row in `client_traffics` is off; that
row is taken to agree with the client's own flag. Two payloads with the same content are taken to have the same text, so that
a fingerprint compares content; where the texts differ the reconcile sends once more than the model. `disableRemoteClients`
(`inbound_disable.go:273-292`), by which the poll pushes the row of a node's inbound with its clients switched off
without marking the node, is left out too. The comment at `inbound_node.go:127` says that interactive pushes send the built payload;
for nodes `SetInboundEnable` pushes the row, and the model follows the code.

### `EventBus`

`eventbus/bus.go`: the publishers, `dispatch`, one `runWorker` per call of
`Subscribe`, and `Stop`. Events and workers are numbered in the order in which they are
accepted and made. What holds `b.mu` from end to end is one step (`Subscribe`,
`Unsubscribe`, `FanOut`, which never blocks); the receipt of an event and its
fan-out are two, because the lock is not yet held between them. `Stop` has three: it
marks the bus under the lock, closes `done`, and waits. Both `select`s prefer nothing, so a
worker told to quit may still take what is queued. A `Publish` into a full
channel changes nothing and has no action. Handlers of the ids in `Stuck` may
never return.

### `NodeTraffic`

What one client used, in one direction of traffic, over several nodes. `cnt` is a node's own
counter, `base` the panel's baseline of it (`node_client_traffics`), `row` the one shared row of
`client_traffics` with what is used, the deadline and `inbound_id`. A call of the panel is one step
that reaches some of the nodes, as its single requests are in `NodeConfig`. `Merge` is one
transaction of the writer: `After` is what becomes of the settings, `Gone` and `Unseen` are the two
sweeps, `Counted` the loop over the statistics, `Create` the row of a client that has none.

A node reports the client's counter under each of its inbounds, and one of the copies is
right; a stale one is 0, which is the value that the maximum of `nodeEmailTotals` is there for.
`syncOne` reads the dirty flag between its fetch and the merge, so that `Mark` may still reach a
snapshot under way. A new inbound's settings are taken as already without a client whose tombstone
is alive. The client is one that renews itself: the check of its `Reset` in `nodeClientRenewed` is left out.
A node that answers with an empty list is in `NodeConfig`. `bill` is a
history: what the row may hold at most, which restarts with every reset, deletion and renewal.

### `XrayRuntime`

The panel's own Xray. `wanted` is what `GetXrayConfig` would build, `conf` what `GetConfig()`
returns, `live` what the process runs: three different things, because pushes change `live` alone
and `RestartXray` compares `wanted` with `conf`. A configuration is each user's credential
(0 for none) and `core`, a number that stands for the parts that have no reload API; the other
parts that have one (outbounds, routing, whole inbounds) are compared and applied
like the users, and are left out.

Each caller of `RestartXray` has a place in `at`; `job` is the one that holds the lock, with its point in
the function and the configuration it read. A job reads (`GetXrayConfig`, which first runs the
poll's writes), decides (`NothingToDo`, `TryHotApply`, `FullRestart`), and then either goes through the
API user by user or stops and starts. Edits, polls, other callers and a crash of the process come between
any two of these steps. The calls on one user follow one another, as the inbound's lock makes them.
The operator's restart stands for the button, the bot, SIGUSR1, the tunnel monitor and the start of the panel, which
all force it. The node job forces its restart too (`RestartXray(true)`), so `StopHolds` lets it undo a
manual stop, as the code does: it is a promise about the other callers, however long they waited for the lock. `Stop` always ends the process, since the code kills it after a grace period.

Three histories name what the code does not promise. `raced`: the user was committed while a restart held an older
configuration, or polled during a call on it, or its failed removal was dropped by the node
job or by `GetXrayConfig`, which ignore the poll's `needRestart`. `flaked`: a push failed on a
running process; the flag follows, but see finding 2. `missed`: a template was saved while a
restart had read the old one and stopped the process; `updateSetting` finds Xray not running and asks
for nothing. All three are cleared by the restart or hot apply that puts things right.

### `ClientLimits`

One client on local inbounds. Whether it may connect is written in three places, the `enable` of
the client in each inbound's settings (`on`), in its record (`rec`) and in its row (`row`), and Xray
has it or not on each inbound (`live`); the configuration that the Process has stored has it or not as well (`conf`); of the limits only whether the row is beyond them matters.
A function that runs on the traffic writer is one action (`AutoRenew`, `DisableInvalidClients`,
`ResetAllClientTraffics`, `ResetClientTraffic`). A call goes through the client's inbounds: it reads the
settings (`ReadInbound`), saves all of them as read and changed in a transaction of the
writer (`Commit`), and then asks Xray (`Push`), with the poll and the restarts
between any two of the three. Each call has its own end: `Update` writes the record,
`BulkSetEnable` row and record of a client that failed nowhere, `BulkAdjust` judges from the row whether it was
disabled by its limits and then enables it, the resets first update a disabled client and then
clear the row. A call for another client of the inbound saves this one's settings too (`EditOther`).

`upset` is a history: the poll changed the client during a call, a restart came in the
middle of a `BulkSetEnable`, or a transaction failed. The code has nothing against these (the poll
takes no inbound lock), and the properties are about what is left. A client that renews itself has one
inbound in `OneHomeSpec`: with several see finding 3.

A restart compares the new configuration with the stored one, never with what the API calls made of
Xray: `RestartXray` sets `live` where the two differ, and elsewhere only when something else (another
client, a forced restart) has the inbound or the process replaced (`done`). `Restart` is
`ApplyPendingRestart`, `OtherRestart` the rest of the callers. `GetXrayConfig` runs the poll's writes first, so
a restart is a `Poll` that nobody hears, followed by `RestartXray` when nothing is `Due`; the node job's poll is not heard
either. A request that fails then falls into one of three cases: the flag is set and the stored configuration says
something else than was asked, and the restart repairs it; the stored configuration says what was asked already, and
the restart sees nothing to do (finding 2); or nobody heard of it. In the last two the inbound is in the history `lost`, until
another request for it goes through or a restart replaces it. `LiveAsBuilt`, `ResetEnables` and `Cut` leave the inbounds in `lost` out.
Without that each of them fails: an update adds a client that was off, it reaches its limit, the poll's `RemoveUser` fails, and
the pending restart leaves it in. `Idle` lets a behaviour end.

## 4. The runs

| Run | Question | Bounds |
|---|---|---|
| `TrafficWriter_service` | safety, refinement and the return of every call, under every interleaving | 2 submitters against a queue of 1, so it fills while the writer is away; 2 controllers; 2 generations, so a writer follows one that was stopped |
| `NodeConfig_races` | what holds with edits at every point of the tick | 2 inbounds, 1 client that is on, 1 editor beside the tick and the one-step calls, 2 edits, 1 fault |
| `NodeConfig_sequential` | what holds when calls and ticks do not overlap | 2 inbounds, 2 clients that are on or off, batches of 2 over the threshold, 2 edits, 2 faults, lost replies, empty snapshots |
| `NodeConfig_calls` | do overlapping client calls keep each other's edits, and do they all end | 2 editors, 2 inbounds, 2 clients, 3 edits, a batch of 2 is over the threshold, 1 fault; no tick |
| `NodeConfig_converges` | agreement in the end | 2 inbounds, 1 client that is on or off, 1 edit, 1 edit on the node itself, 1 fault, lost replies |
| `NodeConfig_onboarding` | finding 1 | 2 inbounds, empty snapshots |
| `EventBus_delivery` | order, loss only at a full queue, isolation of a slow subscriber, replacement, stop | 2 ids, of which one may block for ever; 2 workers, of two ids or both of one; 4 events against queues and a buffer of 2, so that both fill |
| `NodeTraffic_sums` | is each byte counted once, and none dropped | 2 nodes, one with 2 inbounds; 2 bytes, 2 calls or changes on the nodes, deadlines up to 2 so that one can be renewed |
| `XrayRuntime_reconciles` | does the process end up with what was asked for, does a stop hold, does a crash heal | 2 users, one of them in Xray from the start; 2 credentials; 2 edits or polls, 1 fault, 1 ordered restart or stop |
| `XrayRuntime_dropped` | finding 2 | the same |
| `ClientLimits_agrees` | do the three records and Xray agree after any sequence of calls | 2 inbounds, 3 calls, limits reached twice, 1 failure |
| `ClientLimits_renewal` | finding 3 | 2 inbounds, 1 call, limits reached twice, no failure |

The bounds of `NodeConfig` count edits, faults and edits on the node. Two edits
are enough for one edit to overlap the reconcile of another, or for a second edit to meet what the first, a
reconcile and a fault left behind. `NodeConfig_races` has no client that is off, because its properties do not speak of
clients; in `NodeConfig_converges` the node's own administrator only deletes an inbound or writes one that is
enabled and has clients that are on (`FewRows`), which keeps the run short. A second inbound is there
because an empty snapshot, and only an empty one, is ignored by the merge.
`NodeTraffic_sums` lets one snapshot be under way at a time: counters and baselines are kept by node
and merges follow one another on the writer, so a second one meets nothing that calls between fetch and merge
do not already bring about (with `Concurrency = 2` TLC found no error in 3.9 million states either, which is too
long for a run that is repeated at every change). Two calls allow a deletion or a reset before a merge and an attachment
after it. Two edits and one order in `XrayRuntime` allow an edit that is polled away, or one that overlaps the restart
for another. Three calls in `ClientLimits` reach the mixture of a disabled client, a
periodic reset that enables its row alone, and a call that starts from there.

`PlainSpec` and its restrictions (`MCNodeConfig`) keep out, one by one, what the code is
known to get wrong, so that the passing run shows that nothing *else* breaks the
three properties: no call overlaps a tick or another call (`Alone`), no client is
written under a living tombstone (`NoRevival`), no row is taken back to a recorded
payload that the node no longer serves (`NoReturn`), no client that the node has lost to a reconcile is updated while the
fingerprint of the full row is recorded (`NoLoss`), no empty snapshot before the first
adoption (`LateBlips`), no inbound is added disabled (`EnabledAdds`), no client of a node
that is not yet adopted is deleted (`KnownDeletion`), no transaction fails
after its pushes or its tombstones (`SureCommit`), and the dirty flag is read and written without an error (`SureFlag`).
TLC finds a counterexample for each one that is taken away, within the run's own bounds. Three consequences of the built payload are
*not* barred, they are in the statement of the properties: a cleared flag does not mean that the node has the clients that are
off, a clean node serves the panel's rows and need not equal them, and a merge may take clients that are off from a row.
`Convergence` is equality in the end: it is reached when the merge has taken them.

### Fairness

`TrafficWriter`: goroutines run, `twMu` is handed over (Go's mutex is starvation-free), and the
5 s timer fires. `NodeConfig`: calls run to their end, the cron keeps calling
the job and each tick ends, the heartbeat reports a node that is up, tombstones
expire. `EventBus`: goroutines run and handlers return, but for those of `Stuck`;
nobody has to publish, subscribe or stop. `XrayRuntime`: a call that began goes on, the
crash check (every second) and the pending restart (every 30 s) keep running, the holder of the
lock goes on and one of those that wait gets it next. `ClientLimits`: the poll runs every 5 s, a
pending restart is applied every 30 s, a call goes on. All of these are weak. `NodeTraffic` states no
liveness: that a counter arrives is `NodeConfig`'s tick. Faults are bounded, not fair: they may, but need not, happen.

### Findings

Each is a run that must end in a violation; `PROJECT.json` quotes the line.

1. *Empty first snapshot* (`NodeConfig_onboarding`): nothing is imported, the
   latch is set, and the next reconcile sweeps the node.
2. *A pending restart that does nothing* (`XrayRuntime_dropped`): a client is added through the
   API, the poll disables it and its `RemoveUser` fails. `ApplyPendingRestart` clears the flag before
   `RestartXray` looks at it, the stored configuration equals the new one (both without the
   client), and the client stays connected.
3. *Renewal of a client of several inbounds* (`ClientLimits_renewal`): `autoRenewClients` enables it
   in the settings of the first inbound only, and the last one's settings disable the record again.

### Known disagreements kept out of the passing runs

Taking a restriction or an exemption away makes the property named fail; none has a run of its own.

| What happens | Barred by |
|---|---|
| An inline write overlaps the writer that drains after Stop; each takes the other's rows in the opposite order. | `InlineOnlyWithoutWriter` speaks of a writer that is not stopping |
| `syncOne` reads the dirty flag before the merge is queued; an edit between the two is taken back (`EditSurvives`). | `Alone` |
| `syncOne` ignores the error of `NodeSyncState`: the merge of a dirty node runs as if it were clean, and takes the edits back (`EditSurvives`). | `SureFlag` |
| `UpdateFromRequest` only warns when it cannot mark the node dirty: a node whose row now leads to a fresh server stays clean, and the next merges take over what that server has (`EditSurvives`, `CleanMeansSame`). | `SureFlag` |
| A full row is pushed and recorded; a reconcile whose answer is lost takes the disabled client from the node without recording it; an update of that client succeeds at a node that has it elsewhere and changes nothing there, and `AdvancePushedInbound` records the new row as held (`ClearMeansHeld`). | `NoLoss` |
| A stale fingerprint comes true again: disable (push fails), add a client (pushed, not recorded), save the inbound as it was; the reconcile skips it and clears the flag (`ClearMeansHeld`). Dropping an inbound and adding it again leads there too. | `NoReturn` |
| The same with an overlap: a client edit commits and pushes between the reconcile's read and its `recordPushedInbound`, and `AdvancePushedInbound` moves the older fingerprint to the newer payload. | `Alone` |
| An inbound that is added disabled is not marked, hence never sent, hence swept (`EditSurvives`). | `EnabledAdds` |
| A client added again within 90 s of its deletion is stripped by its tombstone (`EditSurvives`). | `NoRevival` |
| A client is deleted before its node's first adoption: the tombstone is of a client whose other rows are still to be imported, and the next merge takes it from them (`EditSurvives`). | `KnownDeletion` |
| An empty answer counts as the first adoption: a node that is adopted and clean has inbounds that the panel had and lost (`CleanMeansSame`; see finding 1). | `LateBlips` |
| A bulk call pushed to the node and its transaction failed (`CleanMeansSame`). | `SureCommit` |
| The transaction of a deletion failed: the tombstone stays for 90 s, and the next merge takes the client from the row that was kept (`EditSurvives`). | `SureCommit` |
| A node moves a client between two of its inbounds within one snapshot: the sweep asks the settings of before the merge and deletes the shared row (`SharedKept`). | `Shared` |
| A template is saved after a restart read the old one and stopped the process (`TemplateApplied`). | `missed` |
| The node job and `GetXrayConfig` drop the poll's `needRestart` (`PendingApplied`). | `raced` |
| The poll disables a client during a call, which then saves or pushes what it read before (`OneAnswer`, `LiveAsBuilt`); so too a call one of whose transactions fails. | `upset` |
| A request to Xray fails, and the stored configuration is already what it asked for, or the poll that made it was the node job's or `GetXrayConfig`'s: no restart makes up for it (`LiveAsBuilt`, `Cut`, `ResetEnables`). | `lost` |

## 5. Proofs

`TrafficWriterProofs` proves, for any number of submitters, controllers, generations
and any queue size, the type invariant, the five safety properties and the
refinement. The inductive invariant `IInv` adds to them what ties the copies
together: a submitter that waits has its request in exactly one place, a queue holds
only requests of its own generation that wait and are unanswered, a generation
beyond `made` has nothing, every generation before `cur` has exited, and a
writer exits only cancelled and with an empty queue. `AcceptedNeverLost` alone is not inductive:
without uniqueness of a request's place, the answer to one copy would leave
another in the queue. There is one lemma per action, and `StepRefines` maps each
to a step of `WriteService` or a stutter. The assumptions are that the queue
size and the number of generations are positive and that `NoOne` is no submitter.

`NodeConfigProofs` has three theorems, for any inbounds, clients, editors and
bounds. `TypeCorrect` proves `TypeInv`, which adds to `TypeOK` what a call has at each
of its points (`GoodCall`); it is needed because a call commits and pushes what it
computed some steps before. `ClearCoversHolds` adds `WantInv`: while `dirtyAt` is
still the stamp that the tick loaded, the rows that the reconcile read are the
panel's rows. Every action that changes a row either marks the node, which moves the
stamp, or adds a disabled row; only `ClearDirty` takes the flag back, and it
compares the stamps. It holds with every overlap of edits and ticks.
`OnboardingHolds` adds `OwnInv`: an inbound that the panel, a call or the
reconcile knows was once in the panel's rows; so nothing else reaches the
node, a snapshot can only name more, and after the first merge everything on the node
is known. It assumes `Blips = FALSE` and `MaxLocal = 0`: `NodeConfig_onboarding`
shows that it is false with an empty answer. The three share the case split over
`Next`, one lemma per action for `TypeInv`. The set of inbounds is assumed to be
finite (a deletion counts the inbounds it will visit) and `None` to be no element of
the other sets.

`EventBusProofs` proves all six safety properties of the bus, for any ids, queue
sizes and numbers of events and workers. `BusInv` has three parts. `RegInv`: the registered
workers have distinct ids and have not been told to quit, a worker not yet
made has nothing, and once `Stop` has returned everything has exited. `OrderInv`: the
channel, the event in dispatch's hands and each worker's queue form one increasing
sequence above what the handler has seen; order alone is not inductive, as the next
event comes from the channel. For `HandledOnce`, `Distinct` says that two workers of one
id never hold the same event: the new one starts empty, dispatch gives an event to
registered workers only, and of those one has the id. `TailFacts` and `AppendFacts` state what a
queue's two operations do to its elements and their order.

`XrayRuntimeProofs` proves the three safety properties of the process, for any users, credentials and
bounds; none needs fairness. `TypeInv` adds to the types that a job in progress belongs to the caller that
holds the lock. `ProcInv` ties the process to the job (a stopped process is down and no job is under way;
it is being started only by the job that refreshes), which is enough for `StopHolds` and its exception `Forced` (the operator and
the node job). `CoreInv` says of the parts
without reload API that wherever the process, or the configuration a job has read, is behind what was saved, somebody
still asks for a restart. `UserInv` says the same of each user. `Known`: a user whose wish
changed after a job read the database is recorded as touched and raced. `Diff`: a hot apply brings in line every
untouched user whose stored and new configuration differ. `Synced`: a user that nothing raced and that is out of
line in Xray is what the *stored* configuration says, so the restart that is still asked for compares the two and
sees the difference. `Reconciled` is not inductive without this last part: a restart compares with the stored
configuration and not with Xray, and a process that agreed with neither would never be repaired, which
is what finding 2 is. The only assumptions are those on the bounds.

`ClientLimitsProofs` proves that the settings, the record and Xray agree between calls, and that
a reset enables, for any number of inbounds and any bounds. Between calls `Agreed` says so directly; within
one, `Walk` describes how far it has come: `Untouched` as long as every inbound it has passed had the new
value already, `Touched` once it has changed one, when the record, the row and the inbounds it has left are
new and those before it still old. A walk that is `Untouched` at its end changed nothing because everything
was as asked, and that is where `rec => row` (part of `Agreed`) is needed: a client that the panel shows as
enabled is enabled in its row. `Follows` is what both say of Xray: the inbound has the user as it should, or is in `lost`, or a
restart is pending and will see it, because the stored configuration says something else. The theorems are about `OneHomeSpec`, as the run is; the assumptions
are that the inbounds are finite, `NoInbound` is none of them and the bounds are natural numbers.

`MCNodeConfigProofs` is about the restricted specifications of `MCNodeConfig`. `ClientEditsHold`: with client
calls of any number of editors interleaved at every step, a call that commits a row finds it as it read it.
The invariant, `FreshInv`, ties the copy that a call took (`old`) to the row from the read to the commit, over the
pushes of a call that pushes first; it rests on `TypeInv`'s part about the locks, since another call's commit
changes the row of the inbound it has locked and no other.

`EditsSurvive`, `ClearHeld` and `CleanSame` are about `PlainSpec`, and hold for any number of inbounds, clients,
editors, edits and faults. What a call and a tick leave behind differs at every point, so `AlikeInv` has three parts.
`Quiet` is what holds between calls: a node serves the panel's row when the recorded payload is one that a reconcile
would send for it (`Agrees`), no row has a client whose tombstone lives, and a clean node serves the panel's rows.
`Agrees` speaks of both payloads, the row and the row without its disabled clients, because calls record the one and reconciles the
other, and a skip may be for either. Within a call `Alike` says the same of the inbounds
that the call has left or not reached, and of the one it works on what its requests made of it: as long as none
has failed, the node differs from the new row in the clients that are still to be sent, and in clients that are off (`Sending`), which is what
`AdvancePushedInbound` relies on when it records the new payload. For a deletion `Awaiting` describes the inbounds it has still
to visit: the first request has already taken the client from them on the node, so a recorded payload that matches the
panel's old row is ahead of it. `TickOK` says of the tick that what it read is still so, which inbounds it has brought in line, that
what it is about to record is on the node, and that a
snapshot is what the node has, or empty. `Alike` takes the call as its argument, so a step of a call is
shown by what it makes of that call (`CallerMoves`). An edit on the node itself ends the claim (`locals = 0`), as it does in
the properties. The invariant was run through TLC on `NodeConfig_sequential`'s instance before it was proved; the proof
needed `NoReturn` to look at every inbound of a deletion, and at an inbound that is added again, and TLC found the case that `NoLoss` bars.

`NodeTrafficProofs` proves all four properties of `NodeTraffic`, for any number of nodes and inbounds, any
number of snapshots under way at once (`Concurrency`) and any bounds, from the assumption that the nodes
are finite, that every inbound has a node, and that `None` is a value of its own. `NoDoubleCount` is far from inductive:
whether a merge may add what its snapshot says depends on the baseline and on what the node has counted since. `DueInv`
says that what the row counts, *together with* what every node still owes it, is at most the bill. What a node owes
(`Due`) is what its snapshot under way adds to the baseline, and what its counter added to that snapshot
(the `Due...` lemmas: a byte adds at most one, a counter that falls adds nothing, a fetch leaves it as it is, and a merge
takes from it at least what it adds to the row). `SnapInv` says of a snapshot that its copies have a greatest one, which is
the counter at the fetch, and that a client is reported if and only if some inbound of the node holds it; that is what keeps
the baseline in `Conserved`, and the row in `SharedKept`.
A step changes one node's debt, and `SumTheorems` carries that over to the sum of all nodes.

`SumTheorems` proves about `MapThenSumSet` of the community modules what these proofs need: `TotalNat` and `TotalChange`. That
operator is a choice among recursive functions on the subsets of the set. The induction principles of the
library take a predicate as a parameter, which the provers cannot instantiate; `WFMin` takes a set, and from it
`NatSetInduction` and `SubsetInduction` follow, which speak of a set of numbers, or of subsets, in the predicate's place.
So induction over data is within reach in this form, as long as the definition is a recursive function
and not a `RECURSIVE` operator.

Model-checked only: liveness (fairness and ENABLED are out of the prover's reach: `Recovers`, `Converges`,
`Cut`, `Convergence` and those of the other modules). Every safety property that a passing run checks is proved.

## 6. Not modelled

Rendering of subscriptions and links, the front ends, documentation, deployment
files, mail and bot wording, database migrations, the metric buffers, the
upgrade of the panel and of Xray: they transform data or do I/O in one
goroutine. The login limiter and the notifiers' throttle are one map under one mutex each, with a clock;
a model of them would be the function again. The client IP job depends on log lines and time windows.
Inside the modelled parts: the values of counters and totals beyond one client's
(inbound totals, globals of other panels), the manager's cache of remotes, the tunnel
monitor's probe and cooldown, port conflicts, groups, and whole-inbound requests to the local Xray.
The remaining stateful components are in the plan.

# Formal model of Wavr's backend

Wavr is a local-first presence system: a Python (FastAPI) process, the **Core**,
turns what sensors report into "who is in which room", and serves it to the
household's phones, panels, automations and other Cores.  This directory holds
TLA+ modules for the parts of `src/backend/wavr` and of the sensor node's
firmware (`src/firmware/wavr_node`) whose correctness depends on the order of
events, the TLC configurations that check them on small instances,
and TLAPS proofs of the results that should hold for any instance.

* Check a run: `tlc -config CoreTopology_space.cfg MCCoreTopology`
* Check the proofs of a module: `tlapm CoreTopologyProofs.tla`
* `PROJECT.json` lists the components, runs, mutants, findings, hazards and
  theorems, and maps every definition to the lines of source it models.

## How the program runs

One process, one asyncio event loop, a handful of worker threads.

* HTTP handlers, the ingest callback, the rules, away and routines loops run on
  the event loop: between two `await`s nothing else on the loop runs.
* `asyncio.to_thread` work (the discovery pass, peer calls, MQTT clients,
  camera capture) and the stores' SQLite connections run concurrently with it;
  each store serialises its own statements with a `threading.Lock`, and a method
  that takes the lock twice is not atomic.
* State that must survive is in SQLite (`wavr.db`, one table owner per store);
  everything else (pairing codes, pending approvals, tasks, fusion state,
  sessions, retained-message memory) is lost with the process.

```
sensors --> SourceManager / SourceSupervisor --> FusionEngine --> Hub (per-subscriber queues)
                                                      |             |--> RulesEngine --> MQTT
                                                      |             |--> AwayMonitor --> house home/away
                                                      |             |--> RoutinesEngine --> ActionExecutor
                                                      |             `--> /ws/live, experiences
phones  --> PairingManager / PairApprovalManager --> DeviceStore --> auth (scopes, person cap)
Cores   --> PeerStore --> core-status --> CoreRegistry + SpaceStore.epoch
network --> inventory, nodes, peers --> DiscoveryInbox --> a human decides
```

## Inventory

| Component | State it keeps | Operations | What is hard | What makes it correct |
|---|---|---|---|---|
| Core topology (`core_registry.py`, `space_store.bump_epoch`, `app._observe_peer_cores`) | `cores` rows (status, epoch, is_self), Space epoch | register, promote, demote, forget, observe_peer, heartbeat | handlers against the discovery thread, stale answers, crash between two commits, several independent databases | one authority in the end, the strongest claim is upheld, an epoch is never replayed |
| Space set-up and the person cap (`api_space.py`, `space_store.py`, `auth.py`) | Space row, people, device links | create-space, join-space, adopt, people and ownership | several commits per request, rollback that can refuse | all or nothing; exactly one Owner; nobody's device is answered as more than its person |
| Source lifecycle (`sourcemanager.py`, `provider_runtime.py`) | factories, enabled, tasks, supervisor states | register, start, stop, set_enabled, restart, unregister, the supervised loop | every `await _kill` is a hole for other handlers; the loop's own teardown | at most one task per source, disabled stays dead, reported state is the task's |
| Fusion (`fusion.py`, `app._refuse_once`) | newest event per modality and sensor, debounced occupancy, count latch | update, state (the re-fuse) | staleness, clocks ahead, flapping input, silence, stale counts | vacates only after the dwell, never freezes, a count ends with what it was counted from |
| Publishing (`app._publish`, `storage.py`, `occupancy_log.py`) | `latest`, history rows | publish | awaits the disk before it publishes, several tasks at once | readers are shown states fusion reached and settle on the last; a claimed row is written |
| Hub (`hub.py`) | subscriber queues (256) | subscribe, publish | slow consumers | bounded memory, newest state survives |
| Rules (`rules.py`) | last occupancy, availability, coverage | handle, handle_coverage, handle_devices | retained messages, sensors vanishing and returning | the broker's view is never a stale fact presented as current |
| Away and room trackers (`away.py`, `person_presence.py`, `stillness.py`) | streak, last house state, room edges, dwell | handle | several rooms, grace | away only after consecutive vacancy everywhere |
| Routines (`routines.py`) | routines, edge latches, last fired | house, room, person and device edges, tick, stillness | restarts within the same day, edits under way, disabled sensing | each trigger at most once, no day skipped |
| Pairing codes and tickets (`pairing.py`) | codes, tickets, per-address failures | mint, redeem, redeem_ticket, purge | expiry, a code tried twice, crash inside a mint | single use, guest codes give guest credentials only |
| Live sockets (`app._ws_authorize`, `app._stream_live`) | one handler per socket, `last_check` | authorise, accept, wait, send, re-check | a credential lost at any await, a hub that is silent or never pauses, a peer that reads slowly | frames to a lost credential stop, its socket ends |
| Pairing approvals (`pair_requests.py`) | pending and approved requests | create, poll, approve, deny, eviction | caps evict while an approval is being fetched | a token is issued only by a matching approval and reaches its requester |
| Devices (`devices.py`) | credentials | add, verify, supersede, revoke, role, consent | one physical device pairing again | one live credential per device and kind, a pairing locks nobody out |
| Peers (`peers.py`, `api_peers.py`, `peer_client.py`) | peer rows, two credentials per link | confirm, link-back, unpair | two databases, a lost answer | a link is two-sided or its minted credential is revoked |
| Sensor nodes (`nodes.py`, `api_nodes.py`, `firmware/wavr_node`) | node rows, codes, held tokens; flash, RAM | request_join, approve, deny, claim, redeem, disable, reactivate, revoke, telemetry, heartbeat; boot, press, send, wipe | lost and replayed messages, power cuts between checkpoints | the board stays ahead of the Core's counters, off and revoked reach it |
| Discovery Inbox (`discovery_inbox.py`, `discovery_feed.py`) | items with a decision | observe, decide, resolve, prune, evict | the same sighting again after a decision, caps | a decided question is not asked again unless it changed |
| Experience sessions and grants (`experience_session.py`, `experience_grants.py`) | sessions, members, grants | open, join, observe, close, expiry | eviction under load | a member sees only what its grant allows |
| Calibration sessions (`calib_session.py`) | walk sessions | start, capture, retry, solve, abort | late captures | only a complete walk is solved |
| Camera health (`camera_health.py`) | cameras down, suggestions to rebind | report, suggestions, clear | a camera that moved and one that is off look alike | a suggestion names a device the inventory holds |
| Notifier (`notifier.py`), updates, settings, identity, maps, MCP, network actions, storage | see the source | | | |
| Frontend, mobile, desktop, native runtime, SDKs, site | clients of the API | | | |

The per-component notes in `PROJECT.json` say for every part whether it is
modelled, partly modelled or not, and why.  The hazards listed there are the
places where the ordering, a crash, a deadline or a bound bites; each names the
properties that watch it.

## Modules and runs

| Module | Models | Run | Proofs |
|---|---|---|---|
| `CoreTopology` | leadership of a Space | `topology_space`, `topology_epoch_reused` | `CoreTopologyProofs` |
| `SourceManager` | the life of a sensor source | through `sources_tasks` | `SourceManagerProofs` |
| `SourceManagerInTurn` (EXTENDS it) | the same, with requests that come in turn told apart | `sources_tasks` | `SourceManagerProofs` |
| `Devices` | credentials and experience grants | through `pairing` | `CredentialProofs` |
| `PairingCodes` (EXTENDS `Devices`, refines it) | codes and tickets | through `pairing` | `CredentialProofs` |
| `LiveSockets` (EXTENDS `PairingCodes`, refines it) | the sockets of `/ws/live` | `pairing` | `CredentialProofs` |
| `PairApprovals` (EXTENDS `Devices`) | pairing by a number on a screen | `approvals_asks` | `CredentialProofs` |
| `Spaces` | set-up, people, the person cap | `spaces_people` | `SpacesProofs` |
| `Fusion` | what a room claims | `fusion_room` | `FusionProofs` |
| `Board` | what a reader of a room is promised (abstract) | through `publishing_room` | |
| `Publishing` (refines `Board`) | how a room's state leaves the Core | `publishing_room` | `PublishingProofs` |
| `Rules` | what a home automation is told | `rules_room` | `AutomationProofs` |
| `Routines` | triggers, trackers and their runs | `routines_days` | `AutomationProofs` |
| `Nodes` | the node registry and one board | `nodes_board`, `nodes_revoked` | `NodesProofs` |

Every module states a type invariant, and it is proved, so the runs do not
spend a property on it; `ApprovalsTypeOK` alone is checked by its run too, because
it carries the two caps.

Every invariant and every action property that a run expects to hold is also a
theorem, and so is the safety half of every refinement.  A component's proofs are
in a module of their own; the four modules about credentials share
`CredentialProofs`, because three of them refine another, and the two about
automation share `AutomationProofs`.

A property that a document, a comment or a docstring of the repository promises
and the code does not keep is stated in its module too.  Two are runs that expect
the violation (`topology_epoch_reused`, `nodes_revoked`); the others are named
under "Does not hold" below, with the lines that disagree, and can be seen by
putting them in place of the properties of the run.

## CoreTopology: who speaks for a Space

The Cores of one Space.  Each has its own database, so the state is indexed by
Core: `space[c]` is the epoch of its Space row (0 before set-up), `cores[c][d]`
the row for `d` in its `cores` table, `pass[c]` the discovery pass of its worker
thread.  `claimed` and
`excused` are history variables: they influence nothing.

`Promote`, `PromoteRefused`, `Demote`, `Forget`, `CreateSpace` and `JoinSpace`
are whole handlers (the event loop runs them one at a time).  The pass is split
where another thread or the network can come between: `Answer` takes a snapshot
of the peer (which may be stale by the time it is used), `ObservePeer` reads the
own row and decides, `StandDown` is the `demote` call that follows in a lock
section of its own, `EndPass` ends it.  `Crash` loses the
pass and keeps the databases; `CrashInPromote` falls between the two commits of
one request.

| Run | Checks | Shows |
|---|---|---|
| `topology_space` | `StrongestStands`, `NeverReplays`, `OneVoice` | Two paired Cores, epochs up to 4, one crash, 309,674 states: whatever the interleaving, the strongest claim of the Space is upheld by its Core unless its operator demoted it or the race below did; no Core is primary twice at one epoch; once promotions stop (`MaxEpoch`), at most one of two mutually paired Cores stays primary. |
| `topology_epoch_reused` | `EpochNeverReused` (violated) | `bump_epoch` says its values are never reused; they are per database, and join-space starts each at 1. |

*Bounds.*  Two Cores are the smallest Space that can be contested; epochs up to 4
let each Core be promoted at least twice after set-up, which covers lower, equal
and higher epochs on either side; one crash suffices because a crash only forgets
the pass.  The theorems hold for any number.

*Fairness.*  `_discovery_loop` runs a pass every interval for ever and swallows
exceptions (weak fairness of the pass's own steps); a service manager restarts the
process; a peer that is reachable again and again is reached some time (strong
fairness of `Answer`).  Operators owe nothing.

*Proved* (`CoreTopologyProofs`, for every `Core`, `IdRank`, `Peers`, bounds
satisfying `CoreAssumption`): `TypeCorrect`, `StrongestClaimStands`,
`PromotionsAreFresh` and `TableHoldsOnlyItself`.  `StrongestStands` is not inductive: a Core about to stand
down must still have its reason.  The invariant `IInv` therefore adds that a Core's
table only ever holds itself, that no epoch on record is ahead of the Space row,
that an answer in flight is a claim on record (`AnswersAreClaims`), and that a Core
in `standing_down` is excused, no longer primary, or facing a claim that beats its
own (`YieldsForAReason`); two claims never beat each other, so the strongest has no
reason to go.  `OneVoice` is liveness and only model-checked.
`TableHoldsOnlyItself` has a consequence for the Inbox: `feed_core_topology`
looks for a second primary among the Core's own rows, where there never is one,
so the `core_contested` card the comment at `discovery_feed.py:147` describes is
not raised.

*Does not hold*: `NeverYieldsToStale`.  `observe_peer` (`core_registry.py:357`) reads the
own row, compares and demotes in separate lock sections of a worker thread, so a
promotion handled by the event loop in between is undone although its epoch is above
the peer's; the comment at `core_registry.py:366` says "the peer is stale; it will yield
to us".  `excused` records exactly these Cores, which is why `StrongestStands` still
holds of all others.

## SourceManager: the life of a sensor source

`SourceManager.tla` models `sourcemanager.py` and `provider_runtime.py` together,
because neither is meaningful alone: the manager creates and cancels tasks, the
`supervised` loop is what runs in them, and the supervisor's row is written by both.

| In the module | In the code |
|---|---|
| `running`, `registered`, `enabled`, `tasks` | `_running`, `_factories`, `_enabled`, `_tasks` |
| `task[t].at` | where the coroutine of a task is suspended: not started, in the source's generator, in the generator's clean-up, in `aclose()`, in the back-off sleep, ended |
| `task[t].cancelled` | `cancel()` was called and has not been delivered |
| `health` | `SourceSupervisor._h`; `failures` saturates at `FAST_ATTEMPTS`, where the code stops telling values apart |
| `req`, `loop` | the requests suspended in `await self._kill(...)`, and which of them has the event loop |

A request that never awaits is one action.  A request that kills is split exactly at
the await: `Disable`, `Restart`, `Unregister`, `Stop` run to `Kill`, which cancels and
gives the loop up; `Killed` takes it back when the task has ended; `Finish*` is the rest
of the handler.  `Unregister` covers delete, and with an immediate register the rebind,
re-calibration and calibration-walk endpoints of `app.py`.  A task that is cancelled may
be anywhere in the loop, and the five places are different: before its first step
nothing of it runs, in the generator `on_stop` comes after the generator's own clean-up,
in `on_event` it comes before `aclose`, in the sleep and in `aclose` it does not come.

The run `sources_tasks` allows a request to arrive while another awaits (`Overlap`) and
`SourceManagerInTurn` adds the history variable `raced`: a request has been served while another
was in flight.  282,498 states.

* Whatever interleaves, a live task is always the one the manager can reach
  (`NoLeakedTask`), the table never names a dead or condemned one (`CurrentIsLive`), and an
  enabled source is always brought back (`Recovers`).
* As long as requests came one after another, with failures and clean ends at any moment:
  one instance per source (`OneInstanceInTurn`), off is dead (`OffIsDeadInTurn`), and the
  health row says "running" exactly while the generator runs (`HonestInTurn`).

*Does not hold* once requests overlap: `AtMostOneInstance`, `OffIsDead`, `HealthIsHonest`.
`_kill` pops the task before it awaits it (`sourcemanager.py:142`) and nobody looks again
afterwards; the system toggle, source toggles, restarts and camera edits are separate HTTP
requests, so two clicks while a source takes its time to close start a second instance
beside the first ("Runs one supervised async task per ENABLED source",
`sourcemanager.py:12`; "how a double-start bug gets written", `provider_runtime.py:223`).
`unregister` removes the name after its await, when a start may have spawned the task again,
and the `on_stop` of an old life lands after the `on_start` of the next.  So the three properties
in turn say nothing about the races themselves: they show that each handler does what it says when
nothing comes between, through every place a cancel may land.  A cancelled task
counts only from the moment the cancel has been delivered, so that this does not rest on
the order of the ready queue.

Bounds: one source (a second one adds only the order in which `stop` walks over the names), two suspended requests, `FAST_ATTEMPTS` 2 instead of 5
(the counter is compared with it and reset, nothing else).  Task identities are reused
when nobody refers to them any more, which makes the state space finite with no bound on
the number of restarts.  Fairness: the loop serves what is ready; sleeps end; a cancelled
or closing generator ends (an assumption about the sources); a created task is scheduled
before requests that arrive later, which asyncio's FIFO ready queue guarantees, and is
stated as strong fairness of `First` because a restart may kill a task before its first
step.  Nothing is assumed of requests or of what a source does.

**Proved** (`SourceManagerProofs.tla`): `NoLeakedTask`, `CurrentIsLive` and `TypeOK`, for
every set of sources and of overlapping requests.  The inductive invariant is these three
and `Attended`: a live attempt has no fault on its row.  `NoLeakedTask` and
`CurrentIsLive` need each other (a spawn is safe only because what the table names is
alive, and a kill is complete only because what is alive is in the table), and `TypeOK`
needs `Attended`, because a long healthy run zeroes the failures of whatever row it finds,
which is a possible row only if no fault is on it; that again needs `NoLeakedTask`: the
only attempt that could have recorded the fault is this one.  The proof first shows what
the four table operations do (spawn, move, exit, condemn) and then that every action is
one of them.

`OneInstanceInTurn`, `OffIsDeadInTurn` and `HonestInTurn` are proved too, of the behaviours in
which no request overtook another.  There the invariant is `TurnInv`: one request has the
manager at a time (`OneByOne`); every live task is on the table or is the one being waited for
(`Placed`, from which no task has a twin); what has begun is wanted or about to be killed
(`WantedOrDoomed`); a removal whose kill is over finds nothing alive (`Emptied`); and the row
says "running" while the generator runs, for every name and not only those on the roster
(`Told`, which a name that leaves the roster and comes back needs).  A step that makes `raced`
true ends the argument, so each is proved for a request served while the manager is idle and
for the progress of the one in flight.  `Recovers` (liveness) is model-checked only.

## Devices: the credentials of a household

`Devices.tla` is the store both ways of pairing end in: `DeviceStore` with
`supersede_same_device`, and the `GrantStore` rows that hang off a device.

| In the module | In the code |
|---|---|
| `device[d]` | a row of `devices`: `device_key` (the phone), whether it carries `expires_at` (`temp`), role, live or revoked, and whether its deadline has passed (`lapsed`) |
| `grants` | device ids with rows in `experience_grants` |
| `untidy` | history: phones whose last mint of a kind was cut short by a crash or a failing call |
| `Mint`, `MintCut` | `add`, `supersede_same_device`, the revoke hook; all of it, or a prefix |
| `Administer` | `revoke` (hook runs), the removal of the owner (it does not), `set_role`, `grant`, `revoke_grant`, unpairing |
| `Lapse` | the clock passes `expires_at`; nobody writes anything |

The handlers have no `await` between the store calls, so only a fault separates them:
that is `MintCut`, enabled by `Faults`.  Ids are random and never reused.

The store is checked under the pairing layer, by the run `pairing` below: a phone holds at
most one live key of a kind once its last mint completed (`OneLiveKey`), and no pairing takes
its last permanent one, cut anywhere (`PairingNeverLocksOut`).

*Does not hold*: `RevokingClearsGrants`.  Removing a person (`api_space.py:503`) revokes the
devices with `DeviceStore.revoke`, which runs no hook, and their experience grants stay.
`devices.py:274` says "There are two ways that happens", `devices.py:279` "Setting it here
means the two agree by construction", and `experience_grants.py:197` "Drop every grant for a
device. Called when it is unpaired."  An expiry and the revocation of a peer's credential run
no hook either, and `set_grant` does not look whether the device is still there.

*Proved* (`CredentialProofs`, every set of ids, phones and roles): the type invariant and the
three properties, from `KInv == DevicesTypeOK /\ OneLiveKey /\ GuestsExpire`.  The lemma
everything rests on says what a mint does to the table whatever its prefix: one new row,
some rows of the same key and kind retired, no other touched.

## PairingCodes: codes and tickets

`PairingCodes` EXTENDS `Devices` with `PairingManager`; its memory (`code`, `ticket`, `failed`)
dies in `Restart`, the rows stay.

| In the module | In the code |
|---|---|
| `code[c]`, `ticket[t]` | `_codes`, `_tickets`; stage "stale" is expired and not purged |
| `failed[i]` | the entries of a host in `_failed` within the window |
| `Redeem`, `RedeemWrong` | `redeem`: throttle, look up, pop, mint (all or cut), or count a failure |
| `MintTicket`, `RedeemTicket` | the ticket route, and `redeem_ticket`, which spends it |
| `Entitled(d)` | a valid credential whose role holds `presence:read` |

`issued` and `wrong` are history.  `Budgets` bounds what is ever issued of each kind and how many
hosts guess; a spent value may be drawn again, which is the worst the random generator can do.
The layer is checked with the sockets at work, by the run `pairing` below.

*Proved* (`CredentialProofs`): types, `ImplementsDevices` (initial states, and every step
is a step of `Devices` or leaves its rows alone), through it `OneLiveKey`, and
`HonestHostNotThrottled` for any numbers of codes, hosts and failures.  The invariant `PInv` adds
to the store's that a pending code could still be minted (`CodesMintable`: a guest's code leads to
a guest's row with a deadline) and that a bucket holds only the failures of its own host
(`FailuresAreOwn`).

`OneInvitationOneKey` is proved from `Balanced`, an account that the property itself is too weak
to keep: the rows of a kind *and the codes of that kind still in the manager* are together no more
than the codes issued.  Issuing adds one to each side; a redemption takes a code away for the
one row it adds, and a mint that is cut takes it away for nothing.

## LiveSockets: frames, and a credential that is lost

`LiveSockets` EXTENDS `PairingCodes` with the handlers of `/ws/live`, cut at every await.

| In the module | In the code |
|---|---|
| `Authorize` | `_ws_authorize`: the ticket is spent, the row is read |
| `Accepted` | `await ws.accept()` returns (`app.py:6531`); the loop of `_stream_live` begins to wait |
| `NextFrame`, `Sent` | `q.get()` returns in time; `await ws.send_json` returns |
| `TimesOut` | `wait_for` raises after `Recheck` ticks without a frame |
| `EndOfRound` | the rest of the loop's body: is `last_check` old enough, is the row still good |
| `since`, `waited` | now minus `last_check` (`Never` before the first check: it starts at 0.0), and the age of this `wait_for` |
| `Disconnect` | the peer is gone; the loop never receives, so only an accept or a send notices |
| `Tick` | time passes; `lost` counts for how long a credential in use has not been entitled |

**`pairing`** (`MCLiveSockets`: one code and one ticket value, two rows, one phone, two hosts,
throttle at one failure, one socket, an interval of two ticks, faults; 450,108 states).  Two
permanent invitations and one visitor's let a phone pair again over a cut mint, or with either
kind; a ticket with two keys lets the owner of a socket be revoked, expire, be retired by the
phone's next pairing or change roles and back, at every await.  `lost` and `age` stop at twice the
interval, the largest value a property compares with.  A second socket shares nothing with the first.

* `OneLiveKey`, `PairingNeverLocksOut`, `OneInvitationOneKey`, `HonestHostNotThrottled`, and
  `ImplementsDevices`: the layer is a refinement of `Devices`, so what is proved of the store holds
  under it.
* `FramesStop`: no frame begins to go out to a credential that was lost two intervals ago, however
  frames arrive and however long a send blocks.  The first frame of a socket is the exception: it
  precedes the first check, and a slow accept may put it off.  Even that never goes to a credential
  lost before the socket was asked for.
* `DeadStreamsEnd`: the socket of a lost credential closes, on a silent hub and on one that never
  pauses.

*Fairness*: time passes, `wait_for` raises when its time is over, and each accept or send returns
or raises in the end.  The last is an assumption about the server under the Core, which drops a peer
that does not answer its pings; without it a send to a peer that stopped reading holds the socket
(and its subscription) for ever, and no line of `_stream_live` would notice.  Nothing is assumed of
frames and people.  One idealisation: `wait_for` is never late, as if the loop were always free.

*Does not hold*: `StopsWithinRecheck`.  `_stream_live` promises "severing the stream within
`recheck_s`" (`app.py:255-256`; `app.py:245-250` says the same of the constant).  The check runs at
the end of a round and only when the last one is a whole interval old: a frame just short of the
interval skips it, and the next round may wait an interval more and still send before it checks.
Twice the interval is what holds, and it is reached.

*Proved* (`CredentialProofs`, any sockets, credentials and interval): the types, that every step is
one of `PairingCodes` or leaves its state alone (`LiveImplementsCodes`, so every theorem above holds
with sockets at work), and `FramesStop`.  The invariant `LInv` bounds how
long the owner of an open socket has been lost (`Fresh`): while the last check is younger than an
interval, it was lost after that check (`lost <= since`); in a wait after a check, less than one
interval before the wait began (`lost < Recheck + waited`); before the first check, after
`_ws_authorize` (`lost <= age`).  `DeadStreamsEnd` (liveness) is model-checked only.

Left out: sockets of the Core's own machine (no row, no check); `/ws/events`, whose loop is another;
the cap a person's role puts on a device, which both checks apply and `Spaces` models.

## PairApprovals: pairing by a number on a screen

`PairApprovals` EXTENDS `Devices` with `PairApprovalManager`.  `requests` is the map in
insertion order (the order the evictions go by), `asks` and `screen` are what each client
polls and shows, `read` records for each row whose screen the operator read and whose
request was approved.  `Create` purges, evicts by host, evicts globally, draws a number
that differs from every pending one, and appends; `Approve` retires the phone's earlier
key and mints, in one handler.

* **`approvals_asks`** (two clients on two hosts, two pending requests, one per host):
  `ApprovalsTypeOK` (with the two caps, which every path that adds a request must respect),
  `RightClient`, `DecisionIsFinal`, and `EveryAskEnds` under the fairness of a companion that
  polls and a clock that goes on.

*Does not hold*: `ApprovedIsCollectable`.  `_evict_oldest_global` (`pair_requests.py:308`)
drops the oldest record whatever its status, so later requests push out an approved record
whose token was not collected, when the phone's earlier key is already retired.
`pair_requests.py:46` promises that a dropped poll "must be retryable within this window
rather than stranding the operator's Approve".

The model lets two random numbers coincide only where the code lets them: a number shown
for a request that is gone is never drawn again (`StaleNumbers`), because a six-digit
coincidence is an event the code accepts.

*Proved* (`CredentialProofs`, any clients, hosts, numbers and caps): `ApprovalsTypeOK` with both
caps, `RightClient`, `DecisionIsFinal`, and that every step is a step of `Devices` or leaves its
rows alone, through which `OneLiveKey` holds here too.  All purges and evictions are subsequences,
so one group of lemmas covers them: each position of the new queue is that of an earlier one, no two
of the same (`Drawn`), hence the caps, the order and the decisions survive.  The invariant `AInv`
adds to the store's that ids are distinct (`QueueOK`) and `Answers`: the client that polls a
pending request made it and shows its number, and nobody else shows that number.  It is `Answers`,
kept by the unique numbers of `Create`, that makes `RightClient` inductive: what the operator reads
from any screen can name only the request of that screen's client.  `EveryAskEnds` (liveness) is
model-checked only.

## Fusion: what a room claims

`Fusion.tla` is `FusionEngine` for one room (it keeps its state per room), driven by
readings (`_ingest`) and by the periodic re-fuse (`_refuse_once`) under the wall clock.
Where the code keeps a moment, the module keeps the distance from now the code computes
from it, so time is `Pass`: everything grows older by one.

| In the module | In the code |
|---|---|
| `latest[s]` | `_latest[room][(modality, sensor_id)]`: age, presence, confidence, count |
| `occupied`, `pending` | `_occupied_state`, `_vacate_since` |
| `latch`, `count` | `_count_latch` and the published `person_count` |
| `due` | time since the last turn of `_refuse_loop` |
| `quiet`, `seen`, `counted` | history: since the last evidence; since the newest sight; since the newest count |

`Fuse` is `_fuse`: `Confident` is the weighted vote with decay, dissent and threshold,
`Evidence` adds the two pulls (a count, a presence-only source), `Debounce` is the
asymmetric dwell and `Recount` the four outcomes for the head count.  Ages may be negative:
a sensor whose clock runs ahead sends readings from the future, which are dead now and come
alive later with no new event.

**`fusion_room`** checks a camera (trusted absence, partly discredited), a radar (counts,
its absences prove nothing) and a presence-only source, with readings of now and from
beyond the skew tolerance; windows of two units suffice for a reading to be fresh, stale and
dead and for a dwell to start, restart and end.  `VacatesSlowly`, `RoomsFade`,
`CountsExpire`, `NeverResurfaces`; 306,864 states.  `RoomsFade` is a bound, not a liveness
property, because the re-fuse has a period (`Interval`, in which the sweep over the rooms is
contained): a room is occupied at most `Stale + Vacate + 2 * Interval - 2` after the newest
sight of anybody.

*Proved* (`FusionProofs`, any sensors, weights, reliabilities, windows and clock errors): all
four, and the types.  `FInv` adds to the types that stored readings are no newer than the history says
(`Recorded`), that a dwell runs only in an occupied room and no longer than the quiet
(`Dwelling`), that an occupied room without a dwell had evidence at its last fuse
(`Attested`), and that what is shown is what is latched and as old as it says (`Latched`).

The model's clock never steps back.  When the host's clock does, the code clamps the elapsed
dwell at 0 and the room stays occupied until the clock has caught up.  Modelling ages also
shows that the comment at `app.py:2057`, "confidence can only DROP as a source ages", is
true of presence but not of the ratio: when a dissenting camera goes stale, or a reading from
the future comes due, a re-fuse raises the confidence, and the room may turn occupied.

## Board and Publishing: how a room's state leaves the Core

`Board.tla` is the abstract specification: what a reader of a room is promised whatever it
reads from.  It is shown states fusion really reached (`Safe`), and once fusion settles, the
state it settled on (`Settles`).  It is *not* promised every state, nor their order.

`Publishing.tla` is `_ingest`, `_refuse_once` and `_publish` of `app.py` with the two tables
they write on worker threads.

| In the module | In the code |
|---|---|
| `fused` | `engine.state(room)`; `seq` is its time stamp |
| `latest` | `latest[room]`: every screen reads it, and the hub is fed when it is set |
| `pub[p]` | where in `_publish` a source's task, or the re-fuse tick, is suspended, and with which state |
| `stored`, `log` | the newest row of `room_states`; the occupancy log |
| `last` | `OccupancyLog._last[room]` and whose claim it is (the code compares objects) |
| `Ingest`, `Refuse` | a turn of the loop up to the first await |
| `Resume` | the loop comes back to a publisher whose thread is done |
| `StoreRow`, `WriteRow`, `StoreFails`, `WriteFails` | the worker threads |
| `Cancel` | the source is switched off while it waits; its thread finishes alone |
| `Restart` | `_last` is warmed from the log, the rest is gone |

**`publishing_room`**: two sources and the tick over three values, of which two differ only in
what the tick does not compare; two values fusion goes through, one fault; 413,852 states.
Two values are enough for an older state to overtake a newer one and to differ from it, three
publishers for one to be cancelled or fail while two overtake each other.

* `ScreenIsABoard`: `Screen == INSTANCE Board WITH truth <- fused, past <- past, shown <-
  latest` and `Screen!Spec` as the property.  It needs the tick to publish whether or not
  anything changed: that is what repairs a screen an overtaken publisher wrote last.
* `LastIsLogged`: the row the log believes it last wrote is written or on its way.

*Fairness*: the loop resumes what is ready, the threads run, `_refuse_loop` ticks for ever
(`app.py:2120`).  Sensors owe nothing.

*Proved* (`PublishingProofs`): the types, with the finiteness of `past`; `ScreenIsSafe`, the
safety half of the refinement (initial states map to initial states, every step is a `Move` or
a stutter), which needs that every state held anywhere was reached by fusion (`OnlyReached`);
and `LastIsAlwaysLogged` when `MaxFaults <= 1`.  Its invariant `Sound` says that what a failing
write would put back is kept too (`PrevKept`), as long as nothing failed yet.  Two failures are
too many: the second write that fails puts back the row of the first, which was never written,
and `_last` names it until something else is claimed.

*Does not hold*:

* `TimelineIsCurrent` (12 steps).  Claims are made in the order publishers come back from the
  history write, not in the order of fusion; an older state claimed last leaves the log, read by
  time stamp, on a state fusion has left, and no tick repairs it, for `claim` takes the readings
  that follow for unchanged.  The docstring of `OccupancyLog.claim`
  (`occupancy_log.py:133`) and `app.py:1912` take that order for "publish order".
* `HistoryIsCurrent`.  The change gate of `_ingest` compares with `latest`, which an overtaken
  publisher may have set back: the newest row of `room_states` differs from what is shown and
  nothing writes it (`app.py:2022`, "never a WRONG one").

## Rules: what a home automation is told

`Rules.tla` is `RulesEngine` behind its queue of the `Hub` and in front of a broker, for one
room with one sensor.  Three clocks that know nothing of each other meet there: fusion lets a
reading fade (`quiet`), the supervisor notices silence (`silent`), the engine asks for coverage
at most once in an interval (`age`).  A frame is "in", "out" (seen empty) or "faded" (empty
because nobody looked); the code cannot tell the last two apart, the properties do.  `seen`,
`last` and `posted` are `_last_seen_occupied`, `_last` and `_last_availability`; `link` is the
egress switch and the broker together; `topic` and `avail` are what the broker retains, `told` the
last edge that went out and `missed` whether the last one met a closed link (edges are not
retained, and `_last` moves either way).  No `on_edge` is wired in `app.py`, so an edge is that
message and nothing else.

**`rules_room`** (queue of two, interval 2, heartbeat 1, fade 3: the shortest clocks that keep
the order of the defaults 10, 30 and 90 s, an assumption of the module; one failing pull;
456,984 states):

* `FadingIsNoDeparture`: a room that merely faded is not announced as left, unless its sensor
  came back before the fade was handled or a pull failed.
* `TopicSettles`: the retained state settles on what the room, its sensor and the link settle
  on, whatever the queue or the broker dropped.
* `DepartureIsTold`: a departure hidden by a blackout, or whose frames the queue dropped, is told
  once the sensor watches an empty room, unless its message met a closed link: the listener does
  not stay with "occupied" for good.

*Fairness*: the tick, and `run()` taking what is queued.  Nothing of sensors, broker, operator.

*Does not hold*:

* `DeadSensorNobodyLeaves` (7 steps; `rules.py:99`, "a dead camera must never look like
  somebody leaving").  `on_start` makes the row RUNNING before the source has read anything, so
  each new attempt of the supervisor lifts the blindness for one interval while the faded frames
  still come; and only mmwave declares a heartbeat (`app.py:550`), so a silent camera that does
  not fail is never blind.
* `EveryDepartureIsTold`, the same without the excuse, of a link that is open in the end
  (`rules.py:211`, "a genuine departure still fires once sight returns").  The edge goes through the
  same switch and client as everything else, is not retained, and `_last` is set whether or not it
  went out (`rules.py:214-219`): one that met a closed link is lost for good, and a listener of
  edges alone believes in somebody for ever.  The retained state repairs this for those who read it
  (`TopicSettles`).
* `AvailabilitySettles`.  Topics sent on a change record the change before it is sent; one that
  meets a closed egress switch or a dead broker is never sent again.

*Proved* (`AutomationProofs`, any queue, interval, heartbeat and fade with heartbeat + interval <=
fade): `RulesTypeOK` and `FadingIsNoDeparture`.  The invariant `Clocks` relates the three clocks as
long as nothing excuses them: silence counts with quiet up to one past the heartbeat, coverage that
is not blind was pulled when the sensor still reported or is due for a pull, and a faded frame, in
the room or anywhere in the queue, means the fade is over.  When such a frame is handled the pull
either happens now, and sees the silence, or happened less than an interval ago, and then heartbeat
+ interval is past; this is where the assumption on the defaults is used, and with a shorter fade
the property fails.  `TopicSettles` and `DepartureIsTold` (liveness) are model-checked only.

## Routines: "when THIS happens, do THAT"

`Routines.tla` is `routines.py` with the trackers that feed it (`away.py`,
`person_presence.py`) and the loops of `app.py` that run what matched.

| In the module | In the code |
|---|---|
| `def`, `enabled`, `lastFired` | the row: trigger and condition, switch, day of `last_fired` |
| `firedDay`, `latched` | `_fired_day`, `_stillness_latched`: memory, lost in a restart |
| `rooms`, `house`, `vacant`, `warm` | what the trackers hold; the warm-up of `lifespan` |
| `Tick` | `tick`: condition, deadline, `_once`; the pass runs later |
| `Frame` | one published state: house edge, room edge, stillness, in the code's order |
| `PassActs`, `PassMarks`, `EdgeActs`, `EdgeMarks` | `_run_routines` on worker threads: the action, then `mark_fired` with the date it ended on |
| `acted`, `cut`, `borrowed`, `episode` | history: runs begun for a day; their marks that were lost; days marked by a run that was not theirs; rooms whose stillness was answered |

**`routines_days`** (one routine turned by its user from one trigger into another, five shapes;
two rooms, two days, one edge run at a time, one restart or failed mark; 610,976 states): two
days let a run end on the day after the one it began on, one routine suffices because routines
meet only in the pass.

* `OnceADay`: a time trigger acts at most once a day, but for a run whose mark was lost.
* `NoDaySkipped`: once the time is past, a due routine is still to be asked, about to act or has
  acted, unless another run took the day's mark.
* `StillOnce`: a routine answers a still room once until somebody moves there, whatever other
  rooms do and however the routine is edited.

*Proved* (`AutomationProofs`, any routines, rooms, shapes, days and faults): the types, `OnceADay`,
`NoDaySkipped` and `StillOnce`.  `StillOnce` rests on `Answered`: the only room whose stillness a
routine may have answered is the one its latch names, so a free latch has answered none.  For the
other two, `IInv` adds that nothing is dated ahead (`NotAhead`), that a run which has begun
is under way, marked, cut off or its row is gone (`Accounted`), that what waits in a pass has not
acted (`Begun`), and that each of the two guards of `_once` closes for a reason (`Reasons`).

*Does not hold*:

* `NobodyHomeIsSensed` (7 steps; `routines.py:18`: never assert "nobody home" when the house
  cannot sense).  The gate guards conditions and "away by", not the edge itself: with the sources
  stopped the rooms fade, the house turns away, and a routine that waits for the last one to
  leave is dispatched.
* `_once` says "At most once per calendar day, ACROSS restarts"; not if the process stops between
  a run and its mark (`cut`).
* A run that ends after midnight marks the next day, whose own run is then skipped (`borrowed`).

The stillness latch also outlives an edit of its routine, and what matched is run from the rows as
matched: an edit, a disabling or a deletion in between comes too late.

## Spaces: set-up, people, and what their devices may do

`Spaces.tla` follows whose a device is through the two stores that record it, and what
`auth._apply_person_cap` makes of it at every request.

| In the module | In the code |
|---|---|
| `space`, `people` | the rows of `space_store` |
| `link[d]` | `person_devices`, what the Devices screen lists |
| `device[d].person` | `devices.person_id`, what the cap reads |
| `Effective(d)` | the role a request is answered with right now |
| `code`, `pending` | pairing codes, and `_pending_person` (bounded, in memory) |
| `answer` | what the last set-up was answered |
| `ours`, `torn` | history: whose an operator last said the device is, and whether it was carried through |

`SetUp` is create, join or adopt answered with success; the `StopsAt...` actions are the commits
that stand when a step raises, followed by what the roll-back (`destroy_space`) removes and where
it refuses; `CutShort` is the end of the process between two commits.  `RemovePerson` revokes one
credential after another and may stop after any; `Associate` and `AssociateFails` are the two
writes with the undo; `Redeem` binds a paired phone to the person its code was minted for, `RedeemCut` loses that.

**`spaces_people`** (two people, one phone, two codes, one remembered person, one failing write or
end of the process anywhere; 937,484 states; ids are symmetric): `OneOwner`, `DemotionReaches`
(no device is answered as more than its person's role of today, nor as anything once they left)
and `ListedIsEnforced` (what the screen lists is what is enforced, and the reverse).  A second
phone would only repeat the first: no definition relates two devices but the removal, which is
cut short after any subset.

The properties excuse `torn` devices, and that is a real hole and not only a message on a screen.
A device is torn when a mint is cut after its row and before its binding, when the write that binds
it fails (swallowed by `pair`, `api_devices.py:90-96`, and by `adopt_existing`), when the person its
code was minted for is no longer remembered (a restart, a full memory), and when the two writes
that link or unlink a device part.  In most of these nobody is told: `pair` logs a warning and answers as usual.  Such
a device has no cap, or a stale one, until an operator links it again.  What the run shows is that
nothing *else* tears: not a removal that stops half-way, a code redeemed after its person was
demoted, removed or replaced, a roll-back, or a transfer.

*Does not hold*: `DemotionKeepsAccess`.  `set_role` answers "Existing devices keep the access they
were paired with until you revoke them", and its comment says that a live token "keeps the reach it
was issued with until it is revoked" (`api_space.py:476-482`).  The code does the contrary, which is
what `DemotionReaches` says: the cap is resolved at each request, and `auth.py:88`
("no window, no 'existing devices keep their access until you get round to it'"), `space_store.py:34-38` and
the docstring of `set_person_role` agree with the code.  The note to the administrator is out of date.

*Does not hold*: `SetUpIsAllOrNothing` (`api_space.py:191`, "If any step fails the whole thing
fails — there is no half-created Space to clean up").  The name of the Owner is checked after the
Space's row was committed, outside the roll-back: a blank one is refused and the Space stands,
without an Owner.  Adopt and join have the same hole.  Further, as the model has them:

* `associate`'s "could not link that device — nothing was changed" (`api_space.py:631`): the undo
  deletes the link that stood before, while `devices.person_id` keeps the earlier person.
* `adopt_existing` swallows a failing `set_person`, so a device may be listed and not capped.
* `set_person_role` and `associate_device` accept a person who was removed, and people can be
  added before there is a Space.  None of these breaks a property above.

*Proved* (`SpacesProofs`, any people, devices, codes and faults): `OneOwner`, `DemotionReaches`,
`ListedIsEnforced` and the types.  The invariant adds to them that what was said of a device is in
its column unless that was cut short, that a device nobody paired is not listed, and that whoever a
device's column or a code names has been here (`SoundLinks`, `SoundCodes`): a person who never was
here cannot appear later under an id a device already carries.  `Onward`, proved of every step, says
that nobody comes back: without it a device that still carries somebody who left, and is listed as
nobody's, would be capped by them again.

## Nodes: the registry and a board

`Nodes.tla` composes the Core's registry of sensor nodes with one board that runs the reference
firmware, over a network that loses, delays and replays.

| In the module | In the code |
|---|---|
| `row[r]` | the `nodes` table: state, whether a token opens it (`key`), whether a request id leads to it (`asked`), the last press and sequence number taken |
| `issued`, `codes` | tokens held for pickup, enrolment codes: memory |
| `nvs`, `ram`, `mode` | the board's flash, RAM and where its program is (`main.cpp`) |
| `call`, `answer`, `air` | the request the board waits on, what the Core answered, requests that may still arrive |
| `Serve` | one request handled: enrol, telemetry, heartbeat, reactivate |
| `TimesOut`, `Disconnected` | the board stops waiting; the request may be served later, or twice |
| `Published` | the checkpoint: the sequence number reaches flash every `Every` frames; `Boot` jumps `Margin` ahead |

A token is named by the row it opens.  Nodes that ask to join (`RequestJoin`, `Claim`) are known by
their rows only; the reference firmware enrols with a code.

**`nodes_board`** (two rows, one code, checkpoint and margin 2, four sequence numbers, one press
between factory resets, one fault; 910,368 states):

* `TelemetryIsFresh`: the next frame of a running board is newer than any the Core took from it.
* `ButtonCounts`: the board's press count is never behind the Core's, so the first press works.
* `OnePressOneWaking`: a replayed or late reactivation never wakes a node a second time.
* `OffReachesTheBoard`: a board whose row stays disabled is at last silent for good, whatever was
  lost and however the power went; `RevocationReachesTheBoard`: one that is revoked wipes itself.

Two rows let a board that was wiped enrol anew while requests of its earlier life are still in the
air.  `MaxSeq` bounds the frames; near it a board cannot boot, which the last property names.
*Fairness*: the loop comes round and its timers fire, the Core serves what reaches it.  No person
and no network owes anything; the exchange of a heartbeat repeats until it is answered because
faults are bounded.

**`nodes_revoked`** (violated: `RevokedIsTerminal`): `revoke` leaves the request id on a row that
was never collected, and `claim` puts every row with a request id whose token is not held back to
pending (`nodes.py:443`): a board that polls once more returns to the operator's queue.
`nodes.py:85` calls the state terminal.

*Proved* (`NodesProofs`, any rows, codes, bounds and faults, from the assumption that a checkpoint
interval is at most one more than the boot margin): `TelemetryIsFresh`, `ButtonCounts`,
`OnePressOneWaking`.  The firmware has 20 and 1000.  `IInv` follows a row's numbers through the
three places they live: the table, the requests on their way, and the board.  While the board holds
a row's token its own number bounds the other two (`Frames`, `Counts`); `Checkpoint` says that RAM is
ahead of flash by fewer frames than a boot makes up for; a token that is offered has its numbers at
zero (`Offered`), and a row not yet created is named by nothing (`Unborn`).

*Does not hold*: `StaysDark`.  A comment of the firmware says of a disabled board that "the node goes
properly dark until a physical kill-switch press (or a remote revoke -> factory reset) changes that"
(`main.cpp:168-172`), and `NODE_PROTOCOL.md:211-213` that "only a physical press at the node" returns
it to active.  `sensing` is a variable in memory that starts as true (`main.cpp:34`) and flash does
not keep it: a disabled board that loses power and boots senses, and sends telemetry, until its first
heartbeat is answered, and for as long as the Core cannot be reached (`kUnreachable` keeps the
state).  The Core refuses that telemetry; the sensor is on all the same.  `OffReachesTheBoard` holds
because power cuts are bounded and each life asks again.

The code and its documents also disagree here:

* the long hold that resets a board is polled in `loop()` only, so one whose enrolment fails cannot
  be reset (`firmware/README.md:175`, "at any time");
* `docs/NODE-ONBOARDING.md:281` says a revoked board does not reset itself; `sendHeartbeat` takes
  401 and 403 for revoked, and `main.cpp` wipes;
* an enrolment answer that is lost leaves an active row whose token nobody holds;
* a row that returns to pending keeps its `created_ts`, so the next `request_join` may prune it.

Left out: rate limits, the certificate pin, the wrap of a 32-bit number, Wi-Fi back-off, OTA.

## What is left

Out of the plan, in the order in which they would add most: **Peers** (the two-sided link between
Cores, each side in a database of its own, with the answer that is lost; `CoreTopology` takes the
links as the constant `Peers`), the **Discovery Inbox** (decisions that stick, the cap that an
item reopened does not meet, `discovery_inbox.py:278`), **experience sessions** (expiry and
eviction under load) and the calibration walk.

## Not modelled

Most of the repository's lines are not about order: parsers and drivers of sensors, scans of the
network, geometry and the house map, signal processing and solvers, read views (MCP, assistant,
reports), configuration, forms over a table, and four clients.  A model of them would restate their
code; their tests exercise them directly.  `PROJECT.json` gives the reason part by part.  Outside
every model: cryptography and the randomness of tokens, clocks that step back, SQLite's own
durability.

## Limits

* Liveness (`OneVoice`, `Recovers`, `DeadStreamsEnd`, `EveryAskEnds`, `Settles`, `TopicSettles`,
  `DepartureIsTold`, the two `...ReachesTheBoard`) is checked on the instances and not proved: the
  proof system used here does not reason about fairness.  What a recursive definition computes for
  every input is not proved either; no module uses a recursive operator.
* Nothing else is only model-checked.  `LastIsLogged` is proved for at most one failed write or
  restart, which is as far as it is true.
* Every handler without an `await` is one action.  That is true of asyncio as long as the stores
  are called synchronously, which the mapped handlers do.
* The instances are the smallest in which two actors and one fault meet; each section says why.
  The theorems hold for every value of the constants.

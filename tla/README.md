# HousePanel in TLA+

HousePanel drives wall displays (Arduino GIGA boards) from a few Python services. This directory holds TLA+
modules of the parts whose correctness is hard to test, the TLC configurations that check them on small
instances, and theorems about them that TLAPS checks for every value of the constants. Paths are relative to
the repository; `transport_adapter/` and `aggregator/` stand for
`services/transport-adapter/src/transport_adapter/` and `services/aggregator/src/aggregator/`.

`PROJECT.json` lists the components, the runs, the mutants that show each property can fail, the source lines
of every definition (`map`), the findings, the hazards and the theorems.

## 1. The system

```
 pollers (weather, calendar, sysmon), webhook-receiver
        | POST /internal/events
        v
 aggregator: route_event -> last-known state --------- GET /internal/state ----.
        |                \-> dedup -> ticker queue -> drain --.                  |
        v                                                     v                  |
        dispatch worker (priority queue, retries, circuit breaker)               |
        | POST /internal/commands                 ^ eWeLink collector            |
        v                                         | posts here too               |
 transport-adapter: per panel an interrupt queue and a normal queue <--- refresh-'
        | WebSocket (one session at a time)
        v
 firmware: ws_client -> command parser -> display;  OTA receiver <- tools/panel_firmware.py
 release agent: rolls the services out, verifies, rolls back
```

| Component | State | Operations | What is hard | What makes it correct |
|---|---|---|---|---|
| panel sessions, `ws_handler.py` | `active_websocket(_task)`, `giga_connected`, `ota_paused`, `overloaded`, handover lock | connect, take over, install, run, tear down, cancel | cancellation at every await, contending connections, cleanup of a replaced session | one consumer; no orphan owner; nothing inherited; the last connection wins |
| write loop, `ws_write_loop.py` | `pending_normal`, `normal_getter`, `normal_generation` | send interrupt, get with a timeout, recheck, send | values read before a wait; a discard during the wait; timer against arrival | what is sent is fresh, in order, never past an interrupt or into an update; nothing is lost |
| refresh, `state_refresh.py` | `normal_queue` | discard, TIME, GET, blocking puts | snapshot larger than the queue; discard under the writer | the refresh ends |
| posting, `routes.py`, `main.py` | both queues, `dropped_batches_total` | `post_command`, hourly TIME | batch at capacity, slow panel | a dropped update is always followed by a replay |
| dispatch worker, `dispatch_worker.py` | priority queue, `_CircuitState`, times | `enqueue`, `_purge_expired`, `_run_once`, `_attempt`, `_reinsert` | expiry, back-off and breaker interact; requests run during a POST | no stranded probe; order; pacing; no wedged queue; no live command lost |
| ticker, `router.py`, `queue.py`, `dedup.py`, `drain.py` | deque, dedup cache | enqueue, drain, snapshot | overflow, expiry and window boundaries | an event the queue can drain in time does not expire; none waits behind its repetition |
| last-known state, `state.py`, `routes.py` | `last_weather`, `last_calendar`, `last_sysmon` | update and dispatch, snapshot | a snapshot overtaken by a broadcast | the panel ends with the latest value |
| `PollRunner` and pollers | `_task`, `_closed` | `request`, `run`, `close` | scheduled, manual and closing polls interleave; two pods overlap in a rolling update | pushes of a pod in order; no poll outlives close |
| OTA receiver, `ota_protocol.cpp`, `ota_update.cpp` | nonce, stream, staged files, reply | status, begin, feed, finish, install | time-outs, resets, lost replies | only a complete authorised image is staged and installed, after its reply |
| upload tool, `panel_firmware.py` | signed status before and after | status, upload, confirm | lost final acknowledgement | success only with the new boot seen |
| firmware loop, `housepanel-giga.ino`, `ws_client.cpp`, `command_parser.cpp` | `g_last_frame`, `g_frame_ready`, stamps, `memory_first`, `_cal_text`, doorbell | setup, connect, HELLO, read a frame, act on it, sample | single slot, half-open sockets, watchdog, restarts | calendars whole, whatever comes between their frames but what the panel cannot tell; samples accepted; watchdog fed; doorbells timed and ended; a panel cut off tries again |
| small panel, `giga-filament.ino`, `sensor_freshness.h` | reading with its stamp, clock | receive TIME and readings, draw | replays, restarts, a late clock, an outdoor sensor that went silent | what is called live was current; it never goes back |
| eWeLink callback and collector | `pending`, `account` rows | authorize, complete, read the sensor, refresh and store tokens, publish | two processes and several threads on one database; rotation at the provider against the row | a state is used once; a refresh never overwrites a newer authorization; the tokens stored work |
| release agent, `tools/release_agent.py` | `deployed.json`, `failed.json`, images in the cluster, statuses on GitHub | select, roll out, verify, roll back, mark, report | a crash, a signal or a failure in any step | the services agree with the marker; success is true; the last release ends live or held |
| memory telemetry, decomposition | last sample; none | accept a sample; fit frames | rate limit; byte budget | samples accepted; each frame fits |

Not worth a model: the providers' answers, metrics and logging, drawing and fonts, CI tools and manifests.
Ring integration is retired in the code itself.

## 2. `PanelSession`: a panel of the transport adapter

Panels share no queue, lock or session, so the module is one panel. The choice of targets in `post_command`
appears as what one panel sees of it: it gets the command, it has no room, or it is passed over while another
panel is connected.

**Granularity.** Everything runs on one asyncio loop, so an action is the code between two awaits that
suspend, with every call made in it. `await queue.put` suspends only on a full queue, so the replay is put in
bursts (`PutBurst`); taking an uncontended lock does not suspend, so `Install` covers the grant of the lock
too when there is nothing to replace.

**State.** A session is a number (order of arrival); a normal frame is the position at which it was put, so
age and order are visible. The interrupt queue is a length.

| Variable | Code |
|---|---|
| `normal_queue`, `pending_normal`, `normal_generation`, `interrupts`, `ota_paused`, `memory`, `overloaded` | the fields of `Panel`; pause and sample carry the session that set them |
| `active` | `active_websocket` and its task; `giga_connected` is `active # None` |
| `handler`, `prev` | where `giga_websocket_handler` of a connection is, and `previous` |
| `task`, `backpressured` | where its `_run_connection` is, and `overloaded` in it |
| `reader`, `left`, `ready` | `_read_loop`, snapshot frames left to put, `normal_ready` |
| `writer`, `getter` | `ws_write_loop`, and the `queue.get()` task it awaits |
| `put`, `floor`, `sent`, `missed` | history for the properties, read by no guard |
| `arrived`, `posts`, `inputs` | bounds |

**Actions.** Reader: `ReadHello`, `ReadMemory`, `ReadOtaStart`, `PauseSent`, `ReadOtaEnd`, `FetchDone`,
`PutBurst`, `ReaderFails`. Writer: `SendInterrupt`, `StartGet`, `GetterTakes`, `GetReturns`, `GetEndsEmpty`,
`SendNormal`, `SendDone`, `WriterFails`. Session: `SessionStarts`, `WatchBackpressure`, `ChildrenJoined`,
`SessionReleases`, `SessionClosed`. Handler: `Arrive`, `TakeOver`, `PreviousJoined`, `Install`,
`CancelSession`, `CancelHandover`, `HandlerReturns`. Others: `PostNormal`, `PostInterrupt`, `PostPassedOver`,
`HourlyTimeSync`.

Choices a reader may question:

- *`GetEndsEmpty` may lose a frame.* On CPython 3.12, the image's Python, `asyncio.wait_for` raises
  `TimeoutError` also when the awaited task finished in the loop iteration in which the timer fires. The frame
  is gone. This is one of the findings; all other properties hold in spite of it.
- *A cancelled session task that never started* goes straight to "done" without its `finally` block: that is
  what the second `finally`, of the handler, is for.
- *`FetchDone(s, 0)`* is an empty snapshot and a failed request alike: both return to receiving.
- *A reader that is putting or fetching does not fail*: neither touches the socket. Cancellation reaches it as
  part of `ChildrenJoined`.
- *Cancelling a handler that waits* (`CancelHandover`) stands for server shutdown. After it the previous
  session is cancelled and nobody is installed.

**`PanelLink`** is what all this amounts to for whoever posts to a panel, without sessions, tasks, getters and
generations: a line of accepted frames, of bounded length, whose first is sent, and then gone, to a panel that
is greeted, not paused and has no interrupt waiting. A HELLO or an OTA-END puts the clock in the place of the
line, a new connection empties it, and a panel is taken over only when nobody is greeted any more. Only the
first of the line can be lost (finding 1). The mapping: the line is `InTransit` (the pending frame, the frame
that the owner's getter holds if its generation is current, the queue), the greeted connection is `Greeted`.
`LinkKept` says that `PanelSession` implements it.

## 3. `DispatchWorker`: the aggregator's delivery

`enqueue` runs in request handlers and in the ticker drain while the worker's task is suspended (asleep or in
a POST), so it is enabled when `worker # "loop"`. A step of `_run_once` up to its first suspension is one
action: `Idle`, `DropExpired`, `Defer`, `CircuitRefuses` or `Attempt`; `Succeeds` and `Fails` are the outcomes
of the POST with all that follows without suspension. A deferred or refused command goes back with its old
sequence number and so into its old place, which is why `Defer` and `CircuitRefuses` leave the queue as it is;
nothing can fill the queue between the get and the put there, because nothing suspends.

Time: no clock. A command carries the time it has left to live and to wait, the breaker the time since it
opened or granted its probe, `Tick` moves them all. They stop where the code no longer tells values apart (-1
for expired, `Reset` for the breaker), which keeps the instance finite without bounding the behaviour. `life <
0` is `now > expires_at`: at the last instant a command is still in time. The back-off is kept as the doubled
delay up to `BackoffMax`; jitter is `0..BackoffBase`.

**`OrderedOutbox`** is the worker as the aggregator's routing and the panels see it, without times, breaker and
back-off: a command that was accepted is posted, one at a time, never while an older one of its priority is
pending and never when it is late; it may be posted again after a failure, and it leaves once, delivered or
dropped. A command that waits is dropped only when it is late. `PostsInOrder` says that `DispatchWorker`
implements it.

## 4. `OtaUpdate` and `AtomicUpdate`: a firmware update over Wi-Fi

`AtomicUpdate` is what `docs/firmware-ota.md` lets an operator rely on, with four variables: the images the
panel has booted, the uploads whose image the bootloader took, the boot each upload addresses, what each
reported. An image enters whole, at most once, only in the boot addressed, and never after its upload reported
failure; success has seen the revision in a later boot.

`OtaUpdate` is the board, any number of concurrent uploads and their connections.

| Variable | Code |
|---|---|
| `listening`, `backlog`, `peer` | `listening`, connections not yet accepted, `peer` in `ota_update.cpp` |
| `receiving`, `sink`, `reply` | `receiving`, `OtaReceiver::_sink`, the reply buffer with `after_reply` |
| `challenge` | `nonce` as a counter, `nonce_valid` and the 60 s, `OtaReceiver::_issued` |
| `part`, `bin` | `UPDATE.PART` (whose, and how many chunks), `UPDATE.BIN` |
| `phase`, `before`, `wire` | where `upload()` is, its first status, the reply waiting to be read |
| `ran`, `armed` | external: the boots so far, and whether the bootloader took an image |

**Board.** One action for each branch of `ota_loop` that changes state: `Listen`, `StopListening`, `Accept`,
`DropPeer`, `status`, `RefuseHeader`, `begin`, `feed`, `finish`, `StorageFails`, `flush_reply`,
`flush_and_install`; further `ChallengeExpires`, `Reset` at any time and `ResetInFinish` between `remove` and
`rename`. **Uploader.** `Query`, `QueryAnswered`, `SendHeader`, `HeaderAccepted`, `SendChunk`, `SendLost`,
`Refused`, `Acknowledged`, `Poll`, `PollAnswered`, `ConnectionFails`, `DeadlinePasses`.

- *Timers and failed reads or writes* of either end are `DropPeer` and `ConnectionFails`, possible at any
  time: a lost reply is one that the uploader stops waiting for.
- *A connection the uploader has closed* may still be accepted and read to what was sent; a reply to it goes
  nowhere although `send` takes it.
- *The nonce is a counter* that a restart does not reset, since nonces never repeat; a restart clears that it
  was issued.
- *`sendall` may succeed into a closed connection* (`SendLost`): the host's TCP buffers it.
- *Authentication, digests and the identity* hold for what the uploader sends. What an image is made of is not
  modelled, so a chunk is never corrupted, only missing.
- *Arming* (`updater.update()`) succeeds and restarts the board into the staged image, or fails and leaves the
  board as it was; the code ignores which.
- *What confirms an update* is the manifest's revision in a new boot (`panel_firmware.py:156`). An image built
  again from the commit that runs has that revision already: if arming it fails and the board restarts for
  another reason, the poll sees what it looks for. `docs/firmware-ota.md:113`, that an arming failure cannot be
  mistaken for confirmed success, holds for a new revision. So `AtomicUpdate` promises of a success what the
  code checks, the revision in a later boot.

## 5. `PanelFirmware`: the main loop of a full panel

`loop()` is a straight line, so `pc` names the place between two of its calls and the steps are `Setup`, `Top`
(kick, `ota_loop`), without Wi-Fi `wifi_begin` (`WiFi.begin`, before any kick of `wifi_connect`) and rounds of
`wifi_connect` (a kick each), then `CheckStale` (without a kick), `Connect`, `ws_loop` or `NothingRead`,
`ws_send_memory` and `Act` (the switch over the frame, then the time-out of the doorbell). The network and the
power supply act between any two: `WifiChanges`, `PeerCloses`, `PeerVanishes` (a socket open for the board
alone), `Restart`.

| Variable | Code |
|---|---|
| `wifi`, `link`, `session` | Wi-Fi, the socket, and external: what the server heard, which calendar it is sending, and which one that cut short |
| `slot` | `g_last_frame`, `g_frame_ready` |
| `age` | `millis()` minus `_last_data_rx_ms`, `_last_ws_attempt_ms`, `memory_last`, `_doorbell_start_ms`; since the last kick, sample and ring |
| `dated`, `memory_first` | `_last_data_rx_ms > 0`; `memory_first` |
| `text`, `bell` | `_cal_text` by lines; the doorbell screen with `_doorbell_timeout_ms` |
| `broken`, `refused`, `blocked` | history for the properties |

- *Time* passes inside the steps, in units of at most an iteration; each action that may block takes up to its
  bound. `FirmwareAssumption` states the condition that the comment in `setup()` claims: what lies between two
  kicks, with its reads, is shorter than the watchdog. The bound on `ota_loop` is an assumption about the
  board's storage, that on the handshake follows from the 3 s of `ws_connect`.
- *`WiFi.begin`* has no time-out in the code, so `BeginMax` bounds the instance and appears in no assumption.
  The kick before it is that of `loop()`, and if the Wi-Fi is up when it returns, the iteration goes on without
  another. `WatchdogFed` therefore has one exemption, `Starved`: `WiFi.begin` took, since the last kick, what
  `ota_loop`, a read and the rest of an iteration leave of the ten seconds. Whoever wants the watchdog fed on
  that path too has to bound it; a kick before line 7 would not be enough.
- *Ages instead of stamps* are exact for the 49 days of `millis()`. The stamp itself is tested once
  (`_last_data_rx_ms > 0`); a stamp of 0 reads as none, so `dated` is a choice.
- *The server* sends what `PanelSession` lets it send: interrupts before HELLO, the frames of a calendar in
  order. `post_command` puts an update into the queue whole, but a replay is put frame by frame and waits when
  the queue is full (`state_refresh.py:131`), so an update may come between the frames of a replayed calendar:
  `Sends` and `Sent` let any calendar start at any place, and the replayed one go on after it (`Resumes`).
  `i > 0` appends to what is shown (`housepanel-giga.ino`), so the panel then mixes two calendars until the next
  one comes. `CalendarWhole` exempts this and a dropped frame (`broken`), nothing else.
- *A frame read may be dropped* (`ws_loop`, read time-out or parse failure).
- *A doorbell with time-out 0* is never dismissed, and `wifi_connect` blocks the loop, so `DoorbellEnds` is
  about time-outs and a Wi-Fi that stays.
- *Samples* reach the adapter without delay; delays could bring two closer together.

## 6. `Delivery`: a reading on its way to the small panel

One kind of update, the sensor reading, with its value and its stamp, across all components. What a component
does with updates in general is taken from its own module: dispatch hands on oldest first, possibly twice or
never (`OrderedOutbox`), a session discards before a replay and sends in order (`PanelLink`). A reading is a
number; a copy of it carries the age of its stamp.

| Variable | Code |
|---|---|
| `latest`, `measured` | external: the sensor, and when it measured what |
| `poll`, `task`, `runner` | the polls under way and their pods; of each pod `PollRunner._task`, `_closed` |
| `known`, `outbox` | `AggregatorState.last_sysmon`; commands accepted for dispatch |
| `writer` | history: the pod whose poll posted `known` |
| `session`, `queue`, `snapshot` | the panel's session, `normal_queue`, and a refresh under way |
| `shown`, `clock` | `temperature`, `sensorMeasuredAt`; the clock, late by what the TIME frame waited |

- *One budget of failures* covers failed and lost requests, restarts and closed sessions, so that any mixture
  of them is met.
- *Two pods poll at once* in a rolling update: `k8s/sysmon-poller.yaml` states no strategy, so the release agent's
  `set image` (`RollOut`) starts a pod, whose lifespan polls at once, beside the old one, which is told to end
  later (`CloseBegins`) and finishes its poll (`CloseReturns`). Their polls may overtake one another: the old pod
  reads 1, the new one reads and posts 2, the old one posts 1. So the last-known state can go back, until the
  next poll, and `AggregatorInOrder` says that this is the only way: never by the poll of the pod that posted
  last. For the panel it makes no reading live that would not be so anyhow (`LiveWasCurrent`), and later polls
  make it good (`EventuallyLatest`). A pod is started only if another name is free: with two, a rollout waits for
  the pod of the one before to end.
- *A POST given up is not handled later*: the aggregator answers within milliseconds against a timeout of 5 s.
- *A full dispatch queue* rejects the newest (`route_event`). A full panel queue makes the command wait and
  expire, or the session end (`Expires`, `SessionEnds`).
- *The hourly TIME frame* is left out; it only makes the clock better.
- *`LiveWasCurrent`* is what the code gives: a live reading had not been replaced for longer than the limit,
  the lag of the clock and a poll. That it was *measured* then is finding 3.

## 7. `Ticker`: the ticker queue

`RouteEvent` is `route_event` of a ticker event, `Drain` one round of `ticker_drain_loop`, `Tick` time,
`Restart` a new pod. Nobody awaits while holding the queue's lock, so it is never contended and the operations
are atomic. Ages and distances replace wall-clock stamps. `DrainMax` bounds how late the loop wakes. `Restart`
loses queue and cache together. With the deployed values (20 events, a drain per second, 60 s, 30 s) both
hypotheses of `DrainsInTime` hold as long as a round takes less than 1.5 s; `dispatch_command_to_transport`
only enqueues.

## 8. `ReleaseAgent`: releases of the services

`Start`, `Prepare`, `ReadBaseline`, `RollOut`, `Verify`, `RollBack`, `RolledBack`, `Hold`, `ReportFailure`,
`Deployed`, `ReportSuccess`, `Reported` are a run of the agent in order; `Raises` is SIGTERM in the rollout,
the rollback or after the verification, `Exits` a kill or an uncaught exception at any point. `Push` and
`CIPasses` are GitHub. A lock file makes two agents impossible, so there is one process. `image`, `marker`,
`failed` and `github` outlive a run; `previous` and `changed` do not. Release 0 is what runs first.

- *A command that fails may have taken effect* (`command` has a timeout), in rollout and rollback alike.
- *A step of `InFlight`* is what the call under way may have done when the process is killed.
- *Files.* `write_state` replaces `deployed.json` atomically; `failed.json` is truncated and written, so a
  crash may leave it `Torn`, and `json.loads` of it then raises in each later run.
- *SIGTERM after the verification* (`release_agent.py:189`, the print after `deploy()`'s `try`) rolls nothing
  back, and `main` holds the release and reports it failed: every service runs it, while `deployed.json` names the
  one before and the page says it failed. The next release takes it for its baseline, and if that fails too, its
  rollback goes back to it.
- *`verified`, `unsettled`, `unrecorded`* are history: the release last verified on all services; that since then
  a change of the cluster was cut off or a rollback failed; that a run ended between the verification and
  `deployed.json`, and no later one got there. `OneRelease` has two parts: unless `unsettled`, all services run
  the release last verified (`Whole`), the case above included; unless `unrecorded`, `deployed.json` names it
  (`Recorded`). The two exempt exactly what the agent cannot promise, and each of them ends with the next release
  that goes through.
- *An unhealthy baseline* ends in `failing` like a failed rollout, since the exception of line 124 passes
  through the same handler: the release is held although the comment at line 122 says that an outage before it
  is not blamed on it.

**`DeploymentRecord`** is what a reader of the deployment page may conclude, with three variables: the release
of each service, the last release rolled out everywhere, the status of each release. A release is told of as
pending, then for good as failed or succeeded; when a success was told it ran on every service; a failed one is
never tried again; deployments go forward only; and no service changes but for the newest release told of, while
it is in progress. `Truthful` says that `ReleaseAgent` implements it. `Begin` may be repeated because a run that
was killed is repeated.

## 9. `EwelinkAccount`: one database, three processes

The operator makes links (`main.py`, `authorization_url`), the callback service completes them in the threads
of its HTTP server (`complete_authorization`), the collector polls (`collector.py`, `read_device`). They share
a SQLite file; each `with database()` is a transaction and one step.

| Variable | Code |
|---|---|
| `pending` | the rows of `pending`, by state value: not yet made, there, there but expired, deleted |
| `request` | per thread: where `complete_authorization` is, its state, the grant it was given |
| `account` | the row of `account`: which grant, and which rotation of its tokens |
| `collector` | where `read_device` is, the row it read (`stored`), the rotation it uses |
| `issued`, `newest`, `valid` | external: what the provider has issued, rotated and not yet let expire |
| `lost`, `faults` | history: grants whose last rotation was never stored; bound |

*Actions.* `authorization_url`, `LinkExpires`, `Consume` (the DELETE, by whose row count the callback goes on),
`Exchange`, `Store`, `CallbackFails`; `Load`, `ThingsAnswered`, `ThingsExpired`, `Refreshed`, `Persist` (UPDATE
where the row is still the one read), `ProviderRefuses`, `PollFails`, `AnswerLost`; `AccessExpires`.

- *The provider* accepts the tokens of a grant's last rotation only, and a new grant does not revoke an older
  one. The first is what the collector's `UPDATE` is there for; of the second the code says nothing, and with a
  provider that revokes, `ProviderRefuses` ends the poll and the next one reads the new row.
- *Two callbacks may store in either order* (`INSERT OR REPLACE`): the account is then the grant of the later
  transaction, which need not be the later grant. `NewerKept` is about the collector.
- *A failure between a refresh and its `UPDATE`* leaves tokens that the provider no longer takes. Nothing in the
  code can help; `lost` exempts exactly this, and a new authorization ends it.

## 10. `OutdoorCollector`: an outdoor reading on its way

It extends the account: each of its steps is one of the account with the rest unchanged, or leaves the account
alone. `Load` begins a poll and `ThingsAnswered` ends the reading of the device, so those two are conjuncts of
`PollBegins` and `DeviceRead`.

| Variable | Code |
|---|---|
| `online`, `latest`, `measured`, `offline` | external: the sensor, its reports and the age of each; for how long it is offline |
| `reading` | what `read_device` returned, then what `frame` made of it |
| `session`, `queue` | whether the panel has said HELLO; its `normal_queue`, with TIME and outdoor frames |
| `outdoor` | `outdoorReady`, `outdoorTemperature` with its stamp, time since `outdoorReceivedAt` |
| `clock` | the panel's clock, late by what the TIME frame waited |

- *No component keeps the reading.* The replay after HELLO has no outdoor frame, so the panel waits for the next
  poll, every 60 s, and a command dropped by the adapter is not tried again.
- *The queue* is kept while no panel is connected and discarded by HELLO, as in `PanelSession`; that a session
  whose queue stays full is closed is one of the ways in which `SessionEnds`.
- *Time.* A report has one time, so a frame carries only the report's number; how old the report is, is in
  `measured`. Ages stop at `Cap`, above every limit. `MaxLag` and `PollMax` bound what `Tick` lets a frame wait
  and a poll last: the requests of a poll have time-outs, and an overloaded session is closed.
- *Two tests of freshness*, by the collector (a report older than an hour is sent as "none") and by the panel (a
  report of the last hour by its own clock, received in the last three minutes). `LiveOutdoorWasCurrent` holds
  because of the second: a panel cut off blanks after `Silent`, whatever the report's time.

## 11. Runs

| Run | Question | Instance | Result |
|---|---|---|---|
| `panel` | `TypeOK`, `NoSilentDrop`, `SoleConsumer`, `NoOrphanOwner`, `StateOfOwner`, `LinkKept` (refinement of `PanelLink`), `LatestOwner`, `HandoverCompletes`, `BackpressureEnds`, `RefreshEnds` | 2 sessions, queue of 1, interrupt queue of 1, replays of 2 frames with the TIME frame, 1 post of up to 2 frames, 2 control frames | holds, about 0.1 million states |
| `panel_loss` | `NoFrameLost` | 1 session, 1 post, 1 control frame | violated: finding |
| `dispatch` | `TypeOK`, `ProbeInFlight`, `PostsInOrder` (refinement of `OrderedOutbox`), `OutagePaced`, `Settles` | 3 commands, queue of 2, two priorities, times 3 to 6, threshold 2 | holds, about 0.1 million states |
| `dispatch_loss` | `LiveNeverEvicted` | the same with a queue of 1 | violated: finding |
| `ota` | `CleanSlate`, `StagedIsCurrent`, `Atomic` (refinement of `AtomicUpdate`), `UploadEnds` | 2 uploads (one of the running revision), images of 2 chunks, backlog of 1, 3 boots, 2 challenges | holds, about 0.2 million states |
| `panel_firmware` | `TypeOK`, `CalendarWhole`, `SamplesAccepted`, `WatchdogFed`, `DoorbellEnds`, `CutOffRetries` | calendars of 2 events and of 1, room for 2 lines, time-outs 0 and 2, all times 1 to 4, a `WiFi.begin` of up to 2 | holds, about 0.8 million states |
| `delivery` | `LiveWasCurrent`, `AggregatorInOrder`, `EventuallyLatest` | 2 measurements, 2 pods, 2 polls, dispatch queue of 1, panel queue of 1, 1 failure or rollout, limit and lag of 1, polls that take no time | holds, about 1.1 million states |
| `filament_freshness` | `FilamentExpires` | the same, panel queue of 2, a poll of up to 1 | violated: finding |
| `release` | `OneRelease`, `Truthful` (refinement of `DeploymentRecord`), `Settled` | 3 services, 3 pushes, 3 crashes or signals | holds, about 0.3 million states |
| `account` | `OneExchange`, `StoredTokensWork`, `NewerKept`, `KeepsReading` | 3 links, 2 threads, 3 grants, 2 refreshes of each, 2 failures | holds, about 0.1 million states |
| `outdoor` | `LiveOutdoorWasCurrent`, `OutdoorForward`, `EventuallyOutdoor` | 2 reports, 1 grant with 1 refresh, panel queue of 2, limit of 3, silence and lag of 1, polls that take no time, 1 failure | holds, about 0.7 million states |
| `ticker` | `TypeOK`, `DrainsInTime` | 4 contents, queue of 3, times to live 1 and 6, window 7, drains 1 to 2 apart | holds, about 0.2 million states |

The type invariants are theorems of every module; the runs check those that state a bound of the code (queues,
the interrupt queue, the calendar's buffer, the deque). `InterruptFirst`, `CloseWaits` and `DoorbellTimed` are
theorems that no run repeats: what the first says is part of `PanelLink`.

Why the bounds are enough to see the cases. In `panel` a second session takes over from the first at each of its
awaits; a third one, which waits for the lock while the second joins the first, is left to the theorems of
section 13, which hold for any number. A queue of 1 is full after one frame, smaller than a replay (so that the
blocking put happens) and smaller than the largest batch. Two control frames give HELLO then OTA-START, or a
second HELLO or an OTA-END whose discard hits a waiting getter. A post meets a queue that a replay or the hourly
TIME has filled in part or in full, and then fits, overflows it, or puts an interrupt beside a normal frame; a
post of two frames overflows a queue of 1 by itself. In `dispatch`, times to live exceed a failed attempt and
its back-off, so a retry happens; the reset timeout is shorter than a life, so a probe does too; three commands
and two priorities overfill the queue of two and interleave retries with newer commands. In `ota`, two uploads
interleave queries, so that one replaces the other's challenge, and two challenges give each upload one of its
own, and a status without one is answered as it is without entropy, so polls go on; three boots allow an install
with a restart before or after it; two chunks separate a first from a last. In `panel_firmware` two calendars
can be mixed, the shorter one between the frames of the other, which fills the buffer; `Watchdog` is the least
the assumption allows, so a missing kick shows, and one `WiFi.begin` of 1 is within it, one of 2 not;
`Stale` and `Retry` can take several iterations and a restart comes at any time. In `delivery` two measurements
tell old from new, two polls let a second one start beside the first, in one pod or in two, and the one failure
may be a rollout, so that two pods overlap in all stages of their polls; the panel's queue holds one frame, for
which TIME, a replay and an update compete; one failure of any kind is enough to leave a panel without the
update it missed. Its polls take no time, but their steps still interleave with all others; what a slow poll
adds is in `LiveReadingWasCurrent`. In `account` three grants and two threads let two authorizations complete
during one refresh, in either order, while a third link is open; two refreshes let a grant be refreshed again
after a refresh that was stored. In `outdoor` the limit exceeds `Hold` (silence, lag and poll together), so each
of the panel's tests is the one that fails in some state; the panel's queue holds TIME and one reading; one
failure of any kind leaves the panel cut off, the sensor offline or a frame lost; a refused token meets the poll
on its way. In `release` three services have a first, a middle and a last one; three commits let a run be
overtaken twice; three faults allow a crash in the rollout, in the next run's rollback and in its report. In
`ticker` the time to live 6 is exactly the depth times `DrainMax` and the window one more, the tightest values
for which `DrainsInTime` says anything, beside one that expires. The theorems below remove these bounds for the
safety properties.

Deadlock is not checked in the runs of `PanelSession`: when the bounded environment has nothing left to do and
no panel is connected, the system rightly stops. So does an update when the boots and challenges are used up
and every upload has ended, a release agent with nothing to do, and a collector whose failures left
it without an account. In `dispatch`, `panel_firmware`, `delivery`, `outdoor` and `ticker` it is checked.

### Fairness

*Panel.* Weak fairness of each task: the loop runs what is ready, and what a task awaits ends. The GET has a 5
s and `close(1013)` a 2 s timeout (`state_refresh.py:104`, `ws_handler.py:142`); a send or the close of a
replaced socket ends, or fails, once the server's keep-alive ping finds the peer gone. The getter alone has
strong fairness: its first step is scheduled before the 50 ms timer it races is armed, so it is not outrun for
ever, but each timeout disables and re-enables it. Connections, posts, the panel's frames, failures and
cancellations are not fair.

*Dispatch.* Weak fairness of the worker, its sleeps, the outcome of a POST (client timeout 5 s) and of time.
No request need arrive and no POST need succeed: `Settles` says that a queued command leaves the queue even if
the adapter never answers again.

*OTA.* Weak fairness of each upload: every wait of `panel_firmware.py` has a timeout (5 s or 30 s on a socket,
`ConnectionFails`; 180 s in all), and a Python process that can go on does. Strong fairness of
`DeadlinePasses`: the deadline is tested between polls and, once passed, stays passed. The board is not fair
at all. `UploadEnds` says that at some time all uploads are over; an upload that is over stays so.

*Firmware.* Weak fairness of `loop`: the processor runs on. Nothing of the network and the server.

*Delivery.* Weak fairness of what a scheduler or a timeout drives: that some pod polls (every 20 s) or ends its
closing, that some poll gets on with its two requests (not each of them: of two pods one may be arbitrarily
slow), the start of a pod by Kubernetes when none serves, dispatch, the reconnection of the panel (5 s), the
answer to a GET (5 s), the put of a replay, and the panel's reading. A discard of the queue cannot recur for
ever, since sessions end only by a failure. No failure, no rollout and no measurement is fair.

*Account and outdoor.* Weak fairness of the steps of a poll: `run` polls for ever and catches what a poll
raises, and each request has a time-out. In `outdoor` also of the publication, of the panel's reconnection and of
its reading of frames. No authorization, no failure, no expiry and no report is fair.

*Release.* Weak fairness of `Start` (the timer) and of a run that has begun (each command has a timeout). CI
need not pass; `Settled` is about a head that is built.

## 12. Findings

1. `panel_loss` / `NoFrameLost`, `ws_write_loop.py:41`. The race described under `GetEndsEmpty`.
   `test_hello_refresh_larger_than_queue_capacity_does_not_deadlock` asserts that all frames of a replay
   arrive in order; the comment at line 35 says no old waiter steals the replay. A lost frame of a replay
   stays missing until the next update of its kind or the next HELLO.
2. `dispatch_loss` / `LiveNeverEvicted`, `dispatch_worker.py:238`. During the POST the command holds no place
   in the queue. If requests fill it and the POST fails, `_reinsert` drops the live command, although a test
   says live commands are never evicted. `_reinsert` neither purges expired commands first, as `enqueue` does,
   nor counts the drop.
3. `filament_freshness` / `FilamentExpires`, `router.py:72`. `firmware/giga-filament/README.md:24-26` says
   that `measured_at` is the source measurement's time and that values become placeholders once *that
   measurement* is five minutes old. The stamp is the aggregator's time of receipt, and the poller posts the
   last value that ardtemp holds at every poll, without a time of measurement. When the sensor stops, its last
   value is stamped anew every 20 s and stays live. `LiveWasCurrent` says what holds instead.

## 13. Proofs

All theorems are about `Spec` for every value of the constants that satisfies `BoundsAssumption`,
`DispatchAssumption`, `OtaAssumption`, `FirmwareAssumption` with `NoneAssumption`, `DeliveryAssumption`,
`ReleaseAssumption`, `TickerAssumption`, `AccountAssumption` or, with it, `OutdoorAssumption`: sizes and bounds
are natural numbers, positive where a division of cases needs it; `FirmwareAssumption` also relates times, as
described in section 5, and bounds a calendar by `_cal_text`. No other assumption is made. The proofs use
`SequenceTheorems` and `FiniteSetTheorems`.

**`PanelSessionProofs`.** `TypeCorrect` is `TypeOK`, inductive as it stands. `Ownership` is the inductive
invariant of the handover. `SoleConsumer` alone is not inductive: `Install` makes a new owner, and that no old
session still runs follows only from what the handover did before. So `OwnershipInv` says in addition where a
handler may be (one at a time between the lock and the end of the critical section, and it is the earliest),
that every connection up to `arrived` and none later has begun, that only the owner or the session being
joined has a live task, and that a handler past the join finds no owner with a live task. Each action touches
few of these; most steps reduce to a "shape" lemma (a reader, a writer or a post changes no ownership; a
session only moves its own task). From it follow `OnlyOwnerActs`, `OwnerIsServed`, `OwnerState` and, as an
action property, `LastArrivalOwns`.

*The flow of frames*, in the same module. `ReplayAhead` is `NoSilentDrop`, inductive given ownership: `missed`
becomes true only where one of its four excuses holds, and an excuse ends only in a discard followed by a replay
or with the ownership. `Flow` is the inductive invariant of a frame's way: `sent`, the pending frame, the frame
held by a getter of the current generation and the queue form an increasing chain between `floor` and `put`.
With it `SentFreshInOrder` (the action property `FreshInOrder`, defined there; what it says is part of
`PanelLink`, so no run checks it separately); a getter of an older generation may hold anything, and only the
comparison in `GetReturns` keeps it out. `SentAfterInterrupts` follows from the fact that `SendNormal` is the
only step that begins a normal transmission.

*The refinement of `PanelLink`.* `LineInv` says what shapes `InTransit` has: the queue, or one frame before it,
pending or in a getter's hand, never both (`FlowInv`). `WaitInv` adds what the mapping needs of the getters:
one that waits is of the current generation, because a discard cancels those of older ones, and one that is
there belongs to a greeted session; and the queue keeps its bound, so the line has room for one more than it.
`GreetedInv`: only the owner can be greeted. Then each step is one of the link or a stutter: a get that starts,
takes or returns leaves the line as it is; `SendNormal` is `Send`; a get that ends with a frame in its hand is
`Lose`; `ChildrenJoined` is `HangUp`, `SessionReleases` and `HandlerReturns` are `Release`. `Install` is
`Connect`, and that nobody is greeted then is where the join of the previous session's task is needed.
`LinkIsKept` puts it together with two lemmas about sequences (`Cons`, `Uncons`).

**`DispatchProofs`.** `DispatchTypeCorrect` includes the bound of the queue for every `maxsize` (cardinality
lemmas: the purge only removes, at most one command enters). `Order` is the inductive invariant behind the
others: at most one command is held; nothing queued of its priority is older; commands not yet enqueued are
newer; while a POST is under way the breaker is not open, at the threshold it is not closed, and while it is
open the last failure is at least as old as the opening. From it `ProbeNeverStranded` and
`FailuresPaceAttempts`.

*The refinement of `OrderedOutbox`*, `DispatchIsOrdered`. A queued command is mapped to waiting or late by
`now > expires_at`, the one held by a POST to posting. That a purge drops late commands only, that a command
deferred or refused by the breaker comes back unchanged, and that a failed one comes back with its place, its
priority and its time to live or not at all, are the steps of the proof; that no older one of its priority is
pending when a command is posted is `Order`, since the queue's choice is by priority first. `DeliveredInOrder`
states the order as a property of the worker's own steps.

**`OtaProofs`.** `OtaClean` proves types, `CleanSlate` and `StagedIsCurrent` together: each needs the others
(arming an image keeps the types only because what is staged is the peer's upload). One lemma covers the steps
of the board, another those of an uploader, which touches only the open mark and the sent chunks of the peer.

**The refinement**, in the same module, for any number of uploads, boots, challenges and chunks.
`AtomicUpdate!Install` requires that the upload has not failed, has not been installed and addressed the
running boot; none of it is visible at the board, which only compares a nonce. `IInv` carries it there:

- `ConnectionInv`: an upload has one connection with a header; it carries the challenge of the upload's first
  status, and while it exists the image is not armed; only after its whole image is sent can the upload be
  past "sending".
- `BoardInv`: the stream being received was authorised in this boot, because a challenge that is still issued
  is of this boot (`Issued`); a status reply names this boot.
- `WireInv`: a refusal waiting to be read means that no header of the upload is left, and that its image was
  not armed; so an upload that reads it may report failure.
- `HostInv`: an upload that failed was not armed; one that succeeded has seen a later boot, so it is no longer
  the one being received.

`OtaInvariant` proves it, with one lemma for each part and side. `UpdateIsAtomic` is then `Spec => Atomic`:
the initial states agree, every step of the board is a `Restart`, an `Install` or a stutter
(`BoardSimulates`), every step of an uploader a `Begin`, a `Report` or a stutter (`UploadSimulates`).

**`PanelFirmwareProofs`.** `FirmwareTypeCorrect` is inductive. `WatchdogIsFed` needs `Fed`, a bound on the
time since the last kick at each `pc`, as a sum of what may have passed at that place and of `blocked`, the
time that `WiFi.begin` took (`Within`). `SamplesAreAccepted` needs `Samples`: a socket open at both ends has
heard HELLO, and the server's last sample is no younger than the board's last attempt at one, or old enough
(the board stamps failed samples too). `CalendarIsWhole` needs `Calendar`, which relates the slot, the text
and what the server sends next: the slot is empty when a frame is read, it holds an event of the calendar
being sent, the next after those shown. A frame that resumes the calendar cut short makes `broken` true, a
first frame ends that, so the relation need only hold without it. `DoorbellInTime` needs that the stamp of
the doorbell is that of the latest ring.

**`DeliveryProofs`.** `CloseWaitsForPoll` from `OnePoll`: a poll that runs is the one the runner of its pod
knows, and that pod has not closed. `AggregatorKeepsOrder` from it and `Ordered`: what a poll of the pod that
posted last is posting is no older than what is known. When another pod posts, it has no second poll, so nothing
needs to be known of those of the first.
`LiveReadingWasCurrent` from `Replaced`, about every copy, with a poll, in the outbox, the queue, a snapshot
or on the panel: if its measurement has been replaced, that was at most `PollMax` before its stamp. Both ages
grow alike and are capped above every limit, so the fact survives time, duplication and replay.

**`CollectorProofs`.** Of the account, `AccountInv` is inductive. `StoredTokensWork` alone is not: that `Persist`
stores the rotation the provider accepts needs `PollInv` (a poll uses the tokens of its row until it has refreshed
them, and while the account has that row's grant it has that row), and that `Store` brings tokens that work needs
`Unseen`: the grant in a thread's hand was never rotated, is in no row, and no poll uses it. That it stays so
rests on `GrantInv`, nothing is known of a grant before it is issued, and on `Apart`, no two threads hold the same
grant. `OneExchange` follows from the state of a thread under way being gone from the table, so that nobody else
consumes it. The theorems are `AccountTypes`, `ExchangedOnce`, `TokensWork` and the action property `NewerIsKept`,
for any number of links, threads, grants and rotations. `AccountKept` shows that a run of the whole of section 10
is one of the account, as far as safety goes, so that they hold there too.

Of the readings, `LiveOutdoorIsCurrent` from `Current(v, n)`: the sensor is offline, and report `v` replaced,
since at most `n`. `ReadingInv`, `QueueInv` and `PanelInv` say it of the reading of the poll, of every frame in
the queue and of what the panel shows, with the time since the provider answered as `n`. `Tick` adds one on both
sides, up to the same cap, and the bounds of a poll and of a session's frames give the panel `PollMax + MaxLag`
beyond its own three minutes. `OutdoorGoesForward` from the order of the queue: what the panel shows is no
later than any frame, the frames are in order, and the reading to be published is no earlier than the last.

**`ReleaseProofs`.** `IInv` is a conjunction: `Ahead` (a run works on a commit that main has reached and
`deployed.json` does not name yet, so a cluster left half-changed is never the one of main's head),
`NothingOpen` (`changed` is empty outside of a rollout), `RolledOut` (the services so far name the new
release), `Restorable` (unless `unsettled`, the baseline is the release last verified, and
the services not in `changed` still name it), `Reporting` (a success is reported for the release of
`deployed.json`), and `Whole` and `Recorded`, the parts of `OneRelease`. They alone are not inductive: that a
rollback restores the release is `Restorable`, that a verification finds all services on the new one is
`RolledOut`, and that a status sent by a later run is true is `Reporting`.

*The refinement of `DeploymentRecord`*, `RecordIsTruthful`, needs what a run may still conclude from the files
and the statuses that earlier runs left (`Told`): no release later than that of the latest run was told of
(`Known`), the one in work has been announced (`Announced`), one told as a success has been deployed
(`WasDeployed`), and one told as failed is held or main has gone past it, so that no later run chooses it again
(`NeverAgain`). The last is the reason why `failed.json` is written before the failure is reported: in the other
order a crash between the two would let the release be tried again after it was told to have failed.
`ReportedSuccessIsLive` states the truth of a success as a property of the agent's own steps.

**`TickerProofs`.** For `DrainsInTime`: the event at place `i` satisfies `age + i * DrainMax <= MaxDepth *
DrainMax + slept`. A drain moves it one place forward and an overflow too, time adds to both sides, so it
never outlives a full queue's worth of drains (`Waits`). With `Recorded`, that an event's content stays in the
cache for `Window`, follows `NoTwins`.

**Only model-checked.** The eleven liveness properties (`HandoverCompletes`, `BackpressureEnds`, `RefreshEnds`,
`Settles`, `UploadEnds`, `DoorbellEnds`, `CutOffRetries`, `EventuallyLatest`, `KeepsReading`,
`EventuallyOutdoor`, `Settled`): liveness under fairness and `ENABLED` are outside what tlapm 1.4.5 proves. All
other properties of the passing runs are theorems. The three violated properties have counterexamples instead.

## 14. Not modelled, and the plan

Left out of the modules: the text of frames, hostname, counters, metrics, logging; validation of requests (422
before any state changes); `run`'s handler for exceptions nothing raises; a board whose updater never became
ready (`ota_init`: it does not listen), the local checks of `panel_firmware.py`, `build`, `keygen` and the USB
bootstrap; an interface that differs between images; in the firmware the drawing of the clock, indicators,
layout, touch and units; the pages and the health check of the callback service, and the collector's status
file; in the release agent `--dry-run` and the checks of images. A rolling update overlaps the pods of every
service but the callback's (`Recreate`); only that of the poller is modelled. Of the aggregator and the transport
adapter a restart is (`AggregatorRestarts`, `SessionEnds`), without two pods serving for a moment. The largest C files, `montserrat_96.c` and `smooth_font.h`, are generated glyph tables: most of the lines of the
firmware, and no behaviour. The Python services hold the logic, and most of the map.

Hazards without a property: the empty calendar that sends no frame (`stream_decompose.py:113`) and a ticker
event lost to overflow that suppresses its repetition (`router.py:115`). No document says what should happen
in either; the code's choice is visible in `Ticker` and `PanelFirmware`.

What is left, in order:

1. An abstract `LatestValue` that `Delivery` implements: the panel shows an accepted value and, at rest, the
   latest; today `LiveWasCurrent` and `EventuallyLatest` say so separately.
2. `StreamDecompose`: the binary search of `fit_frame` against its definition on bounded inputs.

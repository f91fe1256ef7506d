# Verification of the telemetry dashboard

TLA+ models of the WebDashboard repository (`server/`, `client/`, `mobile/`),
checked with TLC on small instances, with safety theorems proved by TLAPS for all
values of the constants. Every definition is read off the source; comments name
the function they model and `PROJECT.json` maps each definition to its lines.

## 1. The system

A FastAPI server samples CAN signals at a fixed rate, writes each sample to a CSV
file and broadcasts it to every WebSocket client. A web dashboard and a React
Native app show the stream and send GPS fixes and MARK events back.

| Part | Source | State | Operations | Modelled in |
|---|---|---|---|---|
| Broadcast loop and registry | `server/app.py` 29-102 | `clients`, `stream_state`, `broadcast_task`, locals of `_broadcast` | tick, simulated drop, send, discard of dead sockets | `TelemetryServer` |
| `/ws` endpoint, REST uplink | `server/app.py` 338-398 | one coroutine per socket | accept, receive, dispatch, finally | `TelemetryServer`, `GpsSink` |
| Lifespan and session files | `server/app.py` 105-132, `server/logger.py` | three open CSV files | start, shutdown, close | `TelemetryServer` |
| Payload classification | `server/gps_sink.py` | none | `extract_gps_row`, `extract_event_row` | `GpsSink` |
| Web drop accounting | `client/app.js` 355-373 | `lastSeq`, `lastServerDrop`, `localDropCount` | `onFrame` | `DashboardStream` |
| Web connection | `client/ws.js`, `client/app.js` 309-384 | per instance `ws`, `manualClose`, `reconnectTimer`, `reconnectAttempt`; the panel, `pingTimer` | clicks, open, close, retry | `TelemetrySocket` |
| Mobile connection | `mobile/src/telemetry/ws-client.js` | `ws`, `manualClose`, `reconnectTimer`, `pingTimer`, `backoffMs`, `lastPingAtMs` | buttons, open, close, retry, ping, pong | `TelemetryWsClient` |
| Store-and-forward queue | `mobile/src/telemetry/store-forward-queue.js` | `items`, `loaded`, `overflowCount`, AsyncStorage | `init`, `enqueue`, `flush`, `_persist` | `StoreForwardQueue` |
| Mobile GPS uplink | `mobile/src/App.js` 83-174 | `flushingRef`, the queue, the socket | fix, effect on connect, flush | `MobileUplink` |
| Mobile location client | `mobile/src/telemetry/gps-client.js`, `App.js` 116-218, native bridges | `watchId`, `_usingBridge`, switches; `active`, the foreground service | permission, start, stop, switch, native calls and events | `GpsClient` |
| Reverse geocoding | `client/naver-roadview.js` 221-297, `server/app.py` 161-335 | last place and time asked, cooldown, fail count, in flight, disabled | request, host answers, body, abort | `ReverseGeocode` |
| Service worker | `client/sw.js` | cache | install, activate, fetch | `ReverseGeocode` (for its requests) |
| Web GPS | `client/gps.js`, `client/app.js` 386-418 and 484-557, `client/ui.js` 28-57 | `lastFix`, `displayFix`, `transition`, `gpsStateOverride`, `gpsNoFixTimer` | Start, fix, error, no-fix timer, mode, tick | `WebGps` |
| Map and roadview | `client/naver-map.js`, `client/naver-roadview.js` 42-219, `client/app.js` 239-255 | the script element, `map`, `panorama`, `trail`, `lastPanoFix`, `authFailed` | start, drawing a fix, watch for a rejected key | `MapPanels` |
| Signal mapper | `server/signal_mapper.py`, `server/app.py` 26 and 85-99 | `rules` | `reload` at the start of a process, `apply` to each raw frame | `SignalMapper`, `ServerSignals` |
| Web GPS uplink, MARK | `client/app.js` 437-477 | none of its own | one send if the socket is open | not modelled; the receiver is in `TelemetryServer` |
| Charts, layout, CAN dummy source, configuration, scripts | | | | not modelled |

How they interact: the server's only shared state is touched from one asyncio
event loop, so coroutines interleave at the awaits that suspend; clients and
server exchange messages over WebSockets whose peers close, vanish or stop
reading; in the browser and in the app callbacks, timers and promises run one at
a time, in an order the environment decides; the queue shares its array with
every call that is suspended on AsyncStorage; the operating system ends the
mobile app, and an operator the server, at any point.

What is hard, and to which `hazards` of `PROJECT.json` the properties answer:

* the broadcast suspends at each send while handlers add and remove sockets, and
  one peer that stops reading holds up everyone (`RegistryExact`,
  `NobodyLeftBehind`, `LoopGoesOn`, `VanishedClientLeaves`);
* logging, sending and counting are separate steps that a cancel, a kill or an
  exception cuts anywhere (`EverySeqLoggedOrDropped`, `SentRowsAreLogged`,
  `LogClosedLast`);
* the page compares sequence numbers of different sessions
  (`NeverOvercounts`, `ExactWithoutRestart`, and `StreamHasNoHole`, on which they
  rest);
* close events and timers of connections the user has given up
  (`OneConnection`, `PanelFollowsSocket`, `NeverStuck`, `ImplementsManaged`,
  `ComesBack`);
* overlapping storage calls, partial flushes and crashes
  (`EveryFixInOnePlace`, `QueueInOrder`, `NewestWriteIsCurrent`,
  `DurableUntilHandled`, `FlushGuardReleased`);
* a Start suspended in its permission prompts while Stop, Start and the switch are
  pressed, and native calls whose answer nobody looks at (`RunningIsHeld`,
  `SourceIsSwitched`, `NativeFollows`, `StoppedIsReleased`);
* a request that hangs, breaks off in its body, is aborted, or is answered by a
  cache, against a flag and a backoff, and failures that are taken for a success
  (`AddressIsOfLastAsk`, `NoRequestInBackoff`, `MovingIsAsked`, `FailedIsRetried`);
* a script, a key and constructors of a third party that fail late, half or
  repeatedly, while two panels share them and every tick draws both (`StartEnds`,
  `AuthFailureIsShown`, `PanelsFollow`);
* timers, errors, fixes and presses that write one text (`NoFixIsSaid`), and
  arithmetic that goes round (`TurnsShortWay`);
* signals that are mapped by rules each process has read once, logged, and sent
  while the loop is suspended again and again (`SignalsMapped`).

## 2. The modules

**GpsSink** has the dispatch of one uplink payload as pure operators over the
parts of a JSON object the code looks at.

**TelemetryServer** is one server process and its restarts. A step is the code
between two awaits that can suspend. `Sockets` are connections, not clients: who
reconnects comes back as another member. `link` is the transport below a socket:
`lost` is a peer that is gone without a close, which the server learns only by
the keepalive of uvicorn (20 s ping, 20 s timeout). `out` keeps every frame a
send accepted and `taken` how many the peer has read; a send suspends while
`SendWindow` frames are unread. Abstractions:

* `clients_lock` is not a variable: no await happens while it is held, so it is
  never contended.
* A frame has no signals, ServerSignals adds them; `row` and `base` are history
  fields that number its sample over all sessions, so that frames of two sessions
  can be compared.
* An iteration that raises (`TickFails`) has written its row or not: `log_can`
  flushes behind it (`logger.py` 85).
* A send that suspends completes as soon as there is room: that it is resumed
  later than that is a step of the loop like any other.
* A pong goes out from the handler and changes nothing modelled; pings are
  modelled at the clients.
* Each session has files of its own. (The session id has a resolution of one
  second; a restart within the second reuses and truncates them, see the
  hazards.)

**DashboardStream** extends TelemetryServer with the page: it connects through
`Accept`, reads with `PeerTakes`, and does `onFrame` with each frame it takes;
a disconnect loses what was not read. The server goes on independently.

**ManagedConnection** is the abstract connection: wanted or not, and one live
transport (none, opening, open). **TelemetrySocket** and **TelemetryWsClient**
are the two clients. In the web client a new object is made for every Connect,
so the model has several instances, each with at most one WebSocket, all
reporting to one panel; the identity tests of the listeners are always true
because `app.js` calls `connect` once per instance, and the model therefore has
no variable for them. `stale` records that the last status came from an old
instance. The mobile client is one object that can have made several WebSockets;
`ws` is the one it refers to. Backoff times are kept as a step number:
time itself is not modelled, a timer fires at any point after it is armed. The
URL is taken to be valid, so `new WebSocket` does not throw.

**StoreForwardQueue** is the queue with its AsyncStorage calls: `ops` is the list
of calls issued and not yet returned, served in order, each with what its caller
does next. A call of `enqueue` or `flush` that finds the queue not loaded
suspends in a `getItem` of its own. Execution and return of a storage call are
one step. `_flushing` is set and reset in one segment and has no variable.
**MobileUplink** is the app around it: fixes, the effect on `connected`, the
flush guard, connections that open and close, messages in flight that are lost
with a connection, storage errors, and a crash that loses everything but the
storage. A payload is the number of its fix; `stamped` tells a replayed one.

**GpsClient** is the choice of a location source. A press of Start is suspended in its
permission prompts and goes on with the pilot switch of the render it was pressed in;
two presses can overlap. A prompt can also fail (`PromptFails`), and the Android bridge
refuses without a permission or a LocationManager. `GpsClient.start` and `stop` are
operators on the client's part of the state, because a switch on the run calls both in
one step. Calls of a native method are queued and run later; `active`, `listening` and
`service` are the native side, whose events come back one by one. `Kill` ends the app:
the foreground service is sticky and comes back without it. Each platform reads only its
own pilot switch, so one variable `pilot` stands for both; the unmount does what Stop
does; of `gpsState` only the kind is kept. The fixes themselves go on in MobileUplink.

**ReverseGeocode** is the address line of the roadview from end to end: the guards
of `_maybeReverseGeocode`, the fetch handler of the service worker, the server
asking two hosts, and what the page does with each kind of answer. A call that is
suspended is a record in `requests`; there are several, so that only the flag
keeps them apart. `failures` counts the failures in a row that the address line
shows; a start page and a body that breaks off are shown as a success and end the row,
and `missed` tells them from one. Here time matters: a unit is 5 s, of which all waits are
multiples, and the abort timer falls into the unit of its request or the next.
Places lie 10 m apart on a line, 20 m is far. The server sets no `Retry-After`, so
that branch is left out; an address is the place it belongs to; the panorama is
ready and its drawing left out. The fail count stops at 5, where it no longer
changes the wait. The worker's `put` happens with the arrival of the body: the
page cannot ask again before.

**MapPanels** is the start of map and roadview and what the interval draws on them. The
two share one script element; `start` is what `initPublicConfig` awaits, and a step runs
to the next await that suspends. Of the objects of the provider it matters whether they
could be made: the map not at all, half (the object is there and something drawn on it
is not) or built; the panorama after up to five tries. `flagged` and `inText` are the
two ways a rejected key comes to be known, which can happen at any time. Places lie on a
line, 4 m apart, so that 8 m are two steps; a fix can be anywhere, and one unlike the
last is always a new point of the trail. The address line is in ReverseGeocode.

**WebGps** is GPS in the page, from the Start button to the pill. Time matters: a
unit is the 4 s after which a fix is stale, three of them are the 12 s of the no-fix
timer, and a unit does not pass without a run of the interval. A transition takes 2 s
at most and is over with its unit. Of a fix the heading is kept, as a point of the
compass; both interpolations, of a transition and of the smoothing, give any
point between their ends, on the way the code takes (`Delta`). `arrow` is the number
that `updateGps` writes into the rotation of the arrow. The style sheet animates
from one such number to the next without regard to the compass (`client/styles.css`
338): `OverNorth` are the turns it takes the long way.

**SignalMapper** has `reload` and `apply` as operators over numbers in hundredths. A
value that is missing, wrong or no number is one model value, since `_to_float` makes
them all `None`; `round` may go either way in a tie, which covers the binary
representation of decimals. Of `decimals`, a Boolean is a 0 or 1 (`isinstance(True,
int)`), and with an infinite one or NaN `int()` raises and the process does not start.
`AsConfigured` states what a configuration asks for without following the code:
nearest to the goal within the range, then half a unit of the last decimal; it allows
the rounded value to leave the range, as the code does, and says nothing of a
configuration that has no rule.

**ServerSignals** composes it with the server. `rules` are read from one of `Configs`
when a process starts (`SigInit`, `RestartReloads`); an iteration that writes its row
takes one of `RawSignals` and maps it (`LogSample`), and each send that completes hands
the result to a client (`SendSignals`). `sample`, `conf` and `sent` are history: the
raw frame, what the process has read, and what each socket was sent last. All other
steps are those of the server.

`MC*` modules only extend a module for TLC. `*_proofs` modules have the theorems.

Mutants: definitions whose comment starts with "Mutant:" are plausible bugs; each
property of each passing run is violated when its mutant (`PROJECT.json`)
replaces the definition.

## 3. The runs

| Run | Bounds | What it shows |
|---|---|---|
| `server_and_dashboard` | 2 connections, 4 sequence numbers a session, 1 restart, simulated drop every 2nd, window 1 | all safety properties of server and page |
| `server_live` | 2 connections, 3 sequence numbers a session, 1 restart, no uplink, window 1; 2 configurations, 2 raw frames | liveness of the loop and the registry, and the signals a client gets are those logged and as configured |
| `uplink` | 3 fixes, queue of 2, 1 per flush, 2 connections, 1 crash, 1 storage error | queue and uplink, safety and release of the guard |
| `web_socket` | 3 instances, any number of clicks | connection and panel, refinement of `ManagedConnection` with fairness |
| `mobile_ws` | 3 WebSockets, any number of presses | the mobile client under any user, and the refinement of `ManagedConnection` as long as the user is patient |
| `gps_client` | every device, 2 overlapping presses of Start, 4 native calls queued | one source, the one the switches show, released when stopped |
| `map_panels` | trail of 2, 4 places, any outcomes | the start ends and says how, a rejected key is shown for good, both panels follow |
| `web_gps` | 6 points of the compass, any presses, errors and fixes | a missing fix is said in time, the heading shown turns the short way, the arrow too where that does not lead over north |
| `reverse_geocode` | 3 places, 2 requests, any answers of 2 hosts, any number of failures | one request at a time, backoff of the failures shown, folding of the hosts' answers, a moving vehicle is asked for |
| `uplink_reread`, `gps_client_pilot`, `geocode_retry` | | each violates one statement of a document (section 6) |

Why the bounds are enough: two connections are the page and another client, or a
reconnect; with four numbers and a drop every second a session has rows before, between
and after simulated drops and at least one broadcast is cut short by each failure; a
window of one suspends the loop as soon as a peer lags by a frame. A queue of two
overflows with the third fix, and a limit of one makes a flush partial. Three instances
(or WebSockets) are the current one and two old ones closing in either order; their
number does not bound the length of a run, since an instance with nothing left is made
anew. A user is patient (`patient`) who presses Connect only when nothing is left of the
connection before; an impatient one can end up with a WebSocket nobody closes (section
6), but still never stuck. Four queued native calls are a stop and a start of two
switches in a row. Of three places the ends are far apart and the middle is not, and
going to and fro every wait up to 60 s comes up. A trail of two loses a point with the
third place; four places are two moves of the roadview and a step between. Six points of
the compass are the fewest where the two ways round differ, tie and touch north, with
points between. Of the configurations one is missing, and the other has rules that
scale, shift, cut at both ends and round, turn the order round, have decimals below 0
and above 6, an empty range, another signal's source, a signal that is disabled, and an
entry that is no object; the raw frames lie on both sides of the ends and of half units,
and lack a number or a key. The type invariants that are proved (section 4) are not
checked again, but TLC evaluates the others. `MaxPlace`, `MaxNativeCalls`, `MaxSeq`,
`MaxRestarts`, `MaxUplink`, `MaxFixes`, `MaxOpens`, `MaxCrashes` and `MaxFailures` are
bounds of the check, not of the code.

Deadlock is checked for the two socket clients. The server and the uplink stop
when their bounds are used up, so `CHECK_DEADLOCK FALSE` is set there.

### Fairness

* `TelemetryServer`: the loop and the sends (asyncio runs ready tasks), the end of
  a handler whose transport is closed, a peer that is up reads, and the keepalive
  closes a lost transport. Nothing forces a message, a shutdown or a restart.
* `MobileUplink`: storage answers, the effect of a render runs, messages in flight
  arrive or are lost. No fix or connection is owed.
* `TelemetrySocket`, `TelemetryWsClient`: timers fire, every attempt and every
  closing handshake ends, and, as strong fairness, of infinitely many attempts of
  the current connection one succeeds: without it no client could promise to
  come back.
* `GpsClient`: queued native calls are run.
* `MapPanels`: the request for the configuration and the script settle, and the timers
  of the loop and of the watch fire. No fix and no tick is owed.
* `ReverseGeocode`: time passes, the abort timer fires, and fixes that are not stale
  keep coming (the interval of `app.js` runs every 100 ms). No answer of any host
  is owed.

## 4. What is proved

TLAPS proves the following for every value of the constants (any number of
sockets, drops at any rate, any window, any number of restarts and clicks). The
assumptions are the named ASSUMEs of the modules: bounds are naturals, the null
values are outside their sets.

* `TelemetryServer_proofs`: `TypeCorrect`, `AccountingCorrect`, `RegistryCorrect`,
  `LogCorrect`, `WriteAhead`, `StreamCorrect`, `BroadcastCorrect`. `StreamHasNoHole` and
  `NobodyLeftBehind` are not inductive: during a broadcast some sockets have the current
  row and some do not. The inductive invariant says, for every socket, which rows its
  last frame may have, depending on whether it is registered, in `todo`, the current one
  or already served; that a socket that is not registered is never sent anything again
  once it has been served in another session; and that a frame's sequence and drop
  numbers determine its row. The page (`DashboardStream`): `DashTypeCorrect`,
  `DropCountSound`, `DropCountExact`. The invariant ties what the page has read to the
  frames on its socket and bounds the rows missed by the difference of row numbers, in
  the same session and over sessions; the server's invariant is reused by showing that
  each page step is a server step or leaves the server alone. The signals
  (`ServerSignals`): `SignalsCorrect`, for any configurations and raw frames. Its
  invariant (`SigInv`) says that the rules are those of the configuration this process
  has read, that `sig` maps the newest sample by them, and that a socket whose last
  frame is of the newest row was sent this `sig`; a restart keeps it because no row of
  the new process is there yet, a new row because nobody was sent it yet, for which the
  server's invariant is needed (`SignalSteps` shows that each step is one of the
  server). What a mapping gives is `RuleApplied` for one key and `FrameApplied` for a
  frame. They need only that a missing number is none and that what the rules and the
  frames hold are numbers. `RoundedNear` bounds what rounding changes, a tie included;
  `CutToRange` says that raising to the lower end first and lowering to the upper end
  then gives the number of the range nearest to the goal, and the upper end of an empty
  range.
* `TelemetrySocket_proofs`: `TypeCorrect`, `ConnectionExact`, `PanelCorrect`, and
  `RefinesManaged`: the web client implements `ManagedConnection` (its safety part)
  step by step under the refinement mapping. What has to be added to the properties is
  that an old instance with a WebSocket has been told to close it, so that its close
  event arms no timer.
* `TelemetryWsClient_proofs`: `TypeCorrect`, `NeverStuckCorrect`, and
  `PatientRefines`: the safety part of the same refinement for a patient user. Before
  the first Connect there is no WebSocket (`StartInv`), and a patient user has at most
  one, the one `ws` refers to, never beside a timer (`PatientInv`).
* `GpsClient_proofs`: `TypeCorrect`, `OneSourceCorrect`, `RunningCorrect`,
  `SwitchCorrect`, `NativeCorrect`, for any number of overlapping presses and queued
  calls. The invariants hold each other up: that the queue of native calls
  alternates and ends with what the client wants (`Follows`, with lemmas for an
  appended and a removed call) needs that the client never holds both sources; the
  one thing to add is that a background prompt comes after the fine permission was
  granted.
* `WebGps_proofs`: `TypeCorrect`, `NoFixIsSaidCorrect`, `TurnsCorrect`, for a compass of
  any even number of points. The hint needs that the timer counts down exactly what
  has been waited and that, once it has fired without a fix, the override is set and
  stays set (`HintInv`); the heading needs that a transition ends in the newest fix
  (`FixInv`), and the arrow that a way which does not lead over north is no longer in
  plain numbers than round the compass. The rest is arithmetic: the
  `Mod*` lemmas say what `%` gives for each number of rounds, `ArcIs` gives the arc in
  terms of the signed difference, and `TowardShortens` says that no share of the way
  lengthens it.
* `MobileUplink_proofs`: `TypeCorrect`, `EveryFixCorrect`, `QueueOrderCorrect`,
  `DurableCorrect`, `NewestWriteCorrect`, for any queue bound and flush limit and any
  number of fixes, connections, crashes and failures. None of the four is inductive by
  itself. All copies of the queue (in memory, in storage and in each pending write) are
  looked at together: each is bounded and sorted (`CopiesInv`); before the first read
  has returned there are only reads, and that of the mount effect is the first
  (`CallsInv`); a pending write keeps, but for what is gone, all that the write before
  it, storage and memory keep (`DurableInv`); without a crash the wire (file and
  messages in flight) has each fix once, its replays in order and before all that is
  queued (`PlaceInv`). The lemmas say what a push and a flush do to a sorted queue and
  what concatenation does to a wire; the steps are then a flush, a push, an await of
  `init`, a first or repeated read, a write, a crash, and those that leave the queue
  alone.
* `ReverseGeocode_proofs`: `TypeCorrect`, `AddressCorrect`, `FallbackCorrect`,
  `BackoffCorrect`, for any number of calls that can overlap and any length of the line.
  The flag is up exactly if one call is suspended, there is never a second, and it asks
  for the place noted last (`FlightInv`); the flags of a handler that goes on hold what
  the hosts said so far (`HandlerInv`); and what is left of a wait and what has passed
  since the failure add up to the wait that is announced, as long as the page counts the
  failures it has shown (`PaceInv`).

* `MapPanels_proofs`: `TypeCorrect`, `AuthStays` (the action part of
  `AuthFailureIsShown`), `PanelsCorrect`, for any trail limit and any length of the
  drive. The message of a rejected key stays since it is there only when the map
  is built and knows (`AuthInv`), and nothing is built or said before the script has settled
  (`StartInv`); the trail keeps its limit and has no place twice in a row because
  a push looks at its end (`Apart`, `PushTrailKeeps`).

## 5. Only model-checked

All liveness (`LoopGoesOn`, `VanishedClientLeaves`, `FlushGuardReleased`,
`ComesBack`, `StoppedIsReleased`, `MovingIsAsked`, `StartEnds`, that a rejected key
comes to be shown in `AuthFailureIsShown`, and the fairness part of
`ImplementsManaged`): liveness and ENABLED are out of the prover's reach. Every
invariant and every action property of the passing runs is proved.

## 6. Where the code and its documents disagree

* `uplink_reread`: fixes that come before the first `getItem` has returned each
  start another one, and a later return overwrites the array a fix was pushed to
  in between; the fix is gone.
* `gps_client_pilot`: the pilot switched on while GPS runs starts the Android bridge
  without its permission; the bridge refuses, and the screen goes on saying that
  GPS runs.
* `geocode_retry`: `lastGeocodeFix` is set before the request, so a vehicle that stays
  within 20 m gets no retry, although `README.md` 132, `server/README.md` 66 and the
  address line announce one. The run speaks of failures that are taken for a success as
  well, which also reset fail count and cooldown: a network failure that the worker
  answers with the start page (`sw.js` 51) and a body that breaks off
  (`naver-roadview.js` 246). `NoRequestInBackoff` is about the failures that are
  shown, and does not say that the promise is kept.

Seen while modelling and not made a run:

* Connections. The close event of an instance given up can arrive after the new
  instance's open event: the panel shows disconnected and the pings stop while the
  connection is open (`client/app.js` 337; `stale` marks these states in
  `PanelFollowsSocket`). On the phone, Connect twice and then Disconnect leaves the
  first WebSocket open, and it goes on delivering frames (`ws-client.js` 63). A URL
  with `ws://` and a path typed on the page gets `/ws` appended once more.
* Map and roadview. When the script fails to load, or loads without defining
  `naver.maps`, the roadview waits for an event that is over: it says "loading" for
  good and the `fitViewportLayout` behind it is not called (`naver-roadview.js` 50;
  the second case of `StartEnds`). When the configuration cannot be fetched, only the
  roadview says so, the map goes on with its first hint (`client/app.js` 251). When a
  constructor behind the map's throws, every tick throws in `naverMap.updateFromFix`
  and the roadview is never drawn (`map = "half"` in `PanelsFollow`).
* Web GPS. A denial or a missing API is overwritten after 12 s by `gps-no-fix`
  (`client/app.js` 497); an error after the first fix is never shown, since the next
  run of the interval clears it; Start stays disabled after a denial; a fix without a
  heading leaves the arrow as it was. When the heading crosses north, from 359 to 1 say,
  the arrow is animated all the way round, since it is rotated to the plain number under a
  transition (`client/ui.js` 55, `client/styles.css` 338); no document speaks of it, and
  `TurnsShortWay` leaves these turns of the arrow out by name (`OverNorth`).
* Signals. Rounding comes after the clamp, so a bound with more decimals than the rule
  can be left by up to half a unit. `"signals": {}`, or rules none of which is an
  object, lets every raw signal through (`signal_mapper.py` 112), although
  `docs/BACKLOG.md` 41 has only enabled signals sent.
* The service worker answers `/api/public-config` from its cache too, so a page that
  was loaded before a key was configured never sees it; `docs/BACKLOG.md` 48 speaks of
  caching static resources.

Further: a flush sends at most its limit (200) and nothing but another fix or reconnect
starts the next one (`store-forward-queue.js` 67); a Start whose prompt is answered
after Stop starts GPS again (`App.js` 193); the service worker stores error answers of
the API and replays them, so that a retry at the same place reaches no server, and
answers a network failure with the start page and status 200, which
`_maybeReverseGeocode` takes for a success (`sw.js` 48-51); a 401 of one host that comes
with an outage of the other disables the address line for good (`app.py` 330); a live
fix is sent before the older queued ones, so the GPS file is not in timestamp order
after a flush (`mobile/src/App.js` 107-113); `queued_at` is dropped by
`extract_gps_row`; a pong is measured against the latest ping, whichever it answers; an
exception of the broadcast task ends the stream silently and makes the shutdown skip
`logger.close`.

## 7. Not modelled

Charts, theme, splitters and pane sizes have no state another part reads; the CAN
dummy source is random numbers over a clock; the settings of `server/config.py` are
CONSTANTS; `sendGpsUplink` and `sendMark` of the page send once or not at all and keep
nothing; the scripts are not part of the running system. Static files pass the service
worker like the API requests that are modelled.

## 8. State

Modelled and checked: server, dashboard accounting, both socket clients, queue and
uplink, location client, address line with service worker, map and roadview, web GPS,
signal mapper. Proved: the safety properties of all of them, and the safety part of the
refinement of `ManagedConnection`. Open: how the static files go through the service
worker.

# A verification project for gnome-shell-cast

`gnome-shell-cast` casts the GNOME desktop, a window or the system's audio to
Chromecast receivers. A daemon in Rust (`src/daemon`) does the work, a GNOME
Shell extension in JavaScript (`src/extension`) shows it, and the two talk over
D-Bus. This directory holds TLA+ models of the daemon's concurrent core, the
TLC runs that check them and the proofs, checked by TLAPS, of what matters most.

    tlasany M.tla                               parse a module
    tlc -workers 2 -config X.cfg MCM            model-check a run
    tlapm MProofs.tla                           check the proofs of a module

`PROJECT.json` lists components, runs, mutants (for each property a change of
the model, of the kind a bug in the code would be, that breaks it), the source
lines behind every definition, the hazards and the theorems. "Daemon files" below are under
`src/daemon/src/`.

## 1. Inventory

### The parts, their state and their operations

| component | state | operations |
|---|---|---|
| D-Bus service, `main.rs` | `SharedState`: status, details, last event, devices, the stop sender (`active`), the task handle (`active_task`), `generation`, the volume channel, last activity | `StartCast`, `StopCast`, `SetVolume`, getters, signal forwarder, idle exit, activation by the bus |
| session task, `session.rs` | one tokio task per cast; owns capture, mirror session or HTTP cast | await the predecessor, open the capture, mirror, else fall back, loop, close, report, clear |
| portal capture, `capture.rs` | a portal session, its file descriptor, restore tokens | `open`, `closed`, `close`, `Drop` |
| mirror session, `streaming/mod.rs` | pipeline, socket, channel control, media sender | `run`, `start_media`, `announce`, `run_until_stopped` |
| receiver channel, `streaming/channel.rs` | a TLS connection, request ids, the mirroring app's session | `negotiate` (CONNECT, LAUNCH, OFFER, ANSWER), heartbeats, `await_app_stopped` |
| media sender, `openscreen/sender.rs` | the chunk channel; per stream: history, checkpoint, spare buffers, RTP clock, RTCP timers | packetise, send, service RTCP, retransmit, report, key frame requests |
| RTCP, `openscreen/rtcp.rs` | none | parse feedback, expand 8-bit frame ids, build reports |
| bandwidth estimation, `openscreen/bandwidth.rs` | two rings of time slices, the round trip | burst sent, bytes confirmed, estimate |
| rate control, `sender.rs`, `streaming/ladder.rs` | bitrate, rung, two instants | next bitrate, `observe` |
| quality, `streaming/quality.rs` | none | resolve size, rate and bitrate from options and ANSWER |
| HTTP cast, `http.rs`, `cast.rs` | server thread, broadcaster with a queue per client, control thread, event channel | accept, serve, push, launch, load, stop |
| volume, `volume.rs` | worker thread with its own connection, a channel of levels | connect, apply, receive |
| discovery, `discovery.rs` | announced addresses by name | resolved, removed |
| encoders, `pipeline.rs`, `streaming/encoder.rs` | GStreamer pipelines | build, set bitrate, set size |
| formats, `openscreen/rtp.rs`, `crypto.rs`, `messages.rs`, `net.rs` | none | bytes, a cipher, JSON, a route lookup |
| extension, `src/extension` | mirrored status and device list, slider throttle, set-up dialog | D-Bus proxy, menu, dialogs, preferences |

### How they interact

* The bus runs each method call as a task of its own, the session is another
  task, and capture, volume and encoder callbacks run on further threads. They
  meet in `SharedState`, where every field has its own lock held for one access.
* A session is stopped through a `oneshot` sender in `active`, and awaited
  through its `JoinHandle` in `active_task`.
* A change of status or devices is an event without content; the forwarder reads
  the status when its turn comes and emits a signal. Replies and signals share
  one connection, but a reply is written some time after its value was read.
* Encoder callbacks push into the chunk channel; the sender thread drains it
  and shares a UDP socket with the receiver's feedback.
* The HTTP cast joins its threads in the `Drop`s of their owners, in the reverse
  order of their making.

### What is hard, and what correctness means

| component | hard | correct when |
|---|---|---|
| service and session | replacement: a new cast starts while the old one winds down; clean-up after a replacement; a stop during setup | sessions exclude one another, the status names the session under way, the last one leaves nothing behind, a stop ends it |
| capture | its end is a signal that may come at any time | the cast is told |
| chunk channel | lost wake-ups, last sender against waiting receiver | a FIFO mailbox whose end is seen, after the last chunk |
| media sender | loss, reordering, duplicates, 8-bit ids, bounded history | acknowledgements are read right, what is missing can be sent again, memory is bounded |
| bandwidth estimation | a ring whose slices move on at three calls that date things differently | a sliding window, nothing counted outside it, no estimate from stale history |
| rate control | dead band, clamps, two clocks | within the link, no oscillation, recovers |
| quality | limits of three parties, rounding, division | only our least values exceed the receiver's limits, the shape is kept, ranges are ranges |
| daemon and extension | replies overtaken by signals, a daemon that exits, crashes and wakes, two casts' end reasons | the menu settles on the truth, tells no old reason, the idle exit ends no cast |
| discovery | records late, twice, in parts, after the goodbye; routes that change | listed while known, at an address that can be reached, and none that can given up for one that cannot |
| mirror session and channel | deadlines, an app that others end or that an earlier cast is still stopping, one thread joined by another | no cast on an app told to stop, the right reason shown, app stopped when over, always ends |
| HTTP cast | setup that fails half-way, blocking reads, joins in `Drop` | ends, in the right order, nothing of it runs on, few clients kept |
| volume | lifetime of the worker | a requested level is applied |

`PROJECT.json` lists each hazard at its line with the property that would show it.

## 2. The modules

| module | models | composed with |
|---|---|---|
| `CastSessions` | `StartCast`/`StopCast` handlers, session tasks, capture, end of the mirror session | `CastSessionsProofs` |
| `Service` | status, end reason, forwarder, replies, idle exit, crash and activation, and the extension's copy | `ServiceProofs` |
| `ChunkMailbox` | abstract: a FIFO with senders that come and go | |
| `ChunkChannel` | the lock-and-condition channel | implements `ChunkMailbox` (`IsMailbox`), `ChunkChannelProofs` |
| `MediaSender` | the sender thread, the network, the receiver's frame collector | `MediaSenderProofs` |
| `FlowWindow` | abstract: amounts kept for the last slices of time | |
| `Bandwidth` | the two flow trackers and the estimate | its ring implements `FlowWindow` (`ConfirmedIsWindow`), `RateControlProofs` |
| `RateControl` | bitrate loop and resolution ladder | `RateControlProofs` |
| `Quality` | what a pipeline is built from: settings, ANSWER, limits, ladder sizes | `QualityProofs` |
| `MirrorSession` | one mirroring cast after the other: session, channel thread, connection, receiver | `MirrorSessionProofs` |
| `Fallback` | the HTTP cast: session with its setup, control thread, server thread, player | `FallbackProofs` |
| `Volume` | a level's way from `SetVolume` to the receiver | |
| `Discovery` | a device's entry and its way to the menu | `ServiceProofs` |

`MC...` modules give TLC its constants. `MCSender` (the network of `MediaSender`, the
`ChunkChannel`, the `RateControl`) and `MCParts` (`Service`, `Discovery`, `Quality`,
`Bandwidth`) explore parts side by side that share no state: `part` says which one a
behaviour is of, the others rest, so that the states add up instead of multiplying and
one run asks the questions of all. The modules of a group therefore share no name
(`RateInit`, `ChannelSpec`, `DeviceNext`, `EstimatorSpec` and so on). `RateControlProofs`
extends `RateControl` and `Bandwidth`, the loop and what it is told, and `ServiceProofs`
extends `Service` and `Discovery`, the daemon's two lists of news for the extension.

### CastSessions

Calls identify everything that belongs to one cast: handler, stop channel, task,
generation, portal session. An action is one locked access: `Accept` (through
clearing the last event), `InstallStop`, `TakePrevious`, `TakeNumber`,
`SpawnTask`, `StoreTask` are the successive accesses of `start_cast`;
`Begin` … `ClearVolume` those of `session::run`. Handlers of `StartCast` overlap
in every way: the bus runs each call as a task, and neither daemon nor extension waits.
The ghost `crossed` becomes true when a handler takes the old task handle while
another is between that and storing its own (`Handover`); the properties that
this breaks are stated for behaviours in which it has not happened, and
`NeverShare`, which says them of all, is violated. A device in `Speaker` has no video.
The last steps of `capture::open` may fail with the portal session started and no
`Capture` there to close it (`portal = "left"`). A cast over HTTP joins its threads
(`joining`) before its capture is closed; `JoinThreads` has no fairness, because
those threads may be blocked in a read or a write to which the code sets no limit.
The mirror session is the step `Negotiated` and what ends it, the HLS and audio
casts the steps `MirroringUnavailable`, `FallbackReady`, `Playing`; `MirrorSession`
and `Fallback` open them up. What joins the modules is stated where it is used:
`MirrorSession` and `Fallback` begin a cast only when the one before is over,
which is `ExclusiveSession` here.

### MirrorSession

`phase` is where `streaming::run` stands, `channel` where the connection's thread
stands, in `negotiate` and then in `run`. Each cast has a connection of its own: an
`inbox`, and `requests` the receiver handles in order, also those of a cast that
is over by then. An application is an instance, numbered by LAUNCH; the
receiver answers a LAUNCH with whatever runs already. A deadline is `overdue`
once it has passed, and noticed where the code's loop looks at the clock.
`Gone` is the status without our instance. The ghosts tell what the properties
need: instances we sent a STOP for (`told`), those never seen gone
(`abandoned`), those others ended (`ended`), and whether this cast saw its own
gone (`confirmed`). A receiver that falls silent is one that takes no step.

### Service

A cast is a number; its session begins, plays and ends whenever it may, which is
what `CastSessions` permits (`status` and `lastEvent` carry the number of the cast
that wrote them, so that the properties can tell whose they are). `calls` are
calls not handled yet, `answers` values read by a call's task and not yet
written, `wire` what the extension will be handed, in order. `Forward` is the
forwarder, `ReadStatus` and `ReadActivity` the two looks of the idle exit, `Gone`
the end of the daemon, by itself or in a crash: the bus tells that the name has
no owner and answers what was open. `menu` is the extension's `_state`; `behind`
marks that it was set from a reply a signal had overtaken, or missed a signal
before its proxy was subscribed. `earliest` remembers for each cast the oldest
one that was not over when it was accepted.

### ChunkChannel

`handle[p]` is where a `ChunkSender` stands (between the push or decrement, made
under the lock, and the notification made after it), `receiver` where the
receiving loop stands. `Wake` lets a notification be taken by a waiter, or lost
when nobody waits; `TimeOut` also stands for spurious wake-ups.

### MediaSender

Frames enter the history in the order of their ids, so a history is the interval
`oldest .. next - 1`. `Expand` is the arithmetic of `expand_frame_id` with
`IdSpan` for 256. A receiver collects packets, and its feedback may be lost,
delayed and overtaken by any later one; nothing in `send_frame` keeps a stream near its last
acknowledgement, and nothing does here. The ghost `strayed` holds the streams of which
a frame was sent half the id space or more past the checkpoint, or a report
read that is more than half of it behind: from then on ids may be read wrong. `Connected` is FALSE: `start_media`
binds the socket and never connects it, which is why `SendReport` fails.

### Bandwidth

`packets` and `confirmed` are `FlowTracker`s: a ring of slices, its head, the start
of the newest slice, the first and last sample. `AdvanceTo` is `advance_to` with
its short cut for a gap of a whole ring. Confirmed packets are dated one round
trip back, and `ControlDue` moves both trackers on to the present before it
estimates. `FlowWindow` keeps amounts by slice number and has no ring, no head
and no wrap. The tracker of the bytes sent takes its samples together with that
of the packets, and of it only the instants are read.

### RateControl

The arithmetic of `next_bitrate` (four fifths usable, a tenth up, a twentieth of
dead band) is kept. Time passes in control intervals; instants are ages, capped at the longest
period anything compares them with. `belowFor` is a ghost: the time since the
loop last saw less than the ceiling. The estimate is an input; `NoEstimate` is
every early return.

### Quality

A JSON block is a function whose domain is the fields it has. `Settings`,
`VideoConstraints`, `AudioConstraints`, `Resolve` and `SnappedSizes` are the code's
functions with their integer divisions, in the code's order of clamps. `answer` keeps
the blocks as they were sent, so that the properties speak of what the receiver said and not
of what `parse` made of it. `Local` is what the HLS pipeline is built from: its size is the
one asked for, or what the portal captures (`Captures`), and its audio bitrate a constant.
`Panics` is the one place where `clamp` is given a minimum above its maximum. The cut of
the ladder is a recursive function over its rungs.

### Fallback

`Setup` is what the session makes one after the other: the files of an HLS cast
(an audio cast has none), the pipeline, the server, then it awaits the playlist
and looks up an address, and starts the control thread. `?` in the code is an
action of its own (`...Fails`, `NotReady`) that enters the teardown where what
was made so far is dropped; a pipeline may also have been built and then refused
PLAYING (`"refused"`), which nobody sets to NULL. The control thread may fail with the
player launched, its STOP may be refused, a closed connection passes for a stop when the
flag is set, and the answer to a ping may fail: each as in `cast.rs`. The session drops its control thread, server,
pipeline and files in this order, each join a guard on the thread's end. The
server thread answers a request itself: a file at once, a live stream until a
write fails. `queue` is a client's bounded channel. The player and the network
are external: it may fetch, close, leave, or (`MayVanish`) fall silent without
closing anything.

### Volume

`setup_volume` starts the worker, installs its channel and drops its owner, which
stops and joins it. The worker's loop, its lost level on a failed write, and the
receiver's remote control are modelled.

### Discovery

Devices do not influence each other: `announced`, `device` are the entry of one.
A record is any sequence of its addresses; it may come at any time, also after
the goodbye. `routes` is the host's answer to `has_route_to`, and changes at will.
`changes`, `listCalls`, `lists` are the way of the list to the menu, where each call
reads for itself and the answers may overtake one another. `retain` and `insert` in
`resolved` make a list of what the record has, then of the rest in the order it had:
`InOrder` lists the positions that stay. `pick_address` and the guard of "never
downgrade" probe the routes one after the other, and the routes may change once between
those looks (`again` and `routes'` in `TakeRecord`). The extension may be enabled beside a
daemon that knows the device already: it asks for the status only, and a signal that
comes before its proxy is ready is lost (`listening`). `DaemonEnds` is the idle exit or
a crash: the menu keeps its list, calls not handled fail, which reads as an empty list.
`listedLate` is a ghost for a list that is out of date in one of these ways.

## 3. Runs

Each cfg keeps deadlock checking off: a cast that is over may stop for good, and
all calls, frames and requests are bounded.

| run | shows | bounds and why they are enough |
|---|---|---|
| `sessions` | `ExclusiveSession`, `StatusTruth`, `NothingShownInVain`, `QuiescentClean` | two calls whose handlers overlap, a television and a speaker: every hand-over is between a session and its successor. Proofs cover any number of calls |
| `sessions_live` | `StopTakesEffect`, `StartsEventually` | two calls to a speaker, mirrored or over HTTP: what the two kinds of session wait for, without the portal, whose steps are bounded too |
| `sessions_crossed` | **violated**: `NeverShare` | as `sessions` |
| `sessions_teardown` | **violated**: `KeepsSuccessor` | as `sessions` |
| `mirror` | `FreshApp`, `HonestReason`, `LeavesNoApp`, `StopEnds`, `DeviceLossEnds` | two casts: an instance is adopted from a predecessor or is one's own; two codecs: there is a best one to choose; one volunteered status under way: it may be stale for the next read. Proofs cover any number for the safety |
| `sender`, network | `ConfirmedArrived`, `MissingIsKept`, `AcksRead`, `GapsFill` | one stream (two share nothing), four frames of one or two packets, a history of one frame, two reports under way, ids modulo 6 with the first checkpoint at -1: ids wrap below zero, a stream strays with its third unacknowledged frame, a frame is evicted before it is acknowledged, an old report overtakes a newer one |
| `sender`, channel | `IsMailbox`, `EndsAfterLastDrop`, `StopEnds` | three handles (the first one and the clones in the two callbacks), two chunks each, three in the queue: a handle may be cloned while another is dropped and a third notifies |
| `sender`, rate | `WithinLink`, `UpIsProven`, `ClimbsBack` | kbit/s range 300 to 5000, three rungs, periods of 2 and 3 intervals, a dead, a bad, a fair and a generous link |
| `rate_climb` | **violated**: `ClimbsEveryTime` | as `sender`, rate |
| `fallback` | `NeverReportsOwnStop`, `NothingRuns`, `FewClients`, `StopEnds`, `DeviceLossEnds` | three requests, queues of one: a connection waits while another is served, two have come and gone before a third, a queue overflows |
| `fallback_one_body` | **violated**: `EveryRequestTaken` | two requests, and a receiver that never falls silent |
| `volume_request` | **violated**: `RequestApplied` | three levels, two waiting |
| `end_reason` | **violated**: `EndReason` | as `parts`, service |
| `parts`, service | `MirrorSettles`, `NoOldReason`, `ExitSparesCasts` | two casts: a replaced one may write a reason its successor is asked about; one message under way that one more is added to, one opening of the menu: a reply and a signal cross; no tick of patience: the idle exit may come at once, so that a cast is accepted before, between and after its two looks. Proofs cover all values |
| `parts`, list | `ListedIsKnown`, `ReachesIfAny`, `NeverDowngrades`, `MenuSettles` | an address of each family, records of up to two: a record can leave an address out that an older one had; two events under way: answers overtake each other. Proofs cover any addresses and any number of messages |
| `parts`, quality | `OnlyOurLeastExceeds`, `RequestKeepsShape`, `BitratesInRange`, `LadderSound` | seven sizes times four rates asked for, 150 video and five audio blocks, two captured sizes: nothing set, the values of the tests, both sides of every limit of our own. Proofs cover every block and option |
| `parts`, estimator | `EstimateIsFresh`, `ConfirmedIsWindow`, `DatedInRoundTrip` | a ring of three slices of two ticks, eight ticks: the window fills, wraps once and drops samples; round trips of two and seven ticks: within the window and beyond it. Proofs cover every ring and every round trip |

Type invariants, and `AwaitsPredecessor`, `BuffersBounded`, `SendersCounted`,
`DrainedFirst` and `FilesGoLast`, are no part of the runs where they are proved.

In `MirrorSession` `MaxCasts` and `MaxInbox`, in `ChunkChannel` `MaxChunks` and `MaxQueue` bound what is sent; in
`MediaSender` `MaxFrames` and `MaxFeedback`; in `Service` `MaxCasts`, `MaxOpens` and
`MaxWay`; in `Bandwidth` `MaxTime` and `MaxFlight`; in `Discovery` `Longest` and
`MaxUnderWay`; in `Volume` `MaxRequests`. They are guards of the actions that would go on.

### What the violations mean

* `NeverShare` — "so the two never share the portal capture or the receiver's mirroring
  app" (`main.rs:70`). Between taking the old task handle and storing its own
  (`main.rs:269-284`) a handler leaves `active_task` empty, and one that looks then
  spawns a session that waits for nobody. `ExclusiveSession` is what remains true: this window is
  the only way to it.
* `KeepsSuccessor` — "an older session finishing late must not tear down its successor"
  (`session.rs:45`). `run` compares the generation and takes the stop sender in
  two steps, and `start_cast` installs its sender before it raises the
  generation. A session that ends in between takes its successor's sender, and
  the new cast is stopped at once.
* `EndReason` — "Fresh start: clear any previous session's end reason" (`main.rs:262`).
  The session that is replaced still runs then and writes its reason afterwards; when the new
  cast ends, the extension asks for the reason and shows the old one. `NoOldReason` is
  what remains: a cast asked for with none under way is told nothing old.
* `ClimbsEveryTime` — "a climb is always a full 10% step, which clears the 5%
  threshold by construction" (`bandwidth.rs:372`). The step that the maximum cuts short does
  not: the bitrate rests at 4876 of 5000, `at_ceiling` stays false and the ladder
  never steps up. `ClimbsBack` is what remains: it comes within a twentieth.
* `EveryRequestTaken` — "Every request gets its own streaming thread" (`http.rs:250`).
  `start_http_server` answers on the accept thread (`http.rs:129`), so a player that opens a
  second connection beside the first waits for as long as that one lasts.
* `RequestApplied` — the volume worker is stopped when `setup_volume` returns.

Seen while modelling, without a run of their own:

* Setup and teardown. The portal's `Closed` is subscribed to when the loop first
  polls (`capture.rs:54`), so an end during negotiation is lost. A capture whose opening
  fails after `Start` (`capture.rs:160`) leaves its portal session open until the user
  ends it. A negotiation that
  fails after LAUNCH leaves the application running, as no `ChannelControl` exists
  yet to send a STOP. A status without the application is skipped while the
  ANSWER is awaited, so an app that dies there costs the full twelve seconds. A
  pipeline that is refused PLAYING is dropped without being set to NULL
  (`session.rs:154-163`), although `PipelineStop` is there for "every path out of a
  session" (`pipeline.rs:372`). A stop asked for during setup is
  seen only when the loop is reached.
* HTTP. When the encoder has failed no chunk comes, no write fails, the stop flag is
  never read (`http.rs:129`), and the session that joins the thread waits for the player
  to leave. A receiver that falls silent with its connection open is not noticed:
  "the flag is noticed within roughly that interval" (`cast.rs:40`) holds while it pings.
  A connection closed with the flag set, a refused STOP, a failed connection to the
  launched application or a failed LOAD leave the player to the receiver, which ends it with its
  last sender.
* Sender. `send` on an unconnected socket fails each time, so Sender Reports never
  leave (`sender.rs:486`). A full history and the spare make one buffer more than the
  cap, where the comment says "never hold more buffers than the history cap"
  (`sender.rs:153-157`); `BuffersStayBounded` proves the true bound. More than 127
  frames without feedback make `Expand` a multiple of 256 wrong: a late report may then
  confirm what never arrived, and what is asked for is not sent again.
* Rate. `histories_overlap` counts
  from the first samples there ever were, so it asks little after a pause. Each
  estimate moves the confirmed ring to the present, so what is confirmed next is
  dated up to a round trip late; `DatedInRoundTrip` bounds that.
* Quality. "The receiver always wins" (`quality.rs:8`) does not hold over our own least values:
  sides of 180, 5 frames per second, which may exceed `frameRate` and
  `maxPixelsPerSecond`, and, where no `minBitRate` is sent, 300 kbit/s of video and 32 of
  audio, to which a smaller `maxBitRate` is raised; `OnlyOurLeastExceeds` names each. A
  `maxSampleRate` below 16000 makes `clamp` panic, and the release
  profile aborts. A `minBitRate`
  above 62.5 million without `maxBitRate` leaves constraints with a lower end
  above the upper one, which `resolve` caps. A least side may break the aspect
  ratio. An automatic size has the shape of 1920x1080 (`pipeline.rs:45`), not that of what is
  captured (`quality.rs:258`); the HLS pipeline takes the captured size or the one asked
  for, not the resolved one (`pipeline.rs:206`). Up to a height of 1080 the rule of 15 %
  never drops a step of the ladder.
* Daemon and extension. A `StartCast` handled after the idle exit has decided is
  lost with the daemon. A status that lasts less than the forwarder takes is
  never announced, an error included. A `GetStatus`
  reply may be overtaken by a signal, and a signal before the proxy is subscribed
  is lost: the menu is behind until the next one. The list of devices survives
  the daemon in the menu, and an extension enabled beside a daemon that knows devices
  starts with none: `MenuSettles` holds from the next answer on. A device chosen from an old
  list may be unknown to the next daemon.
* Volume. A level whose write fails is lost (`volume.rs:126`). A slider timer still
  running re-sends what it had pending after the daemon has reported another level.

### Fairness

* `CastSessions`: an accepted handler runs to its reply and a session's own steps
  are scheduled (tokio), each after a wait the code bounds; the picker is the
  exception, of which we assume that the user answers it. Nothing is assumed of
  the receiver, the compositor, the encoder and the joins of an HTTP cast
  (`WorldStep`). `StopTakesEffect` and `StartsEventually` have it as a premise that the
  joins end (`JoinsEnd`): `Fallback` shows when they do (`StopEnds`), and the join of a mirrored
  cast is bounded by its deadlines (`StopEnds` of `MirrorSession`).
* `MirrorSession`: the session and the thread are scheduled (each read returns
  within `READ_TIMEOUT`), and deadlines pass. Nothing is assumed of the receiver
  and the network.
* `ChunkChannel`: the receiving thread runs (`TICK` bounds its wait). Producers
  owe nothing.
* `MediaSender`: the thread runs; of the network, that among reports or packets
  sent again and again one arrives, and that the receiver keeps reporting, as
  Cast receivers do. `GapsFill` excuses a frame that had to leave the history
  without being acknowledged, which nothing can send again, and a stream that has strayed.
* `RateControl`: time passes, and a link that confirms data has an estimate again
  and again (strong fairness of `ControlRate`).
* `Fallback`: the three threads run, a playing pipeline produces chunks, the
  receiver sends a message now and then (it pings) and closes the connections of a player it
  has ended. `StopEnds` excuses a receiver that is silent with its connections open
  (blocking reads without a time limit) and a failed encoder, for the reason
  given above; `EveryRequestTaken` is violated although neither happens.
* `Volume`: setup and worker run, the receiver can be reached again and again.
* `Service`, `Bandwidth`, `Quality` and `Discovery` are checked for safety and need
  none: `MirrorSettles` and `MenuSettles` speak of the states in which nothing is
  under way.

## 4. Proofs

Everything below holds for all values of the constants under the named `ASSUME`s.

`CastSessionsProofs`, however the calls overlap. `SessionsExclusive` is about the
behaviours in which no two handlers have crossed. The property is not inductive: that two sessions are not
under way together depends on how the task handle passes from hand to hand. The
invariant `IInv` adds that at most one handler is between taking and storing a task
handle (`OneHandover`), wherever the others are, what a
handler holds at each stage (`HandlerInv`), that numbers are handed out in order
(`NumberInv`), that each call took the handle of the call numbered just before
(`ChainInv`), that `active_task` holds the newest task (`HandleInv`), and that a
session has begun only when all earlier ones are done (`OrderInv`), from which
exclusion follows. `StatusCorrect` adds the status to it. `PredecessorAwaited`
and `ShownForReason` hold of crossed handlers too: for the one `HandlerInv` is enough, for
the other that a portal session is open only where its session uses it, or was left by
one that failed to open it
(`PortalUsed`), and that whoever leaves a cast writes the status. `NothingLeftOver` excepts
crossed handlers again. `DueInv` names who still has to clear what is there:
the stop sender belongs to a handler on its way or to the newest session before it
took it (`SenderOwned`), details and volume channel are due to the newest session
before it cleared them (`DetailsDue`, `VolumeDue`). An older session may write them as
late as it likes: by the order of sessions (`NewestWaits`) the newest one has not
begun then. `SessionsStoppable` is what `StopTakesEffect` and `StartsEventually` rest
on, and holds however calls overlap: the stop sender of each call that installed one
is in `active`, where the next `StartCast` or `StopCast` finds it, or its channel has
resolved, and never both (`StopInReach`).

`ChunkChannelProofs`. `CInv`: types, the count is the number of live handles, the
queue stays empty while the receiver holds the lock after finding it so
(`LockedInv`), hence `DisconnectLast`. Under it every step of the channel is a
step or a stutter of the mailbox: `ChannelIsMailbox`. `NoChunkAsleep` is about the
wake-ups: while the receiver is parked and a chunk is queued, a notification is on its
way to it (`ChunkWakes`). Only that of the last drop may be lost, which its time limit
makes up for (`EndsAfterLastDrop`).

`MediaSenderProofs`. `BuffersStayBounded` from `oldest <= next`. The rest is about the streams
that have not strayed, with no assumption on how far a stream may run ahead:
`ExpandInverts` shows that the expansion recovers an id less than half a
span away. With the honesty of the feedback, the
distance between checkpoint and next frame and the shape of the history this is
inductive (`AInv`), and gives `OnlyArrivedConfirmed`, `MissingStaysKept` and
`EveryAckRead`.

`RateControlProofs`. `TypeCorrect`: the bitrate stays in its range whatever the
link does. `StaysWithinLink` is arithmetic over the clamp, the increase and the
dead band. `GrowthIsProven` needs `HeadroomTrue`: the ladder's headroom clock
never runs ahead of the ghost that counts since the last observation below the ceiling.

For `Bandwidth` the invariant is `EstimatorInv`: both trackers are rings of amounts
whose head is the slice their start falls in (`Aligned`), no confirmation is dated
after now, and none after the last one heard. A ring is read by slice numbers modulo
its length, so the proofs need what a division leaves (`DivMod`, `Unique`, `DivShift`)
and that numbers less than a ring apart have slots of their own (`RingApart`).
`Advanced` says what `advance_to` does to head and start, with its short cut and
without, and `Slides` that a tracker moved on and added to is the window moved on and
added to. With it every step of the estimator is a step or a stutter of `FlowWindow`:
`RingIsWindow`. `ConfirmationsAreDated` and `EstimatesAreFresh` follow from the same
invariant; freshness is of the instants, not of the sum, which is why it
survives any history. The sum itself is a fold of the community modules, unfolded by
cases on the least set of slots it could fail for (`SumExists`, `SumIsNat`: the numbers
are well-founded, and a least counterexample stands in for an induction). So an
estimate is a number (`EstimatorTyped`); and because the time spent sending is within
the window (`TimeInWindow`), it is never less than what was confirmed in it
(`EstimatesCover`): an idle sender is not read as a slow link.

`FallbackProofs`. `TInv` adds to the types that a body is written for a request
(`ServingOK`). `OwnStop`: "stopped" is among the events only once the flag is set,
and by then the session is out of its loop, hence `OwnStopUnreported`.
`Teardown` says, for each stage of the setup, what is not made yet (`Made`) and,
for each stage of the teardown, what is gone already (`Dropped`);
`FilesRemovedLast` and `NothingIsLeft` follow. `ClientsStayFew`: a body ends only with
a chunk, and a chunk removes every client that has gone.

`MirrorSessionProofs`, for any number of casts and any receiver that keeps the
order of a connection. `TInv` are the types and how session and thread walk
together (`Walk`). On it stand `Numbered` (instances are numbered as they are
launched, so one that has ended never runs again), `Truth` (what each message in
the inbox tells stays so until it is read: a CLOSE is about an instance that has
ended, a status without our instance means it is gone), `Ordered` (of two statuses
the later one, naming another instance, tells that the earlier one's is gone),
`Asked` (only what was told to stop shuts down) and `Fates` (what a cast has told
to stop it has seen gone, has abandoned, or is just stopping). `FreshInstance`,
`HonestEnd` and `NothingLeft` follow. The properties alone are not inductive: whether a cast may
trust an instance depends on messages that were sent before it began.

`ServiceProofs`. `Way` says that every call, reply and message is about an accepted
cast and that a reason under way is not an old one; `Dated` that the reason stored
is of a cast no accepted one found over; with `Numbers` this carries
`ReasonsAreFresh`: a cast asked for with none under way is told no older reason. `Exit` carries `NoCastTaken`: while a cast waits, the idle time is
zero, so between the look at the status and the look at the activity an accepted
cast always shows; one that is under way after the decision was accepted after it
(`late`). Finiteness of calls and answers is needed because what the bus answers
for a dead daemon comes in some order.

`MenuMirrors`: that the menu shows the status when nothing is under way depends on
everything that was. `Settling` says, for the moments in which no change waits to be
announced: of the messages on the wire that set the menu the last one tells the
status (`LastTold`), unless it is a reply a signal has overtaken; a reply not yet
written tells it or is stale; and when no message is left that sets the menu,
the menu shows the status, is behind, or has asked for it.

For `Discovery` the invariant is `DeviceInv`. `FreshestKeepsAll` shows that a record
loses no address and doubles none (from `InOrderListsAll`: the positions of a finite
set can be listed in order), which carries `DeviceKnown`; `PicksReachable` shows that
the choice among them finds one the host has a route to, whichever family it is of,
which carries `DeviceReached`, of routes that change between the looks too;
`DeviceStaysReached` is about the last look, `NeverDowngrades`. `AnswersFollow` is to the
list of devices what `Settling` is to the status: with no change and no call left, the
newest answer lists the device as it is, and every older one is marked as overtaken once
that one has come, unless the menu's list is late: no answer has come since it missed a signal
or lost its daemon.

`QualityProofs`, for every block, every option and every integer in them. The
invariant `Inv` says that the constraints can be resolved and that `resolved` is what
`Resolve` makes of them; the rest is arithmetic: `Quotient` states what an
integer division leaves, `Fits` that the scaled side fits, `Shape` that rounding
to even sides keeps the shape to within `SameShape`. `LeastValuesOnly`, `ShapeKept` and
`RangeIsOne` follow.

`LadderIsSound` is about a recursive function over the rungs, for a picture of any
height. `LadderExists` shows that there is a function that satisfies the recursion, so
that the `CHOOSE` behind it has one to choose, and `LadderIs` that `SnappedSizes` is its
last value. `LadderAt(source, n, rungs)` is what holds after `n` steps down: the last
rung is the source, each is the source or one of the steps, neighbours are 15 % of
area apart, and each of the `n` steps is near a rung. `LadderStep` carries it over a
step, `LadderWhole` to the last one. An induction over the steps is not a rule the
provers can instantiate; it is replaced by the least step at which `LadderAt` fails,
which exists because the numbers are well-founded (`SmallestOf`, from the library's
`WFMin`), and at which it then cannot fail. `LadderTop` shows that the nearest size to
the source is the source, where the cast starts. `LadderCut` is the invariant that the
sizes and the start were cut from what is resolved now, and from nothing older.

Model-checked only:

* all liveness (`StopTakesEffect`, `StartsEventually`, `EndsAfterLastDrop`, `StopEnds`,
  `GapsFill`, `ClimbsBack`, `DeviceLossEnds`), which is beyond the prover;
* the six properties that are violated (`NeverShare`, `KeepsSuccessor`, `EndReason`,
  `ClimbsEveryTime`, `EveryRequestTaken`, `RequestApplied`), which have no proof to be
  had, and with the last of them the whole of `Volume`.

Every safety property that a passing run checks is proved.

## 5. Not modelled, and what is left

Not modelled for good: the construction of pipelines (`pipeline.rs`,
`streaming/encoder.rs`), whose behaviour is GStreamer's; byte formats and the cipher
(`rtp.rs`, `crypto.rs`, the layout of `rtcp.rs`), pure functions with tests of their
own; the text of JSON messages; the choice of the local address; preferences,
dialogs, packaging. `rust_cast`'s framing is a library: a read that times out in
the middle of a message is taken for one that got nothing.

Partly modelled: the user as a client of the bus is an environment of
`CastSessions` and `Service`; the portal's restore tokens, the RTP clock and the
key frame requests of the sender, the URL tokens of the HTTP server and the
slider's throttle are left out.

What a next step would take up, in this order:

1. The slider in `Volume`: the throttle of `volumeControl.js` against the levels
   the daemon reports in between.
2. Key frame requests and the RTP clock in `MediaSender`.
3. Proofs of the invariants behind the rest of the liveness properties (those of
   `StopTakesEffect` and `EndsAfterLastDrop` are proved: `SessionsStoppable`,
   `NoChunkAsleep`), which leave only the fairness argument to TLC.

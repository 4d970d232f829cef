# A TLA+ model of Pixsee

Pixsee is a remote desktop: `vdhost` captures the screen of one machine and
streams it to `vdclient`, which shows it and sends keys, buttons and pointer
events back, over one mutually authenticated TLS connection. This directory
models the program's concurrent core in TLA+, model-checks it with TLC and proves
the safety of all nine of its modules with TLAPS. The source is the reference:
every definition is translated from the lines `PROJECT.json` names for it under
`map`.

## 1. The system

| Component | Source | State | Operations | Talks to |
| --- | --- | --- | --- | --- |
| Capture loop | `internal/host/service.go` `captureLoop` | the image it holds; the one-slot channel | tick, capture, offer, drain, offer again | send loop (channel) |
| Damage detector | `internal/damage/damage.go` | previous image (by tile hash), generation, sequence | `Compare` | send loop (call) |
| Send loop | `service.go` `sendLoop`, `sendCapture`, `planFrame`, `sendPlan` | announced generation and size, `keyframeRequested`, last keyframe | force decision, `Compare`, DISPLAY_CONFIG, FRAME or FRAME_PARTs | peer; shares the generation with the input loop |
| Frame splitting | `internal/protocol/frame_part.go` | none | `SplitFrame` | send loop (call) |
| Framebuffer | `internal/client/framebuffer.go` | two buffers, generation, sequence, staging, drain | `Reset`, `Configure`, `Apply`, `ApplyPart` | client receive loop (call) |
| Client session | `internal/client/session.go` | peer, keepalive, the input's connection | `Run`, `ServeConn`, teardown | host (messages), renderer, input |
| Client input | `internal/client/input.go`, `renderer_fyne.go` | connected, focused, held keys and buttons, sequence, the view's modifiers | view events, `SetDisplay`, `Connect`, `Disconnect` | host (messages) |
| Host input | `service.go` `inputLoop`, `handleInput` | last input sequence, rate window | check, shed or dispatch | injector (call), send loop (flag) |
| Injectors | `internal/host/input/input_linux.go`, `input_windows.go`, `input.go` | pressed keys and buttons, the X connection | `Key`, `Button`, `Wheel`, `Move`, `ReleaseAll` | the desktop; shared by all sessions |
| Pixel arithmetic | `internal/host/downscale.go`, `damage.go`, `frame_part.go`, `protocol/validate.go`, `client/input.go` | none | `downscaleFactor`, `remapCoordinate`, `changedRectangles`, banding, `SplitFrame`, `ValidateMessage`, `MapCoordinates` | send loop, input loop, view |
| Client process | `cmd/vdclient/lifecycle.go`, `renderer_host.go`, `main.go`, `internal/client/session.go`, `renderer_fyne.go` | contexts, attempt, the three goroutines, closed and exited | `Session.Run`, `runGUILifecycle`, `FyneRenderer.Run` and `Quit` | client session, window |
| Admission and handlers | `internal/session/session.go`, `cmd/vdhost/main.go` | the slot, the adapter, the handlers | `Accept`, `handleConnection`, `serve` | service (call), injector |
| Heartbeats | `service.go` `heartbeatLoop`, `session.go` `keepaliveLoop` | last activity, outstanding probe | tick, PING, PONG, give up | peer, read deadline |
| Transport peer | `internal/transport/peer.go`, `internal/protocol/codec.go`, `types.go` | state, hello flags, record version and numbers | `Send`, `Receive`, `PinVersion`, `Close` | the other peer |

What is hard about it:

* five goroutines per session on the host side and several on the client's share the
  peer, the service's lock, the input state and one injector, and are cancelled
  without being joined;
* pixels are numbered three ways (generation, frame sequence, part index), and
  the detector on one side and the framebuffer on the other must agree on the
  base of every delta across resizes, skipped captures, lost connections and
  refused frames;
* a key that goes down has to come up again, whatever is shed, cut off,
  reconnected or refused in between;
* dead peers are found by two watchdogs and two read deadlines with different
  clocks;
* the client's window, session and watcher end in any order, and each has to
  bring down the others; a connect timeout shares a context with the reconnects;
* what the damage detector cuts, the packer packs and the validator checks by
  limits that each of them derives for itself.

What makes each part correct, and the hazards it is exposed to, line by line,
are under `hazards` in `PROJECT.json`; the ones no property covers say why.

## 2. Modules

    AtomicDisplay   <---implements---  Framebuffer  <---INSTANCE---  FrameStream  ---implements--->  Mirror
    InputPath    HostSession    Heartbeat    Peers    ClientRun    PixelPath    Injectors

`HostSession` and `ClientRun`, the two processes, have their theorems in
`Lifecycle_proofs`, each of the other modules of the second row, `Framebuffer` and
`FrameStream` in `<Module>_proofs`.

| Module | Models | Notes |
| --- | --- | --- |
| `Framebuffer` | the client's framebuffer under `ServeConn`'s receive loop | one action per call; the messages are all that the validator lets through |
| `AtomicDisplay` | what the framebuffer promises: a screen that changes by whole frames | abstract, no code lines |
| `FrameStream` | capture loop, channel, send loop, detector, connection, client | composes `Framebuffer` by INSTANCE |
| `Mirror` | what the stream promises: the published captures, whole and in order | abstract, no code lines |
| `InputPath` | keyboard to injector: view, `InputState`, connection, `handleInput`, X11 injector, with resizes and reconnects | |
| `HostSession` | the handlers of all connections, the four loops of each service, the slot, the shared injector, the shutdown | |
| `Heartbeat` | `heartbeatLoop`, `keepaliveLoop`, read deadlines in discrete time | |
| `Peers` | the two peers of one connection from the first record to the session: state machine, version window, pin, record numbers | |
| `ClientRun` | the client process: `Session.Run`, `runGUILifecycle`, `FyneRenderer`'s `Run` and `Quit`, the signal | both builds |
| `PixelPath` | one capture from its size to its messages, and the pointer's way back to a native pixel | pure algorithms as operators |
| `Injectors` | the Linux and the Windows adapter over the calls of the system, which may fail | one of the two, chosen at the start |

`MC<Module>` gives the constants their values. Definitions marked "Mistake:"
are wrong variants of the definition after them; they are part of no
specification and serve to see that each property can fail.

### How they correspond to the code

**Framebuffer.** A rectangle is one cell, the rectangles of a message are a
function from cells to colors, and `sound` says whether each body decodes.
`mem`, `pixels` and `spare` are the two allocations and who points where, so that
aliasing and stale contents are visible. `Apply` and `ApplyPart` keep the order
of the code's tests; a failure after some rectangles were painted leaves any
subset of them painted. `result` is what the call returned: `fatal` ends
`ServeConn`, and the next connection begins with `Reset`.

**FrameStream.** A cell is one damage tile and one rectangle. `Dirty` compares
hashes, not pixels, as the detector does. `sendCapture` is one step up to its
list of messages (`outbox`: the optional DISPLAY_CONFIG, then the plan), because
nothing in it is visible to others before the first `Send`; each `Send` is a step
of its own that may block on the full connection. The capture loop is four
steps: capture, first offer, drain, second offer. `SplitFrame` is greedy by
bytes in the code and a split by a count of rectangles here; the frame that does
not fit (`ErrRectLimit`, `ErrFrameTooLarge`) ends the session before anything is
announced, after the detector has consumed its numbers. `MaxFrameParts = 0` is a
v1 session, which never splits. `unshown` is a history variable for the
refinement.

**InputPath.** One modifier stands for the four of the bitmap, and a key stands
for its keycode; pointer and wheel are one kind of event, since neither holds
anything down. `ServeConn` begins before the host admits it (`BeginServe`,
`NewSession`), and the user may act at any time, before `input.Connect` too. A release of everything is one step that sends any prefix of its
messages when the connection is gone, because a failing `Send` breaks it off.
A resize is the three steps of `sendCapture` that others can see: native size
taken, DISPLAY_CONFIG sent, generation and advertised size adopted.

**HostSession.** `pc` is where a handler stands, from `Accept` to the return of
the slot through the deferred calls in their order. The four loops are
separate; `Run` cancels them and does not wait. `Injector.Key` is two steps, the
look at the context and the lock.

**Heartbeat.** Times are ages in discrete time; what is due happens before time
goes on, in any order. Tickers start at different phases.

**Peers.** `Send` is check, write and advance in three steps, `Receive` is decode
and then check with advance in two; other goroutines run in between. Write
deadlines are left out: a `Send` here completes or finds the connection closed.
A record is its type, version and number; CLOSE is left out, nobody sends it.

**ClientRun.** `run` is where `Session.Run` stands, `main` the main goroutine,
`watcher` the watcher of `runGUILifecycle`, `quit` the first call of
`FyneRenderer.Quit`, which is three steps: it notes `exited`, releases the input
over the network, and then schedules `app.Quit`. `runErr` is the error of `runCtx`,
which keeps its first reason. `attempt` counts to one, since the code asks only
whether it is zero. `ServeConn` is its outcome: established or not, lost, ended by
CLOSE. A call of `Quit` other than the first returns at once. The headless build has
neither window nor watcher.

**PixelPath.** The unit is a cell, a block of the screen of `setup.cell` bytes, so that
budgets of a few rows and images of a few cells meet. `downscaleFactor`,
`normalizeConfig`, `changedRectangles`, the bands, `SplitFrame` and `MapCoordinates` are
operators close to their formulas; the loops of `changedRectangles` (`WithRow`,
`Changed`), the bands and `SplitFrame` are recursive functions over the same steps. The
code collects all runs and merges them afterwards; here each run is merged as it is
found, in the same order. Which tiles changed is any set, and
whether zlib makes a body shorter is any choice; tile hashes belong to
`FrameStream`. The actions are one capture: prepared, compared, planned, or, in its
place, one position of the pointer.

`MapCoordinates` computes in float64. The model divides exactly, and lets `Mapped` be a set
where rounding matters: a position on the exact border of two pixels may come out as
either, and one on the border of the image as inside or outside. Everywhere else the two
agree. Let the image fill the side `s` of the view: off the borders, a position is at least
`1 / 2s` of a pixel away from the next one, and the roundings amount to less than a fifth of
that, since float64 has 53 bits and a side of the view (below 2^16, `HighestView`) times a
side of the image (below 2^31) has 47. Positions are whole pixels of the view; a fraction
behaves as a whole position of a larger view of the same shape.

**Injectors.** A call of the adapter holds its mutex and is one step: the list of its
requests (`KeyRequests`, `ButtonRequests`, ...), of which any first part succeeds
(`Attempt`). What was noted follows the platform: after the request on Linux, before
it on Windows (`Noted`). `ReleaseAll` goes on after a failure. A broken X connection
stays broken, and the last request may have taken effect. `meant` and `lost` are
history variables: what the events ask for, and what stayed down because a request
about it failed.

## 3. Runs

| Run | Checks | Shows |
| --- | --- | --- |
| `framebuffer` | `TypeOK`, `StagedOverCommitted`, `OneAssembly`, `VisibleChangesOnCommit`, `AsksOncePerSequence`, `ImplementsAtomicDisplay` | any order of right and wrong messages leaves the visible pixels to whole frames |
| `stream` | `TypeOK`, `HostFramesAlwaysApply`, `SecondOfferNeverWaits`, `ConfigBringsFrame`, `ImplementsMirror` | detector and framebuffer never disagree; the client shows past desktops, whole and in order; no announced display stays without a frame, though some frames cannot be sent |
| `stream_recovery` | `HostFramesAlwaysApply`, `RequestAnswered`, `Converges` | a new session starts clean though the connection broke between parts, no keyframe request is lost, collisions are repaired |
| `input` | `NothingStuck`, `InOrder`, `NothingHeldUnfocused`, `GeometryMixedOnlyInResize`, `KeysComeUp` | the host holds nothing the client does not, and numbering survives resizes and reconnects |
| `host` | `TypeOK`, `OneSession`, `OnlyALateKeyStays`, `NothingHangs`, `NoForeignRelease` | one session at a time, the slot always comes back, nothing waits for ever |
| `heartbeat` | `KeepsTheLiving`, `NoticedInTime` | the living are kept, the hung are found in time |
| `peers` | `TypeOK`, `VersionsAgree`, `HonestNeverRejected`, `OnlyTheAdmittedSee`, `Settles` | both codecs settle on one version and no honest record is refused |
| `client_run` | `EverythingStops`, `KeepsReconnecting`, `GivesUpInTime` | window, session, watcher and signal bring each other down; a lost connection is tried again |
| `pixels` | `RectanglesCoverDamage`, `PlanIsAccepted`, `RefusedOnlyIfImpossible`, `PointerLands` | what is drawn is what changed, what is sent is what the wire takes, and the pointer lands where it points |
| `injectors` | `DesktopAsMeant`, `NotedIsDown` | the desktop holds what the events mean, whatever fails |

Two runs expect a violation: the code does something other than its documentation
says.

| Run | The code | The text |
| --- | --- | --- |
| `input_rate_limit` | the rate limit drops a release and the key stays down | "Key, button, and wheel transitions are never silently dropped" (`docs/architecture.md`) |
| `client_run_timeout` | the context of `ConnectTimeout` is looked at in every round of `Run`'s loop: once it has passed, the first lost connection of a client that was connected ends the client | "ConnectTimeout bounds only the initial connect sequence ... Once the session is up, reconnection is governed by ctx as before" (`session.go`) |

The type invariants of `InputPath`, `Heartbeat`, `ClientRun` and `Injectors` are proved and not run.

Modelling showed more that no run asks about. The models contain all of it, unless
it says otherwise:

* `NewInputState` starts connected, so a focused view of the first connection can send
  between `applyDisplay` and `Connect`, against the comment at `session.go:255`;
  `Connect` then forgets the key, whose release is never sent. `spoilt` has "early"
  in such a session, and `NothingStuck`, `NothingHeldUnfocused` and `KeysComeUp` except
  it;
* an event that crosses a resize meets the new generation in `handleInput` and ends
  the session (`service.go:545`);
* a key the client maps and the injector does not know (PrintScreen, ScrollLock,
  Pause on Linux; NumLock on Windows) ends the session; `Unsupported` in `InputPath`
  (empty in its runs), `Refuse` in `Injectors`;
* a key that passed `Injector.Key`'s look at the context may be injected after the last
  `ReleaseAll` of its session, since `Run` cancels its loops without joining them;
  `OnlyALateKeyStays` says that this is the only way a key outlives its session.
  (`docs/architecture.md`, 5, says that disconnecting must release all keys);
* releasing the right Shift presses the left one (`syncModifiers`); so does a
  Shift that went down before the view had the focus, until the next event, the
  loss of focus or the end of the session. `NothingStuck` and `KeysComeUp` leave
  `LeftShift` out, `NothingHeldUnfocused` does not;
* the Windows `ReleaseAll` never empties `pressedButtons`: later releases, of later
  sessions too, repeat the old ones, and would let go a button held at the host itself;
* `ReleaseAll` forgets what it failed to release, and an adapter whose X connection broke
  stays the adapter of all later sessions; a wheel click whose second request fails
  leaves X11's wheel button down. `lost` collects these;
* `serve` returns without waiting for its handlers, so the process may end with
  keys down;
* `keepaliveLoop` measures `HeartbeatTimeout` from the last message
  (`session.go:365`), while its comments (`session.go:46` and `:335`) have a peer closed
  that is "still silent HeartbeatTimeout after that probe". The probe goes out up to an
  interval after the last message, so the client may close half an interval after the
  probe, and gives up a living host that answers more slowly. `KeepsTheLiving` has
  `AnswersInTime` as its premise for this reason;
* with a timeout five seconds longer than the interval (35 s against 30 s) the
  read deadline may pass before the watchdog's next tick; `heartbeat` has these
  values, and shows that both spare a peer that is alive;
* `Peer.advance` may take a Peer that another goroutine closed back to Active. Its
  connection stays closed, so nothing follows from it;
* `Quit` reads `exited`, disconnects the input over the network, and only then calls
  `fyne.Do`; the loop may have ended in between (`quit = "late"`). What Fyne does then
  is outside the model;
* a client that never connected and whose deadline passes while it waits for its second
  attempt returns the bare deadline error, without "connect timeout"; and `ServeConn`
  gets `ctx`, so TLS, AUTH and HELLO are bounded by their own deadlines only;
* `MapCoordinates` may send the pixel before the one under the pointer, when the pointer
  is on the border of the two: in a view of 18 by 18 that shows 14 by 14, position 9 is
  where pixel 7 begins and pixel 6 is sent, since 9 / (18 / 14) comes out as 6.999.... The
  margin may come out above zero too: a view of 490 by 600 that shows 1920 by 1080 refuses
  x = 0. `Mapped` allows both, and `PointerLands` asks for one of the two pixels;
* with `MaxFrameParts` = 1, `SplitFrame` still measures the frame by the 31 bytes of a
  part's header and refuses one of up to four bytes over that a FRAME, with its 27,
  would carry, against "a frame that fits stays whole" (`service.go:395`): 87 bytes under a
  payload of 89. `RefusedOnlyIfImpossible` asks this of two parts or more;
* limits of 53 to 56 bytes pass `NewDetectorWithLimits` but carry no raw one-pixel
  rectangle in a FRAME_PART; a budget smaller than one row is exceeded by `bandRows`'
  minimum of one row; a v1 image may be too long and narrow for any factor.
  `PlanIsAccepted` and `RefusedOnlyIfImpossible` state these as conditions: one row within
  the budget and, in v1, some halving of the capture within it.

### Bounds

* `framebuffer`: three cells (the least that give a part that neither begins nor
  ends a frame), displays of one or all of them, so that rectangles fall outside;
  two generations and two frame numbers, so that stale, replayed, refused and
  applicable frames all occur; cells are symmetric.
* `stream`: displays of two or three cells. Three dirty cells need one part more than
  `MaxFrameParts` allows, so the frame that cannot be sent occurs, at the start, after a
  resize and at a change, and `ConfigBringsFrame` is asked where it could fail: one
  session, which no reconnect excuses. Two changes, so
  that a delta follows a delta or a resize; a connection that holds one message.
* `stream_recovery`: the same displays, whose cells all hash alike, one change, one
  request out of turn, as any client may send it, and two connections, of which the
  first may break with some parts of a frame staged. `KeyframeIntervalElapses` is
  left out while the client shows the desktop, where the keyframe would only
  repeat the frame.
* `input`: a letter, the left Shift, a button, four acts of the user (gain the focus,
  press two things, lose the focus), one resize, two connections, a rate limit of two
  events: enough to hold two things, lose focus or connection with a resize under
  way, be shed, and start again. Letting go is not counted; the user acts when no
  event is in flight, lets go at any time, and a release of everything may add
  several. `input_rate_limit`: a letter and one connection.
* `host`: two connections, symmetric, one key each.
* `heartbeat`: five-second units, the default interval of 30 s, a timeout of 35 s,
  where watchdog and deadline race, slack of 5 s, messages up to a unit late each
  way, two other messages. These satisfy `AnswersInTime`, the premise of
  `KeepsTheLiving`; without it the living are not always kept, as section 4 tells.
* `client_run`: none; the process is finite. `client_run_timeout` is the headless build.
* `pixels`: six sizes of captures up to 6 by 6 cells, tiles of two, three or five; eleven
  configurations of both versions, with payload limits from below the floor to the
  whole image, two to six rectangles and one to four parts, so that every limit is
  met exactly, missed by one and passed; five views, wider, narrower and smaller than
  the image.
* `injectors`: a letter, the right Shift, the left Shift and Control with their two bits,
  a button, a wheel button and up to two detents; any number of sessions.
* `peers`: two messages of each side after the establishment, every combination
  of known token, busy slot and versions.

`CHECK_DEADLOCK FALSE` stands wherever a bounded environment may run out of
things to do, or, in `pixels` and `client_run`, the program ends; the framebuffer,
which may always be reset, and the injectors are checked for deadlock. `NothingHangs` states freedom from deadlock for `HostSession` itself: no
state in which the program can do nothing more leaves a handler, a slot or a
loop behind.

### Fairness

* `FrameStream`: weak fairness of the capture loop, the send loop, the receive
  loop, the host's input loop, the keyframe timer and the reconnect: goroutines
  that are ready run, and timers fire. Strong fairness of `TakeCapture`: the
  capture loop empties the channel and fills it again, which disables the
  receive for a moment each time, but Go hands a value to the receiver that
  waits on the channel, so a waiting send loop is served. Nothing makes the
  desktop change or a connection break.
* `InputPath`: weak fairness of the host's input loop, `ServeConn`, the rest of a
  resize and a new connection. The user owes nothing.
* `ClientRun`: goroutines run and timers fire: `Top`, the wait between attempts,
  `ConnectTimeout`, the steps of `Quit`, of the main goroutine and of the watcher. A
  `Dial` whose context is done returns (`DialContext`), each step of the establishment
  has its I/O deadline, and a `Receive` whose context is done returns
  (`withReadDeadline`); nothing else ends a dial or a session. The Fyne loop serves
  what is in its queue. The user and the signal owe nothing.
* `Peers` (`FairSpec`): the goroutines that establish the session and the ones in
  `Send` and `Receive` go on; no deadline, close or further message has to come.

## 4. Proofs

The theorems hold for every value of the constants, under the assumptions their modules
name, which TLC evaluates in the runs.

| Module | Theorem | States |
| --- | --- | --- |
| `Framebuffer_proofs` | `TypeCorrect`, `StagedCorrect`, `OneAssemblyCorrect` | `[]TypeOK`, `[]StagedOverCommitted`, `[]OneAssembly` |
| | `VisibleCorrect`, `AskedOnce` | `VisibleChangesOnCommit`, `AsksOncePerSequence` |
| | `Refinement` | `ImplementsAtomicDisplay` |
| `FrameStream_proofs` | `TypeCorrect`, `FramesAlwaysApply`, `OfferNeverWaits` | `[]TypeOK`, `[]HostFramesAlwaysApply`, `[]SecondOfferNeverWaits` |
| | `RequestsGetKeyframes` | `AnswersWithKeyframe`, the safety part of `RequestAnswered` |
| | `MirrorSafety` | `Injective => (Spec => Faithful!Safety)`, the safety part of `ImplementsMirror` |
| `InputPath_proofs` | `TypeCorrect`, `InputInOrder` | `[]TypeOK`, `[]InOrder` |
| | `NothingStaysStuck`, `NothingIsHeldUnfocused` | `[]NothingStuck`, `[]NothingHeldUnfocused` |
| | `GeometryIsOne` | `GeometryMixedOnlyInResize` |
| `Lifecycle_proofs` | `TypeCorrect`, `OneSessionCorrect`, `KeysLifted` | `HostSession`: `[]TypeOK`, `[]OneSession`, `[]OnlyALateKeyStays` |
| | `CleanupIsOwn` | `NoForeignRelease` |
| | `ClientTypeCorrect`, `RunEndsForAReason` | `ClientRun`: `[]TypeOK`, `RunsOn`, the safety part of `KeepsReconnecting` |
| | `MainIsLast` | `[](main = "returned" => AllStopped)` |
| `Peers_proofs` | `TypeCorrect`, `VersionsAgreed` | `[]TypeOK`, `[]VersionsAgree` |
| | `NeverRejected`, `OnlyTheAdmitted` | `[]HonestNeverRejected`, `[]OnlyTheAdmittedSee` |
| `Heartbeat_proofs` | `TypeCorrect`, `HungIsNoticed` | `[]TypeOK`, `[]NoticedInTime` |
| | `LivingIsKept` | `[]KeepsTheLiving`, whose premise is `AnswersInTime` |
| `Injectors_proofs` | `TypeCorrect`, `NothingForgotten` | `[]TypeOK`, `[]Accounted` |
| | `DesktopCorrect`, `LinuxNotesWhatIsDown` | `[]DesktopAsMeant`, `[]NotedIsDown` |
| `PixelPath_proofs` | `PixelInvariant`, `CoverageCorrect` | `[]PixelInv`, `[]RectanglesCoverDamage` |
| | `AcceptedCorrect`, `RefusalCorrect` | `[]PlanIsAccepted`, `[]RefusedOnlyIfImpossible` |
| | `PointerCorrect` | `[]PointerLands` |

Each module has one inductive invariant (`IInv`; `ClientIInv`, `PixelInv`), one lemma per action or group of
actions that it survives, and the theorems from it.

**Framebuffer.** `IInv` is the conjunction of the three state properties; none is
inductive alone. That a staged delta equals the committed pixels outside the
painted cells needs the two buffers to be distinct allocations, or painting the
one would change the other; that a keyframe is never drained, and that only a
keyframe is staged after a DISPLAY_CONFIG, needs that `keyframeRequired` and
`frameSequence = 0` say the same; and all need the types. While `pixels # spare`,
painting the scratch buffer leaves every visible cell alone: this gives
`VisibleCorrect`, and the steps of the refinement, where a call that commits is a
`Commit` of `AtomicDisplay`, `Configure` and `Reset` are its own, and every other call
stutters. `NoneAssumption` says that `None` is no record; the model took that for granted.

**FrameStream.** The detector numbers a frame long before the client sees it, so `IInv`
speaks of everything in between: `Runs(T)` says that there is a run `T` of the client
over the messages that are coming, on the wire or still in the hands of the send loop.
`T[0]` is where the client is; each message takes `T[i - 1]` to `T[i]` without an
objection (`Follows`); the frames that complete on the way are the captures of `unshown`
in their order (`Commits`); and, while the session lives, the last stage is where the
detector is (`Ends`). `Receive` drops the first stage (`RunGoesOn`), `Publish` adds one
for each of its messages (`FrameStages`, `RunExtended`), a lost connection cuts the run
short, and `Connect` begins it anew. `Announced` says that the service announces a
generation before its frames, `Room` that the slot is empty before the second offer.
Below it are lemmas about `SplitFrame`'s parts (nonempty, within the capacity,
disjoint, together the whole frame) and about one call of the framebuffer. `MirrorSafety` has the hypothesis `Injective`: no two
colors have the same hash. Otherwise a changed tile may not be sent, which
`stream_recovery` is about; the other theorems hold with colliding hashes too.
`NoneAssumption` says that `None` is neither a capture nor a part sequence.

**InputPath.** `NothingStuck` speaks of an empty connection. `Lifted` says what holds in
between: a key that is pressed at the host, or will be by a message on its way, is
held by the client or lifted by a later message. `Unfocused` is the same for the loss of
the focus, whose message comes last. These need `Ordered`, or a release could be
refused as old; `Quiet`, or `Connect` could forget a key that is already sent;
and `Together`, which says which stage of `ServeConn` belongs to a session that is up.
`Screen` carries `GeometryIsOne`. A release of everything sends its messages in the
order of `sort.Ints`: that every finite set of numbers has such a list is proved from
the well-foundedness of the naturals, by a smallest set that has none.

**HostSession.** `IInv` adds to the properties what a connection is before its loops
start: no key down and every loop off, so that starting them forgets nothing;
and that the key an input loop holds is one its client sent.

**Peers.** What a side finds was sent by the other, so `IInv` is a conversation: no record
between an encoder and its decoder is lost or reordered (`Numbered`), the record of
each number is the one the protocol has there (`Scripted`), and, for each stage of
each side, its state, codec and numbers (`ClientTable`, `HostTable`).

**Heartbeat.** `IInv` says where a probe is: on its way, answered, or at an end that
closed (`Outstanding`); at which phase of the ticker it was sent (`Phase`); and that
what is still to be read is as old as the silence (`Silent`). That the living
are kept does not hold for all values: the premise of `KeepsTheLiving`, `AnswersInTime`, `2 * MaxDelay < Half \/ Interval +
2 * MaxDelay <= Timeout`, asks that a probe and its answer take less than half an
interval, or that the timeout leaves them room after a whole one. TLC finds the watchdog giving
up a peer that answers with `Interval`, `Timeout`, `Slack`, `MaxDelay` at 4, 4, 1, 1 and
at 4, 5, 1, 1, where both fail, and none at 4, 6, 1, 1 and 6, 6, 1, 1. By default half
an interval is 15 s.

**ClientRun.** `ClientIInv` adds that the contexts are nested (`ContextsAgree`), what the
headless build lacks (`BuildsApart`), and that `main` returns last. `ClientRun` is an
instance in `Lifecycle_proofs`, so its theorems have its assumption on the constants as
a hypothesis; `client_run` evaluates it.

**Injectors.** `IInv` accounts for every code that is down: it is noted, or a request about
it failed (`Accounted`); after the first of the two releases only the second case is left
(`Released`). Since in a session every key that is noted is down (`KeysNotedAreDown`), the
modifiers that `syncModifiers` leaves out are in place. A call acts on what is noted and on
what is down by the same requests, so the two differ afterwards only where they did before
(`AfterCloser`), and, when one request fails, about its code, which is `lost`. That
`syncModifiers` makes one request of each bit that is off, and no other
(`SyncRequestsOff`), is about its recursion over the bits: by least elements again, first
that the recursion defines a function, then what it computes. The assumption on the constants
says that no code means two things and that no two bits have one code, as
`modifierKeycodes` has it.

**PixelPath.** Everything the properties speak of is computed by loops, so most of the proof is
about them. `Recursion` says that a function over an interval with a first value and a
step exists, `CountUp` is induction over an interval; both come from the
well-foundedness of the naturals, and each loop is shown by them to be a
function and then to keep what it should. `PixelInv` says, for every stage, what the
capture has been made into:

* the rectangles of a frame are a tiling: disjoint, nonempty, inside the image, together
  the cells of the dirty tiles. The scan keeps it for the tiles it has passed; a run that is
  merged downwards joins two rectangles of the same columns, and the bands of a
  rectangle are a tiling of it. `CoverageCorrect` is this invariant;
* each body is at most as long as the raw rectangle, and each band within the
  budget when one row of the image is;
* in v1, the frame fits one FRAME. Halving makes the raw image fit the budget, 53 bytes
  below the payload, but a delta pays 22 bytes for each of its rectangles. What pays for them
  are the clean tiles: row by row, `M` clean tiles allow at most `3 * M + 1` rectangles, since
  rows without one are merged, and leave `M` tiles' cells out of the area, of which only the
  tile in the corner can weigh less than 256 bytes (64 pixels). If that one alone is clean, what
  pays is the ratio: a delta leaves a quarter of the image clean. `PixelAssumption` asks both of
  v1, a tile of 256 bytes along a side and a `DirtyRatio` up to 0.75; `vdhost` sets neither and
  gets 64 pixels and 0.60. The second is needed: with a `DirtyRatio` of 1, which
  `damage.Config` allows, a capture of 65 by 65 pixels that just fits can become a delta of all
  but its corner, of 16967 bytes under a payload of 16953; TLC finds the same on a coarser grid;
* the plan is one message, or the packing by greed (`Packs`). That greed is best is an induction over
  the cuts of any other packing: the parts greed has closed before a rectangle are
  never more than those of the other. With two parts or more, a frame that one
  FRAME would carry needs at most two, since the two headers differ by less than a
  rectangle's metadata; with one part this fails (section 3);
* `PlanIsAccepted` supposes of a v1 capture only that some halving fits. That
  `downscaleFactor` then finds one (`FactorFits`) needs that a side that has vanished stays
  so, because the powers of two grow;
* the pointer: inequalities of the divisions in `MapCoordinates` and `remapCoordinate`,
  for every view and every pixel `Mapped` allows, and that `2^k` blocks of an image lie
  inside the native one.

That float64 stays within `Mapped` is not proved; section 2 gives the argument, and
`HighestView` is what it asks. `HighestSide` bounds a side below 2^31, so that `downscaleFactor`, which tries 32 factors,
finds one; a larger image could not be allocated.

Only model-checked: liveness (`RequestAnswered`, `ConfigBringsFrame`, `Converges`,
`KeysComeUp`, `Settles`, `EverythingStops`, `KeepsReconnecting`' second half, `GivesUpInTime`), since the prover
knows neither fairness nor ENABLED; and `NothingHangs`, which is about ENABLED. Of
`RequestAnswered`, `ImplementsMirror` and `KeepsReconnecting` the safety part is proved.

## 5. Not modelled

* The macOS injector: with cgo the file does not build (`input_darwin.go:226` calls
  `emitKey` with two of its three arguments), and without cgo the stub refuses every
  call.
* The averaging of colors in `downscaleImage`, zlib, the tables of key codes.
* The byte layout of messages and the rest of their validation: what passes the
  validator is what the modules receive.
* The drawing of the window (`Present`, the status line, the HID names).
* TLS, certificates and pins (`crypto/tls`); flags and files read at startup; the
  capture library; `transport.Queue` (unused); the test programs.

## 6. Plan

The invariants that carry `NothingHangs` as far as they do not speak of ENABLED; the wire codec's
byte layout.

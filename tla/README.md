# A TLA+ verification of xwlrvnc

xwlrvnc is an X server with no display of its own: it shows an X client (a VNC
server) the outputs of a Wayland compositor, injects the client's input, carries
the clipboard both ways and lets the client change the resolution. This
directory holds its TLA+ models, the TLC configurations that check them, and the
TLAPS proofs of what holds for every size of them. Paths below are relative to
the crate's `src/bridge/` unless they say otherwise.

## The system

There is one thread per X client (`x11/conn.rs`), a writer thread per client
(`event/client.rs`), and one Wayland thread (`wayland/mod.rs`). Nobody else may
touch a Wayland object. They share the `Server`: the clipboard, the job queue,
the resolution slots, the screen model, the framebuffer, the atoms, and the list
of clients for events. Each has a mutex of its own; almost every defect a test
would miss is about what happens between two sections under one of them.

| Component | State | Operations | Hard because |
|---|---|---|---|
| Job queue `clipjobs.rs` | queue, `running`, eventfd | `post`, `sweep`, `take`, `set_running`; the loop in `wayland/mod.rs`; `run_clip_jobs`, `start_receive` and the pump in `data_control/mod.rs` | jobs hold clients waiting for an answer; the loop may wedge, lose its socket or panic |
| Clipboard `clipboard.rs` | owner, last change, echoes, `published`, per selection | `x_took`, `x_released`, `x_fetched`, `x_fetch_failed`, `x_owner_gone`, `wayland_announced`, `publish`, `withdraw`, `Effects::apply` | several sections per transition; announcements of our own cannot be told from an app's |
| Resolution slots `dynres.rs` | `queued`, `in_flight`, `done`, condition variable | `change_mode`, `take`, `complete` | waits with deadlines on shared slots |
| Output configuration `wayland/output_config.rs` | the active request, its attempts, phase and deadline, heads, serial | `tick_dynres` and the manager's, head's and configuration's events | the compositor answers, cancels and disappears as it likes |
| Selection fetches `x11/selection.rs` | fetches in flight, INCR buffers, property ring | `begin_fetch`, `expired`, `take_fetch`, `incr_push` | answers late, never, or in pieces |
| Outbox `event/client.rs` | queue, bytes, last sequence number | `send_reply`, `send_event_bytes`, `writer_loop`, `close` | several writers, a bounded queue, sequence numbers that may not go back |
| Serving `x11/conn.rs`, `x11/targets.rs`, `wayland/data_control/mod.rs` | nothing but the conversion, its pipe and the owner's generation | `fill_selection`, `resolve`, `advertised`, `offer_at`, the pump | the selection changes hands between any two looks at it |
| Capture `wayland/capture/`, `capture.rs` | backend, per output a session, a frame and a buffer; the framebuffer; the read gate | start, frame ready or failed, tick, upgrade, output changes, reads | stale events, frames in flight, a client that begins to watch in the middle of a frame |
| Damage `damage.rs` | an object per client, its region and level | `create`, `subtract`, `add_damage` | no change may be lost between a report and a read |
| Cursor capture `wayland/capture/imagecopy/cursor.rs` | per output a cursor session and its image session | the same, and the pointer's own events | its sessions depend on the screen's, on the seat's and on the pointer's place |
| Output power `wayland/output_power.rs` | a control per output, its last mode | `ensure`, `wake_output`, mode events | orders against reports, and who looks first |
| Seats `wayland/mod.rs`, `wayland/transient_seat.rs`, `wayland/registry.rs` | chosen seat, clipboard seat, pending seats, capabilities, devices | globals, names, capabilities, `ready` and `denied` | anything comes in any order, or never |
| Input `input.rs`, `wayland/input/` | pressed keys, xkb state, keymap | `fake_input`, keymap events, `motion_abs` | X threads and the Wayland thread in three locks |
| Screen model `x11/randr.rs`, `wayland/output.rs`, `server.rs` | outputs, CRTCs, modes, bounds, and what follows from them | RandR requests, `sync_wayland_output`, `restore_outputs`, `sync_screen` | written by clients and by the compositor, pushed by both |

What makes each correct is stated at the end of its module.

## Modules

| Module | Models |
|---|---|
| `ClipJobs` | the job queue, both its ends, and the loop up to its death |
| `Conversions` | what that promises a client: one answer to each question (abstract) |
| `ClipJobsProofs` | proofs about `ClipJobs` |
| `Clipboard` | one bridged selection, with the compositor and the apps around it |
| `ClipboardProofs` | proofs about `Clipboard` |
| `DynRes` | the slots between X threads and the Wayland thread |
| `OutputConfig` | the Wayland thread's side of a resolution change, over `DynRes` |
| `OutputConfigProofs` | proofs about `DynRes` and `OutputConfig`, and that the second implements the first |
| `Outbox` | what is written to one client, and what libxcb makes of it |
| `SelectionFetch` | the values asked of a client that takes selections, whole or in chunks |
| `ConnectionProofs` | proofs about `Outbox` and `SelectionFetch` |
| `Serving` | a conversion, from the targets a client is told of to the value it gets |
| `ServingProofs` | proofs about `Serving` and its table of targets |
| `Damage` | a DAMAGE object, as operators |
| `Framebuffer` | the framebuffer, the clients that watch it, and a blit in its three steps |
| `ImageCopy`, `Screencopy` | one output's capture through either protocol, with the compositor's side, as operators |
| `Capture` | composes those four: the backend, its choice and upgrade, outputs, ticks, the compositor |
| `CaptureProofs` | proofs about `Capture` |
| `CursorCapture`, `OutputPower` | one output's cursor sessions and power control, as operators |
| `Watching` | composes those two over several outputs, with who watches |
| `Input` | one modifier key, its tracking and its xkb state, as operators |
| `Seats` | how the seats are chosen, with the compositor; uses `Input` |
| `SeatsProofs` | proofs about `Seats` and its modifier key |
| `RandrScreen` | the screen model, as operators |
| `PointerMap` | transforms, and the way of a pointer position to the compositor |
| `Layout` | composes those two: X threads, the Wayland thread and the compositor on one screen |
| `ScreenProofs` | proofs about `Watching` and `Layout` |
| `MC*` | the instances TLC checks; the constants are in the `.cfg` files |

A section under a mutex is one action. What a thread does between two of them is
the state of a `pc` per thread, and carries what the thread holds in its hands
(`held`, `fx`, `pub`, `mine`). Deadlines are choices: a wait may end early or at
its deadline, whichever the properties mind.

### ClipJobs

`post` is four steps: the section under the lock (`Post`, one of `PostStopped`,
`PostFull`, `PostTaken`), a `Drop` for each job carried out of it, and
`PostReturn`, which writes the eventfd. The queue is the set of its jobs, each
with the ticket it drew, so that queue order is ticket order. The loop's pass is
`Take`, `RunWork` or `RunReceive` for each job, `FinishReceive` for transfers,
then `PollReturn`. `WaylandLost` and `Panic` leave it, through `Guard`
(`Draining::drop`) and `Close`. A transfer is not modelled beyond how it can end.

### Clipboard

An item is an app's copy or an acquisition `<<client, time>>`, which is also the
value fetched for it, so that "the previous owner's value" is a state one can
point at. An X thread's transition is one step and leaves its `Effects` in `fx`;
`withdraw` and `publish` are `Withdraw`, `RecordEcho`, `PostPublish` and, for a
refused job, `UnrecordEcho`; then `SendClear`, `Notify`, `Applied`. The job queue
is a bounded FIFO here, whose other properties `ClipJobs` establishes. The
compositor (`CompositorSets`) and the apps (`AppCopies`, `AppClears`) are the
environment: `socket` and `announced` are the two directions of the connection,
and an announcement remembers whether it was ours, which the code cannot see.

Left out: the owner generation and the readers used to serve a conversion; two
fetches of one client with the same time are one; one window per client; a client
that takes a selection on the bridge's own window; `Job::Destroy`, which is among
`ClipJobs`'s works; the wrap of the 32-bit clock. An app that offers exactly the
text types we offer (`TextItems`) cannot be told from an echo by design: the runs
about both sides agreeing leave such apps out, the others have them.

### DynRes and OutputConfig

`change_mode` is `AwaitTurn`, `Park`, `AwaitResult`, each the stretch between two
waits on the condition variable; `Wakes` ends a wait, and only then does the
thread compete for the mutex again, which is where the second client's
`Park` gets in. `verdict` remembers what the Wayland thread said of a
thread's request, whatever became of it.

`OutputConfig` extends `DynRes`: it has its X side, and replaces its carrier by
the code's, so that to implement it (`HandshakeKept`) is to satisfy its `Spec`. Each event handler is an action, with the calls it makes
(`ApplyNext`, `Fail`, `Succeed`, and `dynres_advance` as `Moves`, `GivesUp`,
`Waits`). `shown` is the output's size in the screen model; `MakePlan`, `AskFor` and `SetCrtc` are
`set_crtc_config`, which also writes the model. One output with one head and one
manager at a time; a configuration object is the `Applying` phase, since any other
has been destroyed.

### Outbox

Everything under the outbox's mutex is one action, with the stamping and
`enqueue` in it (`Stamped`, `Enqueue`); the writer's pop and its write are two,
since the write is made without the lock. A message carries its sequence number
and, for the properties only, the request it is about. The client's half
(`Widened`, `waits`) is libxcb as the comment on `Outbox` describes it. Sizes are
units: an event or the setup is 1. `dead` is left out: it only has `each_live`
skip a client whose outbox takes nothing any more. The panics that poison the
mutex are left out, and so is what the event masks select.

### SelectionFetch

The fetches of one connection, numbered as they begin, with what each was resolved
with and how far the client has come with it. `Take` is `start_fetch` with
`begin_fetch`, `Notify` and `Refuse` are the two answers `handle_send_event` gets,
`Chunk` is a write to the fetch window, `Sweep` is `sweep_fetches`; the rest of
the client's side is `Store`. The order and the lateness of what the client does
are free, but for `StillIts`: it does not come so late that its property has gone
once round the ring, which is what the comment on `FETCH_PROPERTIES` asks for.
Data is the set of the fetches whose chunks are in it, and sizes are counted in
chunks. Deadlines are choices: `Sweep` takes any number of the fetches asked first
and any of the chunked receives.

A refusal names no property and is taken for the oldest fetch of the selection. One
that comes after its own fetch was given up on is taken for the next, whose value is
dropped when it comes. `RefusedAsAsked` says that this, and a client that answers
out of turn, are the only ways to be refused by mistake.

### Serving

A conversion is `Lists` (TARGETS), `Resolves` (`convertible` and `resolve`),
`Value` (`value`, and the job posted), `RunJob` (`offer_at` and the pipe), and
`Finish`; between any two the selection may pass to an app (`Announced`) or an X
client (`XTook` to `XGone`, one step each: their sections are `Clipboard`'s). An item
is a copy with its mime types and its size in bytes, of which there are few. `AppWrites` is the app's end of
the pipe. `CompositorHandles` runs requests in order: one on an offer that has been
replaced is dropped, and the pipe reads as ended.

### Capture

Damage is reported in whole rows of an output, so pictures are sets of rows that
differ: `stale` on an output, `news` between a buffer and the framebuffer, `behind`
between the compositor and the buffer. `frame_ready` is `Begin` (is anybody watching,
where does the output go), `BlitFrame` (under the framebuffer's lock) and `EndFrame`
(`add_damage`, under the objects'); clients create, subtract, destroy, read and poll
in between, and the screen may be laid out anew. A client is what it was told
(`told`), what it has decided to read (`toread`), and what it has not seen (`unread`),
which is what `NothingUnreported` is about. `Arrive`, `Settle`, `Apply`,
`Announce` and `RemoveOutput` are the calls of `maybe_start_captures` and
`sync_outputs`, `Tick` is `tick_captures`, `TimePasses` the times it waits for.

The compositor's side of `ImageCopy` and `Screencopy` is written from the protocols
as the code relies on them: constraints before the first frame, one frame a session,
a frame answered once, a session stopped at any time.

### Watching

The cursor is a number that grows as it changes; its image and its hotspot arrive by
different events, and each carries the number it had. The two outputs' events share
one connection (`order`), since that is what lets a pointer leave one before it enters
the other. Sleeping, waking, failing, stopping and moving are counted together by
`MaxMishaps`.

### Seats

`c` is this side, `k` the compositor, `out` and `wire` the two directions of the
connection. Each `-seat` choice is an initial state. A global may be there at first,
come late, or never; names and capabilities come after their seat. `Dispatch` is the
handler of whatever is first on `wire`, with all it calls (`select_seat`,
`adopt_clipboard_seat`, `sync_seat_devices`, `init_virtual_input`...); `Handle` the
compositor. A request for a device of a capability the seat never had sets `k.error`,
as it would end the connection. `Stroke` and `SendStroke` are `fake_input` in its three
locked sections, `LoadKeymap` the rest of the keymap event.

### Layout

A size, a point and a rectangle are pairs of numbers, one an axis. `Receive` is the
event handler of a `wl_output` or its `xdg_output`, and `Apply` what a `done` leads
to; `Push` is one push of `sync_screen`, out of the copy it made under the screen's
lock. `AskCrtc` plans under one lock, `SetLocal` acts under another; a resolution
change that goes to the compositor comes back by `Answer`, then `Adopt` or `Restore`.
The history variables say what a client did that no code is meant to undo
(`moved`, `off`, `theirs`), and which of the known races took place: `raced`, and
`behind`, that what follows from the screen may be behind it. Nothing was
pushed yet, two threads pushed at once, or an operation moved,
enabled or disabled an output and made no push (the two that need not make
one, `Adopt` and `Restore`, compare the rectangles: `NoSync`). A push that is made alone, and
tells the clients, ends it.

`moved` begins with the stand-in if its size is past the screen's limits, which
`recompute_bounds` only applies later; `Adopt` sets it where it enables an output that another
client had disabled since, and `SetLocal` and `AskSetSize` always do. `pack_axis` is a
recursive function of how many outputs have had their turn (`PackAxis`), and so is the
loop of `restore_outputs` (`AllBack`); the map of edges is `Put`.

`PointerMeetsPicture` says nothing of where the pointer goes on an output of fewer pixels than
its scale, whose logical rectangle is empty: a point is never in it.

## Runs

| Run | Question | Bounds | States | Time |
|---|---|---|---|---|
| `clipjobs` | is every job run in order, or refused, and every client answered once? | 2 X threads, 2 conversions, 1 other job, queue of 2, 1 transfer | 199 k | 60 s |
| `clipboard_sides` | do both sides agree once settled, and is every acquisition announced? | 1 client, 1 app copy, 2 requests, no queue full, no echo dropped | 281 k | 36 s |
| `clipboard_two` | is a displaced owner told? | 2 clients, 1 app copy, 1 echo record, 1 job | 2.5 M | 60 s |
| `dynres` | one at a time, own outcome, every call returns | 2 X threads, 4 requests | 139 k | 30 s |
| `output_config` | is every request completed, no success believed, and does it implement the carrier of `DynRes`? | 1 X thread, 2 sizes, 2 requests, 2 cancels, 3 serials | 72 k | 7 s |
| `outbox` | does a reply find its request, do answers arrive, do both threads end? | 6 sequence numbers, 7 requests, a cap of 2 units, replies of 1 and 3 | 148 k | 43 s |
| `fetch` | is every fetch resolved, with what was sent for it? | 2 selections, 3 fetches, ring and table of 2, 1 chunk | 21 k | 4 s |
| `serving` | does the value fit what was asked for, and is what was listed served? | 2 conversions, 1 transfer at a time, 1 byte, 2 copies | 4.9 M | 70 s |
| `capture` | is every change reported and shown, and every frame accounted for? | 1 output of 2 rows, 2 layouts, 1 client at each level, 1 change, 1 mishap | 1.0 M | 130 s |
| `watching` | is the cursor shown, and does a watched screen wake? | 2 outputs, 1 change, 1 mishap | 562 k | 110 s |
| `seats` | is everything on the right seat, do keymaps settle, do keys agree? | 2 real seats and ours, 5 managers of which 2 may be late, 3 choices, 3 plugs, 2 strokes | 572 k | 30 s |
| `layout` | does everything agree with the compositor in the end, and the pointer with the picture? | 2 outputs, 2 configurations, 2 sizes of clients' modes, 1 X thread, 3 changes, 2 requests | 2.3 M | 170 s |

`MaxRequests`, `MaxTime`, `MaxSerial`, `MaxItems`, `MaxChanges`, `MaxCursorChanges`, `MaxPlugs` and
`MaxStrokes` bound what only counts; two of each, or one beside a first that is
always there (the picture, the cursor), is enough for an old and a new one to coexist, which is what every
property is about. Queues
and limits have the code's constants as parameters and small values in the runs,
so that they are hit: the queue of jobs, the transfers, the echoes, the cancels and
the outbox all overflow, as do the ring and the table of fetches. `outbox` has 7 requests so that 6 sequence numbers wrap.
`capture` has one mishap in a behaviour (a resize, a failure, a stop or a new layout), at any
point of it, with the protocols' globals in any order. `layout` has one X thread, which
the Wayland thread races; its two configurations differ in everything: the rotation,
the scale, the sign of the position. Its xdg-output is of version 2, where a `done` of
its own ends a description.

TLC looks for no deadlock: every one of these systems may stop, with nobody asking
for anything.

`SidesAgree` and the properties about echoes are checked with one client: with two, the
first race below is in the way.

## What the code does not hold

Each of these was found as a violation by TLC, at the line given, and is left
out by a bound or a history variable of the property named. The words quoted are the
code's. The restore that is not pushed, for one: a client moves a CRTC within
the bounds and then asks for a mode that is refused; the CRTC goes back, and the pointer
is still mapped through the rectangles of before.

| Where | What happens | Left out by |
|---|---|---|
| `clipboard.rs:773` | a fetched value is published in a later section than the owner is checked in: a displaced owner's value replaces the new one ("A value from an owner that has since been displaced is dropped", 761) | one client in `clipboard_sides` |
| `clipboard.rs:901` | between the test of `published` and the withdrawal an app may copy, and its copy is withdrawn ("Only ever ours", 894) | no property |
| `dynres.rs:114` | a request, parked, wipes the result another client was woken for and has not read: it is told of a timeout ("The reply the client gets is therefore truthful", 10) | `ReplyIsOwn` does not look at timeouts |
| `x11/conn.rs:1430` | the local path of `set_crtc_config` writes a size that is out of date by then ("the RandR model never says something the compositor did not do", `dynres.rs:11`) | `raced` |
| `event/client.rs:47` | after half the sequence numbers went by with nothing written, the next reply is stamped with an older one | `MaxSilent`, and `HalfNeverPasses` in the proof |
| `wayland/capture/screencopy.rs:121`, `imagecopy/mod.rs` | a client that makes its DAMAGE object while a frame is being blitted is not told of that frame's changes | `unseen` |
| `wayland/capture/mod.rs:105` | with image-copy, what a relayout wiped is painted again only where the compositor damages it ("needs no fan-out to the backends") | `blank`, `repainted` |
| `wayland/input/mod.rs:80` | only the last keymap's hash is compared: two keymaps in flight can follow one another for ever | `Hasty = FALSE` |
| `input.rs:131` | a key that changes while the state is rebuilt is lost to the modifiers | `overlap` |
| `server.rs:60` | two threads that push at once may leave the older screen pushed | `behind` |
| `x11/randr.rs:297` | a restore that only moves CRTCs returns false when the bounds stay, and is not pushed (`conn.rs:1491`; "Returns whether anything changed", 265) | `behind` |
| `x11/conn.rs:1481` | with two X clients, a mode is adopted for a CRTC the other has switched off meanwhile: it comes back on, and nothing is pushed | `behind` |
| `x11/randr.rs:130` | a mode a client put on another output's list, or took off one, outlives or is missing from it | `theirs` |
| `wayland/data_control/mod.rs:257` | an end of file read before the announcement that explains it is dispatched is served as an empty selection | `wire # <<>>` in `ValueFits` |
| `x11/conn.rs:1800` | an X owner that takes the selection between the two looks serves its text as whatever the target became | `gen` in `ValueFits` |

## Fairness

X threads: a thread that is not asleep goes on (nothing in `post` or in a
transition waits but for a mutex). `SF(Wakes /\ late')` is the deadline of
`wait_timeout`, which passes however often the thread is woken before. The loop:
`poll` has a timeout on every pass and every transfer and phase a deadline looked
at on every pass, hence `SF(FinishReceive)` and `WF(Advance \/ Expire)`.
`LoopFairness` is a premise of `EveryoneAnswered` alone. No fairness is assumed of the
apps, and of the compositor none in these but `CompositorSets` in `clipboard_sides`. A blocking read
of a client's socket ends once the socket is shut down or the client has gone,
whatever is still buffered: `SF` of `ReadEnds`. The thread that has a fetch out
waits for its client no longer than `next_deadline`, hence the fairness of `Sweep`;
a client that stops in the middle of a request does hold it, as would any blocking
read, and is not modelled.

`capture`, `watching` and `seats` are about what the Wayland thread and the compositor
come to together. The loop dispatches whatever has come and runs its tick when it is
due, so `WF` of `Dispatch`, `Tick` and the steps of a frame, and of each pause
(`TimePasses`); the compositor handles requests in order and answers a frame it can
fill (`Answers`, `CursorAnswers`, `Handle`). That it fails, stops, resizes or takes
away something is never fair, and bounded. Whether anybody watches is the premise of
`EverythingShown`, `ScreencopyRepaints`, `CursorShown` and `SleepersWake`; nobody need go on
watching. `serving` and `layout` have safety only.

## Proofs

`ClipJobsProofs` proves every safety property of the run `clipjobs`, that nobody is
told twice (`AnsweredOnce`), that the final drain is final (`NothingPastTheDrain`),
the limits (`Bounded`), and the
refinement of `Conversions`, for any threads, conversions, works and limits. The
core is `Placed`: each job is in at most one place (a thread's hands, the queue, the
batch, the transfers), is told of only once it is in none, and `Settled`: a job that
was asked and is in no place has been told of. Neither `AnsweredOnce` nor
`NoneLost` is inductive without both. The order of jobs needs that tickets in the
queue are above those in the batch, which are above `lastRun`; the finite sets it
bounds use `FiniteSetTheorems` only.

`OutputConfigProofs` proves of the handshake type correctness, `OneAtATime` and
`ReplyIsOwn` for any number of threads and requests. The invariant adds `SlotHolds`: a
result in the slot is what was said of its request, and there is none while a request is
parked. Of the driver it proves `HandshakeKept`, that it implements `DynRes`, and
`OkOnlyIfShown`, for any sizes, limits and serials. Every handler either goes on with the
active request, of the type it had, or completes it, in success only with the size
shown (`Handled`): this is one lemma for each of `dynres_advance`'s ways, and one for
each event that concerns the request. The refinement needs `Carried`: what is taken and
what is active are one request at most, the one in flight. What the handshake promises then
holds of both together (`PromisesHold`), and in turn gives the driver's invariant its
last piece, that the parked request has an id.

`ConnectionProofs` proves of the outbox `SequenceNeverLost` and `ReplyFindsItsRequest` for any wrap,
cap and sizes, from `HalfNeverPasses`: fewer than half of the sequence numbers are
used up between two messages. That is what the code counts on, and the run
`outbox` keeps to it by `MaxSilent`. The invariant `NumbersInv` orders the
numbers of what the client has read, what is in the writer's hands, what is queued
and `last_seq`, each at most half a wrap before the next; the arithmetic of widening
a number that went round is in lemmas of its own.

Of the fetches it proves `OwnValue`, that a fetch is in one place
(`OnePlace`), is resolved once (`ResolvedOnce`) and refused only as it asked or by a client late or out of turn
(`RefusedAsAsked`), for any selections, ring, table, chunks and number of
fetches. The invariant is about the newest fetch on each property: the table, the
chunked receives and whatever lies on the window are all of the newest, because
`start_fetch` clears away what was there, and a client that is not late by a ring
(`StillIts`) speaks for the newest too (`NotLate`, by `RingApart`). So an answer and
the fetch it is taken for are the same one.

`ServingProofs` proves of the table of targets, for any list of mime types, that a
target is resolved to a mime type of the list (`ResolveFits`), and that `advertised`
lists exactly what `resolve` accepts (`ListedIsResolved`), as its comment says. Which
names are text, and which have a slash, are the sets `OtherText` and `WithSlash`.
Of the conversions themselves it proves `ValueFits` and `ListedIsServed`, action
properties both, for any clients, items, mime types and limits. A conversion notes the
generation of the owner it looked at, and the pipe it reads is of the offer that was
current later; that the two are of one item needs `SelectionsInv` (an item that was
replaced on either side never comes back, and each side hears of them in one order) and
`LooksInv` (what was seen at a generation is so while it is the current one).

`ClipboardProofs` proves type correctness and `NobodyMisled` for any clients, items,
times and limits: a client that lost the selection is in the `fx` of the one thread that
took it away, or has been told. What is about both sides is proved where it is checked,
with one client (`OneClient`):

- `SidesAgree`, with `TextItems = {}` (no app offers just what we do) and `RoomForJobs`
  throughout (no publication refused). `SidesInv` follows the latest value either side
  has, and says that all that is under way towards the other side, in the thread's hands,
  the queue, the socket or the announcements, ends with it.
- `EchoesOwed`, with no further assumption. `EchoesInv` has the echoes on record to be a
  suffix of what is to be announced as ours (`Coming`), whatever is refused, forgotten or
  mistaken.
- `EchoIsNoTakeover`, with `TextItems = {}` and `RoomForEchoes` throughout: nothing being
  forgotten, the record is also long enough (`Short`) that an echo that comes is found.

With two clients, or an echo forgotten, the code holds neither (see above).

`SeatsProofs` proves `KeysAgree` for any strokes, keymaps and keyboards plugged, from
`KeyInv`, which has a case for each point the two threads may be at in the key's three
sections; and `NoMissingCapability` and `ClipboardStaysReal` for any seats, managers,
`-seat` choice and order of globals, from `SeatsInv`. The last has four parts: types;
that what this side believes of a seat, and what it has asked of it, is within what the
seat has had (`CapsInv`); that the transient seat is asked for at most once, and asking
and answer are never under way together (`AskInv`); and where the clipboard is in each
choice (`ClipInv`). The handlers all build on `Req`, so that what they keep is proved of
them bottom up, and of `Dispatch` case by case.

It also proves `WiredUp`, from `RestInv` on top of `SeatsInv`. What a quiet registry has
come to does not depend on its history, but the proof has to follow it: so for each thing
that must be there at rest, `RestInv` says that it is there or which request or event,
still on its way, will bring it. `DevicePart` says it of the data-control device (an `ext`
device made while the `wlr` one is yet to be destroyed, and never the other way around),
`VirtualPart` of the virtual devices and of the keymap (the last one on its way is the one
loaded), `KeysPart` of the passive devices (of a seat that gained its capabilities only
with our virtual devices, news is on its way, and no old news is behind it), and
`FoundPart` of the seat (a real seat is yet to appear, announced on the wire, or pending its
name; a transient seat's global and `ready` come in either order, or it is refused and
neither does). Each operator on this side completes its own part and leaves the others,
which the queues only grow for (`Longer`); each event dropped is one its handler made good.

`CaptureProofs` proves `FramesAccounted` and `NothingUnreported`, for any outputs,
layouts, rows, clients, DAMAGE levels, changes and mishaps. `OutInv` is the invariant of
the outputs, in three parts:

- types, and `Shape`: both sides hold the same frame and the same session;
- `CopyQueue` and `SessionQueue`: what events may be on their way at each stage of a
  frame, and in what order. With screencopy it is what the stage has sent and nothing
  else. With image-copy the events of an earlier frame may be about when its session has
  stopped and another been made: they are ahead of the constraints that make the new one
  ready, and so gone before it has a frame (frame names are used again, so this is
  what keeps an old answer from being taken for a new one);
- `Drawn`: where the framebuffer is older than the compositor's picture, a live session
  has damage or a frame filled since is on its way, and what such a frame shows anew it
  has damage for; rows a relayout wiped are excepted.

`ClientInv` is `NothingUnreported` with what makes it inductive: an object has told of
what it has accumulated (`Owns`). It needs `OutInv` at one step, the blit: with
image-copy the report is the compositor's damage, and only `Drawn` says that it covers
what the blit changes; with screencopy it is the hull of what differs (`HullCovers`,
by well-foundedness). `add_damage` is one lemma over the four levels (`Reported`). It
rests on the screen having a row (`LayoutsAssumption`: `recompute_bounds` clamps the
height to 1 at least): on a screen of none, a NonEmpty object would say nothing.

`ScreenProofs` is about two components. Of the cursor it proves `CursorFramesAccounted`, for
any outputs, changes and mishaps. `CursorHeld` adds to it that a session let go of
holds no frame: a frame's event may come after its session is gone, and must find nothing
there. A frame's name may be any number, one more than what may be in use
(`CursorFrameFree`, by counting).

Of the screen it proves `FollowersAgree`, for any outputs, configurations, modes, bounds and
X threads. `Follows` is the core: while `behind` is false one thread pushes at most, its
copy, once made, is the screen as it is, and each of the followers that does not agree with
the screen has its push still to come in that thread's `todo`. It is inductive since an operation that
changes the size or the rectangles either has `Sync` begin all the pushes anew, or is
recorded in `behind`; that those which do neither (modes made, listed, delisted, destroyed)
leave both alone is `ModesShape`. It needs no more of a screen than the fields its records
have (`ScreenShape`), and nothing of how outputs are packed.

The other four properties of the run `layout` are proved from two more invariants, and for
any outputs, configurations, xdg-output, modes, places, bounds and X threads.

`LayoutInv` gives `NativeModesStand` and `AsTheCompositorHasIt`. Neither is inductive, since
what keeps a native mode's size right is who lists it, and that depends on what clients
are about to do. Its parts are:

- `Numbered`: ids are given out once, so a mode made now is on no list and asked for by
  no client;
- `OwnListed`, `Fits` and `NoneLeft`: a native mode is on the list of the one output it was
  made for, its size is that output's, and it is on that list as long as there is such a mode.
  That an output at a native mode also lists it is what makes `Updated` retire the
  right ones;
- `AtModes`: each output is at a mode of its size, but for the two excuses;
- `Laid`, unless `moved`: `Relayout` and `Bounded` would change nothing;
- `ClientsInv`: a request on its way asks for a mode there was, and a native one only for the
  CRTC that lists it; while the stand-in is there, no request waits for the compositor. Without
  the first, `Adopt` and `SetLocal` could put one output's native mode on another; without the
  second, `Restore` could leave the stand-in off its mode;
- `HeardInv`: what is on its way is about one output, and once nothing is about an output,
  `acc` has all that was said of it and the screen is as the compositor has it (`Drives`).

Each operation of `RandrScreen` has one lemma that says what it keeps of the modes and of the
outputs (`Fewer`: no output comes to list a native mode it did not), and each action of `Layout` one
that puts it together.

`EdgesMeet` is an instance of `PackAxisMeets`, which is about any number of outputs in any
order: those that begin together are placed together, the first at 0, and one that begins
where others end is placed at the farthest of their ends. `PackInv` says that of the
outputs that have had their turn, with the map of edges (an edge is where an output begins
or ends, and what it is bound to is its place, or the farthest of its ends). It
assumes of every output that its logical extent is not 0 (`Positive`): one of no extent has its
own end at its start, which moves an edge after outputs were placed by it. An output
gets one when it has fewer pixels than its scale.

`PointerMeetsPicture` is proved from `FollowersAgree`, `LayoutInv` and `GeometryInv`: positions and
sizes stay numbers of the right kind (`SitesIn`, `SizesIn`, which `pack_axis` keeps by
`PackAxisPlaces`), and an output on the screen has been heard of, with a transform and a buffer
(`HeardOf`, `AccsIn`). The rest is arithmetic: each of the eight transforms maps a buffer onto its
tile, one to one (`PointMoves`, `DrawnIsTile`), and a place in a tile scaled by
`k * log \div size` is in the logical rectangle, which is in the span `Confine` allows
(`Scaled`, `SpanIs`, `GoesIn`).

`LayoutAssumption` asks of the constants that sizes are pairs of natural numbers (the code's are
`u16`), places are pairs of integers (`i16`), and configurations have at least
one pixel and a scale of at least 1 (`scale.max(1)`).

All of the above hold for every value of the constants that satisfies the `ASSUME` of
the module, which TLC evaluates in the runs. Each invariant was checked by TLC on the
small instance before it was proved.

Only model-checked: all liveness, which is out of the prover's reach. Every safety property
of every run is proved. Recursive functions over data are proved about without the library's
induction theorems: a run of one exists (`GrowthExists`) and a least counterexample does not
(`LeastOf`, from the well-foundedness of `<`).

## Plan

1. `Transfers`: the sends to Wayland apps pumped by the loop, each ended by a deadline.
2. Two outputs in `capture`, where their placements overlap.
3. Buttons and relative motion in `Input`.

## Not modelled

- Parsing and building of X messages, atoms, windows and properties, start-up, flags
  and counters: sequential code, or I/O, with no state that two actors share.
- The `dynres/` hook, a library loaded into another program.
- The sends to Wayland apps (`PendingSend`), and MULTIPLE, TIMESTAMP and the latin-1
  conversion of a served value.
- The owner table of the selections that are not bridged, which only their clients use.
- In capture: pixel formats and their renegotiation (a session that offers none of ours
  is not asked again, `imagecopy/mod.rs:383`), buffers that cannot be allocated
  (`screencopy.rs:101` then waits for ever), the pacing of ticks, the cap on the number
  of damage rectangles, and columns.
- In seats: the removal of a real seat, which no handler looks at; the names of seats
  but for whether they are the one asked for.
- In input: buttons, the wheel, relative motion, keysyms; more than one modifier.
- In RandR: names, refresh rates, millimetres and the two timestamps.

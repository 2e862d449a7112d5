---------------------------- MODULE CursorCapture ----------------------------
(***************************************************************************)
(* One output's cursor capture (src/src/bridge/wayland/capture/imagecopy/  *)
(* cursor.rs), as operators on a record s of its state and the             *)
(* compositor's:                                                           *)
(*   source  the screen session's source exists                            *)
(*   cap     the CursorCap: NoCap, or the cursor session and its image     *)
(*           sub-session                                                   *)
(*   reopen  cursor_reopen_at: "none", "later" or "due"                    *)
(*   comp    the compositor: the session, the frame that is out, whether   *)
(*           the cursor changed since the session's last image             *)
(*   filled  the cursor in the buffer                                      *)
(*   q       the events on their way, in order                             *)
(* A cursor is a version number: its image, and its hotspot, each of which *)
(* reaches this side by an event of its own.                               *)
(***************************************************************************)
EXTENDS Integers, Sequences, SequencesExt, FiniteSets

NoCap == [open |-> FALSE, ready |-> FALSE, size |-> 0, fmt |-> FALSE, buf |-> 0,
          frame |-> 0, present |-> FALSE, hot |-> 0, retry |-> "none"]

NoCursor == [session |-> "none", frame |-> 0, stage |-> "none", with |-> 0, dirty |-> FALSE]

NewCursor == [source |-> FALSE, cap |-> NoCap, reopen |-> "none", comp |-> NoCursor,
              filled |-> 0, q |-> <<>>]

Event(kind, frame, value) == [kind |-> kind, frame |-> frame, value |-> value]

Emit(s, events) == [s EXCEPT !.q = @ \o events]

\* A frame object nothing refers to any more: names are reused once nothing holds
\* them, so there are never more than these in use.
FreshCursorFrame(s) ==
    CHOOSE f \in 1 .. Len(s.q) + 3 :
        f # s.comp.frame /\ f # s.cap.frame /\ \A e \in ToSet(s.q) : e.frame # f

\* What the compositor sends of an image session's constraints, and of a pointer
\* that is on the output.
CursorConstraints(size) ==
    <<Event("buffer_size", 0, size), Event("shm_format", 0, 0), Event("done", 0, 0)>>
Entered(cursor) ==
    <<Event("enter", 0, 0), Event("position", 0, 0), Event("hotspot", 0, cursor)>>

-----------------------------------------------------------------------------
(* Requests. *)

CancelCursorFrame(s) == [s EXCEPT !.comp.frame = 0, !.comp.stage = "none", !.comp.with = 0]

\* Mutant: the proxies are dropped, and their objects live on.
ForgetCap(s) == [s EXCEPT !.cap = NoCap]

\* CursorCap::drop: frame, image session and cursor session.
DropCap(s) == [s EXCEPT !.cap = NoCap, !.comp = NoCursor]

\* CursorCap::open: a cursor session and, once per cursor session, its image
\* session.
Open(s, on, cursor, size) ==
    Emit([s EXCEPT !.cap = [NoCap EXCEPT !.open = TRUE], !.reopen = "none",
                   !.comp = [NoCursor EXCEPT !.session = "live", !.dirty = TRUE]],
         CursorConstraints(size) \o IF on THEN Entered(cursor) ELSE <<>>)

\* start_cursor_cap_ext: while the pointer is here, the constraints are known and
\* no frame is out.  A second frame would be a duplicate_frame error.
StartCursor(s) ==
    LET f == FreshCursorFrame(s) IN
    IF \/ ~s.cap.open \/ s.cap.frame # 0 \/ ~s.cap.present \/ ~s.cap.ready
       \/ s.cap.size = 0 \/ ~s.cap.fmt
    THEN s
    ELSE [s EXCEPT !.cap.frame = f, !.cap.buf = s.cap.size, !.cap.retry = "none",
                   !.comp.frame = f, !.comp.stage = "copying", !.comp.with = s.cap.size]

\* tick_cursors, for one output, once the pointer is known: a stopped session is
\* reopened and a failed frame retried, each after its pause.
TickCursor(s, on, cursor, size) ==
    IF ~s.cap.open
    THEN IF s.reopen = "due" /\ s.source THEN Open(s, on, cursor, size) ELSE s
    ELSE IF s.cap.frame = 0 /\ s.cap.retry = "due" THEN StartCursor(s) ELSE s

-----------------------------------------------------------------------------
(* Events. *)

\* Mutant: a failed frame waits for the pointer to leave and come back.
CursorFrameFailedForGood(s, why) ==
    CancelCursorFrame([s EXCEPT !.cap.frame = 0,
                                !.cap.buf = IF why = "constraints" THEN 0 ELSE @])

\* cursor_frame_failed.
CursorFrameFailed(s, why) ==
    CancelCursorFrame([s EXCEPT !.cap.frame = 0, !.cap.retry = "later",
                                !.cap.buf = IF why = "constraints" THEN 0 ELSE @])

\* cursor_frame_ready, once the image is published: the next one is requested.
CursorFrameReady(s) == StartCursor(CancelCursorFrame([s EXCEPT !.cap.frame = 0]))

\* The `ready` that is published: the current frame's.
Publishes(s, e) == e.kind = "ready" /\ s.cap.open /\ s.cap.frame = e.frame

\* cursor_frame_event: a frame that is not current is only destroyed.
CursorFrameEvent(s, e) ==
    IF ~s.cap.open \/ s.cap.frame # e.frame
    THEN IF s.comp.frame = e.frame THEN CancelCursorFrame(s) ELSE s
    ELSE IF e.kind = "ready" THEN CursorFrameReady(s) ELSE CursorFrameFailed(s, e.value)

\* cursor_pointer_event and cursor_session_event, which act on the output's
\* cursor session, whichever session the event is of.
CursorEvent(s, e) ==
    IF ~s.cap.open
    THEN IF e.kind = "stopped" THEN [s EXCEPT !.reopen = "later"] ELSE s
    ELSE CASE e.kind = "enter" -> StartCursor([s EXCEPT !.cap.present = TRUE])
           [] e.kind = "leave" -> [s EXCEPT !.cap.present = FALSE]
           [] e.kind = "position" -> s
           [] e.kind = "hotspot" -> [s EXCEPT !.cap.hot = e.value]
           [] e.kind = "buffer_size" -> [s EXCEPT !.cap.size = e.value]
           [] e.kind = "shm_format" -> [s EXCEPT !.cap.fmt = TRUE]
           [] e.kind = "done" ->
                 IF s.cap.fmt THEN StartCursor([s EXCEPT !.cap.ready = TRUE]) ELSE s
           [] e.kind = "stopped" -> [DropCap(s) EXCEPT !.reopen = "later"]

\* The event at the head of the queue is dispatched by what it is an event of.
CursorDispatch(s) ==
    LET e == Head(s.q)
        t == [s EXCEPT !.q = Tail(@)]
    IN  IF e.kind \in {"ready", "failed"} THEN CursorFrameEvent(t, e) ELSE CursorEvent(t, e)

\* create_ext_session's part in this: the source is replaced, and with it the
\* cursor session, if the pointer is known and the cursor is not baked in.
ReplaceSource(s, opens, on, cursor, size) ==
    LET t == [DropCap(s) EXCEPT !.source = TRUE, !.reopen = "none"]
    IN  IF opens THEN Open(t, on, cursor, size) ELSE t

\* set_pointer, for one output.
PointerKnown(s, on, cursor, size) ==
    IF ~s.cap.open /\ s.source THEN Open(s, on, cursor, size) ELSE s

-----------------------------------------------------------------------------
(* The compositor. *)

\* An image is copied when the pointer is on the output and the cursor is new.
CursorCopies(s, size) ==
    s.comp.stage = "copying" /\ s.comp.session = "live" /\ s.comp.with = size /\ s.comp.dirty
CursorCopied(s, cursor) ==
    Emit([s EXCEPT !.comp.stage = "answered", !.comp.dirty = FALSE, !.filled = cursor],
         <<Event("ready", s.comp.frame, 0)>>)

CursorFails(s, why) ==
    Emit([s EXCEPT !.comp.stage = "answered"], <<Event("failed", s.comp.frame, why)>>)

CursorStops(s, first) ==
    LET stopped == <<Event("stopped", 0, 0)>>
        t == [s EXCEPT !.comp.session = "stopped"]
    IN  IF s.comp.stage # "copying" THEN Emit(t, stopped)
        ELSE IF first THEN CursorFails(Emit(t, stopped), "stopped")
        ELSE Emit(CursorFails(t, "stopped"), stopped)

\* The cursor changes: a session is told of a new size, and of the new hotspot
\* where the pointer is.
CursorChanges(s, on, cursor, size, resized) ==
    IF s.comp.session # "live" THEN s
    ELSE Emit([s EXCEPT !.comp.dirty = TRUE],
              (IF resized THEN CursorConstraints(size) ELSE <<>>)
              \o (IF on THEN <<Event("hotspot", 0, cursor)>> ELSE <<>>))

=============================================================================

------------------------------ MODULE ImageCopy ------------------------------
(***************************************************************************)
(* One output's capture through ext-image-copy-capture-v1                  *)
(* (src/src/bridge/wayland/capture/imagecopy/mod.rs), as operators on a    *)
(* record s of its context and of the compositor's side of it:             *)
(*   ctx     the context: NoCtx, or what the code keeps per output         *)
(*   comp    the compositor: the output's size, the session, the frame     *)
(*           that is out, the rows it has damaged since it last answered   *)
(*   q       the events on their way, in order                             *)
(*   news    rows whose picture in the buffer is not the framebuffer's     *)
(*   behind  rows the compositor changed since it filled the buffer        *)
(* Requests take effect at once: they reach the compositor in the order    *)
(* they are made, and events it sent before one are still in q.            *)
(***************************************************************************)
EXTENDS Integers, Sequences, SequencesExt, FiniteSets

Frames == 1 .. 3    \* names of frame objects, reused once nothing holds them

NoCtx == [frame |-> 0, buf |-> 0, due |-> FALSE, session |-> FALSE, ready |-> FALSE,
          size |-> 0, fmt |-> FALSE, damage |-> {}, pend |-> 0, made |-> FALSE]

\* A context as sync_outputs inserts it: due at once.
NewCtx == [NoCtx EXCEPT !.made = TRUE, !.due = TRUE]

\* The compositor's side of an output no one captures.
IdleComp(size) == [size |-> size, session |-> "none", frame |-> 0, stage |-> "none",
                   with |-> 0, damage |-> {}, dup |-> FALSE]

Send(s, events) == [s EXCEPT !.q = @ \o events]

\* A frame object nothing refers to any more: not the compositor, not an event.
FreshFrame(s) ==
    CHOOSE f \in Frames :
        /\ f # s.comp.frame /\ f # s.ctx.frame
        /\ \A e \in ToSet(s.q) : e.frame # f

\* The session's constraints, as sent when it is created or the output resizes.
Constraints(n) == <<[kind |-> "buffer_size", frame |-> 0, rows |-> n],
                    [kind |-> "shm_format", frame |-> 0, rows |-> 0],
                    [kind |-> "done", frame |-> 0, rows |-> 0]>>

FrameEvent(kind, f, rows) == [kind |-> kind, frame |-> f, rows |-> rows]

-----------------------------------------------------------------------------
(* Requests. *)

\* frame.destroy(), which cancels the capture if it is still out.
DestroyFrame(s) == [s EXCEPT !.comp.frame = 0, !.comp.stage = "none", !.comp.with = 0]

\* session.destroy() of a session the compositor stopped or still runs.
DestroySession(s) == [s EXCEPT !.comp.session = "none", !.comp.damage = {}]

\* Mutant: dropping the proxies, which destroys nothing.
ForgetCtx(s) == [s EXCEPT !.ctx = NoCtx]

\* Ctx::drop: the frame goes before its session.
DropCtx(s) == [DestroySession(DestroyFrame(s)) EXCEPT !.ctx = NoCtx]

\* create_ext_session: the compositor answers with the constraints, and damages
\* the whole output for the session's first frame.
CreateSession(s) ==
    Send([s EXCEPT !.ctx.session = TRUE, !.ctx.ready = FALSE, !.ctx.size = 0,
                   !.ctx.fmt = FALSE, !.ctx.due = FALSE,
                   !.comp.session = "live", !.comp.damage = 1 .. s.comp.size],
         Constraints(s.comp.size))

\* create_frame, attach_buffer, capture, with a buffer of the session's size:
\* a second frame on the session is a duplicate_frame error.
CreateFrame(s) ==
    LET f == FreshFrame(s) IN
    [s EXCEPT !.ctx.frame = f, !.ctx.buf = s.ctx.size, !.ctx.damage = {},
              !.comp.dup = @ \/ s.comp.frame # 0,
              !.comp.frame = f, !.comp.stage = "copying", !.comp.with = s.ctx.size]

\* start_capture_ext.
StartCapture(s) ==
    IF ~s.ctx.made \/ s.ctx.frame # 0 THEN s
    ELSE IF ~s.ctx.session THEN CreateSession(s)
    ELSE IF ~s.ctx.ready THEN [s EXCEPT !.ctx.due = FALSE]
    ELSE IF s.ctx.size = 0 \/ ~s.ctx.fmt THEN s
    ELSE CreateFrame(s)

-----------------------------------------------------------------------------
(* Events. *)

IsCurrent(s, e) == s.ctx.frame # 0 /\ s.ctx.frame = e.frame

\* Mutant: the session waits for constraints that may already have been sent.
FrameFailedUnready(s, why) ==
    DestroyFrame([s EXCEPT !.ctx.frame = 0, !.ctx.due = FALSE,
                           !.ctx.buf = IF why = "constraints" THEN 0 ELSE @,
                           !.ctx.ready = @ /\ why # "constraints"])

\* frame_failed: a paced retry, with a new buffer if this one did not fit.
FrameFailed(s, why) ==
    DestroyFrame([s EXCEPT !.ctx.frame = 0, !.ctx.due = FALSE,
                           !.ctx.buf = IF why = "constraints" THEN 0 ELSE @])

\* frame_ready once the blit is reported: the frame is done with, and the next
\* is requested at once if anybody watches, for the compositor to hold.
FrameDone(s, enabled) ==
    LET done == DestroyFrame([s EXCEPT !.ctx.frame = 0, !.ctx.damage = {}, !.ctx.due = TRUE])
    IN  IF enabled THEN StartCapture(done) ELSE done

\* The session stopped: it is dead, and so is any frame on it.
SessionStopped(s) ==
    LET t == DestroySession(IF s.ctx.frame = 0 THEN s ELSE DestroyFrame(s)) IN
    [t EXCEPT !.ctx.frame = 0, !.ctx.session = FALSE, !.ctx.ready = FALSE,
              !.ctx.size = 0, !.ctx.fmt = FALSE, !.ctx.due = FALSE]

\* screen_session_event, for an output that has a context.
SessionEvent(s, e) ==
    CASE e.kind = "buffer_size" -> [s EXCEPT !.ctx.size = e.rows]
      [] e.kind = "shm_format" -> [s EXCEPT !.ctx.fmt = TRUE]
      [] e.kind = "done" ->
            IF s.ctx.fmt THEN StartCapture([s EXCEPT !.ctx.ready = TRUE]) ELSE s
      [] e.kind = "stopped" -> SessionStopped(s)

\* The last event of a frame no context waits on destroys it, if it still exists.
StaleFrame(s, e) ==
    IF e.kind \in {"ready", "failed"} /\ s.comp.frame = e.frame THEN DestroyFrame(s) ELSE s

\* screen_frame_event, except `ready` of the frame this output waits on.
ScreenFrameEvent(s, e) ==
    IF ~IsCurrent(s, e) THEN StaleFrame(s, e)
    ELSE IF e.kind = "damage" THEN [s EXCEPT !.ctx.damage = @ \cup e.rows]
    ELSE FrameFailed(s, e.rows)

\* sync_outputs, for one output.
Sync(s) ==
    LET t == IF s.ctx.made THEN s ELSE [s EXCEPT !.ctx = NewCtx]
    IN  IF t.ctx.session THEN t ELSE CreateSession(t)

-----------------------------------------------------------------------------
(* The compositor. *)

\* A frame waits until something is damaged, then is filled and answered.
CanCopy(s) == s.comp.stage = "copying" /\ s.comp.session = "live"
    /\ s.comp.with = s.comp.size /\ s.comp.damage # {}
Copied(s, stale) ==
    Send([s EXCEPT !.comp.stage = "answered", !.comp.damage = {},
                   !.news = stale, !.behind = {}],
         <<FrameEvent("damage", s.comp.frame, s.comp.damage),
           FrameEvent("ready", s.comp.frame, {})>>)

Answer(s, event) == Send([s EXCEPT !.comp.stage = "answered"], <<event>>)

\* The buffer is not of the output's size any more.
Misfits(s) == s.comp.stage = "copying" /\ s.comp.with # s.comp.size
Failed(s, why) == Answer(s, FrameEvent("failed", s.comp.frame, why))

\* The compositor stops the session, before or after it fails the frame on it.
CanStop(s) == s.comp.session = "live"
Stopped(s, first) ==
    LET stopped == <<FrameEvent("stopped", 0, {})>>
        t == [s EXCEPT !.comp.session = "stopped"]
    IN  IF s.comp.stage # "copying" THEN Send(t, stopped)
        ELSE IF first THEN Failed(Send(t, stopped), "stopped")
        ELSE Send(Failed(t, "stopped"), stopped)

\* The output's mode changes: the session re-sends its constraints.
Resized(s, n) ==
    LET t == [s EXCEPT !.comp.size = n, !.behind = 1 .. n] IN
    IF s.comp.session = "live" THEN Send([t EXCEPT !.comp.damage = 1 .. n], Constraints(n)) ELSE t
=============================================================================

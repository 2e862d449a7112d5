----------------------------- MODULE Screencopy -----------------------------
(***************************************************************************)
(* One output's capture through zwlr-screencopy-v1                         *)
(* (src/src/bridge/wayland/capture/screencopy.rs), as operators on the     *)
(* record ImageCopy describes.  There is no session: every capture is a    *)
(* frame object that offers a buffer's parameters, is told to copy, and    *)
(* answers at once, whether anything changed or not.                       *)
(***************************************************************************)
EXTENDS ImageCopy

\* start_capture.
CaptureOutput(s) ==
    LET f == FreshFrame(s) IN
    [s EXCEPT !.ctx.frame = f, !.comp.frame = f, !.comp.stage = "asked"]

\* copy_frame: the buffer is replaced if it is not of the offered parameters.
CopyFrame(s) ==
    IF s.ctx.pend = 0 THEN s
    ELSE [s EXCEPT !.ctx.buf = s.ctx.pend, !.ctx.pend = 0,
                   !.comp.stage = "copying", !.comp.with = s.ctx.pend]

\* frame_failed: back off, then retry.
CopyFailed(s) == DestroyFrame([s EXCEPT !.ctx.frame = 0, !.ctx.due = FALSE])

\* Mutant: the frame that is done stays the one in flight.
CopyDoneKept(s) == DestroyFrame([s EXCEPT !.ctx.due = FALSE])

\* frame_ready, once the blit is reported: the next capture is paced.
CopyDone(s) == DestroyFrame([s EXCEPT !.ctx.frame = 0, !.ctx.due = FALSE])

\* frame_event, except `ready` of the frame this output waits on.
CopyEvent(s, e) ==
    IF ~IsCurrent(s, e) THEN StaleFrame(s, e)
    ELSE CASE e.kind = "buffer" -> [s EXCEPT !.ctx.pend = e.rows]
           [] e.kind = "buffer_done" -> CopyFrame(s)
           [] e.kind = "failed" -> CopyFailed(s)

\* sync_outputs, for one output.
SyncCopy(s) == IF s.ctx.made THEN s ELSE [s EXCEPT !.ctx = NewCtx]

\* The compositor offers the parameters of a buffer that fits the output...
CanOffer(s) == s.comp.stage = "asked"
Offer(s) ==
    Send([s EXCEPT !.comp.stage = "offered"],
         <<FrameEvent("buffer", s.comp.frame, s.comp.size),
           FrameEvent("buffer_done", s.comp.frame, 0)>>)

\* ...and fills the one it is given, if it still does.
CanFill(s) == s.comp.stage = "copying" /\ s.comp.with = s.comp.size
Filled(s, stale) ==
    Answer([s EXCEPT !.news = stale, !.behind = {}], FrameEvent("ready", s.comp.frame, {}))

=============================================================================

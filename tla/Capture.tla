------------------------------- MODULE Capture -------------------------------
(***************************************************************************)
(* Screen capture as a whole (src/src/bridge/wayland/capture/): the        *)
(* backend chosen out of the globals that arrive, the two backends, the    *)
(* compositor that answers them, and the framebuffer, DAMAGE objects and X *)
(* clients they feed.  One Wayland thread runs every handler; frame_ready  *)
(* is three steps of it, between which X threads run (see Framebuffer).    *)
(***************************************************************************)
EXTENDS Framebuffer, Screencopy

CONSTANTS
    MaxChanges,     \* bound: changes of a row's picture
    MaxMishaps      \* bound: relayouts, resizes, failures, stops and unplugs together

Globals == {"shm", "screencopy", "ext"}     \* "ext": its two managers

VARIABLES
    out,        \* per output: the record ImageCopy describes
    present,    \* the outputs whose proxy is bound
    globals,    \* the capture globals bound
    settled,    \* registry_settled
    backend,    \* "none", "screencopy" or "imagecopy"
    changes,    \* changes so far
    mishaps     \* mishaps so far

vars == <<fbVars, out, present, globals, settled, backend, changes, mishaps>>
ours == <<out, present, globals, settled, backend, changes, mishaps>>

NewOut(n) == [ctx |-> NoCtx, comp |-> IdleComp(n), q |-> <<>>, news |-> {}, behind |-> {}]

Init ==
    /\ FbInit
    /\ out = [o \in Outputs |-> NewOut(MaxRows)]
    /\ present = {} /\ globals = {} /\ settled = FALSE /\ backend = "none"
    /\ changes = 0 /\ mishaps = 0

Budget == mishaps < MaxMishaps /\ mishaps' = mishaps + 1

-----------------------------------------------------------------------------
(* Choosing the backend. *)

HasWlr(g) == {"shm", "screencopy"} \subseteq g
HasExt(g) == {"shm", "ext"} \subseteq g

\* The backend maybe_start_captures leaves in place.
Chosen(g) ==
    IF HasExt(g) THEN "imagecopy"
    ELSE IF HasWlr(g) /\ backend = "none" THEN "screencopy" ELSE backend

\* The contexts of a replaced backend are dropped with it.
DropAll(outs) == [o \in Outputs |-> DropCtx(outs[o])]

\* maybe_start_captures: nothing before the registry has settled or without a
\* usable backend; else the backend is chosen and every output gets a context.
MaybeStart(g, s) ==
    LET b == Chosen(g)
        base == IF backend = "screencopy" /\ b # backend THEN DropAll(out) ELSE out IN
    IF ~s \/ ~(HasWlr(g) \/ HasExt(g)) THEN UNCHANGED <<out, backend>>
    ELSE /\ backend' = b
         /\ out' = [o \in Outputs |->
               IF o \notin present THEN base[o]
               ELSE IF b = "imagecopy" THEN Sync(base[o]) ELSE SyncCopy(base[o])]

\* A global arrives, or the initial ones have all arrived, or an output's
\* description is complete (apply_output): the Wayland thread is not in a frame.
Arrive(g) ==
    /\ ready = NoFrame /\ g \notin globals /\ globals' = globals \cup {g}
    /\ MaybeStart(globals', settled)
    /\ UNCHANGED <<fbVars, present, settled, changes, mishaps>>

Settle ==
    /\ ready = NoFrame /\ ~settled /\ settled' = TRUE
    /\ MaybeStart(globals, TRUE)
    /\ UNCHANGED <<fbVars, present, globals, changes, mishaps>>

Apply(o) ==
    /\ ready = NoFrame /\ o \in present /\ ~out[o].ctx.made
    /\ MaybeStart(globals, settled)
    /\ UNCHANGED <<fbVars, present, globals, settled, changes, mishaps>>

\* An output is plugged in; a name is not used again while events of it are left.
Announce(o) ==
    /\ ready = NoFrame /\ o \notin present /\ out[o].q = <<>>
    /\ present' = present \cup {o}
    /\ stale' = [stale EXCEPT ![o] = Rows(out[o].comp.size)]
    /\ UNCHANGED <<layout, blank, objs, unread, told, toread, unseen, repainted, recent,
                   clock, ready, out, globals, settled, backend, changes, mishaps>>

\* remove_output: its context goes, with what it holds.
RemoveOutput(o) ==
    /\ ready = NoFrame /\ o \in present /\ Budget
    /\ present' = present \ {o}
    /\ out' = [out EXCEPT ![o] = DropCtx(@)]
    /\ stale' = [stale EXCEPT ![o] = {}] /\ blank' = [blank EXCEPT ![o] = {}]
    /\ UNCHANGED <<layout, objs, unread, told, toread, unseen, repainted, recent, clock,
                   ready, globals, settled, backend, changes>>

-----------------------------------------------------------------------------
(* The Wayland thread. *)

\* The outputs a tick starts a capture for.
Due == {o \in Outputs : out[o].ctx.made /\ out[o].ctx.due /\ out[o].ctx.frame = 0}

\* tick_captures: nothing is captured unless somebody watches.
Tick ==
    /\ ready = NoFrame /\ CaptureEnabled /\ Due # {}
    /\ out' = [o \in Outputs |->
          IF o \notin Due THEN out[o]
          ELSE IF backend = "imagecopy" THEN StartCapture(out[o]) ELSE CaptureOutput(out[o])]
    /\ UNCHANGED <<fbVars, present, globals, settled, backend, changes, mishaps>>

\* An output's pacing interval passes.
TimePasses(o) ==
    /\ out[o].ctx.made /\ ~out[o].ctx.due
    /\ out' = [out EXCEPT ![o].ctx.due = TRUE]
    /\ UNCHANGED <<fbVars, present, globals, settled, backend, changes, mishaps>>

SessionKinds == {"buffer_size", "shm_format", "done", "stopped"}
CopyKinds == {"buffer", "buffer_done"}

\* The oldest event of an output is dispatched, to the backend it belongs to.
\* (Both protocols have `ready` and `failed`; a frame of the one is never
\* current for the other.)
Dispatch(o) ==
    LET e == Head(out[o].q)
        s == [out[o] EXCEPT !.q = Tail(@)]
        t == IF e.kind \in SessionKinds THEN
                 (IF backend = "imagecopy" /\ s.ctx.made THEN SessionEvent(s, e) ELSE s)
             ELSE IF e.kind \in CopyKinds \/ backend = "screencopy" THEN
                 (IF backend = "screencopy" THEN CopyEvent(s, e) ELSE s)
             ELSE ScreenFrameEvent(s, e) IN
    /\ ready = NoFrame /\ out[o].q # <<>>
    /\ ~(e.kind = "ready" /\ IsCurrent(s, e))
    /\ out' = [out EXCEPT ![o] = t]
    /\ UNCHANGED <<fbVars, present, globals, settled, backend, changes, mishaps>>

\* `ready` of the frame the output waits on begins frame_ready...
FrameReady(o) ==
    LET e == Head(out[o].q) IN
    /\ out[o].q # <<>> /\ e.kind = "ready" /\ IsCurrent(out[o], e)
    /\ Begin(o, Rows(out[o].ctx.buf), out[o].news, out[o].behind,
             backend = "screencopy", out[o].ctx.damage)
    /\ out' = [out EXCEPT ![o].q = Tail(@)]
    /\ UNCHANGED <<layout, stale, blank, objs, unread, told, toread, unseen, repainted,
                   recent, clock, present, globals, settled, backend, changes, mishaps>>

BlitFrame == Blit /\ UNCHANGED ours

\* ...which ends once what changed is reported.
EndFrame ==
    /\ AddDamage
    /\ out' = [out EXCEPT ![ready.out] =
          IF backend = "imagecopy" THEN FrameDone(@, CaptureEnabled) ELSE CopyDone(@)]
    /\ UNCHANGED <<present, globals, settled, backend, changes, mishaps>>

-----------------------------------------------------------------------------
(* X threads. *)

ClientStep ==
    /\ \/ \E w \in Watchers : \/ \E level \in MayUse : Create(w, level)
                              \/ Destroy(w) \/ Subtract(w) \/ Read(w)
       \/ Poll \/ GateCloses
    /\ UNCHANGED ours

\* The layout changes, by the compositor's outputs (on the Wayland thread) or by
\* an X client's RandR request (at any time).
Relaid ==
    /\ Budget /\ \E l \in Layouts : Relayout(l)
    /\ UNCHANGED <<out, present, globals, settled, backend, changes>>

-----------------------------------------------------------------------------
(* The compositor. *)

\* A row of an output gets a new picture.
Change(o, r) ==
    /\ o \in present /\ changes < MaxChanges /\ changes' = changes + 1
    /\ r <= out[o].comp.size
    /\ stale' = [stale EXCEPT ![o] = @ \cup {r}]
    /\ out' = [out EXCEPT ![o].behind = @ \cup {r},
                          ![o].comp.damage = IF out[o].comp.session = "live"
                                             THEN @ \cup {r} ELSE @]
    /\ ready' = IF ready.step = "blit" /\ ready.out = o
                THEN [ready EXCEPT !.behind = @ \cup {r}] ELSE ready
    /\ UNCHANGED <<layout, blank, objs, unread, told, toread, unseen, repainted, recent,
                   clock, present, globals, settled, backend, mishaps>>

\* What the compositor does about a frame that is out, when it does what it should.
Answers(o) ==
    LET s == out[o] IN
    /\ \/ CanCopy(s) /\ out' = [out EXCEPT ![o] = Copied(s, stale[o])]
       \/ s.comp.session # "none" /\ Misfits(s)
          /\ out' = [out EXCEPT ![o] = Failed(s, "constraints")]
       \/ s.comp.session = "stopped" /\ s.comp.stage = "copying"
          /\ out' = [out EXCEPT ![o] = Failed(s, "stopped")]
       \/ CanOffer(s) /\ out' = [out EXCEPT ![o] = Offer(s)]
       \/ s.comp.session = "none" /\ CanFill(s)
          /\ out' = [out EXCEPT ![o] = Filled(s, stale[o])]
       \/ s.comp.session = "none" /\ Misfits(s)
          /\ out' = [out EXCEPT ![o] = Failed(s, "unknown")]
    /\ UNCHANGED <<fbVars, present, globals, settled, backend, changes, mishaps>>

\* It fails a frame for reasons of its own (the output is off, say)...
Fails(o) ==
    /\ out[o].comp.stage \in {"asked", "copying"} /\ Budget
    /\ out' = [out EXCEPT ![o] = Failed(@, "unknown")]
    /\ UNCHANGED <<fbVars, present, globals, settled, backend, changes>>

\* ...or stops a session...
Stops(o) ==
    /\ CanStop(out[o]) /\ Budget
    /\ \E first \in BOOLEAN : out' = [out EXCEPT ![o] = Stopped(@, first)]
    /\ UNCHANGED <<fbVars, present, globals, settled, backend, changes>>

\* ...or changes an output's mode.
Resizes(o) ==
    /\ o \in present /\ Budget
    /\ \E n \in Rows(MaxRows) \ {out[o].comp.size} :
          /\ out' = [out EXCEPT ![o] = Resized(@, n)]
          /\ stale' = [stale EXCEPT ![o] = Rows(n)]
          /\ ready' = IF ready.step = "blit" /\ ready.out = o
                      THEN [ready EXCEPT !.behind = Rows(n)] ELSE ready
    /\ UNCHANGED <<layout, blank, objs, unread, told, toread, unseen, repainted, recent,
                   clock, present, globals, settled, backend, changes>>

-----------------------------------------------------------------------------
WaylandThread ==
    \/ \E g \in Globals : Arrive(g)
    \/ Settle
    \/ \E o \in Outputs : Apply(o) \/ Announce(o) \/ RemoveOutput(o)
    \/ \E o \in Outputs : Dispatch(o) \/ FrameReady(o)
    \/ Tick \/ BlitFrame \/ EndFrame

Compositor == \E o \in Outputs :
    (\E r \in Rows(MaxRows) : Change(o, r)) \/ Answers(o) \/ Fails(o) \/ Stops(o) \/ Resizes(o)

Next == WaylandThread \/ Compositor \/ ClientStep \/ Relaid
    \/ \E o \in Outputs : TimePasses(o)

Spec == Init /\ [][Next]_vars

\* The Wayland thread runs, time passes and the compositor answers.
FairSpec ==
    /\ Spec
    /\ WF_vars(Tick) /\ WF_vars(BlitFrame) /\ WF_vars(EndFrame)
    /\ \A o \in Outputs : /\ WF_vars(Dispatch(o)) /\ WF_vars(FrameReady(o))
                          /\ WF_vars(Apply(o)) /\ WF_vars(TimePasses(o))
                          /\ WF_vars(Answers(o))

-----------------------------------------------------------------------------
(* Properties. *)

\* The rows a frame_ready is about to report.
Reporting == IF ready.step = "report" THEN ready.rows ELSE {}

\* What client w will learn of without anything further happening: what it has
\* decided to read, and what it was notified of and will find when it subtracts.
\* (A NonEmpty report has no area of its own: it says there is a region to fetch.)
WillLearn(w) ==
    toread[w] \cup CASE objs[w].level = RAW -> told[w]
                     [] objs[w].level = NON_EMPTY /\ told[w] # {} -> objs[w].region
                     [] OTHER -> told[w] \cap objs[w].region

\* A client that reads what DAMAGE tells it to never keeps an old picture: every
\* row of the screen that changed since it last read it is one it will read, one
\* about to be reported to it, or one of the two kinds of change the code cannot
\* report (a frame begun when nobody watched; a wiped output repainted).
NothingUnreported == \A w \in Watchers :
    unread[w] \subseteq WillLearn(w) \cup Reporting \cup unseen[w] \cup repainted[w]

\* No frame is lost sight of, on either side: the compositor holds the frame the
\* context waits on and no other, there is never a second one on a session, the
\* buffer it is copied into is kept, and a context that waits will be answered.
FramesAccounted == \A o \in Outputs :
    LET s == out[o] IN
    /\ s.comp.frame = s.ctx.frame
    /\ ~s.comp.dup
    /\ s.comp.stage = "copying" => s.comp.with = s.ctx.buf
    /\ s.comp.stage = "answered" =>
          \/ ready # NoFrame /\ ready.out = o
          \/ \E e \in ToSet(s.q) : e.frame = s.ctx.frame /\ e.kind \in {"ready", "failed"}
    /\ s.comp.session # "none" => s.ctx.session

Watched == <>[](CaptureEnabled /\ backend # "none")

\* Whatever fails, stops or is resized, the screen a client keeps watching comes
\* to show what the compositor does, except where a relayout wiped it.
EverythingShown ==
    Watched => <>[](\A o \in present : stale[o] \subseteq blank[o])

\* With screencopy, which compares the pictures, also what a relayout wiped.
ScreencopyRepaints ==
    Watched /\ <>[](backend = "screencopy") =>
        <>[](\A o \in present : blank[o] \cap Rows(out[o].comp.size) = {})
=============================================================================

------------------------------ MODULE Watching ------------------------------
(***************************************************************************)
(* What follows from a client watching the screen, besides the captures    *)
(* themselves: tick_captures (src/src/bridge/wayland/capture/mod.rs) wakes *)
(* the outputs when watching starts and drives the cursor sessions while   *)
(* it lasts.  This composes OutputPower and CursorCapture per output with  *)
(* the Wayland thread that runs both, the compositor and its pointer.      *)
(***************************************************************************)
EXTENDS CursorCapture, OutputPower

CONSTANTS
    Outputs,        \* the compositor's outputs
    Baked,          \* -cursor none: no cursor sessions
    MaxCursorChanges,   \* bound: changes of the cursor
    MaxMishaps      \* bound: stops, failures, restarts, refusals and sleeps together

ASSUME BakedAssumption == Baked \in BOOLEAN

VARIABLES
    cur,        \* per output: the record CursorCapture describes
    order,      \* the outputs whose cursor events are on their way, oldest first
    pow,        \* per output: the record OutputPower describes
    mgr,        \* the power manager is bound
    present,    \* the outputs that are plugged in
    pointer,    \* the seat's pointer is known
    watched,    \* capture_enabled: a client watches the screen
    active,     \* capture_active, as of the last tick
    on,         \* the output the pointer is on
    cursor,     \* the version of the compositor's cursor
    size,       \* its size
    shown,      \* the cursor X clients are given: [image, hot]
    shownOn,    \* the output its position is on, or "none"
    mishaps     \* mishaps so far

caps == <<cur, order>>
watchVars == <<caps, pow, mgr, present, pointer, watched, active, on, cursor, size, shown,
          shownOn, mishaps>>

Nowhere == "none"

WatchInit ==
    /\ cur = [o \in Outputs |-> NewCursor] /\ order = <<>>
    /\ pow = [o \in Outputs |-> NewPower]
    /\ mgr = FALSE /\ present = {} /\ pointer = FALSE
    /\ watched = FALSE /\ active = FALSE
    /\ on \in Outputs
    /\ cursor = 1 /\ size = 1
    /\ shown = [image |-> 0, hot |-> 0] /\ shownOn = Nowhere
    /\ mishaps = 0

\* The captures become what new says.  Their events share one connection, which
\* delivers them in the order they were sent; of the two outputs a pointer moves
\* between, the one it leaves hears of it first.
Become(new) ==
    LET sent(o) == [i \in 1 .. Len(new[o].q) - Len(cur[o].q) |-> o]
        others == SetToSeq(Outputs \ {on})
    IN  /\ cur' = new
        /\ order' = order \o sent(on) \o FlattenSeq([i \in DOMAIN others |-> sent(others[i])])

Mishap == mishaps < MaxMishaps /\ mishaps' = mishaps + 1

-----------------------------------------------------------------------------
(* The Wayland thread. *)

\* An output's global arrives...
AddOutput(o) ==
    /\ o \notin present /\ pow[o].q = <<>> /\ cur[o].q = <<>>
    /\ present' = present \cup {o}
    /\ pow' = [pow EXCEPT ![o] = EnsurePower(@, TRUE, mgr)]
    /\ UNCHANGED <<caps, mgr, pointer, watched, active, on, cursor, size, shown, shownOn, mishaps>>

\* ...and the power manager's, in either order.
AddManager ==
    /\ ~mgr /\ mgr' = TRUE
    /\ pow' = [o \in Outputs |-> EnsurePower(pow[o], o \in present, TRUE)]
    /\ UNCHANGED <<caps, present, pointer, watched, active, on, cursor, size, shown, shownOn, mishaps>>

\* remove_output: the control and both sessions go.
RemoveOutput(o) ==
    /\ o \in present /\ on # o /\ Mishap
    /\ present' = present \ {o}
    /\ pow' = [pow EXCEPT ![o] = DropPower(@)]
    /\ Become([cur EXCEPT ![o] = [DropCap(@) EXCEPT !.source = FALSE, !.reopen = "none"]])
    /\ UNCHANGED <<mgr, pointer, watched, active, on, cursor, size, shown, shownOn>>

\* create_ext_session: the output's first screen session...
OpenSource(o) ==
    /\ o \in present /\ ~cur[o].source
    /\ Become([cur EXCEPT ![o] = ReplaceSource(@, pointer /\ ~Baked, on = o, cursor, size)])
    /\ UNCHANGED <<pow, mgr, present, pointer, watched, active, on, cursor, size, shown, shownOn, mishaps>>

\* ...or one after the compositor stopped the last.
RestartSource(o) ==
    /\ cur[o].source /\ Mishap
    /\ Become([cur EXCEPT ![o] = ReplaceSource(@, pointer /\ ~Baked, on = o, cursor, size)])
    /\ UNCHANGED <<pow, mgr, present, pointer, watched, active, on, cursor, size, shown, shownOn>>

\* set_pointer: the sessions that exist already get theirs.
SetPointer ==
    /\ ~pointer /\ pointer' = TRUE
    /\ Become([o \in Outputs |->
           IF Baked THEN cur[o] ELSE PointerKnown(cur[o], on = o, cursor, size)])
    /\ UNCHANGED <<pow, mgr, present, watched, active, on, cursor, size, shown, shownOn, mishaps>>

\* A cursor event is dispatched.  A frame that is ready is published with the
\* hotspot last heard of; a position is shown at once.
DispatchCursor(o) ==
    LET s == cur[o]
        e == Head(s.q) IN
    /\ s.q # <<>>
    /\ order # <<>> /\ o = Head(order) /\ order' = Tail(order)
    /\ cur' = [cur EXCEPT ![o] = CursorDispatch(@)]
    /\ shown' = IF Publishes(s, e) THEN [image |-> s.filled, hot |-> s.cap.hot] ELSE shown
    /\ shownOn' = IF e.kind = "position" THEN o ELSE shownOn
    /\ UNCHANGED <<pow, mgr, present, pointer, watched, active, on, cursor, size, mishaps>>

\* A power event is dispatched; whether the compositor grants what it asks for is
\* the compositor's affair.
DispatchPower(o) ==
    /\ pow[o].q # <<>>
    /\ \/ pow' = [pow EXCEPT ![o] = PowerEvent(@, active, FALSE)] /\ UNCHANGED mishaps
       \/ Mishap /\ pow' = [pow EXCEPT ![o] = PowerEvent(@, active, TRUE)]
    /\ UNCHANGED <<caps, mgr, present, pointer, watched, active, on, cursor, size, shown, shownOn>>

\* wake_outputs: every output known to be off is turned on.
WakeOutputs(refuses) ==
    [o \in Outputs |-> IF o \in present THEN WakeOutput(pow[o], refuses) ELSE pow[o]]

\* tick_captures: the edge is noted, and wakes the outputs; while somebody
\* watches, the cursors are ticked.
Tick ==
    /\ active' = watched
    /\ \/ pow' = (IF watched /\ ~active THEN WakeOutputs(FALSE) ELSE pow) /\ UNCHANGED mishaps
       \/ watched /\ ~active /\ pow' = WakeOutputs(TRUE) /\ pow' # pow /\ Mishap
    /\ Become([o \in Outputs |->
           IF watched /\ pointer /\ ~Baked THEN TickCursor(cur[o], on = o, cursor, size)
           ELSE cur[o]])
    /\ UNCHANGED <<mgr, present, pointer, watched, on, cursor, size, shown, shownOn>>

\* A pause passes.
Later(t) == IF t = "later" THEN "due" ELSE t
TimePasses(o) ==
    /\ cur[o].reopen = "later" \/ cur[o].cap.retry = "later"
    /\ Become([cur EXCEPT ![o].reopen = Later(@), ![o].cap.retry = Later(@)])
    /\ UNCHANGED <<pow, mgr, present, pointer, watched, active, on, cursor, size, shown, shownOn, mishaps>>

-----------------------------------------------------------------------------
(* X clients and the compositor. *)

\* A client starts or stops watching.
Watch == watched' = ~watched
    /\ UNCHANGED <<caps, pow, mgr, present, pointer, active, on, cursor, size, shown, shownOn, mishaps>>

\* The compositor answers the frame that is out.
CursorAnswers(o) ==
    LET s == cur[o] IN
    /\ \/ on = o /\ CursorCopies(s, size) /\ Become([cur EXCEPT ![o] = CursorCopied(@, cursor)])
       \/ /\ s.comp.stage = "copying" /\ s.comp.session = "live" /\ s.comp.with # size
          /\ Become([cur EXCEPT ![o] = CursorFails(@, "constraints")])
       \/ /\ s.comp.stage = "copying" /\ s.comp.session = "stopped"
          /\ Become([cur EXCEPT ![o] = CursorFails(@, "stopped")])
    /\ UNCHANGED <<pow, mgr, present, pointer, watched, active, on, cursor, size, shown, shownOn, mishaps>>

\* It fails it, or stops the session, for reasons of its own.
CursorTrouble(o) ==
    /\ Mishap
    /\ \/ cur[o].comp.stage = "copying" /\ Become([cur EXCEPT ![o] = CursorFails(@, "unknown")])
       \/ /\ cur[o].comp.session = "live"
          /\ \E first \in BOOLEAN : Become([cur EXCEPT ![o] = CursorStops(@, first)])
    /\ UNCHANGED <<pow, mgr, present, pointer, watched, active, on, cursor, size, shown, shownOn>>

\* The cursor changes, with or without its size.
CursorChange(resized) ==
    /\ cursor <= MaxCursorChanges /\ cursor' = cursor + 1
    /\ size' = IF resized THEN 3 - size ELSE size
    /\ Become([o \in Outputs |-> CursorChanges(cur[o], on = o, cursor', size', resized)])
    /\ UNCHANGED <<pow, mgr, present, pointer, watched, active, on, shown, shownOn, mishaps>>

\* The pointer moves to another output.
PointerMoves(o) ==
    /\ o \in present \ {on} /\ on' = o /\ Mishap
    /\ Become([p \in Outputs |->
          IF cur[p].comp.session # "live" THEN cur[p]
          ELSE IF p = o THEN Emit(cur[p], Entered(cursor))
          ELSE IF p = on THEN Emit(cur[p], <<Event("leave", 0, 0)>>) ELSE cur[p]])
    /\ UNCHANGED <<pow, mgr, present, pointer, watched, active, cursor, size, shown, shownOn>>

\* An output is put to sleep by an idle daemon, or woken by a local user, or its
\* mode is repeated, or its control is taken away.
PowerTrouble(o) ==
    /\ o \in present /\ Mishap
    /\ \/ pow[o].lit /\ pow' = [pow EXCEPT ![o] = Turns(@, FALSE)]
       \/ ~pow[o].lit /\ pow' = [pow EXCEPT ![o] = Turns(@, TRUE)]
       \/ pow[o].heard /\ pow' = [pow EXCEPT ![o] = Announced(@)]
       \/ pow[o].heard /\ pow' = [pow EXCEPT ![o] = GivesUp(@)]
    /\ UNCHANGED <<caps, mgr, present, pointer, watched, active, on, cursor, size, shown, shownOn>>

-----------------------------------------------------------------------------
WaylandThread ==
    \/ \E o \in Outputs : \/ AddOutput(o) \/ RemoveOutput(o) \/ OpenSource(o)
                          \/ RestartSource(o) \/ DispatchCursor(o) \/ DispatchPower(o)
    \/ AddManager \/ SetPointer \/ Tick

Compositor ==
    \/ \E o \in Outputs : \/ CursorAnswers(o) \/ CursorTrouble(o) \/ PowerTrouble(o)
                          \/ PointerMoves(o)
    \/ \E resized \in BOOLEAN : CursorChange(resized)

WatchNext == WaylandThread \/ Compositor \/ Watch \/ \E o \in Outputs : TimePasses(o)

WatchSpec == WatchInit /\ [][WatchNext]_watchVars

\* The Wayland thread runs, every output gets a screen session, the pointer
\* arrives, pauses end and the compositor answers.
FairSpec ==
    /\ WatchSpec
    /\ WF_watchVars(Tick) /\ WF_watchVars(SetPointer)
    /\ \A o \in Outputs : /\ WF_watchVars(OpenSource(o))
                          /\ WF_watchVars(DispatchCursor(o)) /\ WF_watchVars(DispatchPower(o))
                          /\ WF_watchVars(TimePasses(o)) /\ WF_watchVars(CursorAnswers(o))

-----------------------------------------------------------------------------
(* Properties. *)

\* The compositor holds the cursor frame this side waits on and no other, and
\* no session this side has let go of.
CursorFramesAccounted == \A o \in Outputs :
    LET s == cur[o] IN
    /\ s.comp.frame = s.cap.frame
    /\ s.comp.session # "none" => s.cap.open
    /\ s.comp.stage = "answered" =>
          \E e \in ToSet(s.q) : e.frame = s.cap.frame /\ e.kind \in {"ready", "failed"}

\* While somebody watches, X clients come to be shown the cursor the compositor
\* shows, with its hotspot, on the output the pointer is on: however the seat's
\* pointer and the sessions arrive, whatever fails, stops or is replaced.
CursorShown ==
    <>[](watched /\ on \in present /\ ~Baked) =>
        <>[](shown = [image |-> cursor, hot |-> cursor] /\ shownOn = on)

\* While somebody watches, no output stays asleep, unless the compositor will not
\* turn it on or has taken the control away.
SleepersWake ==
    <>[]watched => <>[](\A o \in present : pow[o].lit \/ ~pow[o].heard \/ pow[o].refused)

=============================================================================

----------------------------- MODULE OutputConfig -----------------------------
(***************************************************************************)
(* How the Wayland thread carries out a resolution change                  *)
(* (bridge/wayland/output_config.rs): it takes the parked request, tries   *)
(* one way of setting the mode after another, and completes the request    *)
(* when the output shows the size, or when nothing is left to try.  The    *)
(* X side and its slots are DynRes's.                                      *)
(*                                                                         *)
(* One output is modelled, with its head; the manager's serial, the head,  *)
(* the output and the compositor's answers come and go as they please.  A  *)
(* deadline may pass at any moment.  A client may also ask for a size that *)
(* needs no compositor: then its thread writes the screen model itself.    *)
(***************************************************************************)
EXTENDS DynRes, Sequences

CONSTANTS
  Sizes,         \* the sizes an output can have
  MaxCancelled,  \* MAX_CANCELLED
  MaxSerial      \* bound: the manager's done events

ASSUME OutputConfigAssumption ==
  /\ MaxCancelled \in Nat
  /\ MaxSerial \in Nat

VARIABLES
  want,       \* the size each X thread last asked for
  plan,       \* and how it is about to get it: set_crtc_config's Plan, or "none"
  bound,      \* State::output_config is there
  serial,     \* OutputConfig::serial, 0 for None
  head,       \* the output's head is among OutputConfig::heads
  output,     \* the output is among State::outputs
  shown,      \* the output's size in the screen model
  zeroFirst,  \* OutputConfig::zero_refresh_first
  taken,      \* the request taken and not yet started on
  active,     \* OutputConfig::active
  lost        \* the Wayland thread has lost the compositor

slotVars == <<slots, pc, mine, late, reply, verdict>>
xVars == <<slotVars, available>>
wantVars == <<want, plan>>
worldVars == <<bound, serial, head, output, shown, lost>>
configVars == <<xVars, wantVars, worldVars, zeroFirst, taken, active>>

NoRequest == [id |-> None]

NoActive == [id |-> None, phase |-> "none"]

IsActive == active # NoActive

ConfigInit ==
  /\ Init
  /\ want \in [XThreads -> Sizes]
  /\ bound = available
  /\ serial = 0
  /\ head \in BOOLEAN
  /\ output = TRUE
  /\ shown \in Sizes
  /\ plan = [t \in XThreads |-> "none"]
  /\ zeroFirst = TRUE
  /\ taken = NoRequest
  /\ active = NoActive
  /\ lost = FALSE

-----------------------------------------------------------------------------
(* What the handlers are made of.                                          *)

\* Active::plan: the mode advertised for the size, if any, then both ways of
\* asking for a custom one, that which worked last first.
Plan(advertised) ==
  (IF advertised THEN <<"advertised">> ELSE <<>>)
    \o (IF zeroFirst THEN <<"zero", "own">> ELSE <<"own", "zero">>)

Shows(a) == shown = a.size

Unfinished == UNCHANGED <<slotVars, zeroFirst>>

\* Mutant: the request stays active, to fail again.
FailAgain(a) == Complete(a.id, "err") /\ active' = a /\ UNCHANGED zeroFirst

\* dynres_fail
Fail(a) == Complete(a.id, "err") /\ active' = NoActive /\ UNCHANGED zeroFirst

\* dynres_succeed
Succeed(a) ==
  /\ Complete(a.id, "ok")
  /\ active' = NoActive
  /\ zeroFirst' = IF a.current = "advertised" THEN zeroFirst ELSE a.current = "zero"

\* Mutant: with nothing left to try, the request stays where it is.
ApplyWhileLeft(a, s) ==
  /\ active' = IF a.attempts = <<>> THEN a
               ELSE [a EXCEPT !.attempts = Tail(@), !.current = Head(a.attempts),
                              !.phase = "Applying", !.serialUsed = s]
  /\ Unfinished

\* dynres_apply_next, against serial s.
ApplyNext(a, s) ==
  IF a.attempts = <<>> THEN Fail(a)
  ELSE /\ active' = [a EXCEPT !.attempts = Tail(@), !.current = Head(a.attempts),
                              !.phase = "Applying", !.serialUsed = s]
       /\ Unfinished

\* A configuration can be made, or made again, against serial s.
Ready(a, s) ==
  \/ a.phase = "NeedSerial" /\ s # 0
  \/ a.phase = "Cancelled" /\ s # a.serialUsed

\* dynres_advance, with nothing to wait for.
Moves(a, s) ==
  IF a.phase = "Settling" THEN Shows(a) /\ Succeed(a) ELSE Ready(a, s) /\ ApplyNext(a, s)

\* dynres_advance, past the deadline.
GivesUp(a, s) ==
  IF a.phase = "Settling" THEN ~Shows(a) /\ ApplyNext(a, s) ELSE ~Ready(a, s) /\ Fail(a)

\* dynres_advance, before it.
Waits(a, s) ==
  /\ IF a.phase = "Settling" THEN ~Shows(a) ELSE ~Ready(a, s)
  /\ active' = a
  /\ Unfinished

\* Its object, or its thread, is going away, and the request with it.
FailActive == IF IsActive THEN Fail(active) ELSE UNCHANGED active /\ Unfinished

Idle == taken = NoRequest /\ ~lost

-----------------------------------------------------------------------------
(* tick_dynres, on every pass of the loop.                                 *)

TakeRequest ==
  /\ Idle
  /\ ~IsActive
  /\ Take
  /\ \E t \in XThreads :
       mine[t] = queued /\ taken' = [id |-> queued, size |-> want[t]]
  /\ UNCHANGED <<wantVars, worldVars, zeroFirst, active>>

\* dynres_start
Start ==
  /\ taken # NoRequest
  /\ taken' = NoRequest
  /\ IF bound /\ output /\ head
     THEN /\ \E advertised \in BOOLEAN :
               active' = [id |-> taken.id, size |-> taken.size, phase |-> "NeedSerial",
                          attempts |-> Plan(advertised), current |-> "none",
                          serialUsed |-> 0, cancelled |-> 0]
          /\ UNCHANGED slotVars
     ELSE Complete(taken.id, "err") /\ UNCHANGED active
  /\ UNCHANGED <<available, wantVars, worldVars, zeroFirst>>

Advance ==
  /\ Idle
  /\ IsActive
  /\ Moves(active, serial)
  /\ UNCHANGED <<available, wantVars, worldVars, taken>>

Expire ==
  /\ Idle
  /\ IsActive
  /\ GivesUp(active, serial)
  /\ UNCHANGED <<available, wantVars, worldVars, taken>>

-----------------------------------------------------------------------------
(* The compositor's events.                                                *)

\* Mutant: succeeded is believed.
BelieveSucceeded ==
  /\ Idle
  /\ IsActive
  /\ active.phase = "Applying"
  /\ Succeed(active)
  /\ UNCHANGED <<available, wantVars, worldVars, taken>>

ConfigSucceeded ==
  /\ Idle
  /\ IsActive
  /\ active.phase = "Applying"
  /\ IF Shows(active) THEN Succeed(active)
     ELSE active' = [active EXCEPT !.phase = "Settling"] /\ Unfinished
  /\ UNCHANGED <<available, wantVars, worldVars, taken>>

ConfigFailed ==
  /\ Idle
  /\ IsActive
  /\ active.phase = "Applying"
  /\ ApplyNext(active, serial)
  /\ UNCHANGED <<available, wantVars, worldVars, taken>>

KeepsCancelling(n) == n > MaxCancelled

\* The same attempt again, on a newer serial, unless it keeps happening.
ConfigCancelled ==
  /\ Idle
  /\ IsActive
  /\ active.phase = "Applying"
  /\ LET again == [active EXCEPT !.attempts = <<active.current>> \o @, !.current = "none",
                                 !.phase = "Cancelled", !.cancelled = @ + 1]
     IN IF KeepsCancelling(again.cancelled) THEN Fail(active)
        ELSE Moves(again, serial) \/ Waits(again, serial)
  /\ UNCHANGED <<available, wantVars, worldVars, taken>>

ManagerDone ==
  /\ Idle
  /\ bound
  /\ serial < MaxSerial
  /\ serial' = serial + 1
  /\ IF IsActive
     THEN \/ Moves(active, serial')
          \/ GivesUp(active, serial')
          \/ Waits(active, serial')
     ELSE UNCHANGED active /\ Unfinished
  /\ UNCHANGED <<available, wantVars, bound, head, output, shown, lost, taken>>

ManagerFinished ==
  /\ Idle
  /\ bound
  /\ bound' = FALSE
  /\ FailActive
  /\ SetAvailable(FALSE)
  /\ UNCHANGED <<wantVars, serial, head, output, shown, lost, taken>>

\* The registry announces a manager, at startup or again later.
ManagerBound ==
  /\ Idle
  /\ ~bound
  /\ bound' = TRUE
  /\ serial' = 0
  /\ head' = FALSE
  /\ zeroFirst' = TRUE
  /\ SetAvailable(TRUE)
  /\ UNCHANGED <<slotVars, wantVars, output, shown, lost, taken, active>>

HeadComes ==
  /\ Idle
  /\ bound /\ ~head
  /\ head' = TRUE
  /\ UNCHANGED <<xVars, wantVars, bound, serial, output, shown, lost, zeroFirst, taken, active>>

HeadFinished ==
  /\ Idle
  /\ bound /\ head
  /\ head' = FALSE
  /\ FailActive
  /\ UNCHANGED <<available, wantVars, bound, serial, output, shown, lost, taken>>

\* apply_output, and dynres_output_changed at its end.
OutputChanges(size) ==
  /\ Idle
  /\ output
  /\ shown' = size
  /\ IF IsActive /\ active.phase = "Settling" /\ size = active.size
     THEN Succeed(active) ELSE UNCHANGED active /\ Unfinished
  /\ UNCHANGED <<available, wantVars, bound, serial, head, output, lost, taken>>

\* remove_output: a wl_output never comes back under the same name.
OutputRemoved ==
  /\ Idle
  /\ output
  /\ output' = FALSE
  /\ FailActive
  /\ UNCHANGED <<available, wantVars, bound, serial, head, shown, lost, taken>>

WaylandLost ==
  /\ Idle
  /\ lost' = TRUE
  /\ FailActive
  /\ SetAvailable(FALSE)
  /\ UNCHANGED <<wantVars, bound, serial, head, output, shown, taken>>

-----------------------------------------------------------------------------
(* The X side: set_crtc_config plans under the screen lock, and acts on    *)
(* the plan having released it.                                            *)

\* A size the output has is set locally; another takes the compositor.
MakePlan(t, size) ==
  /\ pc[t] = "idle"
  /\ plan[t] = "none"
  /\ output
  /\ want' = [want EXCEPT ![t] = size]
  /\ plan' = [plan EXCEPT ![t] = IF size = shown THEN "local" ELSE "compositor"]
  /\ UNCHANGED <<xVars, worldVars>>

AskFor(t) ==
  /\ plan[t] = "compositor"
  /\ Ask(t)
  /\ plan' = [plan EXCEPT ![t] = "none"]
  /\ UNCHANGED <<want, worldVars>>

\* Screen::set_crtc, unless the output or the mode is gone by now.
SetCrtc(t) ==
  /\ plan[t] = "local"
  /\ plan' = [plan EXCEPT ![t] = "none"]
  /\ shown' \in IF output THEN {want[t], shown} ELSE {shown}
  /\ UNCHANGED <<xVars, want, bound, serial, head, output, lost>>

XStep ==
  /\ \E t \in XThreads :
       \/ \E size \in Sizes : MakePlan(t, size)
       \/ AskFor(t)
       \/ SetCrtc(t)
       \/ (Calls(t) \/ Wakes(t)) /\ UNCHANGED <<wantVars, worldVars>>
  /\ UNCHANGED <<zeroFirst, taken, active>>

Tick == TakeRequest \/ Start \/ Advance

Answered == ConfigSucceeded \/ ConfigFailed \/ ConfigCancelled

ConfigNext ==
  \/ XStep
  \/ Tick
  \/ Expire
  \/ Answered
  \/ ManagerBound \/ ManagerDone \/ ManagerFinished
  \/ HeadComes \/ HeadFinished
  \/ \E size \in Sizes : OutputChanges(size)
  \/ OutputRemoved
  \/ WaylandLost

ConfigSpec == ConfigInit /\ [][ConfigNext]_configVars

\* The loop ticks, and deadlines pass: on some pass dynres_advance is past the
\* one it has set, and moves or gives up.
FairConfigSpec ==
  /\ ConfigSpec
  /\ WF_configVars(TakeRequest)
  /\ WF_configVars(Start)
  /\ WF_configVars(Advance \/ Expire)

-----------------------------------------------------------------------------
(* Properties                                                              *)

ActiveType ==
  [id : Nat \ {None}, size : Sizes,
   phase : {"NeedSerial", "Applying", "Settling", "Cancelled"},
   attempts : Seq({"advertised", "zero", "own"}),
   current : {"none", "advertised", "zero", "own"},
   serialUsed : Nat, cancelled : 0..MaxCancelled]

ConfigTypeOK ==
  /\ want \in [XThreads -> Sizes]
  /\ bound \in BOOLEAN /\ head \in BOOLEAN /\ output \in BOOLEAN /\ lost \in BOOLEAN
  /\ serial \in Nat
  /\ shown \in Sizes
  /\ plan \in [XThreads -> {"none", "local", "compositor"}]
  /\ zeroFirst \in BOOLEAN
  /\ taken \in [id : Nat \ {None}, size : Sizes] \cup {NoRequest}
  /\ active \in ActiveType \cup {NoActive}

\* A client is told its mode is set only when the output shows it: a compositor
\* that accepts a configuration and does nothing is not believed.
OkOnlyIfShown ==
  [][ \A t \in XThreads :
        (verdict[t] = "none" /\ verdict'[t] = "ok") => shown' = active.size ]_configVars

\* Every request taken is completed, however the compositor behaves.
EveryRequestEnds == (inFlight # None) ~> (inFlight = None)

\* To the X side this is a carrier of requests such as DynRes assumes.
HandshakeKept == Spec
=============================================================================

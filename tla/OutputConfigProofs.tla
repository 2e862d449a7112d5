-------------------------- MODULE OutputConfigProofs --------------------------
(***************************************************************************)
(* What holds of a resolution change, for any number of X threads and of   *)
(* requests, and however the compositor behaves.  Of the handshake: one    *)
(* request at a time, and to each client its own outcome.  Of the driver   *)
(* of the configuration: it is a carrier of requests such as the handshake *)
(* assumes, so what the handshake promises is kept by the two together,    *)
(* and it tells of no success the output does not show.                    *)
(***************************************************************************)
EXTENDS OutputConfig, TLAPS

(* The handshake (DynRes).                                                 *)

\* The result in the slot is what the Wayland thread said of its request, and
\* there is none while a request is parked: parking clears the slot.
SlotHolds ==
  /\ done.id = None => done.res = "none"
  /\ queued # None => done = NoResult
  /\ \A t \in XThreads : (done.id = mine[t] /\ done.id # None) => verdict[t] = done.res

HandshakeInv == TypeOK /\ OneAtATime /\ SlotHolds

-----------------------------------------------------------------------------
LEMMA InitHolds == Init => HandshakeInv
  BY DEF Init, HandshakeInv, TypeOK, OneAtATime, SlotHolds, NoResult, None, Phases, Results, Replies

\* Waking up moves a thread between the two halves of its wait.
LEMMA WokenPhase ==
  ASSUME NEW phase \in Phases
  PROVE  /\ Woken(phase) \in Phases
         /\ phase \in {"result", "resultAsleep"} => Woken(phase) \in {"result", "resultAsleep"}
  BY DEF Woken, Phases

\* Each step keeps every variable in its type; an id only moves between slots.
LEMMA TypeStep == TypeOK /\ [Next]_vars => TypeOK'
<1> SUFFICES ASSUME TypeOK, [Next]_vars PROVE TypeOK'
  OBVIOUS
<1>1. ASSUME NEW t \in XThreads, Ask(t) PROVE TypeOK'
  BY <1>1 DEF TypeOK, Ask, Goto, Return, slots, Phases, Replies
<1>2. ASSUME NEW t \in XThreads, AwaitTurn(t) PROVE TypeOK'
  BY <1>2 DEF TypeOK, AwaitTurn, Goto, Return, slots, Phases, Replies
<1>3. ASSUME NEW t \in XThreads, Park(t) PROVE TypeOK'
  BY <1>3 DEF TypeOK, Park, Goto, Return, NoResult, None, Phases, Replies
<1>4. ASSUME NEW t \in XThreads, AwaitResult(t) PROVE TypeOK'
  <2>1. done.res \in Replies
    BY DEF TypeOK, Replies
  <2>2. CASE MyResult(t)
    BY <1>4, <2>1, <2>2 DEF TypeOK, AwaitResult, Goto, Return, NoResult, None, Phases
  <2>3. CASE ~MyResult(t)
    BY <1>4, <2>3 DEF TypeOK, AwaitResult, Goto, Return, None, Phases, Replies
  <2> QED BY <2>2, <2>3
<1>5. ASSUME NEW t \in XThreads, Wakes(t) PROVE TypeOK'
  <2>1. Woken(pc[t]) \in Phases
    BY WokenPhase DEF TypeOK
  <2> QED BY <1>5, <2>1 DEF TypeOK, Wakes, Goto, slots
<1>6. CASE Carries
  <2>1. CASE Take
    BY <2>1 DEF TypeOK, Take, None
  <2>2. ASSUME NEW res \in Results, Complete(inFlight, res), available' \in BOOLEAN PROVE TypeOK'
    <3>1. pc' \in [XThreads -> Phases]
      BY <2>2, WokenPhase DEF TypeOK, Complete
    <3>2. verdict' \in [XThreads -> {"none"} \cup Results]
      BY <2>2 DEF TypeOK, Complete
    <3> QED BY <2>2, <3>1, <3>2 DEF TypeOK, Complete, None
  <2>3. CASE UNCHANGED <<slots, pc, mine, late, reply, verdict>> /\ available' \in BOOLEAN
    BY <2>3 DEF TypeOK, slots
  <2> QED BY <1>6, <2>1, <2>2, <2>3 DEF Carries, SetAvailable, TypeOK
<1>7. CASE UNCHANGED vars
  BY <1>7 DEF TypeOK, vars, slots
<1> QED BY <1>1, <1>2, <1>3, <1>4, <1>5, <1>6, <1>7 DEF Next, Calls

\* What keeps a request with its thread, and a result with its request.
LEMMA HandshakeStep == HandshakeInv /\ [Next]_vars => HandshakeInv'
<1> SUFFICES ASSUME HandshakeInv, [Next]_vars PROVE HandshakeInv'
  OBVIOUS
<1>0. TypeOK /\ TypeOK'
  BY TypeStep DEF HandshakeInv
<1> USE DEF HandshakeInv
<1>1. ASSUME NEW t \in XThreads, Ask(t) \/ AwaitTurn(t) PROVE OneAtATime' /\ SlotHolds'
  BY <1>0, <1>1 DEF TypeOK, OneAtATime, SlotHolds, Ask, AwaitTurn, Goto, Return, slots, Phases
<1>2. ASSUME NEW t \in XThreads, Park(t) PROVE OneAtATime' /\ SlotHolds'
  <2>1. \A u \in XThreads \ {t} : mine'[u] = mine[u] /\ mine[u] < nextId'
    BY <1>0, <1>2 DEF TypeOK, Park
  <2>2. mine'[t] = nextId' /\ nextId' # None
    BY <1>0, <1>2 DEF TypeOK, Park, None
  <2>3. \A u, v \in XThreads : mine'[u] = mine'[v] /\ mine'[u] # None => u = v
    BY <1>0, <2>1, <2>2 DEF TypeOK, OneAtATime
  <2>4. queued' # None => queued' = nextId' /\ pc'[t] = "resultAsleep"
    BY <1>0, <1>2 DEF TypeOK, Park, Busy, Goto, Return
  <2>5. inFlight' = None
    BY <1>2 DEF Park, Busy
  <2>6. OneAtATime'
    BY <2>2, <2>3, <2>4, <2>5 DEF OneAtATime
  <2>7. SlotHolds'
    BY <1>2 DEF Park, SlotHolds, NoResult, None
  <2> QED BY <2>6, <2>7
<1>3. ASSUME NEW t \in XThreads, AwaitResult(t) PROVE OneAtATime' /\ SlotHolds'
  <2>1. UNCHANGED <<inFlight, mine, verdict>> /\ queued' \in {queued, None}
    BY <1>3 DEF AwaitResult
  <2>2. queued' # None => mine[t] # queued' \/ pc'[t] = "resultAsleep"
    BY <1>0, <1>3 DEF TypeOK, AwaitResult, MyResult, SlotHolds, NoResult, None, Goto, Return
  <2>3. \A u \in XThreads \ {t} : pc'[u] = pc[u]
    BY <1>0, <1>3 DEF TypeOK, AwaitResult, Goto, Return
  <2>4. OneAtATime'
    BY <2>1, <2>2, <2>3 DEF OneAtATime
  <2>5. done' \in {done, NoResult}
    BY <1>3 DEF AwaitResult
  <2>6. SlotHolds'
    BY <2>1, <2>5 DEF SlotHolds, NoResult
  <2> QED BY <2>4, <2>6
<1>4. ASSUME NEW t \in XThreads, Wakes(t) PROVE OneAtATime' /\ SlotHolds'
  <2>1. \A u \in XThreads : pc[u] \in {"result", "resultAsleep"} => pc'[u] \in {"result", "resultAsleep"}
    BY <1>0, <1>4, WokenPhase DEF TypeOK, Wakes, Goto
  <2> QED BY <1>4, <2>1 DEF OneAtATime, SlotHolds, Wakes, slots
<1>5. CASE Take
  BY <1>0, <1>5 DEF Take, OneAtATime, SlotHolds, None
<1>6. ASSUME NEW res \in Results, inFlight # None, Complete(inFlight, res)
      PROVE OneAtATime' /\ SlotHolds'
  <2>1. queued' = None /\ inFlight' = None /\ mine' = mine
    BY <1>6 DEF Complete, OneAtATime
  <2>2. OneAtATime'
    BY <2>1 DEF OneAtATime
  <2>3. done' = [id |-> inFlight, res |-> res]
    BY <1>6 DEF Complete
  <2>4. \A t \in XThreads : mine[t] = inFlight => verdict'[t] = res
    BY <1>6 DEF Complete
  <2> QED BY <1>6, <2>1, <2>2, <2>3, <2>4 DEF SlotHolds
<1>7. CASE UNCHANGED <<slots, pc, mine, late, reply, verdict>>
  BY <1>0, <1>7 DEF OneAtATime, SlotHolds, slots
<1> QED BY <1>0, <1>1, <1>2, <1>3, <1>4, <1>5, <1>6, <1>7 DEF Next, Calls, Carries, vars

LEMMA HandshakeKeptUp == Spec => []HandshakeInv
<1>1. Init => HandshakeInv
  BY InitHolds
<1>2. HandshakeInv /\ [Next]_vars => HandshakeInv'
  BY HandshakeStep
<1> QED BY <1>1, <1>2, PTL DEF Spec

-----------------------------------------------------------------------------
\* Ids stay ordered: no slot holds an id that was not handed out.
THEOREM TypeCorrect == Spec => []TypeOK
<1>1. HandshakeInv => TypeOK
  BY DEF HandshakeInv
<1> QED BY <1>1, HandshakeKeptUp, PTL

\* change_mode's wait for its turn keeps requests apart: never one parked while
\* one is in flight, and a parked one has the only thread that waits for it.
THEOREM OneRequestAtATime == Spec => []OneAtATime
<1>1. HandshakeInv => OneAtATime
  BY DEF HandshakeInv
<1> QED BY <1>1, HandshakeKeptUp, PTL

\* A client that is given an outcome is given that of its own request, however
\* many clients ask and give up meanwhile.
THEOREM OwnReply == Spec => ReplyIsOwn
<1> DEFINE Own == \A t \in XThreads :
                    (AwaitResult(t) /\ pc'[t] = "idle" /\ reply'[t] \in Results)
                      => reply'[t] = verdict[t]
<1>1. HandshakeInv /\ [Next]_vars => [Own]_vars
  <2> SUFFICES ASSUME HandshakeInv, NEW t \in XThreads, AwaitResult(t), pc'[t] = "idle",
                      reply'[t] \in Results
               PROVE  reply'[t] = verdict[t]
    OBVIOUS
  <2>1. MyResult(t)
    BY DEF HandshakeInv, TypeOK, AwaitResult, Goto, Return, Results
  <2>2. reply'[t] = done.res
    BY <2>1 DEF HandshakeInv, TypeOK, AwaitResult, Return
  <2> QED BY <2>1, <2>2 DEF HandshakeInv, SlotHolds, MyResult, Results
<1>2. []HandshakeInv /\ [][Next]_vars => [][Own]_vars
  BY <1>1, PTL
<1> QED BY <1>2, HandshakeKeptUp DEF Spec, ReplyIsOwn

-----------------------------------------------------------------------------
(* The driver (OutputConfig).                                              *)

\* A request is taken or being carried out, never both, and it is the one the
\* X side has in flight; an attempt that is being made has a name.
Carried ==
  /\ taken = NoRequest \/ active = NoActive
  /\ inFlight = IF taken # NoRequest THEN taken.id ELSE active.id
  /\ active.phase \in {"Applying", "Settling"} => active.current # "none"

DriverInv == ConfigTypeOK /\ Carried

\* What a handler makes of the active request: it goes on with it...
GoesOn ==
  /\ active' \in ActiveType
  /\ active'.id = active.id
  /\ active'.phase \in {"Applying", "Settling"} => active'.current # "none"
  /\ Unfinished

\* ...or it completes it, in success only with the size on the output.
Ends ==
  /\ active' = NoActive
  /\ zeroFirst' \in BOOLEAN
  /\ \E res \in Results :
       Complete(inFlight, res) /\ (res = "ok" => shown' = active.size)

Handled == GoesOn \/ Ends

\* And if there is none, it leaves the slots alone.
Handles ==
  /\ IF IsActive THEN Handled ELSE UNCHANGED active /\ Unfinished
  /\ available' \in {available, FALSE}
  /\ UNCHANGED <<wantVars, taken>>

\* A request on which the code is at work: it is the one in flight, and a has
\* the active one's size.
Works(a) ==
  /\ a \in ActiveType
  /\ a.id = inFlight /\ a.id = active.id /\ a.size = active.size

LEMMA ActiveWorks == ASSUME DriverInv, IsActive PROVE Works(active) /\ inFlight # None
  BY DEF DriverInv, ConfigTypeOK, Carried, IsActive, Works, ActiveType, NoActive, None

LEMMA FailHandles ==
  ASSUME DriverInv, NEW a, Works(a), Fail(a)
  PROVE  Ends
  BY DEF DriverInv, ConfigTypeOK, Works, Fail, Ends, Results

LEMMA SucceedHandles ==
  ASSUME DriverInv, NEW a, Works(a), shown' = a.size, Succeed(a)
  PROVE  Ends
<1>1. zeroFirst' \in BOOLEAN
  BY DEF DriverInv, ConfigTypeOK, Succeed
<1> QED BY <1>1 DEF Works, Succeed, Ends, Results

\* dynres_apply_next keeps its request's type: what it makes active is the head
\* of the attempts that were left.
LEMMA ApplyNextHandles ==
  ASSUME DriverInv, NEW a, Works(a), NEW n \in Nat, ApplyNext(a, n)
  PROVE  Handled
<1>1. CASE a.attempts = <<>>
  BY <1>1, FailHandles DEF ApplyNext, Handled
<1>2. CASE a.attempts # <<>>
  <2>1. a.attempts \in Seq({"advertised", "zero", "own"})
    BY DEF Works, ActiveType
  <2>2. /\ Head(a.attempts) \in {"advertised", "zero", "own"}
        /\ Tail(a.attempts) \in Seq({"advertised", "zero", "own"})
    BY <1>2, <2>1
  <2>3. /\ active' = [a EXCEPT !.attempts = Tail(@), !.current = Head(a.attempts),
                               !.phase = "Applying", !.serialUsed = n]
        /\ Unfinished
    BY <1>2 DEF ApplyNext
  <2>4. active' \in ActiveType /\ active'.current # "none" /\ active'.id = active.id
    BY <2>2, <2>3 DEF Works, ActiveType
  <2> QED BY <2>3, <2>4 DEF Handled, GoesOn
<1> QED BY <1>1, <1>2

LEMMA MovesHandles ==
  ASSUME DriverInv, NEW a, Works(a), NEW n \in Nat, shown' = shown, Moves(a, n)
  PROVE  Handled
<1>1. CASE a.phase = "Settling"
  BY <1>1, SucceedHandles DEF Moves, Shows, Handled
<1>2. CASE a.phase # "Settling"
  BY <1>2, ApplyNextHandles DEF Moves
<1> QED BY <1>1, <1>2

LEMMA GivesUpHandles ==
  ASSUME DriverInv, NEW a, Works(a), NEW n \in Nat, GivesUp(a, n)
  PROVE  Handled
<1>1. CASE a.phase = "Settling"
  BY <1>1, ApplyNextHandles DEF GivesUp
<1>2. CASE a.phase # "Settling"
  BY <1>2, FailHandles DEF GivesUp, Handled
<1> QED BY <1>1, <1>2

LEMMA WaitsHandles ==
  ASSUME DriverInv, NEW a, Works(a), NEW n \in Nat, Waits(a, n),
         a.phase \in {"Applying", "Settling"} => a.current # "none"
  PROVE  Handled
  BY DEF Waits, Works, Handled, GoesOn

\* Whatever goes away takes its request with it.
LEMMA FailActiveHandles ==
  ASSUME DriverInv, FailActive
  PROVE  IF IsActive THEN Handled ELSE UNCHANGED active /\ Unfinished
  BY ActiveWorks, FailHandles DEF FailActive, Handled

-----------------------------------------------------------------------------
(* Each handler leaves the active request handled.                         *)

\* The events that may concern the active request, and the loop's ticks.
Concerns ==
  \/ Advance \/ Expire
  \/ Answered
  \/ ManagerDone \/ ManagerFinished
  \/ HeadFinished
  \/ \E size \in Sizes : OutputChanges(size)
  \/ OutputRemoved
  \/ WaylandLost

LEMMA TickHandles == ASSUME DriverInv, Advance \/ Expire PROVE Handles
<1>1. IsActive /\ Works(active) /\ serial \in Nat
  BY ActiveWorks DEF Advance, Expire, DriverInv, ConfigTypeOK
<1>2. UNCHANGED <<available, wantVars, taken, shown>>
  BY DEF Advance, Expire, worldVars
<1>3. Handled
  BY <1>1, <1>2, MovesHandles, GivesUpHandles DEF Advance, Expire
<1> QED BY <1>1, <1>2, <1>3 DEF Handles

LEMMA AnswerHandles == ASSUME DriverInv, Answered PROVE Handles
<1>1. /\ IsActive /\ Works(active) /\ serial \in Nat
      /\ active.phase = "Applying" /\ active.current # "none"
  BY ActiveWorks DEF Answered, ConfigSucceeded, ConfigFailed, ConfigCancelled, DriverInv,
                     ConfigTypeOK, Carried
<1>2. UNCHANGED <<available, wantVars, taken, shown>>
  BY DEF Answered, ConfigSucceeded, ConfigFailed, ConfigCancelled, worldVars
<1>3. ASSUME ConfigSucceeded PROVE Handled
  <2>1. CASE Shows(active)
    BY <1>1, <1>2, <1>3, <2>1, SucceedHandles DEF ConfigSucceeded, Shows, Handled
  <2>2. CASE ~Shows(active)
    <3>1. active' = [active EXCEPT !.phase = "Settling"] /\ Unfinished
      BY <1>3, <2>2 DEF ConfigSucceeded
    <3> QED BY <1>1, <3>1 DEF Works, ActiveType, Handled, GoesOn
  <2> QED BY <2>1, <2>2
<1>4. ASSUME ConfigFailed PROVE Handled
  BY <1>1, <1>4, ApplyNextHandles DEF ConfigFailed
<1>5. ASSUME ConfigCancelled PROVE Handled
  <2> DEFINE again == [active EXCEPT !.attempts = <<active.current>> \o @, !.current = "none",
                                     !.phase = "Cancelled", !.cancelled = @ + 1]
  <2>1. CASE KeepsCancelling(again.cancelled)
    BY <1>1, <1>5, <2>1, FailHandles DEF ConfigCancelled, Handled
  <2>2. CASE ~KeepsCancelling(again.cancelled)
    <3>1. <<active.current>> \o active.attempts \in Seq({"advertised", "zero", "own"})
      BY <1>1 DEF Works, ActiveType
    <3>2. active.cancelled + 1 \in 0..MaxCancelled
      BY <1>1, <2>2, OutputConfigAssumption DEF Works, ActiveType, KeepsCancelling
    <3>3. Works(again) /\ again.phase = "Cancelled"
      BY <1>1, <3>1, <3>2 DEF Works, ActiveType
    <3>4. Moves(again, serial) \/ Waits(again, serial)
      BY <1>5, <2>2 DEF ConfigCancelled
    <3> HIDE DEF again
    <3> QED BY <1>1, <1>2, <3>3, <3>4, MovesHandles, WaitsHandles
  <2> QED BY <2>1, <2>2
<1> QED BY <1>1, <1>2, <1>3, <1>4, <1>5 DEF Answered, Handles

LEMMA ManagerDoneHandles == ASSUME DriverInv, ManagerDone PROVE Handles
<1>1. serial' \in Nat /\ UNCHANGED <<available, wantVars, taken, shown>>
  BY DEF ManagerDone, DriverInv, ConfigTypeOK
<1>2. CASE IsActive
  <2>1. Works(active) /\ (active.phase \in {"Applying", "Settling"} => active.current # "none")
    BY <1>2, ActiveWorks DEF DriverInv, Carried
  <2>2. Moves(active, serial') \/ GivesUp(active, serial') \/ Waits(active, serial')
    BY <1>2 DEF ManagerDone
  <2>3. Handled
    BY <1>1, <2>1, <2>2, MovesHandles, GivesUpHandles, WaitsHandles
  <2> QED BY <1>1, <1>2, <2>3 DEF Handles
<1>3. CASE ~IsActive
  BY <1>1, <1>3 DEF ManagerDone, Handles
<1> QED BY <1>2, <1>3

LEMMA OutputHandles ==
  ASSUME DriverInv, NEW size \in Sizes, OutputChanges(size)
  PROVE  Handles
<1>1. UNCHANGED <<available, wantVars, taken>>
  BY DEF OutputChanges
<1>2. CASE IsActive /\ active.phase = "Settling" /\ size = active.size
  BY <1>1, <1>2, ActiveWorks, SucceedHandles DEF OutputChanges, Handled, Handles
<1>3. CASE ~(IsActive /\ active.phase = "Settling" /\ size = active.size)
  <2>1. UNCHANGED active /\ Unfinished
    BY <1>3 DEF OutputChanges
  <2>2. IsActive => GoesOn
    BY <2>1, ActiveWorks DEF GoesOn, Works, DriverInv, Carried
  <2> QED BY <1>1, <2>1, <2>2 DEF Handles, Handled
<1> QED BY <1>2, <1>3

LEMMA ConcernsHandles == ASSUME DriverInv, Concerns PROVE Handles
<1>1. ASSUME ManagerFinished \/ HeadFinished \/ OutputRemoved \/ WaylandLost PROVE Handles
  <2>1. FailActive /\ available' \in {available, FALSE} /\ UNCHANGED <<wantVars, taken>>
    BY <1>1 DEF ManagerFinished, HeadFinished, OutputRemoved, WaylandLost, SetAvailable
  <2> QED BY <2>1, FailActiveHandles DEF Handles
<1> QED BY <1>1, TickHandles, AnswerHandles, ManagerDoneHandles, OutputHandles DEF Concerns

-----------------------------------------------------------------------------
(* It is a carrier.                                                        *)

\* The other steps: the X side's, and those that only take, start or refuse a
\* request, or hear of what is there.
Others == XStep \/ TakeRequest \/ Start \/ ManagerBound \/ HeadComes

LEMMA NextSplits == ConfigNext => Concerns \/ Others
  BY DEF ConfigNext, Concerns, Others, Tick

LEMMA StartCompletes ==
  ASSUME DriverInv, Start
  PROVE  /\ taken # NoRequest /\ taken.id = inFlight /\ inFlight # None
         /\ taken' = NoRequest
         /\ \/ /\ active' \in ActiveType /\ active'.id = inFlight
               /\ active'.phase = "NeedSerial"
               /\ UNCHANGED slotVars
            \/ UNCHANGED active /\ Complete(inFlight, "err")
<1>1. /\ taken # NoRequest /\ taken.id = inFlight /\ inFlight # None
      /\ taken.id \in Nat /\ taken.size \in Sizes
  BY DEF DriverInv, ConfigTypeOK, Carried, Start, NoRequest, None
<1>2. CASE bound /\ output /\ head
  <2>1. PICK advertised \in BOOLEAN :
          active' = [id |-> taken.id, size |-> taken.size, phase |-> "NeedSerial",
                     attempts |-> Plan(advertised), current |-> "none",
                     serialUsed |-> 0, cancelled |-> 0]
    BY <1>2 DEF Start
  <2> DEFINE Ways == {"advertised", "zero", "own"}
  <2>2. Plan(advertised) \in Seq(Ways)
    <3>1. (IF advertised THEN <<"advertised">> ELSE <<>>) \in Seq(Ways)
      <4>1. <<"advertised">> \in Seq(Ways) /\ <<>> \in Seq(Ways)
        OBVIOUS
      <4> QED BY <4>1
    <3>2. <<"zero", "own">> \in Seq(Ways) /\ <<"own", "zero">> \in Seq(Ways)
      OBVIOUS
    <3>3. (IF zeroFirst THEN <<"zero", "own">> ELSE <<"own", "zero">>) \in Seq(Ways)
      BY <3>2
    <3>4. \A p, q \in Seq(Ways) : p \o q \in Seq(Ways)
      OBVIOUS
    <3> HIDE DEF Ways
    <3> QED BY <3>1, <3>3, <3>4 DEF Plan
  <2>3. active' \in ActiveType
    BY <1>1, <2>1, <2>2, OutputConfigAssumption DEF ActiveType
  <2> QED BY <1>1, <1>2, <2>1, <2>3 DEF Start
<1>3. CASE ~(bound /\ output /\ head)
  BY <1>1, <1>3 DEF Start
<1> QED BY <1>2, <1>3

\* To the X side every step of the driver is one of the carrier it counts on.
LEMMA NextCarries == DriverInv /\ [ConfigNext]_configVars => [Next]_vars
<1> SUFFICES ASSUME DriverInv, [ConfigNext]_configVars PROVE [Next]_vars
  OBVIOUS
<1>1. CASE Concerns
  <2>1. UNCHANGED available \/ available' \in BOOLEAN
    BY <1>1, ConcernsHandles DEF Handles
  <2>2. UNCHANGED xVars \/ Carries
    <3>1. Handles
      BY <1>1, ConcernsHandles
    <3>2. CASE UNCHANGED slotVars
      BY <2>1, <3>2 DEF xVars, Carries, SetAvailable, slotVars, slots
    <3>3. CASE ~UNCHANGED slotVars
      <4>1. IsActive /\ Ends
        BY <3>1, <3>3 DEF Handles, Handled, GoesOn, Unfinished
      <4> QED BY <3>1, <4>1, ActiveWorks DEF Handles, Ends, Carries, SetAvailable
    <3> QED BY <3>2, <3>3
  <2> QED BY <2>2 DEF Next, xVars, slotVars, vars
<1>2. CASE XStep
  BY <1>2 DEF XStep, MakePlan, AskFor, SetCrtc, Next, xVars, slotVars, vars
<1>3. CASE TakeRequest
  BY <1>3 DEF TakeRequest, Next, Carries
<1>4. CASE Start
  <2>1. UNCHANGED available
    BY <1>4 DEF Start
  <2> QED BY <1>4, <2>1, StartCompletes DEF Next, Carries, Results, vars, slotVars
<1>5. CASE ManagerBound \/ HeadComes
  BY <1>5 DEF ManagerBound, HeadComes, Next, Carries, SetAvailable, xVars, slotVars, vars
<1>6. CASE UNCHANGED configVars
  BY <1>6 DEF configVars, xVars, slotVars, vars
<1> QED BY <1>1, <1>2, <1>3, <1>4, <1>5, <1>6, NextSplits DEF Others

-----------------------------------------------------------------------------
(* The invariant.                                                          *)

LEMMA DriverInit == ConfigInit => DriverInv
<1> SUFFICES ASSUME ConfigInit PROVE DriverInv
  OBVIOUS
<1>1. taken = NoRequest /\ active = NoActive /\ inFlight = active.id
  BY DEF ConfigInit, Init, NoActive
<1>2. active.phase \notin {"Applying", "Settling"}
  BY <1>1 DEF NoActive
<1>3. ConfigTypeOK
  BY <1>1 DEF ConfigInit, Init, ConfigTypeOK
<1> QED BY <1>1, <1>2, <1>3 DEF DriverInv, Carried

\* The world stays in its types, whatever the compositor does.
LEMMA WorldStep ==
  ASSUME DriverInv, [ConfigNext]_configVars
  PROVE  /\ bound' \in BOOLEAN /\ head' \in BOOLEAN /\ output' \in BOOLEAN /\ lost' \in BOOLEAN
         /\ serial' \in Nat /\ shown' \in Sizes
<1> USE DEF DriverInv, ConfigTypeOK
<1>1. CASE UNCHANGED worldVars
  BY <1>1 DEF worldVars
<1>2. CASE XStep
  BY <1>2 DEF XStep, MakePlan, AskFor, SetCrtc, worldVars
<1>3. CASE TakeRequest \/ Start \/ Advance \/ Expire \/ Answered
  BY <1>1, <1>3 DEF TakeRequest, Start, Advance, Expire, Answered, ConfigSucceeded, ConfigFailed,
                    ConfigCancelled
<1>4. CASE ManagerBound
  <2>1. bound' = TRUE /\ head' = FALSE /\ UNCHANGED <<output, shown, lost>>
    BY <1>4 DEF ManagerBound
  <2>2. serial' \in Nat
    BY <1>4 DEF ManagerBound
  <2> QED BY <2>1, <2>2
<1>5. CASE ManagerDone
  <2>1. serial' = serial + 1 /\ UNCHANGED <<bound, head, output, shown, lost>>
    BY <1>5 DEF ManagerDone
  <2> QED BY <2>1
<1>6. CASE ManagerFinished
  BY <1>6 DEF ManagerFinished
<1>7. CASE HeadComes \/ HeadFinished \/ OutputRemoved \/ WaylandLost
  BY <1>7 DEF HeadComes, HeadFinished, OutputRemoved, WaylandLost
<1>8. ASSUME NEW size \in Sizes, OutputChanges(size)
      PROVE  UNCHANGED <<bound, serial, head, output, lost>> /\ shown' \in Sizes
  BY <1>8 DEF OutputChanges
<1>9. CASE UNCHANGED configVars
  BY <1>1, <1>9 DEF configVars
<1> QED BY <1>2, <1>3, <1>4, <1>5, <1>6, <1>7, <1>8, <1>9 DEF ConfigNext, Tick

\* What is taken, what is active and what is in flight stay one.
LEMMA CarriedStep ==
  ASSUME HandshakeInv, DriverInv, [ConfigNext]_configVars
  PROVE  /\ Carried'
         /\ zeroFirst' \in BOOLEAN
         /\ taken' \in [id : Nat \ {None}, size : Sizes] \cup {NoRequest}
         /\ active' \in ActiveType \cup {NoActive}
<1> USE DEF DriverInv, ConfigTypeOK, Carried
<1>1. CASE Concerns
  <2>1. Handles
    BY <1>1, ConcernsHandles
  <2>2. CASE ~IsActive
    BY <2>1, <2>2 DEF Handles, Unfinished, slotVars, slots
  <2>3. CASE IsActive /\ GoesOn
    <3>1. taken' = NoRequest /\ inFlight' = active'.id
      BY <2>1, <2>3 DEF Handles, GoesOn, Unfinished, slotVars, slots, IsActive
    <3> QED BY <2>3, <3>1 DEF GoesOn, Unfinished
  <2>4. CASE IsActive /\ Ends
    <3>1. taken' = NoRequest /\ inFlight' = None
      BY <2>1, <2>4 DEF Handles, Ends, Complete, IsActive
    <3> QED BY <2>4, <3>1 DEF Ends, NoActive
  <2> QED BY <2>1, <2>2, <2>3, <2>4 DEF Handles, Handled
<1>2. CASE XStep
  <2>1. UNCHANGED inFlight
    BY <1>2 DEF XStep, MakePlan, AskFor, SetCrtc, Ask, Calls, AwaitTurn, Park, AwaitResult, Wakes,
                xVars, slotVars, slots
  <2> QED BY <1>2, <2>1 DEF XStep
<1>3. CASE TakeRequest
  <2>1. PICK t \in XThreads : taken' = [id |-> queued, size |-> want[t]]
    BY <1>3 DEF TakeRequest
  <2>2. queued \in Nat \ {None} /\ inFlight' = queued
    BY <1>3 DEF TakeRequest, Take, HandshakeInv, TypeOK
  <2>3. taken' \in [id : Nat \ {None}, size : Sizes] /\ taken' # NoRequest
    BY <2>1, <2>2 DEF NoRequest
  <2>4. active' = NoActive /\ UNCHANGED zeroFirst
    BY <1>3 DEF TakeRequest, IsActive
  <2> QED BY <2>1, <2>2, <2>3, <2>4 DEF NoActive
<1>4. CASE Start
  <2>1. UNCHANGED zeroFirst /\ active = NoActive
    BY <1>4 DEF Start
  <2>2. CASE UNCHANGED slotVars
    BY <1>4, <2>1, <2>2, StartCompletes DEF slotVars, slots, NoActive, Complete, None
  <2>3. CASE UNCHANGED active /\ Complete(inFlight, "err")
    BY <1>4, <2>1, <2>3, StartCompletes DEF NoActive, Complete
  <2> QED BY <1>4, <2>2, <2>3, StartCompletes
<1>5. CASE ManagerBound \/ HeadComes
  BY <1>5 DEF ManagerBound, HeadComes, xVars, slotVars, slots
<1>6. CASE UNCHANGED configVars
  BY <1>6 DEF configVars, xVars, slotVars, slots
<1> QED BY <1>1, <1>2, <1>3, <1>4, <1>5, <1>6, NextSplits DEF Others

\* What threads want and plan to do is theirs to say.
LEMMA WantStep ==
  ASSUME DriverInv, [ConfigNext]_configVars
  PROVE  /\ want' \in [XThreads -> Sizes]
         /\ plan' \in [XThreads -> {"none", "local", "compositor"}]
<1> USE DEF DriverInv, ConfigTypeOK
<1>1. CASE UNCHANGED wantVars
  BY <1>1 DEF wantVars
<1>2. CASE XStep
  BY <1>2 DEF XStep, MakePlan, AskFor, SetCrtc, wantVars
<1>3. CASE Concerns
  BY <1>1, <1>3, ConcernsHandles DEF Handles
<1>4. CASE TakeRequest \/ Start \/ ManagerBound \/ HeadComes \/ UNCHANGED configVars
  BY <1>1, <1>4 DEF TakeRequest, Start, ManagerBound, HeadComes, configVars
<1> QED BY <1>2, <1>3, <1>4, NextSplits DEF Others

LEMMA DriverStep ==
  HandshakeInv /\ DriverInv /\ [ConfigNext]_configVars => DriverInv'
  BY WorldStep, CarriedStep, WantStep DEF DriverInv, ConfigTypeOK, ActiveType

\* The two invariants are kept together: the handshake's by what the driver does
\* being what a carrier may do.
LEMMA BothKept == ConfigSpec => [](HandshakeInv /\ DriverInv)
<1>1. ConfigInit => HandshakeInv /\ DriverInv
  BY InitHolds, DriverInit DEF ConfigInit
<1>2. HandshakeInv /\ DriverInv /\ [ConfigNext]_configVars => HandshakeInv' /\ DriverInv'
  BY NextCarries, HandshakeStep, DriverStep
<1> QED BY <1>1, <1>2, PTL DEF ConfigSpec

-----------------------------------------------------------------------------
\* The driver's state stays in its types, and whatever it has taken is what the
\* X side has in flight.
THEOREM DriverTypeCorrect == ConfigSpec => [](ConfigTypeOK /\ Carried)
<1>1. DriverInv => ConfigTypeOK /\ Carried
  BY DEF DriverInv
<1> QED BY <1>1, BothKept, PTL

\* output_config.rs implements what dynres.rs takes the Wayland thread for: one
\* request at a time, each completed once, however the compositor answers.
THEOREM CarriesAsAssumed == ConfigSpec => HandshakeKept
<1>1. ConfigInit => Init
  BY DEF ConfigInit
<1>2. DriverInv /\ [ConfigNext]_configVars => [Next]_vars
  BY NextCarries
<1>3. HandshakeInv /\ DriverInv => DriverInv
  OBVIOUS
<1> QED BY <1>1, <1>2, <1>3, BothKept, PTL DEF ConfigSpec, Spec, HandshakeKept

\* So what the handshake promises its clients holds of the whole program.
COROLLARY PromisesHold == ConfigSpec => []OneAtATime /\ ReplyIsOwn
  BY CarriesAsAssumed, OneRequestAtATime, OwnReply DEF HandshakeKept

\* A client is told its mode is set only with its size on the output: every
\* handler that completes a request in success has just seen it there.
THEOREM SuccessIsShown == ConfigSpec => OkOnlyIfShown
<1> DEFINE Shown == \A t \in XThreads :
                      (verdict[t] = "none" /\ verdict'[t] = "ok") => shown' = active.size
<1>1. HandshakeInv /\ DriverInv /\ [ConfigNext]_configVars => [Shown]_configVars
  <2> SUFFICES ASSUME HandshakeInv, DriverInv, ConfigNext, NEW t \in XThreads,
                      verdict[t] = "none", verdict'[t] = "ok"
               PROVE  shown' = active.size
    OBVIOUS
  <2>1. CASE Concerns
    <3>1. Handles
      BY <2>1, ConcernsHandles
    <3>2. PICK res \in Results : Complete(inFlight, res) /\ (res = "ok" => shown' = active.size)
      BY <3>1 DEF Handles, Handled, GoesOn, Ends, Unfinished, slotVars
    <3>3. verdict'[t] \in {res, verdict[t]}
      BY <3>2 DEF Complete
    <3> QED BY <3>2, <3>3
  <2>2. CASE XStep
    <3>1. ASSUME NEW u \in XThreads, Park(u) PROVE verdict'[t] \in {verdict[t], "none"}
      BY <3>1 DEF Park, HandshakeInv, TypeOK
    <3>2. verdict'[t] \in {verdict[t], "none"}
      BY <2>2, <3>1 DEF XStep, MakePlan, AskFor, SetCrtc, Ask, Calls, AwaitTurn, AwaitResult, Wakes,
                        xVars, slotVars
    <3> QED BY <3>2
  <2>3. CASE Start
    <3>1. verdict'[t] \in {verdict[t], "err"}
      BY <2>3, StartCompletes DEF Complete, slotVars
    <3> QED BY <3>1
  <2>4. CASE TakeRequest \/ ManagerBound \/ HeadComes
    BY <2>4 DEF TakeRequest, Take, ManagerBound, HeadComes, xVars, slotVars
  <2> QED BY <2>1, <2>2, <2>3, <2>4, NextSplits DEF Others
<1>2. [](HandshakeInv /\ DriverInv) /\ [][ConfigNext]_configVars => [][Shown]_configVars
  BY <1>1, PTL
<1> QED BY <1>2, BothKept DEF ConfigSpec, OkOnlyIfShown
=============================================================================

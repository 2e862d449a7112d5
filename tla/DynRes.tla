-------------------------------- MODULE DynRes --------------------------------
(***************************************************************************)
(* The handshake by which an X client's resolution change waits for the    *)
(* Wayland thread (bridge/dynres.rs): one slot for a parked request, one   *)
(* for a request in flight, one for the last result, a condition variable. *)
(*                                                                         *)
(* A section under the mutex is one step.  A thread in wait_timeout sleeps *)
(* outside it, until complete notifies everyone, its deadline passes, or   *)
(* the wait ends for no reason; then it has to get the mutex back, and     *)
(* others may get it first.  The Wayland thread's side is what any carrier *)
(* of requests may do: take the parked one, complete the one it took.      *)
(***************************************************************************)
EXTENDS Naturals

CONSTANTS
  XThreads,     \* the X connection threads
  MaxRequests   \* bound: requests parked before threads stop asking

ASSUME DynResAssumption == MaxRequests \in Nat

\* No request: ids count from 1.
None == 0

NoResult == [id |-> None, res |-> "none"]

VARIABLES
  nextId,     \* Inner::next_id
  queued,     \* Inner::queued, as its id
  inFlight,   \* Inner::in_flight
  done,       \* Inner::done
  available,  \* DynRes::available
  pc,         \* where each X thread is in change_mode
  mine,       \* the id of each thread's last request
  late,       \* whether the deadline of its call has passed
  reply,      \* what its last call returned
  verdict     \* what the Wayland thread said of its last request

slots == <<nextId, queued, inFlight, done>>
vars == <<slots, available, pc, mine, late, reply, verdict>>

\* In a call: waiting for a turn or for the result, awake or asleep.
Phases == {"idle", "turn", "turnAsleep", "result", "resultAsleep"}

Results == {"ok", "err"}

Replies == {"none", "refused", "busy", "timeout"} \cup Results

Init ==
  /\ nextId = None
  /\ queued = None
  /\ inFlight = None
  /\ done = NoResult
  /\ available \in BOOLEAN
  /\ pc = [t \in XThreads |-> "idle"]
  /\ mine = [t \in XThreads |-> None]
  /\ late = [t \in XThreads |-> FALSE]
  /\ reply = [t \in XThreads |-> "none"]
  /\ verdict = [t \in XThreads |-> "none"]

-----------------------------------------------------------------------------
(* The X side: set_crtc_config's check, then change_mode.                  *)

Goto(t, phase) == pc' = [pc EXCEPT ![t] = phase]

Return(t, what) == Goto(t, "idle") /\ reply' = [reply EXCEPT ![t] = what]

Ask(t) ==
  /\ pc[t] = "idle"
  /\ nextId < MaxRequests
  /\ late' = [late EXCEPT ![t] = FALSE]
  /\ IF available THEN Goto(t, "turn") /\ UNCHANGED reply ELSE Return(t, "refused")
  /\ UNCHANGED <<slots, available, mine, verdict>>

\* Mutant: a request in flight is forgotten.
BusyWhileQueued == queued # None

Busy == queued # None \/ inFlight # None

\* Mutant: the deadline is not looked at.
AwaitTurnForever(t) ==
  /\ pc[t] = "turn"
  /\ Busy
  /\ Goto(t, "turnAsleep")
  /\ UNCHANGED <<slots, available, mine, late, reply, verdict>>

\* Not its turn: sleep on, or give up.
AwaitTurn(t) ==
  /\ pc[t] = "turn"
  /\ Busy
  /\ IF late[t] THEN Return(t, "busy") ELSE Goto(t, "turnAsleep") /\ UNCHANGED reply
  /\ UNCHANGED <<slots, available, mine, late, verdict>>

\* Its turn: park the request, with no result yet, and sleep, or, with no time
\* left, take it back at once.
Park(t) ==
  /\ pc[t] = "turn"
  /\ ~Busy
  /\ nextId' = nextId + 1
  /\ mine' = [mine EXCEPT ![t] = nextId']
  /\ verdict' = [verdict EXCEPT ![t] = "none"]
  /\ done' = NoResult
  /\ IF late[t] THEN Return(t, "timeout") /\ UNCHANGED queued
     ELSE Goto(t, "resultAsleep") /\ queued' = nextId' /\ UNCHANGED reply
  /\ UNCHANGED <<inFlight, available, late>>

\* Mutant: whatever result is there is taken for its own.
AnyResult(t) == done.id # None

MyResult(t) == done.id = mine[t]

\* Awake: take the result if it is there, else sleep on, or give up and take
\* the request back if nobody has picked it up.
AwaitResult(t) ==
  /\ pc[t] = "result"
  /\ IF MyResult(t)
     THEN Return(t, done.res) /\ done' = NoResult /\ UNCHANGED queued
     ELSE /\ UNCHANGED done
          /\ IF late[t]
             THEN /\ Return(t, "timeout")
                  /\ queued' = IF queued = mine[t] THEN None ELSE queued
             ELSE Goto(t, "resultAsleep") /\ UNCHANGED <<queued, reply>>
  /\ UNCHANGED <<nextId, inFlight, available, mine, late, verdict>>

Woken(phase) ==
  CASE phase = "turnAsleep"   -> "turn"
    [] phase = "resultAsleep" -> "result"
    [] OTHER                  -> phase

\* wait_timeout returns, at the deadline or before it.
Wakes(t) ==
  /\ pc[t] # Woken(pc[t])
  /\ Goto(t, Woken(pc[t]))
  /\ late' \in {late, [late EXCEPT ![t] = TRUE]}
  /\ UNCHANGED <<slots, available, mine, reply, verdict>>

-----------------------------------------------------------------------------
(* The Wayland thread's side.                                              *)

\* DynRes::take
Take ==
  /\ inFlight = None
  /\ queued # None
  /\ inFlight' = queued
  /\ queued' = None
  /\ UNCHANGED <<nextId, done, available, pc, mine, late, reply, verdict>>

\* DynRes::complete
Complete(id, res) ==
  /\ inFlight' = IF inFlight = id THEN None ELSE inFlight
  /\ done' = [id |-> id, res |-> res]
  /\ pc' = [t \in XThreads |-> Woken(pc[t])]
  /\ verdict' = [t \in XThreads |-> IF mine[t] = id THEN res ELSE verdict[t]]
  /\ UNCHANGED <<nextId, queued, mine, late, reply>>

\* DynRes::set_available
SetAvailable(there) == available' = there

Carries ==
  \/ Take
  \/ /\ inFlight # None
     /\ \E res \in Results : Complete(inFlight, res)
     /\ (SetAvailable(FALSE) \/ UNCHANGED available)
  \/ (\E there \in BOOLEAN : SetAvailable(there)) /\ UNCHANGED <<slots, pc, mine, late, reply, verdict>>

-----------------------------------------------------------------------------
Calls(t) == AwaitTurn(t) \/ Park(t) \/ AwaitResult(t)

Next ==
  \/ \E t \in XThreads : Ask(t) \/ Calls(t) \/ Wakes(t)
  \/ Carries

Spec == Init /\ [][Next]_vars

\* An awake thread gets the mutex; the deadline of a sleeping one passes.
XFairness ==
  \A t \in XThreads :
    /\ WF_vars(Calls(t))
    /\ SF_vars(Wakes(t) /\ late'[t])

FairSpec == Spec /\ XFairness

-----------------------------------------------------------------------------
(* Properties                                                              *)

TypeOK ==
  /\ nextId \in Nat
  /\ queued \in 0..nextId
  /\ inFlight \in 0..nextId
  /\ done \in [id : 0..nextId, res : {"none"} \cup Results]
  /\ available \in BOOLEAN
  /\ pc \in [XThreads -> Phases]
  /\ mine \in [XThreads -> 0..nextId]
  /\ late \in [XThreads -> BOOLEAN]
  /\ reply \in [XThreads -> Replies]
  /\ verdict \in [XThreads -> {"none"} \cup Results]

\* One request is handled at a time, and a parked one always has its thread
\* waiting for it, the only thread that does.
OneAtATime ==
  /\ queued = None \/ inFlight = None
  /\ queued # None =>
       \E t \in XThreads : mine[t] = queued /\ pc[t] \in {"result", "resultAsleep"}
  /\ \A t, u \in XThreads : mine[t] = mine[u] /\ mine[t] # None => t = u

\* A client is only ever told the outcome of its own request, never that of one
\* given up on before it: change_mode's test of the result's id.
ReplyIsOwn ==
  [][ \A t \in XThreads :
        (AwaitResult(t) /\ pc'[t] = "idle" /\ reply'[t] \in Results)
          => reply'[t] = verdict[t] ]_vars

\* Every call returns, whatever the Wayland thread does or leaves undone.
EveryCallReturns == \A t \in XThreads : (pc[t] # "idle") ~> (pc[t] = "idle")
=============================================================================

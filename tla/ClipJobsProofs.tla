---------------------------- MODULE ClipJobsProofs ----------------------------
(***************************************************************************)
(* For every number of threads, conversions and jobs, and every bound: the *)
(* queue's invariants, proved.  The heart of it is Placed: every job a     *)
(* client waits on is in exactly one place.                                *)
(***************************************************************************)
EXTENDS ClipJobs, FiniteSetTheorems, TLAPS

\* How a thread's position, the loop's position and the queue's flag go together.
Positions ==
  /\ \A t \in Threads : (job[t] # NoJob) <=> (pc[t] = "ready")
  /\ running <=> wpc \in LoopPhases \cup {"unwinding"}
  /\ batch # {} => wpc = "run"
  /\ pc[Wayland] # "idle" => wpc = "dispatch"
  /\ (wpc \in {"unstarted"} \cup LoopPhases /\ pc[Wayland] = "idle") => held[Wayland] = {}
  /\ ~running => queue = {}

\* Each job is in one place, and nothing is anywhere before it is asked for.
Placed ==
  /\ \A j \in queue : j \in asked /\ j \notin batch /\ j \notin receiving
  /\ \A j \in batch : j \in asked /\ j \notin receiving
  /\ \A j \in receiving : j \in asked
  /\ \A t \in Threads : \A j \in held[t] :
       j \in asked /\ j \notin queue /\ j \notin batch /\ j \notin receiving /\ j # job[t]
  /\ \A t \in Threads : job[t] # NoJob =>
       /\ job[t] \in asked
       /\ job[t] \notin queue
       /\ job[t] \notin batch
       /\ job[t] \notin receiving
  /\ \A t, u \in Threads : t # u =>
       /\ \A j \in held[t] : j \notin held[u] /\ j # job[u]
       /\ job[t] # NoJob => job[t] # job[u]

\* A conversion has its answer when, and only when, it is in none of the places.
Settled ==
  \A c \in Convs :
    /\ outcome[c] # "twice"
    /\ outcome[c] # "none" =>
         /\ c \in asked
         /\ c \notin queue /\ c \notin batch /\ c \notin receiving
         /\ \A t \in Threads : c \notin held[t] /\ c # job[t]
    /\ (c \in asked /\ outcome[c] = "none") =>
         \/ c \in queue \/ c \in batch \/ c \in receiving
         \/ \E t \in Threads : c \in held[t] \/ c = job[t]

PlaceInv == TypeOK /\ Positions /\ Placed /\ Settled

LEMMA PlaceInit == Init => PlaceInv
<1> SUFFICES ASSUME Init PROVE PlaceInv
  OBVIOUS
<1> USE ClipJobsAssumption DEF Init, Threads, Jobs, LoopPhases
<1>1. TypeOK
  BY DEF TypeOK, Phases, ExitPhases, Outcomes
<1>2. Positions
  BY DEF Positions
<1>3. Placed
  BY DEF Placed
<1>4. Settled
  BY DEF Settled
<1>5. QED
  BY <1>1, <1>2, <1>3, <1>4 DEF PlaceInv

LEMMA TypeStep == TypeOK /\ Positions /\ [Next]_vars => TypeOK'
<1> SUFFICES ASSUME TypeOK, Positions, [Next]_vars PROVE TypeOK'
  OBVIOUS
<1> USE ClipJobsAssumption DEF TypeOK, Jobs, Phases, LoopPhases, ExitPhases, Outcomes,
        qvars, xvars, wvars
<1>1. ASSUME NEW t \in XThreads, NEW c \in Convs, Convert(t, c) PROVE TypeOK'
  BY <1>1 DEF Convert, Stale, Threads
<1>2. ASSUME NEW t \in Threads, NEW w \in Works, Request(t, w) PROVE TypeOK'
  BY <1>2 DEF Request
<1>3. ASSUME NEW t \in XThreads, Sweep(t) PROVE TypeOK'
  BY <1>3 DEF Sweep, Stale, Threads
<1>4. ASSUME NEW t \in Threads, Post(t) PROVE TypeOK'
  <2>0. job[t] \in Jobs
    BY <1>4 DEF Post, Positions
  <2>1. CASE PostStopped(t)
    BY <1>4, <2>0, <2>1 DEF Post, PostStopped
  <2>2. CASE PostFull(t)
    BY <1>4, <2>0, <2>2 DEF Post, PostFull, Stale
  <2>3. CASE PostTaken(t)
    BY <1>4, <2>0, <2>3 DEF Post, PostTaken, Stale
  <2>4. QED
    BY <1>4, <2>1, <2>2, <2>3 DEF Post
<1>5. ASSUME NEW t \in Threads, NEW j \in Jobs, Drop(t, j) PROVE TypeOK'
  BY <1>5 DEF Drop, DropJob, Answered
<1>6. ASSUME NEW t \in Threads, PostReturn(t) PROVE TypeOK'
  BY <1>6 DEF PostReturn
<1>7. ASSUME NEW c \in Convs, Expire(c) PROVE TypeOK'
  BY <1>7 DEF Expire
<1>8. ASSUME Start \/ Take \/ EndRun \/ EndTransfers \/ PollReturn PROVE TypeOK'
  BY <1>8 DEF Start, Take, EndRun, EndTransfers, PollReturn
<1>9. ASSUME NEW w \in Works, RunWork(w) PROVE TypeOK'
  BY <1>9 DEF RunWork, Oldest
<1>10. ASSUME NEW c \in Convs, RunReceive(c) PROVE TypeOK'
  BY <1>10 DEF RunReceive, Oldest, DropJob, Answered
<1>11. ASSUME NEW c \in Convs, FinishReceive(c) PROVE TypeOK'
  BY <1>11 DEF FinishReceive, Answered
<1>12. ASSUME WaylandLost \/ Guard PROVE TypeOK'
  BY <1>12 DEF WaylandLost, Guard, StopRunning, Threads
<1>13. ASSUME Panic \/ Close PROVE TypeOK'
  BY <1>13 DEF Panic, Close, Threads
<1>14. CASE UNCHANGED vars
  BY <1>14 DEF vars
<1>15. QED
  BY <1>1, <1>2, <1>3, <1>4, <1>5, <1>6, <1>7, <1>8, <1>9, <1>10, <1>11, <1>12, <1>13, <1>14
     DEF Next, XNext, WNext

LEMMA PlaceStep == PlaceInv /\ [Next]_vars => PlaceInv'
<1> SUFFICES ASSUME PlaceInv, [Next]_vars PROVE PlaceInv'
  OBVIOUS
<1>0. TypeOK'
  BY TypeStep DEF PlaceInv
<1> SUFFICES Positions' /\ Placed' /\ Settled'
  BY <1>0 DEF PlaceInv
<1> USE ClipJobsAssumption, <1>0 DEF PlaceInv, TypeOK, Jobs, LoopPhases, qvars, xvars, wvars
<1>1. ASSUME NEW t \in XThreads, NEW c \in Convs, Convert(t, c)
      PROVE Positions' /\ Placed' /\ Settled'
  <2> USE <1>1 DEF Convert, MayPost, Stale
  <2>1. t \in Threads /\ t # Wayland /\ job[t] = NoJob
    BY DEF Threads, Positions
  <2>2. Positions'
    BY <2>1 DEF Positions
  <2>3. Placed'
    BY <2>1 DEF Placed
  <2>4. Settled'
    BY <2>1 DEF Settled, Placed
  <2>5. QED
    BY <2>2, <2>3, <2>4
<1>2. ASSUME NEW t \in Threads, NEW w \in Works, Request(t, w)
      PROVE Positions' /\ Placed' /\ Settled'
  <2> USE <1>2 DEF Request, MayPost
  <2>1. job[t] = NoJob /\ w # NoJob /\ w \notin Convs
    BY DEF Positions
  <2>2. Positions'
    BY <2>1 DEF Positions
  <2>3. Placed'
    BY <2>1 DEF Placed
  <2>4. Settled'
    BY <2>1 DEF Settled
  <2>5. QED
    BY <2>2, <2>3, <2>4
<1>3. ASSUME NEW t \in XThreads, Sweep(t)
      PROVE Positions' /\ Placed' /\ Settled'
  <2> USE <1>3 DEF Sweep, MayPost, Stale
  <2>1. t \in Threads /\ t # Wayland /\ job[t] = NoJob
    BY DEF Threads, Positions
  <2>2. Positions'
    BY <2>1 DEF Positions
  <2>3. Placed'
    BY <2>1 DEF Placed
  <2>4. Settled'
    BY <2>1 DEF Settled
  <2>5. QED
    BY <2>2, <2>3, <2>4
<1>4. ASSUME NEW t \in Threads, Post(t)
      PROVE Positions' /\ Placed' /\ Settled'
  <2> USE <1>4 DEF Post, Stale
  <2>1. job[t] # NoJob /\ job[t] \in Jobs
    BY DEF Positions
  <2>2. CASE PostStopped(t)
    <3> USE <2>2 DEF PostStopped
    <3>1. Positions'
      BY <2>1 DEF Positions
    <3>2. Placed'
      BY <2>1 DEF Placed
    <3>3. Settled'
      BY <2>1 DEF Settled
    <3>4. QED
      BY <3>1, <3>2, <3>3
  <2>3. CASE PostFull(t)
    <3> USE <2>3 DEF PostFull
    <3>1. Positions'
      BY <2>1 DEF Positions
    <3>2. Placed'
      BY <2>1 DEF Placed
    <3>3. Settled'
      BY <2>1 DEF Settled
    <3>4. QED
      BY <3>1, <3>2, <3>3
  <2>4. CASE PostTaken(t)
    <3> USE <2>4 DEF PostTaken
    <3>1. Positions'
      BY <2>1 DEF Positions
    <3>2. Placed'
      BY <2>1 DEF Placed
    <3>3. Settled'
      BY <2>1 DEF Settled
    <3>4. QED
      BY <3>1, <3>2, <3>3
  <2>5. QED
    BY <2>2, <2>3, <2>4
<1>5. ASSUME NEW t \in Threads, NEW j \in Jobs, Drop(t, j)
      PROVE Positions' /\ Placed' /\ Settled'
  <2> USE <1>5 DEF Drop, DropJob, Answered
  <2>1. Positions'
    BY DEF Positions
  <2>2. Placed'
    BY DEF Placed
  <2>3. Settled'
    BY DEF Settled, Placed
  <2>4. QED
    BY <2>1, <2>2, <2>3
<1>6. ASSUME NEW t \in Threads, PostReturn(t)
      PROVE Positions' /\ Placed' /\ Settled'
  <2> USE <1>6 DEF PostReturn
  <2>1. Positions'
    BY DEF Positions
  <2>2. Placed' /\ Settled'
    BY DEF Placed, Settled
  <2>3. QED
    BY <2>1, <2>2
<1>7. ASSUME NEW c \in Convs, Expire(c)
      PROVE Positions' /\ Placed' /\ Settled'
  BY <1>7 DEF Expire, Positions, Placed, Settled
<1>8. ASSUME Start \/ EndRun \/ EndTransfers \/ PollReturn
      PROVE Positions' /\ Placed' /\ Settled'
  <2> USE <1>8 DEF Start, EndRun, EndTransfers, PollReturn
  <2>1. Positions'
    BY DEF Positions
  <2>2. Placed' /\ Settled'
    BY DEF Placed, Settled
  <2>3. QED
    BY <2>1, <2>2
<1>9. ASSUME Take PROVE Positions' /\ Placed' /\ Settled'
  <2> USE <1>9 DEF Take
  <2>1. batch = {}
    BY DEF Positions
  <2>2. Positions'
    BY DEF Positions
  <2>3. Placed'
    BY <2>1 DEF Placed
  <2>4. Settled'
    BY <2>1 DEF Settled
  <2>5. QED
    BY <2>2, <2>3, <2>4
<1>10. ASSUME NEW w \in Works, RunWork(w)
       PROVE Positions' /\ Placed' /\ Settled'
  <2> USE <1>10 DEF RunWork, Oldest
  <2>1. Positions'
    BY DEF Positions
  <2>2. Placed' /\ Settled'
    BY DEF Placed, Settled
  <2>3. QED
    BY <2>1, <2>2
<1>11. ASSUME NEW c \in Convs, RunReceive(c)
       PROVE Positions' /\ Placed' /\ Settled'
  <2> USE <1>11 DEF RunReceive, Oldest, DropJob, Answered
  <2>1. Positions'
    BY DEF Positions
  <2>2. Placed'
    BY DEF Placed
  <2>3. Settled'
    BY DEF Settled, Placed
  <2>4. QED
    BY <2>1, <2>2, <2>3
<1>12. ASSUME NEW c \in Convs, FinishReceive(c)
       PROVE Positions' /\ Placed' /\ Settled'
  <2> USE <1>12 DEF FinishReceive, Answered
  <2>1. Positions'
    BY DEF Positions
  <2>2. Placed'
    BY DEF Placed
  <2>3. Settled'
    BY DEF Settled, Placed
  <2>4. QED
    BY <2>1, <2>2, <2>3
<1>13. ASSUME WaylandLost \/ Guard PROVE Positions' /\ Placed' /\ Settled'
  <2> USE <1>13 DEF WaylandLost, Guard, StopRunning
  <2>1. /\ Wayland \in Threads
        /\ held[Wayland] = {}
        /\ job[Wayland] = NoJob
    BY DEF Positions, Threads
  <2>2. Positions'
    BY <2>1 DEF Positions
  <2>3. Placed'
    BY <2>1 DEF Placed
  <2>4. Settled'
    BY <2>1 DEF Settled
  <2>5. QED
    BY <2>2, <2>3, <2>4
<1>14. ASSUME Panic \/ Close PROVE Positions' /\ Placed' /\ Settled'
  <2> USE <1>14 DEF Panic, Close
  <2>1. Wayland \in Threads /\ held[Wayland] = {} /\ job[Wayland] = NoJob
    BY DEF Positions, Threads
  <2>2. Positions'
    BY <2>1 DEF Positions
  <2>3. Placed'
    BY <2>1 DEF Placed
  <2>4. Settled'
    BY <2>1 DEF Settled
  <2>5. QED
    BY <2>2, <2>3, <2>4
<1>15. CASE UNCHANGED vars
  BY <1>15 DEF vars, Positions, Placed, Settled
<1>16. QED
  BY <1>1, <1>2, <1>3, <1>4, <1>5, <1>6, <1>7, <1>8, <1>9, <1>10, <1>11, <1>12, <1>13, <1>14, <1>15
     DEF Next, XNext, WNext

LEMMA PlaceAlways == Spec => []PlaceInv
BY PlaceInit, PlaceStep, PTL DEF Spec

\* Type correctness of the queue, its threads and its transfers.
THEOREM TypeCorrect == Spec => []TypeOK
<1>1. PlaceInv => TypeOK
  BY DEF PlaceInv
<1>2. QED
  BY <1>1, PlaceAlways, PTL

\* No requestor is ever told twice, however its conversion ends.
THEOREM ToldOnce == Spec => []AnsweredOnce
<1>1. PlaceInv => AnsweredOnce
  BY DEF PlaceInv, Settled, AnsweredOnce
<1>2. QED
  BY <1>1, PlaceAlways, PTL

\* Whoever asked and has not been told is still in somebody's hands.
THEOREM NobodyForgotten == Spec => []NoneLost
<1>1. PlaceInv => NoneLost
  <2> SUFFICES ASSUME PlaceInv, NEW c \in Convs, c \in asked, outcome[c] = "none"
               PROVE c \in Outstanding
    BY DEF NoneLost
  <2>1. \/ c \in queue \/ c \in batch \/ c \in receiving
        \/ \E t \in Threads : c \in held[t] \/ c = job[t]
    BY DEF PlaceInv, Settled
  <2>2. c \in Jobs
    BY DEF Jobs
  <2>3. QED
    BY <2>1, <2>2 DEF Outstanding, InHand
<1>2. QED
  BY <1>1, PlaceAlways, PTL

\* Once the loop has stopped, or before it starts, the queue is empty.
THEOREM DrainIsFinal == Spec => []NothingPastTheDrain
<1>1. PlaceInv => NothingPastTheDrain
  BY DEF PlaceInv, Positions, NothingPastTheDrain
<1>2. QED
  BY <1>1, PlaceAlways, PTL

-----------------------------------------------------------------------------
(* The order of the queue, across the batches the loop takes.              *)

Ordered ==
  /\ lastRun < nextTicket
  /\ \A j \in queue \cup batch : lastRun < ticket[j] /\ ticket[j] < nextTicket
  /\ \A j, k \in queue \cup batch : j # k => ticket[j] # ticket[k]
  /\ \A j \in batch, k \in queue : ticket[j] < ticket[k]

LEMMA OrderStep == PlaceInv /\ Ordered /\ [Next]_vars => Ordered'
<1> SUFFICES ASSUME PlaceInv, Ordered, [Next]_vars PROVE Ordered'
  OBVIOUS
<1> USE DEF TypeOK, Jobs, qvars, xvars, wvars, Ordered
<1>0. TypeOK /\ Placed /\ Positions
  BY DEF PlaceInv
<1>1. ASSUME NEW t \in XThreads, NEW c \in Convs, Convert(t, c) PROVE Ordered'
  BY <1>0, <1>1 DEF Convert, Stale
<1>2. ASSUME NEW t \in XThreads, Sweep(t) PROVE Ordered'
  BY <1>0, <1>2 DEF Sweep, Stale
<1>3. ASSUME NEW t \in Threads, Post(t) PROVE Ordered'
  <2>1. job[t] \in Jobs /\ job[t] \notin queue /\ job[t] \notin batch
    BY <1>0, <1>3 DEF Post, Positions, Placed
  <2>2. CASE PostStopped(t)
    BY <1>0, <1>3, <2>2 DEF Post, PostStopped
  <2>3. CASE PostFull(t)
    BY <1>0, <1>3, <2>3 DEF Post, PostFull, Stale
  <2>4. CASE PostTaken(t)
    BY <1>0, <1>3, <2>1, <2>4 DEF Post, PostTaken, Stale
  <2>5. QED
    BY <1>3, <2>2, <2>3, <2>4 DEF Post
<1>4. ASSUME Take PROVE Ordered'
  BY <1>0, <1>4 DEF Take
<1>5. ASSUME NEW w \in Works, RunWork(w) PROVE Ordered'
  BY <1>0, <1>5 DEF RunWork, Oldest
<1>6. ASSUME NEW c \in Convs, RunReceive(c) PROVE Ordered'
  BY <1>0, <1>6 DEF RunReceive, Oldest
<1>7. ASSUME WaylandLost \/ Guard PROVE Ordered'
  BY <1>0, <1>7 DEF WaylandLost, Guard, StopRunning
<1>8. ASSUME Panic \/ Close PROVE Ordered'
  BY <1>0, <1>8 DEF Panic, Close
<1>9. ASSUME \/ \E t \in Threads, w \in Works : Request(t, w)
             \/ \E t \in Threads, j \in Jobs : Drop(t, j)
             \/ \E t \in Threads : PostReturn(t)
             \/ \E c \in Convs : Expire(c)
             \/ Start \/ EndRun \/ EndTransfers \/ PollReturn
             \/ \E c \in Convs : FinishReceive(c)
             \/ UNCHANGED vars
      PROVE Ordered'
  <2>1. UNCHANGED <<qvars, batch, lastRun>>
    BY <1>9 DEF Request, Drop, PostReturn, Expire, Start, EndRun, EndTransfers, PollReturn,
                FinishReceive, vars
  <2>2. QED
    BY <2>1
<1>10. QED
  BY <1>1, <1>2, <1>3, <1>4, <1>5, <1>6, <1>7, <1>8, <1>9 DEF Next, XNext, WNext

\* Jobs run in the order they were posted, whatever the threads do.
THEOREM PostedOrder == Spec => []RunsInOrder
<1>1. Init => Ordered
  BY DEF Init, Ordered
<1>2. Ordered => RunsInOrder
  <2> SUFFICES ASSUME Ordered, NEW j \in queue \cup batch PROVE ticket[j] > lastRun
    BY DEF RunsInOrder
  <2>1. QED
    BY DEF Ordered
<1>3. QED
  BY <1>1, <1>2, OrderStep, PlaceAlways, PTL DEF Spec

-----------------------------------------------------------------------------
(* The eventfd.                                                            *)

\* From the moment the loop has taken the queue until it polls, whatever is
\* posted writes the eventfd after it is in the queue.
Awake ==
  (wpc \in {"run", "transfers", "poll"} /\ queue # {})
    => (wake \/ \E t \in Threads : pc[t] = "taken")

LEMMA AwakeStep == PlaceInv /\ Awake /\ [Next]_vars => Awake'
<1> SUFFICES ASSUME PlaceInv, Awake, [Next]_vars PROVE Awake'
  OBVIOUS
<1> USE DEF TypeOK, qvars, xvars, wvars, Awake
<1>0. TypeOK /\ Positions
  BY DEF PlaceInv
<1>1. ASSUME NEW t \in XThreads, NEW c \in Convs, Convert(t, c) PROVE Awake'
  BY <1>0, <1>1 DEF Convert, MayPost, Threads, Stale
<1>2. ASSUME NEW t \in Threads, NEW w \in Works, Request(t, w) PROVE Awake'
  BY <1>0, <1>2 DEF Request, MayPost
<1>3. ASSUME NEW t \in XThreads, Sweep(t) PROVE Awake'
  BY <1>0, <1>3 DEF Sweep, MayPost, Threads, Stale
<1>4. ASSUME NEW t \in Threads, Post(t) PROVE Awake'
  BY <1>0, <1>4 DEF Post, PostStopped, PostFull, PostTaken, HasRoom, Stale
<1>5. ASSUME NEW t \in Threads, PostReturn(t) PROVE Awake'
  BY <1>0, <1>5 DEF PostReturn
<1>6. ASSUME \/ \E t \in Threads, j \in Jobs : Drop(t, j)
             \/ \E c \in Convs : Expire(c)
             \/ \E w \in Works : RunWork(w)
             \/ \E c \in Convs : RunReceive(c)
             \/ EndRun \/ EndTransfers
             \/ \E c \in Convs : FinishReceive(c)
             \/ UNCHANGED vars
      PROVE Awake'
  <2>1. UNCHANGED <<queue, wake, pc>> /\ (wpc' = wpc \/ EndRun \/ EndTransfers)
    BY <1>6 DEF Drop, Expire, RunWork, RunReceive, EndRun, EndTransfers, FinishReceive, vars
  <2>2. wpc' \in {"run", "transfers", "poll"} => wpc \in {"run", "transfers", "poll"}
    BY <2>1 DEF EndRun, EndTransfers
  <2>3. QED
    BY <2>1, <2>2
<1>7. ASSUME Start \/ Take \/ PollReturn \/ WaylandLost \/ Panic \/ Guard \/ Close PROVE Awake'
  BY <1>7 DEF Start, Take, PollReturn, WaylandLost, Panic, Guard, Close
<1>8. QED
  BY <1>1, <1>2, <1>3, <1>4, <1>5, <1>6, <1>7 DEF Next, XNext, WNext

\* The loop never goes to sleep on a job whose wakeup it has already consumed.
THEOREM WakeupKept == Spec => []NoLostWakeup
<1>1. Init => Awake
  BY DEF Init, Awake
<1>2. Awake => NoLostWakeup
  BY DEF Awake, NoLostWakeup
<1>3. QED
  BY <1>1, <1>2, AwakeStep, PlaceAlways, PTL DEF Spec

-----------------------------------------------------------------------------
(* The two bounds.                                                         *)

WithinBounds ==
  /\ IsFiniteSet(queue) /\ Cardinality(queue) <= MaxJobs
  /\ IsFiniteSet(receiving) /\ Cardinality(receiving) <= MaxReceives

\* Taking members out of a set within a bound leaves it within the bound.
LEMMA FewerIsWithin ==
  ASSUME NEW S, NEW T, T \subseteq S, IsFiniteSet(S), NEW n \in Nat, Cardinality(S) <= n
  PROVE  IsFiniteSet(T) /\ Cardinality(T) <= n
<1>1. IsFiniteSet(T) /\ Cardinality(T) <= Cardinality(S)
  BY FS_Subset
<1>2. Cardinality(T) \in Nat /\ Cardinality(S) \in Nat
  BY <1>1, FS_CardinalityType
<1>3. QED
  BY <1>1, <1>2

\* One more member fits where there was room for it.
LEMMA OneMoreIsWithin ==
  ASSUME NEW S, NEW x, IsFiniteSet(S), NEW n \in Nat, Cardinality(S) < n
  PROVE  IsFiniteSet(S \cup {x}) /\ Cardinality(S \cup {x}) <= n
<1>1. IsFiniteSet(S \cup {x}) /\ Cardinality(S) \in Nat
  BY FS_AddElement, FS_CardinalityType
<1>2. Cardinality(S \cup {x}) = Cardinality(S) \/ Cardinality(S \cup {x}) = Cardinality(S) + 1
  BY FS_AddElement
<1>3. QED
  BY <1>1, <1>2

LEMMA BoundStep == WithinBounds /\ [Next]_vars => WithinBounds'
<1> SUFFICES ASSUME WithinBounds, [Next]_vars PROVE WithinBounds'
  OBVIOUS
<1> USE ClipJobsAssumption DEF WithinBounds, qvars, xvars, wvars
<1>0. MaxJobs \in Nat /\ MaxReceives \in Nat
  OBVIOUS
<1>1. CASE queue' \subseteq queue /\ receiving' \subseteq receiving
  BY <1>0, <1>1, FewerIsWithin
<1>2. ASSUME NEW t \in Threads, Post(t) PROVE WithinBounds'
  <2>1. CASE PostTaken(t)
    <3>1. IsFiniteSet(queue \ Stale)
      BY <1>0, FewerIsWithin
    <3>2. Cardinality(queue \ Stale) < MaxJobs /\ queue' = (queue \ Stale) \cup {job[t]}
      BY <2>1 DEF PostTaken, HasRoom
    <3>3. IsFiniteSet(queue') /\ Cardinality(queue') <= MaxJobs
      BY <1>0, <3>1, <3>2, OneMoreIsWithin
    <3>4. QED
      BY <1>2, <3>3 DEF Post
  <2>2. CASE PostStopped(t) \/ PostFull(t)
    BY <1>1, <1>2, <2>2 DEF Post, PostStopped, PostFull
  <2>3. QED
    BY <1>2, <2>1, <2>2 DEF Post
<1>3. ASSUME NEW c \in Convs, RunReceive(c) PROVE WithinBounds'
  <2>1. CASE UNCHANGED receiving
    BY <1>1, <1>3, <2>1 DEF RunReceive
  <2>2. CASE Cardinality(receiving) < MaxReceives /\ receiving' = receiving \cup {c}
    <3>1. IsFiniteSet(receiving') /\ Cardinality(receiving') <= MaxReceives
      BY <1>0, <2>2, OneMoreIsWithin
    <3>2. QED
      BY <1>3, <3>1 DEF RunReceive
  <2>3. QED
    BY <1>3, <2>1, <2>2 DEF RunReceive
<1>4. ASSUME \/ \E t \in XThreads, c \in Convs : Convert(t, c)
             \/ \E t \in Threads, w \in Works : Request(t, w)
             \/ \E t \in XThreads : Sweep(t)
             \/ \E t \in Threads, j \in Jobs : Drop(t, j)
             \/ \E t \in Threads : PostReturn(t)
             \/ \E c \in Convs : Expire(c) \/ FinishReceive(c)
             \/ Start \/ Take \/ EndRun \/ EndTransfers \/ PollReturn
             \/ \E w \in Works : RunWork(w)
             \/ UNCHANGED vars
      PROVE WithinBounds'
  <2>1. queue' \subseteq queue /\ receiving' \subseteq receiving
    BY <1>4 DEF Convert, Request, Sweep, Drop, PostReturn, Expire, FinishReceive, Start, Take,
                EndRun, EndTransfers, PollReturn, RunWork, Stale, vars
  <2>2. QED
    BY <1>1, <2>1
<1>5. ASSUME WaylandLost \/ Panic \/ Guard \/ Close PROVE WithinBounds'
  <2>1. queue' \subseteq queue /\ receiving' \subseteq receiving
    BY <1>5 DEF WaylandLost, Panic, Guard, Close, StopRunning
  <2>2. QED
    BY <1>1, <2>1
<1>6. QED
  BY <1>2, <1>3, <1>4, <1>5 DEF Next, XNext, WNext

\* Neither the queue nor the transfers in flight outgrow their limits.
THEOREM LimitsHold == Spec => []Bounded
<1>1. Init => WithinBounds
  BY FS_EmptySet, ClipJobsAssumption DEF Init, WithinBounds
<1>2. WithinBounds => Bounded
  BY DEF WithinBounds, Bounded
<1>3. QED
  BY <1>1, <1>2, BoundStep, PTL DEF Spec

-----------------------------------------------------------------------------
(* What clients see: Conversions.                                          *)

StatusOf(c) ==
  IF outcome[c] # "none" THEN outcome[c] ELSE IF c \in asked THEN "pending" ELSE "unasked"

StatusBar == [c \in Convs |-> StatusOf(c)]

\* A step that leaves the questions and the answers alone is a stutter.
LEMMA StatusStutter ==
  ASSUME UNCHANGED outcome, asked' \cap Convs = asked \cap Convs
  PROVE  StatusBar' = StatusBar
<1>1. \A c \in Convs : c \in asked' <=> c \in asked
  OBVIOUS
<1>2. QED
  BY <1>1 DEF StatusBar, StatusOf

\* A step that answers one outstanding conversion is an Answer.
LEMMA StatusAnswer ==
  ASSUME TypeOK, UNCHANGED asked, NEW c \in Convs, c \in asked, outcome[c] = "none",
         NEW what \in {"value", "refused"}, outcome' = Answered(c, what)
  PROVE  Promise!Answer(c)
<1>1. outcome' = [outcome EXCEPT ![c] = what]
  BY DEF Answered
<1>2. StatusBar[c] = "pending"
  BY DEF StatusBar, StatusOf
<1>3. StatusBar' = [StatusBar EXCEPT ![c] = what]
  BY <1>1 DEF StatusBar, StatusOf, TypeOK
<1>4. QED
  BY <1>2, <1>3 DEF Promise!Answer, StatusBar, StatusOf

LEMMA PromiseStep == PlaceInv /\ [Next]_vars => [Promise!Next]_StatusBar
<1> SUFFICES ASSUME PlaceInv, [Next]_vars
             PROVE  Promise!Next \/ StatusBar' = StatusBar
  OBVIOUS
<1> USE ClipJobsAssumption DEF Jobs
<1>0. TypeOK /\ Settled /\ Placed
  BY DEF PlaceInv
<1>1. ASSUME NEW t \in XThreads, NEW c \in Convs, Convert(t, c) PROVE Promise!Next
  <2>1. outcome[c] = "none" /\ c \notin asked
    BY <1>0, <1>1 DEF Convert, Settled
  <2>2. StatusBar[c] = "unasked"
    BY <2>1 DEF StatusBar, StatusOf
  <2>3. StatusBar' = [StatusBar EXCEPT ![c] = "pending"]
    BY <1>1, <2>1 DEF Convert, StatusBar, StatusOf
  <2>4. Promise!Ask(c)
    BY <2>2, <2>3 DEF Promise!Ask, StatusBar, StatusOf
  <2>5. QED
    BY <2>4 DEF Promise!Next
<1>2. ASSUME NEW t \in Threads, NEW w \in Works, Request(t, w) PROVE StatusBar' = StatusBar
  <2>1. UNCHANGED outcome /\ asked' \cap Convs = asked \cap Convs
    BY <1>2 DEF Request
  <2>2. QED
    BY <2>1, StatusStutter
<1>3. ASSUME NEW t \in Threads, NEW j \in Jobs, Drop(t, j)
      PROVE Promise!Next \/ StatusBar' = StatusBar
  <2>1. CASE j \in Convs
    <3>1. j \in asked /\ outcome[j] = "none"
      BY <1>0, <1>3, <2>1 DEF Drop, Settled, Placed
    <3>2. outcome' = Answered(j, "refused") /\ UNCHANGED asked
      BY <1>3, <2>1 DEF Drop, DropJob
    <3>3. Promise!Answer(j)
      BY <1>0, <2>1, <3>1, <3>2, StatusAnswer
    <3>4. QED
      BY <2>1, <3>3 DEF Promise!Next
  <2>2. CASE j \notin Convs
    <3>1. UNCHANGED outcome /\ asked' \cap Convs = asked \cap Convs
      BY <1>3, <2>2 DEF Drop, DropJob
    <3>2. QED
      BY <3>1, StatusStutter
  <2>3. QED
    BY <2>1, <2>2
<1>4. ASSUME NEW c \in Convs, RunReceive(c)
      PROVE Promise!Next \/ StatusBar' = StatusBar
  <2>1. UNCHANGED asked
    BY <1>4 DEF RunReceive
  <2>2. CASE UNCHANGED outcome
    BY <2>1, <2>2, StatusStutter
  <2>3. CASE DropJob(c)
    <3>1. c \in asked /\ outcome[c] = "none"
      BY <1>0, <1>4 DEF RunReceive, Oldest, Settled, Placed
    <3>2. Promise!Answer(c)
      BY <1>0, <2>1, <2>3, <3>1, StatusAnswer DEF DropJob
    <3>3. QED
      BY <3>2 DEF Promise!Next
  <2>4. QED
    BY <1>4, <2>2, <2>3 DEF RunReceive
<1>5. ASSUME NEW c \in Convs, FinishReceive(c) PROVE Promise!Next
  <2>1. c \in asked /\ outcome[c] = "none" /\ UNCHANGED asked
    BY <1>0, <1>5 DEF FinishReceive, Settled, Placed
  <2>2. PICK what \in {"value", "refused"} : outcome' = Answered(c, what)
    BY <1>5 DEF FinishReceive
  <2>3. Promise!Answer(c)
    BY <1>0, <2>1, <2>2, StatusAnswer
  <2>4. QED
    BY <2>3 DEF Promise!Next
<1>6. ASSUME \/ \E t \in XThreads : Sweep(t)
             \/ \E t \in Threads : Post(t) \/ PostReturn(t)
             \/ \E c \in Convs : Expire(c)
             \/ Start \/ Take \/ EndRun \/ EndTransfers \/ PollReturn
             \/ \E w \in Works : RunWork(w)
             \/ WaylandLost \/ Panic \/ Guard \/ Close
             \/ UNCHANGED vars
      PROVE StatusBar' = StatusBar
  <2>1. UNCHANGED <<asked, outcome>>
    BY <1>6 DEF Sweep, Post, PostReturn, Expire, Start, Take, EndRun, EndTransfers, PollReturn,
                RunWork, WaylandLost, Panic, Guard, Close, vars
  <2>2. QED
    BY <2>1, StatusStutter
<1>7. QED
  BY <1>1, <1>2, <1>3, <1>4, <1>5, <1>6 DEF Next, XNext, WNext

\* The queue, the threads and the loop together keep the promise made to each
\* client: one answer to one question, and no other change.
THEOREM KeepsPromise == Spec => PromiseKept
<1>1. Init => Promise!Init
  BY DEF Init, Promise!Init
<1>2. PlaceInv /\ [Next]_vars => [Promise!Next]_StatusBar
  BY PromiseStep
<1>3. QED
  BY <1>1, <1>2, PlaceAlways, PTL DEF Spec, PromiseKept, Promise!Spec, StatusBar, StatusOf
=============================================================================

------------------------------- MODULE ClipJobs -------------------------------
(***************************************************************************)
(* The queue of clipboard work that the X threads post to the Wayland      *)
(* thread (bridge/clipjobs.rs), with the two ends that use it: the X side  *)
(* of ConvertSelection and of the publications, and the Wayland thread's   *)
(* event loop that takes the jobs, pumps the transfers they start, and may *)
(* stop at any time.                                                       *)
(*                                                                         *)
(* The VecDeque is the set of the jobs in it, each with the ticket it drew *)
(* under the queue lock, so that ticket order is queue order.  Every       *)
(* section under the queue lock is one step; what a thread does after it   *)
(* releases the lock (dropping what it carried out, writing the eventfd)   *)
(* is further steps of its own.                                            *)
(***************************************************************************)
EXTENDS Naturals, FiniteSets

CONSTANTS
  XThreads,     \* the X connection threads
  Wayland,      \* the Wayland thread
  Convs,        \* conversions: the PendingConversion inside a Job::Receive
  Works,        \* the jobs nobody waits for: Job::Publish and Job::Destroy
  NoJob,        \* no job in hand
  MaxJobs,      \* MAX_JOBS
  MaxReceives   \* MAX_PENDING_RECEIVES

ASSUME ClipJobsAssumption ==
  /\ Wayland \notin XThreads
  /\ Convs \cap Works = {}
  /\ NoJob \notin Convs \cup Works
  /\ MaxJobs \in Nat \ {0}
  /\ MaxReceives \in Nat \ {0}
  /\ IsFiniteSet(Convs)

Threads == XThreads \cup {Wayland}

Jobs == Convs \cup Works

VARIABLES
  running,    \* Jobs::running
  queue,      \* Jobs::queue, as a set
  ticket,     \* the place in the queue each posted job was given
  nextTicket,
  wake,       \* the eventfd polls readable
  asked,      \* the conversions a client has asked for
  expired,    \* the conversions asked QUEUE_TIMEOUT ago or longer
  pc,         \* where each thread is in post and sweep
  job,        \* the job each thread is about to post
  held,       \* the jobs each thread has carried out of a lock, to drop them
  wpc,        \* where the Wayland thread is in its loop, or in leaving it
  batch,      \* what the Wayland thread took and has not run yet
  receiving,  \* State::pending_receives
  lastRun,    \* the ticket of the last job run
  outcome     \* what each conversion's requestor has been told

xvars == <<pc, job, held>>
wvars == <<wpc, batch, receiving, lastRun>>
qvars == <<queue, ticket, nextTicket>>
vars == <<running, qvars, wake, asked, expired, xvars, wvars, outcome>>

Phases == {"idle", "ready", "taken", "refused"}

LoopPhases == {"dispatch", "run", "transfers", "poll"}

ExitPhases == {"unwinding", "returning", "closing", "dead"}

Outcomes == {"none", "value", "refused", "twice"}

-----------------------------------------------------------------------------
(* What a conversion's Deliver does: the requestor is told, once.          *)

Answered(c, what) == [outcome EXCEPT ![c] = IF @ = "none" THEN what ELSE "twice"]

\* Dropping a job refuses the conversion in it; other jobs drop silently.
DropJob(j) ==
  outcome' = IF j \in Convs THEN Answered(j, "refused") ELSE outcome

\* What drain_expired takes out: only a conversion carries a deadline.
Stale == queue \cap expired

Init ==
  /\ running = FALSE
  /\ queue = {}
  /\ ticket = [j \in Jobs |-> 0]
  /\ nextTicket = 1
  /\ wake = FALSE
  /\ asked = {}
  /\ expired = {}
  /\ pc = [t \in Threads |-> "idle"]
  /\ job = [t \in Threads |-> NoJob]
  /\ held = [t \in Threads |-> {}]
  /\ wpc = "unstarted"
  /\ batch = {}
  /\ receiving = {}
  /\ lastRun = 0
  /\ outcome = [c \in Convs |-> "none"]

-----------------------------------------------------------------------------
(* The posting side.  The Wayland thread posts too, from its dispatch: an  *)
(* announcement destroys the offer it replaces.                            *)

MayPost(t) ==
  /\ pc[t] = "idle"
  /\ held[t] = {}
  /\ t = Wayland => wpc = "dispatch"

\* ConvertSelection: the queue is swept first, then a conversion is built.
Convert(t, c) ==
  /\ t \in XThreads
  /\ MayPost(t)
  /\ c \notin asked
  /\ asked' = asked \cup {c}
  /\ queue' = queue \ Stale
  /\ held' = [held EXCEPT ![t] = Stale]
  /\ job' = [job EXCEPT ![t] = c]
  /\ pc' = [pc EXCEPT ![t] = "ready"]
  /\ UNCHANGED <<running, ticket, nextTicket, wake, expired, wvars, outcome>>

\* A publication or a destroy to post; each job is an object of its own.
Request(t, w) ==
  /\ MayPost(t)
  /\ w \notin asked
  /\ asked' = asked \cup {w}
  /\ job' = [job EXCEPT ![t] = w]
  /\ pc' = [pc EXCEPT ![t] = "ready"]
  /\ UNCHANGED <<running, qvars, wake, expired, held, wvars, outcome>>

\* Mutant: what has expired is refused and left in the queue.
SweepCopies(t) ==
  /\ t \in XThreads
  /\ MayPost(t)
  /\ Stale # {}
  /\ held' = [held EXCEPT ![t] = Stale]
  /\ UNCHANGED <<running, qvars, wake, asked, expired, pc, job, wvars, outcome>>

\* A ConvertSelection that posts nothing (a TARGETS, say) sweeps all the same.
Sweep(t) ==
  /\ t \in XThreads
  /\ MayPost(t)
  /\ Stale # {}
  /\ queue' = queue \ Stale
  /\ held' = [held EXCEPT ![t] = Stale]
  /\ UNCHANGED <<running, ticket, nextTicket, wake, asked, expired, pc, job, wvars, outcome>>

\* Mutant: a job nobody will run is forgotten.
PostStoppedForgets(t) ==
  /\ ~running
  /\ pc' = [pc EXCEPT ![t] = "refused"]
  /\ UNCHANGED <<qvars, held>>

PostStopped(t) ==
  /\ ~running
  /\ held' = [held EXCEPT ![t] = {job[t]}]
  /\ pc' = [pc EXCEPT ![t] = "refused"]
  /\ UNCHANGED qvars

HasRoom == Cardinality(queue \ Stale) < MaxJobs

PostFull(t) ==
  /\ running
  /\ ~HasRoom
  /\ held' = [held EXCEPT ![t] = Stale \cup {job[t]}]
  /\ pc' = [pc EXCEPT ![t] = "refused"]
  /\ queue' = queue \ Stale
  /\ UNCHANGED <<ticket, nextTicket>>

PostTaken(t) ==
  /\ running
  /\ HasRoom
  /\ held' = [held EXCEPT ![t] = Stale]
  /\ pc' = [pc EXCEPT ![t] = "taken"]
  /\ queue' = (queue \ Stale) \cup {job[t]}
  /\ ticket' = [ticket EXCEPT ![job[t]] = nextTicket]
  /\ nextTicket' = nextTicket + 1

\* The section of post under the queue lock.
Post(t) ==
  /\ pc[t] = "ready"
  /\ held[t] = {}
  /\ PostStopped(t) \/ PostFull(t) \/ PostTaken(t)
  /\ job' = [job EXCEPT ![t] = NoJob]
  /\ UNCHANGED <<running, wake, asked, expired, wvars, outcome>>

\* A thread drops, outside the lock, what it carried out of it.
Drop(t, j) ==
  /\ j \in held[t]
  /\ held' = [held EXCEPT ![t] = @ \ {j}]
  /\ DropJob(j)
  /\ UNCHANGED <<running, qvars, wake, asked, expired, pc, job, wvars>>

\* post returns, having written the eventfd only if the job was taken.
PostReturn(t) ==
  /\ pc[t] \in {"taken", "refused"}
  /\ held[t] = {}
  /\ wake' = (wake \/ pc[t] = "taken")
  /\ pc' = [pc EXCEPT ![t] = "idle"]
  /\ UNCHANGED <<running, qvars, asked, expired, job, held, wvars, outcome>>

\* Time passes: QUEUE_TIMEOUT is over for a conversion.
Expire(c) ==
  /\ c \in asked \ expired
  /\ expired' = expired \cup {c}
  /\ UNCHANGED <<running, qvars, wake, asked, xvars, wvars, outcome>>

-----------------------------------------------------------------------------
(* The Wayland thread's loop.                                              *)

\* Mutant: a batch runs in any order.
AnyOfBatch(j) == j \in batch

Oldest(j) == j \in batch /\ \A k \in batch : ticket[j] <= ticket[k]

\* Draining::new
Start ==
  /\ wpc = "unstarted"
  /\ running' = TRUE
  /\ wpc' = "dispatch"
  /\ UNCHANGED <<qvars, wake, asked, expired, xvars, batch, receiving, lastRun, outcome>>

Take ==
  /\ wpc = "dispatch"
  /\ pc[Wayland] = "idle"
  /\ batch' = queue
  /\ queue' = {}
  /\ wpc' = "run"
  /\ UNCHANGED <<running, ticket, nextTicket, wake, asked, expired, xvars, receiving, lastRun, outcome>>

RunWork(w) ==
  /\ wpc = "run"
  /\ Oldest(w)
  /\ batch' = batch \ {w}
  /\ lastRun' = ticket[w]
  /\ UNCHANGED <<running, qvars, wake, asked, expired, xvars, wpc, receiving, outcome>>

\* start_receive: refused when the offer is not the one asked about any more,
\* when too many transfers are in flight, or when there is no pipe to be had.
RunReceive(c) ==
  /\ wpc = "run"
  /\ Oldest(c)
  /\ batch' = batch \ {c}
  /\ lastRun' = ticket[c]
  /\ \/ /\ Cardinality(receiving) < MaxReceives
        /\ receiving' = receiving \cup {c}
        /\ UNCHANGED outcome
     \/ DropJob(c) /\ UNCHANGED receiving
  /\ UNCHANGED <<running, qvars, wake, asked, expired, xvars, wpc>>

\* Mutant: the eventfd is drained after the queue.
EndRunDrains ==
  /\ wpc = "run"
  /\ batch = {}
  /\ wpc' = "transfers"
  /\ wake' = FALSE
  /\ UNCHANGED <<running, qvars, asked, expired, xvars, batch, receiving, lastRun, outcome>>

EndRun ==
  /\ wpc = "run"
  /\ batch = {}
  /\ wpc' = "transfers"
  /\ UNCHANGED <<running, qvars, wake, asked, expired, xvars, batch, receiving, lastRun, outcome>>

\* A pumped transfer ends: with the value at a clean EOF, else as a refusal.
FinishReceive(c) ==
  /\ wpc = "transfers"
  /\ c \in receiving
  /\ receiving' = receiving \ {c}
  /\ \E what \in {"value", "refused"} : outcome' = Answered(c, what)
  /\ UNCHANGED <<running, qvars, wake, asked, expired, xvars, wpc, batch, lastRun>>

EndTransfers ==
  /\ wpc = "transfers"
  /\ wpc' = "poll"
  /\ UNCHANGED <<running, qvars, wake, asked, expired, xvars, batch, receiving, lastRun, outcome>>

\* poll returns and the eventfd is drained if it was seen readable; a timeout
\* that raced the write, or events already queued, leave it as it is.
PollReturn ==
  /\ wpc = "poll"
  /\ wpc' = "dispatch"
  /\ wake' \in {FALSE, wake}
  /\ UNCHANGED <<running, qvars, asked, expired, xvars, batch, receiving, lastRun, outcome>>

-----------------------------------------------------------------------------
(* The Wayland thread leaves its loop.                                     *)

\* set_running(false): stored and drained under one lock.
StopRunning ==
  /\ running' = FALSE
  /\ held' = [held EXCEPT ![Wayland] = queue]
  /\ queue' = {}
  /\ UNCHANGED <<ticket, nextTicket>>

\* The connection is lost on flush or on read: wayland_lost, then return.
WaylandLost ==
  /\ wpc = "poll"
  /\ StopRunning
  /\ wpc' = "returning"
  /\ UNCHANGED <<wake, asked, expired, pc, job, batch, receiving, lastRun, outcome>>

\* A panic unwinds the loop: first what is left of the batch is dropped.
Panic ==
  /\ wpc \in {"dispatch", "run", "transfers"}
  /\ pc[Wayland] = "idle"
  /\ held[Wayland] = {}
  /\ held' = [held EXCEPT ![Wayland] = batch]
  /\ batch' = {}
  /\ wpc' = "unwinding"
  /\ UNCHANGED <<running, qvars, wake, asked, expired, pc, job, receiving, lastRun, outcome>>

\* Draining::drop
Guard ==
  /\ wpc \in {"returning", "unwinding"}
  /\ held[Wayland] = {}
  /\ StopRunning
  /\ wpc' = "closing"
  /\ UNCHANGED <<wake, asked, expired, pc, job, batch, receiving, lastRun, outcome>>

\* Mutant: the transfers in flight are leaked.
CloseLeaking ==
  /\ wpc = "closing"
  /\ held[Wayland] = {}
  /\ receiving' = {}
  /\ wpc' = "dead"
  /\ UNCHANGED <<running, qvars, wake, asked, expired, pc, job, held, batch, lastRun, outcome>>

\* The thread's State goes, and with it the transfers still in flight.
Close ==
  /\ wpc = "closing"
  /\ held[Wayland] = {}
  /\ held' = [held EXCEPT ![Wayland] = receiving]
  /\ receiving' = {}
  /\ wpc' = "dead"
  /\ UNCHANGED <<running, qvars, wake, asked, expired, pc, job, batch, lastRun, outcome>>

-----------------------------------------------------------------------------
XNext ==
  \/ \E t \in XThreads, c \in Convs : Convert(t, c)
  \/ \E t \in Threads, w \in Works : Request(t, w)
  \/ \E t \in XThreads : Sweep(t)
  \/ \E t \in Threads : Post(t)
  \/ \E t \in Threads, j \in Jobs : Drop(t, j)
  \/ \E t \in Threads : PostReturn(t)
  \/ \E c \in Convs : Expire(c)

WNext ==
  \/ Start
  \/ Take
  \/ \E w \in Works : RunWork(w)
  \/ \E c \in Convs : RunReceive(c)
  \/ EndRun
  \/ \E c \in Convs : FinishReceive(c)
  \/ EndTransfers
  \/ PollReturn
  \/ WaylandLost
  \/ Panic
  \/ Guard
  \/ Close

Next == XNext \/ WNext

\* A thread inside post goes on to its end; nothing there waits.
PostFairness ==
  \A t \in Threads :
    /\ WF_vars(Post(t))
    /\ WF_vars(\E j \in Jobs : Drop(t, j))
    /\ WF_vars(PostReturn(t))

\* The loop never blocks for good: poll has a timeout, every transfer a budget
\* checked on each pass (RECEIVE_TIMEOUT).
LoopFairness ==
  /\ WF_vars(Take)
  /\ WF_vars(\E w \in Works : RunWork(w))
  /\ WF_vars(\E c \in Convs : RunReceive(c))
  /\ WF_vars(EndRun)
  /\ \A c \in Convs : SF_vars(FinishReceive(c))
  /\ WF_vars(EndTransfers)
  /\ WF_vars(PollReturn)
  /\ WF_vars(Guard)
  /\ WF_vars(Close)

Spec == Init /\ [][Next]_vars

FairSpec == Spec /\ PostFairness

-----------------------------------------------------------------------------
(* Properties                                                              *)

TypeOK ==
  /\ running \in BOOLEAN
  /\ queue \subseteq Jobs
  /\ ticket \in [Jobs -> Nat]
  /\ nextTicket \in Nat
  /\ wake \in BOOLEAN
  /\ asked \subseteq Jobs
  /\ expired \subseteq Jobs
  /\ pc \in [Threads -> Phases]
  /\ job \in [Threads -> Jobs \cup {NoJob}]
  /\ held \in [Threads -> SUBSET Jobs]
  /\ wpc \in {"unstarted"} \cup LoopPhases \cup ExitPhases
  /\ batch \subseteq Jobs
  /\ receiving \subseteq Convs
  /\ lastRun \in Nat
  /\ outcome \in [Convs -> Outcomes]

\* The jobs of a thread: the one it is about to post, and those it is to drop.
InHand(t) == held[t] \cup ({job[t]} \cap Jobs)

\* Every place a job can be while nobody has been told about it.
Outstanding ==
  queue \cup batch \cup receiving \cup UNION {InHand(t) : t \in Threads}

\* A requestor is never told twice, whichever of post, sweep, the loop and the
\* loop's end its conversion passes through (the FnOnce of PendingConversion).
AnsweredOnce == \A c \in Convs : outcome[c] # "twice"

\* No conversion is lost: whoever asked and has not been told is in the hands
\* of some thread, in the queue, or being transferred (PendingConversion's
\* promise that dropping it "leaves no client waiting").
NoneLost ==
  \A c \in Convs : (c \in asked /\ outcome[c] = "none") => c \in Outstanding

\* Nothing is ever in the queue of a loop that is not running: the final drain
\* is final (the comment in post on reading running under the queue lock).
NothingPastTheDrain == ~running => queue = {}

\* The queue never exceeds MAX_JOBS, nor the transfers MAX_PENDING_RECEIVES.
Bounded ==
  /\ Cardinality(queue) <= MaxJobs
  /\ Cardinality(receiving) <= MaxReceives

\* Jobs run in the order they were posted, across batches too: publications
\* reach the compositor in the order the clipboard posted them.
RunsInOrder == \A j \in queue \cup batch : ticket[j] > lastRun

\* A job in the queue while the loop is about to sleep has its wakeup written
\* or about to be: the eventfd is drained before the queue is, never after.
NoLostWakeup ==
  (wpc = "poll" /\ queue # {}) => (wake \/ \E t \in Threads : pc[t] = "taken")

\* Every client that asks is answered, whether the Wayland thread serves it,
\* refuses it, loses its connection, panics, or never ran at all.
EveryoneAnswered ==
  LoopFairness => \A c \in Convs : (c \in asked) ~> (outcome[c] # "none")

\* What a client sees of it all is one answer to each question.
Promise ==
  INSTANCE Conversions WITH
    status <- [c \in Convs |->
                 IF outcome[c] # "none" THEN outcome[c]
                 ELSE IF c \in asked THEN "pending" ELSE "unasked"]

PromiseKept == Promise!Spec
=============================================================================

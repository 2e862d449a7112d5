------------------------------ MODULE Clipboard ------------------------------
(***************************************************************************)
(* One bridged selection (bridge/clipboard.rs): who owns it, what both     *)
(* sides are told about it, and the compositor's announcements that cannot *)
(* be told from the echoes of our own publications.                        *)
(*                                                                         *)
(* The clipboard lock is taken for one method's section at a time and      *)
(* released between sections, so each section is one step, and what a      *)
(* transition leaves to do (Effects) is done in later steps, by the thread *)
(* that made it.  The threads are one per X client and the Wayland thread; *)
(* the compositor and the Wayland apps are the environment.                *)
(*                                                                         *)
(* An item is what a selection holds: a Wayland app's copy, or an X        *)
(* client's acquisition <<client, time>>, which is also the value fetched  *)
(* for it.  Times are natural numbers: a session shorter than the 2^31 ms  *)
(* over which time_cmp orders u32 times as numbers.                        *)
(***************************************************************************)
EXTENDS Naturals, Sequences, FiniteSets

CONSTANTS
  Clients,      \* X clients, each with its connection thread and its window
  Wayland,      \* the Wayland thread; also the synthetic owner window's name
  AppItems,     \* what Wayland apps may copy, each once
  TextItems,    \* those of them advertising exactly TEXT_MIMES
  Nothing,      \* no item, no owner, nothing to send
  MaxEchoes,    \* MAX_ECHOES
  MaxJobs,      \* MAX_JOBS
  MaxRequests,  \* bound: SetSelectionOwner requests of a behaviour
  MaxTime       \* bound: what the clock ticks up to

ASSUME ClipboardAssumption ==
  /\ Wayland \notin Clients
  /\ TextItems \subseteq AppItems
  /\ Nothing \notin AppItems \cup Clients \cup {Wayland}
  /\ Nothing \notin Clients \X Nat
  /\ AppItems \cap (Clients \X Nat) = {}
  /\ MaxEchoes \in Nat \ {0}
  /\ MaxJobs \in Nat \ {0}
  /\ MaxRequests \in Nat
  /\ MaxTime \in Nat

Threads == Clients \cup {Wayland}

Acquisitions == Clients \X Nat

Items == AppItems \cup Acquisitions

VARIABLES
  owner,        \* SelState::owner
  lastChanged,  \* SelState::last_changed
  echoes,       \* SelState::echoes
  published,    \* SelState::published
  publishable,  \* SelState::publishable, fixed once the device is bound
  lastStamp,    \* Inner::last_timestamp
  clock,        \* server_time_ms, the floor under it included
  running,      \* Jobs::running
  jobs,         \* the publications in the job queue
  pc,           \* where each thread is
  fx,           \* the Effects each thread has yet to apply
  pub,          \* what each thread is about to publish: an item, or Nothing
  fetches,      \* the times of the fetches each client has yet to answer
  requests,     \* SetSelectionOwner requests so far
  comp,         \* the compositor's selection
  socket,       \* set_selection requests on their way to the compositor
  announced,    \* announcements on their way to us
  copied,       \* the app items copied so far
  heard,        \* the acquisitions the watchers have been told of
  holds         \* the time each client believes it owns the selection since

lockVars == <<owner, lastChanged, echoes, published, lastStamp, clock>>
threadVars == <<pc, fx, pub>>
outside == <<comp, socket, announced, copied>>
xside == <<fetches, requests, heard, holds>>
vars == <<lockVars, publishable, running, jobs, threadVars, outside, xside>>

\* CurrentTime, which no acquisition is stamped with.
NoTime == 0

NoFx == [clear |-> Nothing, notify |-> Nothing, fetch |-> NoTime, leave |-> FALSE]

NoOwner == [kind |-> "none"]
WaylandOwner(item) == [kind |-> "wayland", item |-> item]
XOwner(c, t, has) == [kind |-> "x", client |-> c, time |-> t, data |-> has]

IsX == owner.kind = "x"

\* XOwner::is
Owns(c, t) == IsX /\ owner.client = c /\ owner.time = t

\* The acquisition of an X owner, as its SelectionClear names it.
OwnerAcq == <<owner.client, owner.time>>

\* What a conversion of the selection is served (value and offer_at).
Served ==
  CASE owner.kind = "none"    -> Nothing
    [] owner.kind = "wayland" -> owner.item
    [] owner.kind = "x"       -> IF owner.data THEN OwnerAcq ELSE Nothing

Larger(a, b) == IF a > b THEN a ELSE b

Init ==
  /\ owner = NoOwner
  /\ lastChanged = 0
  /\ echoes = <<>>
  /\ published = FALSE
  /\ publishable \in BOOLEAN
  /\ lastStamp = 0
  /\ clock = 1
  /\ running = TRUE
  /\ jobs = <<>>
  /\ pc = [t \in Threads |-> "idle"]
  /\ fx = [t \in Threads |-> NoFx]
  /\ pub = [t \in Threads |-> Nothing]
  /\ fetches = [c \in Clients |-> {}]
  /\ requests = 0
  /\ comp = Nothing
  /\ socket = <<>>
  /\ announced = <<>>
  /\ copied = {}
  /\ heard = {}
  /\ holds = [c \in Clients |-> NoTime]

-----------------------------------------------------------------------------
(* Transitions made under the lock by an X client's thread.                *)

\* Inner::changed_at
ChangedAt(t) == lastChanged' = t /\ lastStamp' = Larger(lastStamp, t)

StaleOwnerTime(t) == t > clock \/ t < lastChanged

\* Mutant: the owner displaced is not told.
ClearNobody == Nothing

\* The X owner that a SelectionClear is due to, when it is displaced.
ToClear == IF IsX THEN OwnerAcq ELSE Nothing

\* A client asks with a time of ours; only the guard of a bound is added.
MayAsk(c) == pc[c] = "idle" /\ requests < MaxRequests

XTook(c, t) ==
  /\ MayAsk(c)
  /\ ~StaleOwnerTime(t)
  /\ requests' = requests + 1
  /\ owner' = XOwner(c, t, FALSE)
  /\ ChangedAt(t)
  /\ fx' = [fx EXCEPT ![c] = [NoFx EXCEPT
              !.clear = IF IsX /\ owner.client # c THEN OwnerAcq ELSE Nothing,
              !.fetch = t]]
  /\ pc' = [pc EXCEPT ![c] = "apply"]
  /\ holds' = [holds EXCEPT ![c] = t]
  /\ UNCHANGED <<echoes, published, clock, publishable, running, jobs, pub, outside,
                 fetches, heard>>

\* Of a Wayland app's selection, a release is taken and changes nothing.
XReleased(c, t) ==
  /\ MayAsk(c)
  /\ ~StaleOwnerTime(t)
  /\ owner.kind # "wayland"
  /\ requests' = requests + 1
  /\ owner' = IF IsX THEN NoOwner ELSE owner
  /\ ChangedAt(t)
  /\ fx' = [fx EXCEPT ![c] = [NoFx EXCEPT
              !.clear = ToClear,
              !.notify = <<Nothing, t>>]]
  /\ pc' = [pc EXCEPT ![c] = IF IsX THEN "withdraw" ELSE "apply"]
  /\ UNCHANGED <<echoes, published, clock, publishable, running, jobs, pub, outside,
                 fetches, heard, holds>>

\* Mutant: the watchers hear nothing.
AcquiredInSilence(c, t) == NoFx

\* Clipboard::acquired: the watchers hear of it when the fetch is resolved.
Acquired(c, t) == [NoFx EXCEPT !.notify = <<c, t>>]

\* A fetch resolved with the owner's value.
XFetched(c, t) ==
  /\ pc[c] = "idle"
  /\ t \in fetches[c]
  /\ fetches' = [fetches EXCEPT ![c] = @ \ {t}]
  /\ IF Owns(c, t)
     THEN /\ owner' = [owner EXCEPT !.data = TRUE]
          /\ pub' = [pub EXCEPT ![c] = <<c, t>>]
          /\ fx' = [fx EXCEPT ![c] = Acquired(c, t)]
          /\ pc' = [pc EXCEPT ![c] = "publish"]
     ELSE UNCHANGED <<owner, threadVars>>
  /\ UNCHANGED <<lastChanged, echoes, published, lastStamp, clock, publishable,
                 running, jobs, outside, requests, heard, holds>>

\* A fetch resolved without one: refused, timed out, or displaced.
XFetchFailed(c, t) ==
  /\ pc[c] = "idle"
  /\ t \in fetches[c]
  /\ fetches' = [fetches EXCEPT ![c] = @ \ {t}]
  /\ IF Owns(c, t)
     THEN /\ fx' = [fx EXCEPT ![c] = Acquired(c, t)]
          /\ pc' = [pc EXCEPT ![c] = "withdraw"]
     ELSE UNCHANGED <<fx, pc>>
  /\ UNCHANGED <<lockVars, publishable, running, jobs, pub, outside, requests, heard, holds>>

\* The connection closes (leaving), and its fetches with it, or the client
\* destroys its window, and it still has to answer them.
XOwnerGone(c, leaving) ==
  /\ pc[c] = "idle"
  /\ fetches' = IF leaving THEN [fetches EXCEPT ![c] = {}] ELSE fetches
  /\ holds' = [holds EXCEPT ![c] = NoTime]
  /\ IF IsX /\ owner.client = c
     THEN /\ owner' = NoOwner
          /\ fx' = [fx EXCEPT ![c] = [NoFx EXCEPT !.notify = <<Nothing, lastChanged>>,
                                                  !.leave = leaving]]
          /\ pc' = [pc EXCEPT ![c] = "withdraw"]
     ELSE /\ pc' = [pc EXCEPT ![c] = IF leaving THEN "gone" ELSE @]
          /\ UNCHANGED <<owner, fx>>
  /\ UNCHANGED <<lastChanged, echoes, published, lastStamp, clock, publishable, running, jobs,
                 pub, outside, requests, heard>>

-----------------------------------------------------------------------------
(* Talking to the compositor: publish and withdraw, section by section.    *)

\* withdraw looks whether what the compositor shows is ours, and lets go.
Withdraw(c) ==
  /\ pc[c] = "withdraw"
  /\ pub' = [pub EXCEPT ![c] = Nothing]
  /\ pc' = [pc EXCEPT ![c] = IF published THEN "publish" ELSE "apply"]
  /\ UNCHANGED <<lockVars, publishable, running, jobs, fx, outside, xside>>

EchoOf(item) == IF item = Nothing THEN "Withdrawn" ELSE "Source"

\* A full record loses its oldest.
Capped(records) == IF Len(records) >= MaxEchoes THEN Tail(records) ELSE records

\* publish records the echo it will be owed.
RecordEcho(c) ==
  /\ pc[c] = "publish"
  /\ IF publishable
     THEN /\ echoes' = Append(Capped(echoes), EchoOf(pub[c]))
          /\ published' = (pub[c] # Nothing)
          /\ pc' = [pc EXCEPT ![c] = "post"]
     ELSE /\ pc' = [pc EXCEPT ![c] = "apply"]
          /\ UNCHANGED <<echoes, published>>
  /\ UNCHANGED <<owner, lastChanged, lastStamp, clock, publishable, running, jobs,
                 fx, pub, outside, xside>>

PostPublish(c) ==
  /\ pc[c] = "post"
  /\ IF running /\ Len(jobs) < MaxJobs
     THEN /\ jobs' = Append(jobs, pub[c])
          /\ pc' = [pc EXCEPT ![c] = "apply"]
     ELSE /\ pc' = [pc EXCEPT ![c] = "unpost"]
          /\ UNCHANGED jobs
  /\ UNCHANGED <<lockVars, publishable, running, fx, pub, outside, xside>>

\* The job was refused: the compositor owes us nothing for it.
UnrecordEcho(c) ==
  /\ pc[c] = "unpost"
  /\ echoes' = IF echoes # <<>> /\ echoes[Len(echoes)] = EchoOf(pub[c])
               THEN SubSeq(echoes, 1, Len(echoes) - 1) ELSE echoes
  /\ published' = FALSE
  /\ pc' = [pc EXCEPT ![c] = "apply"]
  /\ UNCHANGED <<owner, lastChanged, lastStamp, clock, publishable, running, jobs,
                 fx, pub, outside, xside>>

-----------------------------------------------------------------------------
(* Effects::apply: the clear, then the notification, then what the caller  *)
(* does next (a fetch of the new owner's value, or its end).               *)

SendClear(t) ==
  /\ pc[t] = "apply"
  /\ fx[t].clear # Nothing
  /\ LET c == fx[t].clear[1] IN
       holds' = IF holds[c] = fx[t].clear[2] THEN [holds EXCEPT ![c] = NoTime] ELSE holds
  /\ fx' = [fx EXCEPT ![t].clear = Nothing]
  /\ UNCHANGED <<lockVars, publishable, running, jobs, pc, pub, outside, fetches, requests,
                 heard>>

Notify(t) ==
  /\ pc[t] = "apply"
  /\ fx[t].clear = Nothing
  /\ fx[t].notify # Nothing
  /\ heard' = heard \cup ({fx[t].notify} \cap Acquisitions)
  /\ fx' = [fx EXCEPT ![t].notify = Nothing]
  /\ UNCHANGED <<lockVars, publishable, running, jobs, pc, pub, outside, fetches, requests, holds>>

Applied(t) ==
  /\ pc[t] = "apply"
  /\ fx[t].clear = Nothing
  /\ fx[t].notify = Nothing
  /\ fx' = [fx EXCEPT ![t] = NoFx]
  /\ IF fx[t].fetch # NoTime
     THEN fetches' = [fetches EXCEPT ![t] = @ \cup {fx[t].fetch}] ELSE UNCHANGED fetches
  /\ pc' = [pc EXCEPT ![t] = IF fx[t].leave THEN "gone" ELSE "idle"]
  /\ UNCHANGED <<lockVars, publishable, running, jobs, pub, outside, requests, heard, holds>>

-----------------------------------------------------------------------------
(* The Wayland thread.                                                     *)

\* SelState::take_echo: what tells an announcement of ours from an app's.
LooksLikeEcho(item) ==
  /\ echoes # <<>>
  /\ \/ Head(echoes) = "Source" /\ item \in TextItems \cup Acquisitions
     \/ Head(echoes) = "Withdrawn" /\ item = Nothing

\* Inner::next_timestamp
NextTimestamp == IF clock > lastStamp THEN clock ELSE lastStamp + 1

\* Mutant: every echo is, whoever owns the selection by now.
AbsorbedAlways(item) == LooksLikeEcho(item)

\* Mutant: only the echo of a withdrawal is.
AbsorbedWithdrawal(item) ==
  LooksLikeEcho(item) /\ item = Nothing /\ owner.kind = "none"

\* An echo that changes nothing for X.
Absorbed(item) ==
  LooksLikeEcho(item) /\ (IsX \/ (item = Nothing /\ owner.kind = "none"))

\* Mutant: the echo stays on record.
AbsorbUnrecorded ==
  LET item == Head(announced).item IN
  /\ Absorbed(item)
  /\ published' = (item # Nothing)
  /\ UNCHANGED <<owner, lastChanged, echoes, lastStamp, clock, fx, pc>>

AbsorbEcho ==
  LET item == Head(announced).item IN
  /\ Absorbed(item)
  /\ echoes' = Tail(echoes)
  /\ published' = (item # Nothing)
  /\ UNCHANGED <<owner, lastChanged, lastStamp, clock, fx, pc>>

WaylandTakes ==
  LET item == Head(announced).item
      at == NextTimestamp
  IN
  /\ ~Absorbed(item)
  /\ echoes' = IF LooksLikeEcho(item) THEN Tail(echoes) ELSE echoes
  /\ published' = (LooksLikeEcho(item) /\ item # Nothing)
  /\ lastStamp' = at
  /\ clock' = Larger(clock, at)
  /\ lastChanged' = at
  /\ owner' = IF item = Nothing THEN NoOwner ELSE WaylandOwner(item)
  /\ fx' = [fx EXCEPT ![Wayland] = [NoFx EXCEPT
              !.clear = ToClear,
              !.notify = <<IF item = Nothing THEN Nothing ELSE Wayland, at>>]]
  /\ pc' = [pc EXCEPT ![Wayland] = "apply"]

\* wayland_announced, for the next announcement the compositor sent.
WaylandAnnounced ==
  /\ running
  /\ pc[Wayland] = "idle"
  /\ announced # <<>>
  /\ announced' = Tail(announced)
  /\ AbsorbEcho \/ WaylandTakes
  /\ UNCHANGED <<publishable, running, jobs, pub, comp, socket, copied, xside>>

\* run_clip_jobs: each publication becomes a set_selection on the socket.
RunJobs ==
  /\ running
  /\ pc[Wayland] = "idle"
  /\ jobs # <<>>
  /\ socket' = socket \o jobs
  /\ jobs' = <<>>
  /\ UNCHANGED <<lockVars, publishable, running, threadVars, comp, announced, copied, xside>>

\* The compositor is lost: nothing more is announced, and jobs are refused.
WaylandLost ==
  /\ running
  /\ pc[Wayland] = "idle"
  /\ running' = FALSE
  /\ jobs' = <<>>
  /\ socket' = <<>>
  /\ announced' = <<>>
  /\ UNCHANGED <<lockVars, publishable, threadVars, comp, copied, xside>>

-----------------------------------------------------------------------------
(* The compositor, the Wayland apps, and time.                             *)

Announce(item, ours) == Append(announced, [item |-> item, ours |-> ours])

CompositorSets ==
  /\ running
  /\ socket # <<>>
  /\ comp' = Head(socket)
  /\ announced' = Announce(Head(socket), TRUE)
  /\ socket' = Tail(socket)
  /\ UNCHANGED <<lockVars, publishable, running, jobs, threadVars, copied, xside>>

AppCopies(a) ==
  /\ running
  /\ a \notin copied
  /\ copied' = copied \cup {a}
  /\ comp' = a
  /\ announced' = Announce(a, FALSE)
  /\ UNCHANGED <<lockVars, publishable, running, jobs, threadVars, socket, xside>>

\* The app whose selection it is goes away.
AppClears ==
  /\ running
  /\ comp \in AppItems
  /\ comp' = Nothing
  /\ announced' = Announce(Nothing, FALSE)
  /\ UNCHANGED <<lockVars, publishable, running, jobs, threadVars, socket, copied, xside>>

Tick ==
  /\ clock < MaxTime
  /\ clock' = clock + 1
  /\ UNCHANGED <<owner, lastChanged, echoes, published, lastStamp, publishable,
                 running, jobs, threadVars, outside, xside>>

-----------------------------------------------------------------------------
Asks(c) == \E t \in 1..clock : XTook(c, t) \/ XReleased(c, t)

FetchResolves(c) == \E t \in fetches[c] : XFetched(c, t) \/ XFetchFailed(c, t)

Goes(c) == \E leaving \in BOOLEAN : XOwnerGone(c, leaving)

Proceeds(t) == SendClear(t) \/ Notify(t) \/ Applied(t)

Publishes(c) == Withdraw(c) \/ RecordEcho(c) \/ PostPublish(c) \/ UnrecordEcho(c)

Next ==
  \/ \E c \in Clients : Asks(c) \/ FetchResolves(c) \/ Goes(c) \/ Publishes(c)
  \/ \E t \in Threads : Proceeds(t)
  \/ WaylandAnnounced \/ RunJobs \/ WaylandLost
  \/ CompositorSets \/ (\E a \in AppItems : AppCopies(a)) \/ AppClears
  \/ Tick

Spec == Init /\ [][Next]_vars

\* Threads go on with what they are doing; a fetch is answered or swept after
\* FETCH_TIMEOUT; the loop runs jobs and dispatches.
Fairness ==
  /\ \A c \in Clients : WF_vars(Publishes(c)) /\ WF_vars(FetchResolves(c))
  /\ \A t \in Threads : WF_vars(Proceeds(t))
  /\ WF_vars(WaylandAnnounced)
  /\ WF_vars(RunJobs)
  /\ WF_vars(CompositorSets)

FairSpec == Spec /\ Fairness

-----------------------------------------------------------------------------
(* Properties                                                              *)

OwnerType ==
  [kind : {"none"}]
    \cup [kind : {"wayland"}, item : Items]
    \cup [kind : {"x"}, client : Clients, time : Nat, data : BOOLEAN]

FxType ==
  [clear : Acquisitions \cup {Nothing}, notify : ((Threads \cup {Nothing}) \X Nat) \cup {Nothing},
   fetch : Nat, leave : BOOLEAN]

TypeOK ==
  /\ owner \in OwnerType
  /\ lastChanged \in Nat /\ lastStamp \in Nat /\ clock \in Nat
  /\ echoes \in Seq({"Source", "Withdrawn"}) /\ Len(echoes) <= MaxEchoes
  /\ published \in BOOLEAN /\ publishable \in BOOLEAN /\ running \in BOOLEAN
  /\ jobs \in Seq(Acquisitions \cup {Nothing})
  /\ socket \in Seq(Acquisitions \cup {Nothing})
  /\ announced \in Seq([item : Items \cup {Nothing}, ours : BOOLEAN])
  /\ pc \in [Threads -> {"idle", "withdraw", "publish", "post", "unpost", "apply", "gone"}]
  /\ fx \in [Threads -> FxType]
  /\ pub \in [Threads -> Acquisitions \cup {Nothing}]
  /\ fetches \in [Clients -> SUBSET Nat]
  /\ comp \in Items \cup {Nothing}
  /\ heard \subseteq Acquisitions
  /\ holds \in [Clients -> Nat]

\* A client that took the selection and has not been told otherwise still owns
\* it, or its SelectionClear is on some thread's way to it.
NobodyMisled ==
  \A c \in Clients : holds[c] # NoTime =>
    \/ Owns(c, holds[c])
    \/ \E t \in Threads : fx[t].clear = <<c, holds[c]>>

\* Nothing is on its way anywhere, and the compositor is there.
Settled ==
  /\ running
  /\ \A t \in Threads : pc[t] \in {"idle", "gone"}
  /\ \A c \in Clients : fetches[c] = {}
  /\ jobs = <<>> /\ socket = <<>> /\ announced = <<>>

\* Once things settle, what X is served, if anything, is what Wayland shows.
SidesAgree == (Settled /\ publishable /\ Served # Nothing) => comp = Served

\* What those of the announcements news that are ours are of, in their order.
Mine(news) ==
  LET mine[n \in 0 .. Len(news)] ==
        IF n = 0 THEN <<>>
        ELSE IF news[n].ours THEN Append(mine[n - 1], news[n].item) ELSE mine[n - 1]
  IN mine[Len(news)]

\* The announcements of ours still to come, in the order they will come.
Owed ==
  LET items == Mine(announced) \o socket \o jobs
  IN [i \in DOMAIN items |-> EchoOf(items[i])]

\* A thread between recording an echo and posting, or unrecording, its job.
Recording == {c \in Clients : pc[c] \in {"post", "unpost"}}

\* Every echo recorded is for an announcement of ours that will come, in the
\* order recorded: none is left over to take an app's later copy for ours.  Some
\* may be missing, the oldest: an app's clear is taken for our withdrawal, say.
EchoesOwed ==
  LET last(s) == \A i \in DOMAIN echoes :
                   Len(echoes) <= Len(s) /\ echoes[i] = s[i + Len(s) - Len(echoes)]
  IN running =>
       \/ last(Owed)
       \/ \E c \in Recording : last(Append(Owed, EchoOf(pub[c])))

\* The compositor's announcement of a value we published for the current X
\* owner leaves that owner in place.
EchoIsNoTakeover ==
  [][ (WaylandAnnounced /\ IsX /\ Head(announced) = [item |-> OwnerAcq, ours |-> TRUE])
        => owner' = owner ]_vars

\* Every acquisition is announced to the watchers, unless it is displaced.
AcquisitionAnnounced ==
  \A c \in Clients, t \in 1..MaxTime :
    Owns(c, t) ~> (<<c, t>> \in heard \/ ~Owns(c, t))
=============================================================================

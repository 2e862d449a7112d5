------------------------------- MODULE Serving -------------------------------
(***************************************************************************)
(* Serving an X client's ConvertSelection of one bridged selection         *)
(* (bridge/x11/conn.rs, targets.rs, wayland/data_control): what the client *)
(* is told it may ask for, which mime type its target becomes, and the     *)
(* value an app pipes out for it -- while the selection changes hands      *)
(* under every one of those steps.                                         *)
(*                                                                         *)
(* The X threads look at the owner twice, under two locks (convertible and *)
(* value); the Wayland thread looks at it when it runs the job and when    *)
(* the pipe ends; the compositor, when the request reaches it.  Nothing    *)
(* holds the selection still in between but its generation.                *)
(*                                                                         *)
(* Who owns the selection is Clipboard's subject, how a job is queued, and *)
(* refused if it never runs, ClipJobs'.  Here one X owner's transitions    *)
(* and what they publish are one step each, and an item is a copy made by  *)
(* an app or an X client: the mime types it has and its size.              *)
(***************************************************************************)
EXTENDS Integers, SequencesExt

CONSTANTS
  Convs,        \* conversions, each asked once by a thread of its own
  Targets,      \* the target names clients ask for
  MimeLists,    \* what an app may advertise
  MaxReceives,  \* MAX_PENDING_RECEIVES
  MaxBytes,     \* MAX_SELECTION_BYTES
  MaxItems      \* bound: copies in a behaviour

ASSUME ServingAssumption ==
  /\ Targets \subseteq STRING
  /\ MimeLists \subseteq Seq(STRING)
  /\ MaxReceives \in Nat \ {0}
  /\ MaxBytes \in Nat
  /\ MaxItems \in Nat

-----------------------------------------------------------------------------
(* The targets table.                                                      *)

\* What a source of ours advertises.
TextMimes ==
  <<"text/plain;charset=utf-8", "text/plain", "UTF8_STRING", "STRING", "TEXT">>

\* The mime types that are UTF-8 text, most faithful first.
Utf8Mimes == <<"text/plain;charset=utf-8", "UTF8_STRING", "text/plain", "TEXT">>

TextTargets == {"UTF8_STRING", "TEXT", "STRING"}

\* The names below that start with "text/", and those with a "/" in them.
OtherText == {"text/plain;charset=utf-8", "text/plain", "text/html"}
WithSlash == OtherText \cup {"image/png"}

NoMime == "no mime"

NotListed == -1

\* The first of a list that is among some names.
FirstOf(mimes, names) ==
  LET at == {n \in DOMAIN mimes : mimes[n] \in names}
  IN  IF at = {} THEN NoMime ELSE mimes[Min(at)]

TextMime(mimes) ==
  LET utf8 == FirstOf(Utf8Mimes, ToSet(mimes))
  IN  IF utf8 # NoMime THEN utf8 ELSE FirstOf(mimes, OtherText)

\* The mime type that a target is converted from.
resolve(target, mimes) ==
  CASE target \in TextTargets                          -> TextMime(mimes)
    [] target \in WithSlash /\ target \in ToSet(mimes) -> target
    [] OTHER                                           -> NoMime

\* What TARGETS lists.
advertised(mimes) ==
  {t \in TextTargets : resolve(t, mimes) # NoMime} \cup (ToSet(mimes) \cap WithSlash)

-----------------------------------------------------------------------------
VARIABLES
  items,    \* the copies made so far, by number
  owner,    \* SelState::owner
  gen,      \* SelState::generation
  echoes,   \* SelState::echoes
  shown,    \* SelState::published
  comp,     \* the compositor's selection: an item's number, 0 for none
  socket,   \* our requests on their way to the compositor
  wire,     \* its announcements on their way to us
  jobs,     \* the Publish and Receive jobs
  conv,     \* each conversion, as far as it has got
  pipe      \* each conversion's pipe

ownerVars == <<owner, gen, echoes, shown>>
vars == <<items, ownerVars, comp, socket, wire, jobs, conv, pipe>>

NoOwner == [kind |-> "none"]
WaylandOwner(i) == [kind |-> "wayland", item |-> i]
\* Its value is still asked for, here, or refused.
XOwner(i, value) == [kind |-> "x", item |-> i, value |-> value]

\* listed: the generation at which TARGETS listed the target, if it did.
Fresh(target) == [step |-> "unasked", target |-> target, listed |-> NotListed,
                  mime |-> NoMime, gen |-> 0, offer |-> 0]

\* Answered: refused, served at once, or delivered from the pipe.
Answered(how) == [Fresh(NoMime) EXCEPT !.step = how]

\* dropped: the compositor never passed our end on; ended: no writer is left.
FreshPipe == [sent |-> 0, dropped |-> FALSE, ended |-> FALSE]

Init ==
  /\ items = <<>>
  /\ owner = NoOwner
  /\ gen = 0
  /\ echoes = <<>>
  /\ shown = FALSE
  /\ comp = 0
  /\ socket = <<>>
  /\ wire = <<>>
  /\ jobs = <<>>
  /\ conv \in [Convs -> {Fresh(target) : target \in Targets}]
  /\ pipe = [c \in Convs |-> FreshPipe]

Enter(o) == owner' = o /\ gen' = gen + 1

Publication(i) == [kind |-> "publish", item |-> i]
Reception(c) == [kind |-> "receive", conv |-> c]

-----------------------------------------------------------------------------
(* The X owner, on its own threads.                                        *)

Publish(i) ==
  /\ echoes' = Append(echoes, IF i = 0 THEN "Withdrawn" ELSE "Source")
  /\ shown' = (i # 0)
  /\ jobs' = Append(jobs, Publication(i))

Withdraw == IF shown THEN Publish(0) ELSE UNCHANGED <<echoes, shown, jobs>>

Copy(mimes, size) == items' = Append(items, [mimes |-> mimes, size |-> size])

XTook ==
  /\ Len(items) < MaxItems
  /\ Copy(TextMimes, 1)
  /\ Enter(XOwner(Len(items'), "asked"))
  /\ UNCHANGED <<echoes, shown, comp, socket, wire, jobs, conv, pipe>>

XFetched ==
  /\ owner.kind = "x" /\ owner.value = "asked"
  /\ owner' = [owner EXCEPT !.value = "here"]
  /\ Publish(owner.item)
  /\ UNCHANGED <<items, gen, comp, socket, wire, conv, pipe>>

XFetchFailed ==
  /\ owner.kind = "x" /\ owner.value = "asked"
  /\ owner' = [owner EXCEPT !.value = "refused"]
  /\ Withdraw
  /\ UNCHANGED <<items, gen, comp, socket, wire, conv, pipe>>

XGone ==
  /\ owner.kind = "x"
  /\ Enter(NoOwner)
  /\ Withdraw
  /\ UNCHANGED <<items, comp, socket, wire, conv, pipe>>

-----------------------------------------------------------------------------
(* The compositor and the Wayland apps.                                    *)

Selects(i) == comp' = i /\ wire' = Append(wire, i)

AppCopies ==
  /\ Len(items) < MaxItems
  /\ \E mimes \in MimeLists, size \in 0..MaxBytes + 1 : Copy(mimes, size)
  /\ Selects(Len(items'))
  /\ UNCHANGED <<ownerVars, socket, jobs, conv, pipe>>

AppClears ==
  /\ comp # 0
  /\ Selects(0)
  /\ UNCHANGED <<items, ownerVars, socket, jobs, conv, pipe>>

CompositorHandles ==
  /\ socket # <<>>
  /\ socket' = Tail(socket)
  /\ LET r == Head(socket)
     IN  \/ /\ r.kind = "publish"
            /\ Selects(r.item)
            /\ UNCHANGED pipe
         \/ /\ r.kind = "receive"
            /\ LET gone == conv[r.conv].offer # comp
               IN  pipe' = [pipe EXCEPT ![r.conv].dropped = gone, ![r.conv].ended = gone]
            /\ UNCHANGED <<comp, wire>>
  /\ UNCHANGED <<items, ownerVars, jobs, conv>>

Writable(c) ==
  /\ conv[c].step = "receiving"
  /\ ~pipe[c].ended
  /\ Reception(c) \notin ToSet(socket)

\* The app, or we for a source of ours, writes on; it closes once all is written.
AppWrites(c) ==
  /\ Writable(c)
  /\ IF pipe[c].sent < items[conv[c].offer].size
       THEN pipe' = [pipe EXCEPT ![c].sent = @ + 1]
       ELSE pipe' = [pipe EXCEPT ![c].ended = TRUE]
  /\ UNCHANGED <<items, ownerVars, comp, socket, wire, jobs, conv>>

-----------------------------------------------------------------------------
(* The X threads: TARGETS, and the two looks a conversion takes.           *)

\* Mutant: an X owner's text is offered before its value is in.
ConvertibleEarly ==
  CASE owner.kind = "none"    -> <<>>
    [] owner.kind = "wayland" -> items[owner.item].mimes
    [] owner.kind = "x"       -> TextMimes

convertible ==
  CASE owner.kind = "none"    -> <<>>
    [] owner.kind = "wayland" -> items[owner.item].mimes
    [] owner.kind = "x"       -> IF owner.value = "here" THEN TextMimes ELSE <<>>

\* The client reads TARGETS before it converts.
Lists(c) ==
  /\ conv[c].step = "unasked"
  /\ conv' = [conv EXCEPT
       ![c].step = "listed",
       ![c].listed = IF conv[c].target \in advertised(convertible) THEN gen ELSE NotListed]
  /\ UNCHANGED <<items, ownerVars, comp, socket, wire, jobs, pipe>>

\* owner_window and convertible: a selection that changes hands between them
\* is one without a target to the second.
Resolves(c) ==
  /\ conv[c].step \in {"unasked", "listed"}
  /\ LET mime == resolve(conv[c].target, convertible)
     IN  conv' = [conv EXCEPT ![c] =
           IF mime = NoMime THEN Answered("refused")
           ELSE [@ EXCEPT !.step = "resolved", !.mime = mime, !.gen = gen]]
  /\ UNCHANGED <<items, ownerVars, comp, socket, wire, jobs, pipe>>

Value(c) ==
  /\ conv[c].step = "resolved"
  /\ \/ /\ owner.kind = "none" \/ (owner.kind = "x" /\ owner.value # "here")
        /\ conv' = [conv EXCEPT ![c] = Answered("refused")]
        /\ UNCHANGED jobs
     \/ /\ owner.kind = "x" /\ owner.value = "here"
        /\ conv' = [conv EXCEPT ![c] = Answered("served")]
        /\ UNCHANGED jobs
     \/ /\ owner.kind = "wayland"
        /\ conv' = [conv EXCEPT ![c].step = "posted"]
        /\ jobs' = Append(jobs, Reception(c))
  /\ UNCHANGED <<items, ownerVars, comp, socket, wire, pipe>>

-----------------------------------------------------------------------------
(* The Wayland thread.                                                     *)

take_echo(i) ==
  /\ echoes # <<>>
  /\ IF Head(echoes) = "Source" THEN i # 0 /\ items[i].mimes = TextMimes ELSE i = 0

Announced ==
  /\ wire # <<>>
  /\ wire' = Tail(wire)
  /\ LET i    == Head(wire)
         echo == take_echo(i)
     IN  /\ echoes' = IF echo THEN Tail(echoes) ELSE echoes
         /\ shown' = (echo /\ i # 0)
         /\ IF echo /\ (owner.kind = "x" \/ (i = 0 /\ owner.kind = "none"))
              THEN UNCHANGED <<owner, gen>>
              ELSE Enter(IF i = 0 THEN NoOwner ELSE WaylandOwner(i))
  /\ UNCHANGED <<items, comp, socket, jobs, conv, pipe>>

Receiving == {c \in Convs : conv[c].step = "receiving"}

offer_at(c) == owner.kind = "wayland" /\ conv[c].gen = gen

start_receive(c) ==
  IF offer_at(c) /\ Cardinality(Receiving) < MaxReceives
    THEN /\ conv' = [conv EXCEPT ![c].step = "receiving", ![c].offer = owner.item]
         /\ socket' = Append(socket, Reception(c))
    ELSE /\ conv' = [conv EXCEPT ![c] = Answered("refused")]
         /\ UNCHANGED socket

\* One job of those run_clip_jobs took; the loop flushes the socket after them.
RunJob ==
  /\ jobs # <<>>
  /\ jobs' = Tail(jobs)
  /\ LET j == Head(jobs)
     IN  \/ j.kind = "publish" /\ socket' = Append(socket, j) /\ UNCHANGED conv
         \/ j.kind = "receive" /\ start_receive(j.conv)
  /\ UNCHANGED <<items, ownerVars, comp, wire, pipe>>

\* Mutant: an empty value is as good as any.
IsCurrentAlways(c) == TRUE

is_current(c) == owner.kind = "wayland" /\ owner.item = conv[c].offer

\* How a pass over the pipe may find it: what there is is read before the end
\* is seen, and the budgets may be spent whenever the end is not.
ReadEnds(c) ==
  CASE pipe[c].sent > MaxBytes -> {"TooBig"}
    [] pipe[c].ended           -> {"Eof"}
    [] OTHER                   -> {"TooSlow", "Stalled"}

Delivers(c, end) == end = "Eof" /\ (pipe[c].sent > 0 \/ is_current(c))

\* A pass that ends a transfer, and answers.
Finish(c) ==
  /\ c \in Receiving
  /\ \E end \in ReadEnds(c) :
       conv' = [conv EXCEPT ![c] = Answered(IF Delivers(c, end) THEN "delivered" ELSE "refused")]
  /\ pipe' = [pipe EXCEPT ![c] = FreshPipe]
  /\ UNCHANGED <<items, ownerVars, comp, socket, wire, jobs>>

Next ==
  \/ XTook \/ XFetched \/ XFetchFailed \/ XGone
  \/ AppCopies \/ AppClears \/ CompositorHandles
  \/ Announced \/ RunJob
  \/ \E c \in Convs : Lists(c) \/ Resolves(c) \/ Value(c) \/ AppWrites(c) \/ Finish(c)

Spec == Init /\ [][Next]_vars

-----------------------------------------------------------------------------
(* Properties.                                                             *)

Moves(c, from, to) == conv[c].step \in from /\ conv'[c].step = to

Has(i, mime) == mime \in ToSet(items[i].mimes)

\* A conversion answered with a value is answered with all of one: every byte
\* of an item that has the mime type its target was resolved to, never the tail
\* of one cut off and never the nothing that a dropped request reads as.  Two
\* windows remain: an X owner that took the selection between the thread's two
\* looks serves its text as whatever the target became, and a request dropped
\* by the compositor is believed while the announcement that explains it is
\* still unread (fill_selection, PendingReceive::finish).
ValueFits ==
  [][\A c \in Convs :
       /\ Moves(c, {"resolved"}, "served") /\ gen = conv[c].gen
            => Has(owner.item, conv[c].mime)
       /\ Moves(c, {"receiving"}, "delivered")
            => /\ Has(conv[c].offer, conv[c].mime)
               /\ pipe[c].dropped => wire # <<>>
               /\ ~pipe[c].dropped => pipe[c].ended /\ pipe[c].sent = items[conv[c].offer].size]_vars

Kept(c) == conv[c].listed = gen

\* What TARGETS listed can be converted: while the selection has not changed
\* hands since, a target it listed is refused by neither of the thread's looks,
\* nor when its job is run but for want of room, nor when its pipe ends but for
\* an app that is too slow or has too much to say (advertised and resolve, "in
\* one table", over a selection that is moving).
ListedIsServed ==
  [][\A c \in Convs :
       /\ Moves(c, {"listed", "resolved"}, "refused") => ~Kept(c)
       /\ Moves(c, {"posted"}, "refused") /\ Kept(c) => Cardinality(Receiving) >= MaxReceives
       /\ Moves(c, {"receiving"}, "refused") /\ Kept(c)
            => ~pipe[c].ended \/ pipe[c].sent > MaxBytes]_vars
=============================================================================

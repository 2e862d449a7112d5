--------------------------- MODULE SelectionFetch ---------------------------
(***************************************************************************)
(* x11/selection.rs and its callers in x11/conn.rs: how a connection gets *)
(* the value of a selection its client has taken.  Each acquisition is    *)
(* asked for by a fetch, on a property of the fetch window of its own; the *)
(* client answers on it, whole or in chunks (INCR), refuses, or does not  *)
(* answer.  What Clipboard makes of the outcome is in that module.        *)
(*                                                                        *)
(* Fetches are numbered as they begin, and the table is in that order, so *)
(* it is the set of its fetches.  The client is the owner asked: reply[f] *)
(* is how far it has come with f.                                         *)
(***************************************************************************)
EXTENDS Integers, Sequences, FiniteSets

CONSTANTS Sels,         \* the bridged selections
          Ring,         \* FETCH_PROPERTIES
          MaxFetches,   \* MAX_FETCHES
          MaxChunks,    \* MAX_SELECTION_BYTES, in chunks
          Takes         \* bound: acquisitions

ASSUME FetchAssumption ==
  /\ Ring \in Nat \ {0} /\ MaxFetches \in Nat \ {0}
  /\ MaxChunks \in Nat /\ Takes \in Nat

VARIABLES sel,       \* the selection of each fetch begun
          fetches,   \* Selection::fetches
          incr,      \* Selection::incr: the fetch, who sent chunks, how many
          props,     \* the properties of the fetch window
          outcome,   \* what each fetch was resolved with
          reply      \* the client's side of each
vars == <<sel, fetches, incr, props, outcome, reply>>

Fetches == 1 .. Takes
\* fetch_seq, before its wrap.
begun == Len(sel)
Begun == 1 .. begun
Properties == Sels \X (0 .. Ring - 1)
Absent == [of |-> 0, incr |-> FALSE]
Contents == [of : Fetches, incr : BOOLEAN] \cup {Absent}
Pending == [how |-> "pending", from |-> {}]
Unanswered == [how |-> "unanswered", from |-> {}]
Refused == [how |-> "refused", from |-> {}]
Value(from) == [how |-> "value", from |-> from]
Outcomes == [how : {"pending", "unanswered", "refused", "value"},
             from : SUBSET Fetches]
Replies == {"unasked", "asked", "stored", "waiting", "acked", "done"}
Receives == [fetch : Begun, from : SUBSET Fetches, size : 0 .. MaxChunks]

TypeOK ==
  /\ sel \in Seq(Sels) /\ begun <= Takes
  /\ fetches \subseteq Begun
  /\ incr \subseteq Receives
  /\ props \in [Properties -> Contents]
  /\ outcome \in [Fetches -> Outcomes]
  /\ reply \in [Fetches -> Replies]

Init ==
  /\ sel = <<>> /\ fetches = {} /\ incr = {}
  /\ props = [p \in Properties |-> Absent]
  /\ outcome = [f \in Fetches |-> Pending]
  /\ reply = [f \in Fetches |-> "unasked"]

\* Mutant: one property for each selection.
PropertyOfSel(s, n) == <<s, 0>>

\* Each fetch has a property of the ring.
PropertyOf(s, n) == <<s, n % Ring>>

Property(f) == PropertyOf(sel[f], f)

Resolve(gone, what) == [f \in Fetches |-> IF f \in gone THEN what ELSE outcome[f]]

-----------------------------------------------------------------------------
(* The connection thread.                                                 *)

On(f, p) == Property(f) = p

\* The fetches that stay in the table as one on p comes: those on another
\* property, less the oldest past MAX_FETCHES.
Kept(p) ==
  LET others == {f \in fetches : ~On(f, p)}
  IN  {f \in others : Cardinality({g \in others : g > f}) < MaxFetches - 1}

\* begin_fetch: what has to be resolved then.
Displaced(p) ==
  (fetches \ Kept(p)) \cup {i.fetch : i \in {i \in incr : On(i.fetch, p)}}

\* The client takes a selection: start_fetch.
Take ==
  /\ begun < Takes
  /\ \E s \in Sels :
       LET f == begun + 1
           p == PropertyOf(s, f)
       IN  /\ sel' = Append(sel, s)
           /\ props' = [props EXCEPT ![p] = Absent]
           /\ fetches' = Kept(p) \cup {f}
           /\ incr' = {i \in incr : ~On(i.fetch, p)}
           /\ outcome' = Resolve(Displaced(p), Unanswered)
           /\ reply' = [reply EXCEPT ![f] = "asked"]

\* The fetches asked no later than f.
UpTo(f) == {g \in fetches : g <= f}

\* Mutant: chunked receives have no deadline.
SweepAsked ==
  /\ \E f \in fetches :
       /\ fetches' = fetches \ UpTo(f)
       /\ outcome' = Resolve(UpTo(f), Unanswered)
  /\ UNCHANGED <<sel, incr, props, reply>>

\* sweep_fetches: those asked first have run out of time, and any chunked
\* receive may have gone without a chunk.
Sweep ==
  /\ \E late \in {{}} \cup {UpTo(f) : f \in fetches}, idle \in SUBSET incr :
       /\ late # {} \/ idle # {}
       /\ fetches' = fetches \ late
       /\ incr' = incr \ idle
       /\ outcome' = Resolve(late \cup {i.fetch : i \in idle}, Unanswered)
  /\ UNCHANGED <<sel, props, reply>>

\* take_fetch: a refusal (no property) is of the oldest of that selection.
Matching(f, refusal) ==
  {g \in fetches : sel[g] = sel[f] /\ (refusal \/ On(g, Property(f)))}

\* handle_send_event, for a fetch given up on: nothing of it is kept.
NotWanted(f, refusal) ==
  /\ Matching(f, refusal) = {}
  /\ props' = IF refusal THEN props ELSE [props EXCEPT ![Property(f)] = Absent]
  /\ reply' = [reply EXCEPT ![f] = IF ~refusal /\ props[Property(f)].incr
                                   THEN "waiting" ELSE "done"]
  /\ UNCHANGED <<fetches, incr, outcome>>

\* handle_send_event, for the oldest fetch g the answer can be of.
Answers(f, g, refusal) ==
  LET content == props[Property(f)]
  IN  /\ g \in Matching(f, refusal)
      /\ \A h \in Matching(f, refusal) : g <= h
      /\ fetches' = fetches \ {g}
      /\ props' = IF refusal THEN props ELSE [props EXCEPT ![Property(f)] = Absent]
      /\ IF ~refusal /\ content.incr
         THEN /\ incr' = incr \cup {[fetch |-> g, from |-> {}, size |-> 0]}
              /\ reply' = [reply EXCEPT ![f] = "acked"]
              /\ UNCHANGED outcome
         ELSE /\ outcome' = Resolve({g}, IF refusal THEN Refused
                                        ELSE IF content = Absent THEN Unanswered
                                        ELSE Value({content.of}))
              /\ reply' = [reply EXCEPT ![f] = "done"]
              /\ UNCHANGED incr

\* The client's SelectionNotify for f.
Answered(f, refusal) ==
  \/ NotWanted(f, refusal)
  \/ \E g \in fetches : Answers(f, g, refusal)

TooBig(i) == i.size = MaxChunks

\* ChangeProperty on the fetch window: a chunk, if a receive is on there.
Pushed(f, empty) ==
  LET on == {i \in incr : On(i.fetch, Property(f))}
  IN  \/ /\ on = {}
         /\ props' = [props EXCEPT ![Property(f)] = [of |-> f, incr |-> FALSE]]
         /\ reply' = [reply EXCEPT ![f] = "done"]
         /\ UNCHANGED <<incr, outcome>>
      \/ \E i \in on :
           \/ /\ empty
              /\ incr' = incr \ {i}
              /\ outcome' = Resolve({i.fetch}, Value(i.from))
              /\ reply' = [reply EXCEPT ![f] = "done"]
              /\ UNCHANGED props
           \/ /\ ~empty /\ TooBig(i)
              /\ incr' = incr \ {i}
              /\ outcome' = Resolve({i.fetch}, Unanswered)
              /\ reply' = [reply EXCEPT ![f] = "waiting"]
              /\ UNCHANGED props
           \/ /\ ~empty /\ ~TooBig(i)
              /\ incr' = (incr \ {i}) \cup
                         {[i EXCEPT !.size = @ + 1, !.from = @ \cup {f}]}
              /\ UNCHANGED <<props, outcome, reply>>

-----------------------------------------------------------------------------
(* The client, one request at a time.  It may answer late, but not so late *)
(* that its property has come round again (FETCH_PROPERTIES).              *)

StillIts(f) == begun < f + Ring

\* It stores a value, or says that chunks will follow.
Store(f) ==
  /\ reply[f] = "asked" /\ StillIts(f)
  /\ \E chunked \in BOOLEAN :
       props' = [props EXCEPT ![Property(f)] = [of |-> f, incr |-> chunked]]
  /\ reply' = [reply EXCEPT ![f] = "stored"]
  /\ UNCHANGED <<sel, fetches, incr, outcome>>

\* It says it has, which is so or not.
Notify(f) ==
  /\ reply[f] \in {"asked", "stored"} /\ StillIts(f)
  /\ Answered(f, FALSE)
  /\ UNCHANGED sel

Refuse(f) ==
  /\ reply[f] = "asked"
  /\ Answered(f, TRUE)
  /\ UNCHANGED sel

\* It sends a chunk, or the empty one at the end, each once the one before
\* was acknowledged.
Chunk(f) ==
  /\ reply[f] = "acked" /\ StillIts(f)
  /\ \E empty \in BOOLEAN : Pushed(f, empty)
  /\ UNCHANGED <<sel, fetches>>

Next ==
  \/ Take \/ Sweep
  \/ \E f \in Fetches : Store(f) \/ Notify(f) \/ Refuse(f) \/ Chunk(f)

\* next_deadline: the thread waits no longer than the fetch has left.
Fairness ==
  \A f \in Fetches : WF_vars(Sweep /\ outcome[f] # outcome'[f])

Spec == Init /\ [][Next]_vars /\ Fairness

-----------------------------------------------------------------------------
(* Properties.                                                            *)

\* "Answered, refused, timed out or displaced, and never merely forgotten":
\* a fetch that began waits for its answer, receives chunks, or is resolved,
\* and is in one of these only (Selection::fetches).
OnePlace ==
  \A f \in Begun :
    /\ outcome[f] = Pending <=> f \in fetches \/ \E i \in incr : i.fetch = f
    /\ f \in fetches => \A i \in incr : i.fetch # f
    /\ \A i, j \in incr : i.fetch = f /\ j.fetch = f => i = j

\* What a fetch is resolved with is what was sent in answer to that fetch:
\* neither a late answer nor a late chunk of another reaches it, though
\* properties are used again (start_fetch, incr_push).
OwnValue ==
  \A f \in Begun : outcome[f].how = "value" => outcome[f].from \subseteq {f}

\* A fetch once resolved is not resolved again (fetched).
ResolvedOnce ==
  [][\A f \in Fetches : outcome[f] # Pending => outcome'[f] = outcome[f]]_outcome

\* A fetch is taken to be refused when it was, or when another fetch of the
\* selection was refused late or out of turn: a refusal names no property, and
\* "answers [arrive] in the order they were asked for" (take_fetch).
RefusedAsAsked ==
  [][\A f \in Begun :
       outcome[f] = Pending /\ outcome'[f] = Refused =>
         \E g \in Begun :
           /\ sel[g] = sel[f] /\ reply[g] # "done" /\ reply'[g] = "done"
           /\ g = f \/ g > f \/ outcome[g] # Pending]_vars

\* Every fetch is resolved in the end, whatever its owner does.
EveryFetchResolved ==
  \A f \in Fetches : (f \in Begun) ~> (outcome[f] # Pending)
=============================================================================

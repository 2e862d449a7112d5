----------------------------- MODULE ScreenProofs -----------------------------
(***************************************************************************)
(* What is proved of the screen behind the captures: the cursor's frames   *)
(* (Watching), and the screen model and what follows from it (Layout).     *)
(*                                                                         *)
(* CursorInv: the two sides of each cursor capture hold the same frame and *)
(* session, and the answer to an answered frame is on its way.             *)
(* FollowInv: what a thread has yet to push makes up for what the          *)
(* framebuffer, the input and the clients have missed.                     *)
(* LayoutInv: the modes are numbered, a native one is listed by the one    *)
(* output it was made for, the outputs are in place, a request on its way  *)
(* is about a mode of its own CRTC, and what is heard is what was said.    *)
(* GeometryInv: the screen's numbers are points and sizes, and every       *)
(* output on it has been heard of.                                         *)
(***************************************************************************)
EXTENDS Layout, Watching, SequenceTheorems, FiniteSetTheorems, WellFoundedInduction, TLAPS

-----------------------------------------------------------------------------
(* The cursor.  *)

\* Some element of q is one of P.
Has(q, P) == \E j \in DOMAIN q : q[j] \in P

\* Queues put one after the other.
LEMMA ConcatHas ==
  ASSUME NEW S, NEW q \in Seq(S), NEW r \in Seq(S)
  PROVE  /\ q \o r \in Seq(S)
         /\ \A P : Has(q \o r, P) <=> Has(q, P) \/ Has(r, P)
<1> DEFINE b == q \o r
<1>1. /\ b \in Seq(S) /\ Len(b) = Len(q) + Len(r) /\ Len(q) \in Nat /\ Len(r) \in Nat
      /\ DOMAIN q = 1 .. Len(q) /\ DOMAIN r = 1 .. Len(r) /\ DOMAIN b = 1 .. Len(b)
  BY LenProperties, ConcatProperties
<1>2. /\ \A j \in 1 .. Len(q) : b[j] = q[j]
      /\ \A j \in 1 .. Len(r) : b[Len(q) + j] = r[j]
  BY <1>1, ConcatProperties
<1> HIDE DEF b
<1>3. /\ \A j \in DOMAIN q : j \in DOMAIN b /\ b[j] = q[j]
      /\ \A j \in DOMAIN r : Len(q) + j \in DOMAIN b /\ b[Len(q) + j] = r[j]
  BY <1>1, <1>2
<1>4. \A j \in DOMAIN b : \/ j \in DOMAIN q /\ b[j] = q[j]
                          \/ /\ j \notin DOMAIN q
                             /\ j - Len(q) \in DOMAIN r /\ b[j] = r[j - Len(q)]
  <2> SUFFICES ASSUME NEW j \in DOMAIN b, j \notin DOMAIN q
               PROVE  j - Len(q) \in DOMAIN r /\ b[j] = r[j - Len(q)]
    BY <1>3
  <2>1. j - Len(q) \in DOMAIN r /\ Len(q) + (j - Len(q)) = j
    BY <1>1
  <2> QED BY <1>2, <1>1, <2>1
<1>5. ASSUME NEW P PROVE Has(b, P) <=> Has(q, P) \/ Has(r, P)
  BY <1>3, <1>4 DEF Has
<1> QED BY <1>1, <1>5 DEF b

\* The head of a queue is dispatched.
LEMMA TailHas ==
  ASSUME NEW S, NEW q \in Seq(S), q # <<>>
  PROVE  /\ Tail(q) \in Seq(S) /\ Head(q) \in S
         /\ \A P : Has(q, P) <=> Head(q) \in P \/ Has(Tail(q), P)
<1> DEFINE t == Tail(q)
<1>1. /\ t \in Seq(S) /\ Head(q) \in S /\ Len(t) = Len(q) - 1 /\ Len(q) \in Nat \ {0}
      /\ \A j \in 1 .. Len(t) : t[j] = q[j + 1]
  BY HeadTailProperties, EmptySeq
<1>2. DOMAIN q = 1 .. Len(q) /\ DOMAIN t = 1 .. Len(t) /\ Head(q) = q[1]
  BY <1>1
<1> HIDE DEF t
<1>3. \A j \in DOMAIN t : /\ j + 1 \in DOMAIN q /\ t[j] = q[j + 1] /\ 1 < j + 1
                          /\ \A l \in DOMAIN t : j < l => j + 1 < l + 1
  BY <1>1, <1>2
<1>4. \A j \in DOMAIN q : j = 1 \/ (j - 1 \in DOMAIN t /\ t[j - 1] = q[j])
  <2> SUFFICES ASSUME NEW j \in DOMAIN q, j # 1 PROVE j - 1 \in DOMAIN t /\ t[j - 1] = q[j]
    OBVIOUS
  <2>1. j - 1 \in DOMAIN t /\ j - 1 + 1 = j
    BY <1>1, <1>2
  <2> QED BY <1>3, <2>1
<1>5. 1 \in DOMAIN q
  BY <1>1, <1>2
<1>6. ASSUME NEW P PROVE Has(q, P) <=> Head(q) \in P \/ Has(t, P)
  <2>1. Has(q, P) => Head(q) \in P \/ Has(t, P)
    BY <1>2, <1>4 DEF Has
  <2>2. Head(q) \in P \/ Has(t, P) => Has(q, P)
    BY <1>2, <1>3, <1>5 DEF Has
  <2> QED BY <2>1, <2>2
<1> QED BY <1>1, <1>6 DEF t

\* An event of a cursor's two sessions and its frames, and an output's cursor capture.
CursorValues == Nat \cup {"constraints", "stopped", "unknown"}
CursorKinds == {"buffer_size", "shm_format", "done", "stopped", "enter", "leave", "position",
                "hotspot", "ready", "failed"}
CursorEvents == [kind : CursorKinds, frame : Nat, value : CursorValues]

Pauses == {"none", "later", "due"}

CursorCapType == [open : BOOLEAN, ready : BOOLEAN, size : CursorValues, fmt : BOOLEAN,
                  buf : CursorValues, frame : Nat, present : BOOLEAN, hot : CursorValues,
                  retry : Pauses]

CursorCompType == [session : {"none", "live", "stopped"}, frame : Nat,
                   stage : {"none", "copying", "answered"}, with : CursorValues,
                   dirty : BOOLEAN]

CursorType == [source : BOOLEAN, cap : CursorCapType, reopen : Pauses,
               comp : CursorCompType, filled : CursorValues, q : Seq(CursorEvents)]

\* The answers to frame f.
AnswersTo(f) == {e \in CursorEvents : e.frame = f /\ e.kind \in {"ready", "failed"}}

\* The two sides of a cursor capture hold the same frame and session, a session let go
\* of holds no frame, and the answer to a frame that has one is on its way.
CursorHeld(s) ==
    /\ s.comp.frame = s.cap.frame
    /\ ~s.cap.open => s.cap.frame = 0 /\ s.comp.session = "none" /\ s.comp.stage = "none"
    /\ s.comp.stage = "answered" => Has(s.q, AnswersTo(s.cap.frame))

CursorGood(s) == s \in CursorType /\ CursorHeld(s)

CursorInv ==
    /\ cur \in [Outputs -> CursorType]
    /\ \A o \in Outputs : CursorHeld(cur[o])
    /\ cursor \in Nat /\ size \in {1, 2}

\* A sequence of events is a queue.
LEMMA CursorQueues ==
  ASSUME NEW S
  PROVE  /\ <<>> \in Seq(S)
         /\ \A a \in S : <<a>> \in Seq(S)
         /\ \A a, b, c \in S : <<a, b, c>> \in Seq(S)
         /\ \A q, r \in Seq(S) : q \o r \in Seq(S)
BY ConcatProperties

\* However many events are on their way, there is a name free for a new frame.
LEMMA CursorFrameFree ==
  ASSUME NEW q \in Seq(CursorEvents), NEW a, NEW b
  PROVE  \E f \in 1 .. Len(q) + 3 : f # a /\ f # b /\ \A e \in ToSet(q) : e.frame # f
<1> DEFINE n == Len(q)
           held == [i \in 1 .. n + 2 |-> IF i <= n THEN q[i].frame ELSE IF i = n + 1 THEN a ELSE b]
           Held == {held[i] : i \in 1 .. n + 2}
<1>1. n \in Nat /\ DOMAIN q = 1 .. n
  BY LenProperties
<1> HIDE DEF n
<1>2. /\ n + 1 \in 1 .. n + 2 /\ n + 2 \in 1 .. n + 2 /\ held[n + 1] = a /\ held[n + 2] = b
      /\ \A i \in 1 .. n : i \in 1 .. n + 2 /\ held[i] = q[i].frame
  BY <1>1
<1>3. a \in Held /\ b \in Held
  BY <1>2
<1>4. ASSUME NEW e \in ToSet(q) PROVE e.frame \in Held
  <2>1. PICK i \in 1 .. n : e = q[i]
    BY <1>1, <1>4 DEF ToSet
  <2> QED BY <1>2, <2>1
<1>5. IsFiniteSet(Held) /\ Cardinality(Held) <= n + 2
  <2>1. held \in Surjection(1 .. n + 2, Held)
    <3> HIDE DEF held
    <3>1. held \in [1 .. n + 2 -> Held]
      BY DEF held
    <3> QED BY <3>1 DEF Surjection
  <2>2. n + 2 \in Nat
    BY <1>1
  <2> HIDE DEF Held, held
  <2>3. ExistsSurjection(1 .. n + 2, Held)
    BY <2>1 DEF ExistsSurjection
  <2> QED BY <2>2, <2>3, FS_SurjCardinalityBound, FS_NatSurjection
<1> HIDE DEF Held, held
<1>6. PICK f \in 1 .. n + 3 : f \notin Held
  <2> SUFFICES ASSUME 1 .. n + 3 \subseteq Held PROVE FALSE
    OBVIOUS
  <2>1. Cardinality(1 .. n + 3) <= Cardinality(Held)
    BY <1>5, FS_Subset
  <2>2. Cardinality(1 .. n + 3) = n + 3
    BY <1>1, FS_Interval
  <2>3. Cardinality(Held) \in Nat
    BY <1>5, FS_CardinalityType
  <2> QED BY <1>1, <1>5, <2>1, <2>2, <2>3
<1>7. f # a /\ f # b /\ \A e \in ToSet(q) : e.frame # f
  BY <1>3, <1>4, <1>6
<1> QED BY <1>6, <1>7 DEF n

\* ...and it is the one taken.
LEMMA FreshCursor ==
  ASSUME NEW s \in CursorType
  PROVE  FreshCursorFrame(s) \in Nat \ {0}
<1> DEFINE Free(f) == /\ f # s.comp.frame /\ f # s.cap.frame
                      /\ \A e \in ToSet(s.q) : e.frame # f
<1>1. s.q \in Seq(CursorEvents) /\ Len(s.q) \in Nat
  BY LenProperties DEF CursorType
<1>2. \E f \in 1 .. Len(s.q) + 3 : Free(f)
  BY <1>1, CursorFrameFree
<1>3. FreshCursorFrame(s) = CHOOSE f \in 1 .. Len(s.q) + 3 : Free(f)
  BY DEF FreshCursorFrame
<1> HIDE DEF Free
<1>4. FreshCursorFrame(s) \in 1 .. Len(s.q) + 3
  BY <1>2, <1>3
<1> QED BY <1>1, <1>4

\* Events are put on the way.
LEMMA CursorEmits ==
  ASSUME NEW s, CursorGood(s), NEW events \in Seq(CursorEvents)
  PROVE  LET t == Emit(s, events) IN
         CursorGood(t) /\ t.cap = s.cap /\ t.comp = s.comp /\ t.q = s.q \o events
<1> DEFINE t == [s EXCEPT !.q = @ \o events]
<1>1. s \in CursorType /\ s.q \in Seq(CursorEvents)
  BY DEF CursorGood, CursorType
<1>2. /\ s.q \o events \in Seq(CursorEvents)
      /\ \A P : Has(s.q, P) => Has(s.q \o events, P)
  BY <1>1, ConcatHas
<1>3. t \in CursorType /\ t.cap = s.cap /\ t.comp = s.comp /\ t.q = s.q \o events
  BY <1>1, <1>2 DEF CursorType
<1>4. CursorHeld(t)
  BY <1>2, <1>3 DEF CursorGood, CursorHeld
<1> QED BY <1>3, <1>4 DEF CursorGood, Emit

\* What the compositor sends are events.
LEMMA CursorSent ==
  ASSUME NEW v \in CursorValues, NEW f \in Nat
  PROVE  /\ CursorConstraints(v) \in Seq(CursorEvents) /\ Entered(v) \in Seq(CursorEvents)
         /\ <<>> \in Seq(CursorEvents)
         /\ \A k \in CursorKinds : Event(k, f, v) \in CursorEvents
                              /\ <<Event(k, f, v)>> \in Seq(CursorEvents)
<1>1. 0 \in CursorValues /\ 0 \in Nat
  BY DEF CursorValues
<1>2. \A k \in CursorKinds, g \in Nat, w \in CursorValues : Event(k, g, w) \in CursorEvents
  BY DEF Event, CursorEvents
<1>3. /\ Event("buffer_size", 0, v) \in CursorEvents /\ Event("shm_format", 0, 0) \in CursorEvents
      /\ Event("done", 0, 0) \in CursorEvents /\ Event("enter", 0, 0) \in CursorEvents
      /\ Event("position", 0, 0) \in CursorEvents /\ Event("hotspot", 0, v) \in CursorEvents
  BY <1>1, <1>2 DEF CursorKinds
<1>4. CursorConstraints(v) \in Seq(CursorEvents) /\ Entered(v) \in Seq(CursorEvents)
  BY <1>3, CursorQueues DEF CursorConstraints, Entered
<1> QED BY <1>2, <1>4, CursorQueues

\* The sides of a cursor capture of which some fields are others.
LEMMA SetCursorCap ==
  ASSUME NEW c \in CursorCapType
  PROVE  /\ [c EXCEPT !.frame = 0] \in CursorCapType
         /\ [c EXCEPT !.present = TRUE] \in CursorCapType
         /\ [c EXCEPT !.present = FALSE] \in CursorCapType
         /\ [c EXCEPT !.ready = TRUE] \in CursorCapType
         /\ [c EXCEPT !.fmt = TRUE] \in CursorCapType
         /\ \A v \in CursorValues : /\ [c EXCEPT !.hot = v] \in CursorCapType
                                    /\ [c EXCEPT !.size = v] \in CursorCapType
                                    /\ [c EXCEPT !.frame = 0, !.retry = "later", !.buf = v] \in CursorCapType
         /\ \A r \in Pauses : [c EXCEPT !.retry = r] \in CursorCapType
         /\ \A f \in Nat, v \in CursorValues :
              [c EXCEPT !.frame = f, !.buf = v, !.retry = "none"] \in CursorCapType
BY DEF CursorCapType, Pauses

LEMMA SetCursorComp ==
  ASSUME NEW c \in CursorCompType
  PROVE  /\ [c EXCEPT !.frame = 0, !.stage = "none", !.with = 0] \in CursorCompType
         /\ [c EXCEPT !.stage = "answered", !.dirty = FALSE] \in CursorCompType
         /\ [c EXCEPT !.stage = "answered"] \in CursorCompType
         /\ [c EXCEPT !.session = "stopped"] \in CursorCompType
         /\ [c EXCEPT !.dirty = TRUE] \in CursorCompType
         /\ \A f \in Nat, v \in CursorValues :
              [c EXCEPT !.frame = f, !.stage = "copying", !.with = v] \in CursorCompType
BY DEF CursorCompType, CursorValues

LEMMA CursorConstants ==
  /\ NoCap \in CursorCapType /\ NoCursor \in CursorCompType /\ NewCursor \in CursorType
  /\ [NoCap EXCEPT !.open = TRUE] \in CursorCapType
  /\ [NoCursor EXCEPT !.session = "live", !.dirty = TRUE] \in CursorCompType
<1>1. NoCap \in CursorCapType /\ NoCursor \in CursorCompType
  BY DEF NoCap, NoCursor, CursorCapType, CursorCompType, CursorValues, Pauses
<1>2. NewCursor \in CursorType
  BY <1>1, CursorQueues DEF NewCursor, CursorType, CursorValues, Pauses
<1>3. /\ [NoCap EXCEPT !.open = TRUE] \in CursorCapType
      /\ [NoCursor EXCEPT !.session = "live", !.dirty = TRUE] \in CursorCompType
  BY <1>1 DEF CursorCapType, CursorCompType
<1> QED BY <1>1, <1>2, <1>3

\* start_cursor_cap_ext.
LEMMA CursorStarts ==
  ASSUME NEW s, CursorGood(s)
  PROVE  CursorGood(StartCursor(s))
<1> DEFINE f == FreshCursorFrame(s)
           cap == [s.cap EXCEPT !.frame = f, !.buf = s.cap.size, !.retry = "none"]
           side == [s.comp EXCEPT !.frame = f, !.stage = "copying", !.with = s.cap.size]
           t == [s EXCEPT !.cap = cap, !.comp = side]
<1>1. s \in CursorType /\ s.cap \in CursorCapType /\ s.comp \in CursorCompType
      /\ s.cap.size \in CursorValues
  BY DEF CursorGood, CursorType, CursorCapType
<1>2. f \in Nat
  BY <1>1, FreshCursor
<1> HIDE DEF f
<1>3. cap \in CursorCapType /\ side \in CursorCompType
  BY <1>1, <1>2, SetCursorCap, SetCursorComp
<1>4. cap.frame = f /\ side.frame = f /\ side.stage = "copying" /\ cap.open = s.cap.open
  BY <1>1 DEF CursorCapType, CursorCompType
<1>5. StartCursor(s) = s \/ (s.cap.open /\ StartCursor(s) = t)
  BY <1>1 DEF StartCursor, f, CursorType
<1> HIDE DEF cap, side
<1>6. t \in CursorType /\ t.cap = cap /\ t.comp = side
  BY <1>1, <1>3 DEF CursorType
<1>7. s.cap.open => CursorGood(t)
  BY <1>4, <1>6 DEF CursorGood, CursorHeld
<1> QED BY <1>5, <1>7

\* cursor_frame_failed.
LEMMA CursorFrameLost ==
  ASSUME NEW s \in CursorType, s.cap.open, NEW why \in CursorValues
  PROVE  CursorGood(CursorFrameFailed(s, why))
<1> DEFINE cap == [s.cap EXCEPT !.frame = 0, !.retry = "later",
                                !.buf = IF why = "constraints" THEN 0 ELSE @]
           side == [s.comp EXCEPT !.frame = 0, !.stage = "none", !.with = 0]
           t == [s EXCEPT !.cap = cap, !.comp = side]
<1>1. s \in CursorType /\ s.cap \in CursorCapType /\ s.comp \in CursorCompType
      /\ s.cap.buf \in CursorValues /\ 0 \in CursorValues
  BY DEF CursorType, CursorCapType, CursorValues
<1>2. cap \in CursorCapType /\ side \in CursorCompType
  BY <1>1, SetCursorCap, SetCursorComp
<1>3. /\ cap.frame = 0 /\ side.frame = 0 /\ side.stage = "none"
      /\ cap.open = s.cap.open /\ side.session = s.comp.session
  BY <1>1 DEF CursorCapType, CursorCompType
<1>4. CursorFrameFailed(s, why) = t
  BY <1>1 DEF CursorFrameFailed, CancelCursorFrame, CursorType, CursorCompType, CursorCapType
<1> HIDE DEF cap, side
<1>5. t \in CursorType /\ t.cap = cap /\ t.comp = side
  BY <1>1, <1>2 DEF CursorType
<1> QED BY <1>3, <1>4, <1>5 DEF CursorGood, CursorHeld

\* The frame that is out is destroyed.
LEMMA CursorCancelled ==
  ASSUME NEW s \in CursorType, s.cap.open
  PROVE  CursorGood(CancelCursorFrame([s EXCEPT !.cap.frame = 0]))
<1> DEFINE cap == [s.cap EXCEPT !.frame = 0]
           side == [s.comp EXCEPT !.frame = 0, !.stage = "none", !.with = 0]
           t == [s EXCEPT !.cap = cap, !.comp = side]
<1>1. s \in CursorType /\ s.cap \in CursorCapType /\ s.comp \in CursorCompType
  BY DEF CursorType
<1>2. cap \in CursorCapType /\ side \in CursorCompType
  BY <1>1, SetCursorCap, SetCursorComp
<1>3. /\ cap.frame = 0 /\ side.frame = 0 /\ side.stage = "none"
      /\ cap.open = s.cap.open /\ side.session = s.comp.session
  BY <1>1 DEF CursorCapType, CursorCompType
<1>4. CancelCursorFrame([s EXCEPT !.cap.frame = 0]) = t
  BY <1>1 DEF CancelCursorFrame, CursorType, CursorCompType, CursorCapType
<1> HIDE DEF cap, side
<1>5. t \in CursorType /\ t.cap = cap /\ t.comp = side
  BY <1>1, <1>2 DEF CursorType
<1> QED BY <1>3, <1>4, <1>5 DEF CursorGood, CursorHeld

\* CursorCap::drop.
LEMMA CursorDropped ==
  ASSUME NEW s \in CursorType
  PROVE  LET t == DropCap(s) IN
         /\ CursorGood(t) /\ t.source = s.source
         /\ \A r \in Pauses : CursorGood([t EXCEPT !.reopen = r])
         /\ \A b \in BOOLEAN, r \in Pauses : CursorGood([t EXCEPT !.source = b, !.reopen = r])
<1> DEFINE t == [s EXCEPT !.cap = NoCap, !.comp = NoCursor]
           u(r) == [t EXCEPT !.reopen = r]
           v(b, r) == [t EXCEPT !.source = b, !.reopen = r]
<1>1. NoCap \in CursorCapType /\ NoCursor \in CursorCompType
  BY CursorConstants
<1>2. /\ NoCap.frame = 0 /\ NoCursor.frame = 0 /\ NoCursor.stage = "none"
      /\ NoCursor.session = "none"
  BY DEF NoCap, NoCursor
<1>3. t \in CursorType /\ t.cap = NoCap /\ t.comp = NoCursor /\ t.source = s.source
  BY <1>1 DEF CursorType
<1> HIDE DEF t
<1>4. ASSUME NEW r \in Pauses PROVE u(r) \in CursorType /\ u(r).cap = t.cap /\ u(r).comp = t.comp
  BY <1>3 DEF CursorType
<1>5. ASSUME NEW b \in BOOLEAN, NEW r \in Pauses
      PROVE  v(b, r) \in CursorType /\ v(b, r).cap = t.cap /\ v(b, r).comp = t.comp
  BY <1>3 DEF CursorType
<1> HIDE DEF u, v
<1>6. /\ CursorGood(t) /\ \A r \in Pauses : CursorGood(u(r))
      /\ \A b \in BOOLEAN, r \in Pauses : CursorGood(v(b, r))
  BY <1>2, <1>3, <1>4, <1>5 DEF CursorGood, CursorHeld
<1>7. DropCap(s) = t
  BY DEF t, DropCap
<1> QED BY <1>3, <1>6, <1>7 DEF u, v

\* CursorCap::open, of an output whose session is gone.
LEMMA CursorOpened ==
  ASSUME NEW s \in CursorType, NEW b, NEW c \in CursorValues, NEW z \in CursorValues
  PROVE  CursorGood(Open(s, b, c, z))
<1> DEFINE cap == [NoCap EXCEPT !.open = TRUE]
           side == [NoCursor EXCEPT !.session = "live", !.dirty = TRUE]
           t == [s EXCEPT !.cap = cap, !.reopen = "none", !.comp = side]
           events == CursorConstraints(z) \o IF b THEN Entered(c) ELSE <<>>
<1>1. cap \in CursorCapType /\ side \in CursorCompType
  BY CursorConstants
<1>2. cap.frame = 0 /\ cap.open /\ side.frame = 0 /\ side.stage = "none"
  BY DEF NoCap, NoCursor
<1> HIDE DEF cap, side
<1>3. t \in CursorType /\ t.cap = cap /\ t.comp = side
  BY <1>1 DEF CursorType, Pauses
<1>4. CursorGood(t)
  BY <1>2, <1>3 DEF CursorGood, CursorHeld
<1>5. events \in Seq(CursorEvents)
  <2>1. /\ CursorConstraints(z) \in Seq(CursorEvents)
        /\ Entered(c) \in Seq(CursorEvents) /\ <<>> \in Seq(CursorEvents)
    BY CursorSent
  <2> QED BY <2>1, CursorQueues
<1> HIDE DEF t, events
<1>6. CursorGood(Emit(t, events))
  BY <1>4, <1>5, CursorEmits
<1> QED BY <1>6 DEF t, events, cap, side, Open

\* tick_cursors, set_pointer and create_ext_session.
LEMMA CursorTicked ==
  ASSUME NEW s, CursorGood(s), NEW b, NEW c \in CursorValues, NEW z \in CursorValues
  PROVE  /\ CursorGood(TickCursor(s, b, c, z)) /\ CursorGood(PointerKnown(s, b, c, z))
         /\ \A opens : CursorGood(ReplaceSource(s, opens, b, c, z))
<1>1. s \in CursorType /\ CursorGood(Open(s, b, c, z)) /\ CursorGood(StartCursor(s))
  BY CursorOpened, CursorStarts DEF CursorGood
<1>2. CursorGood(TickCursor(s, b, c, z)) /\ CursorGood(PointerKnown(s, b, c, z))
  BY <1>1 DEF TickCursor, PointerKnown
<1> DEFINE t == [DropCap(s) EXCEPT !.source = TRUE, !.reopen = "none"]
<1>3. CursorGood(t)
  BY <1>1, CursorDropped DEF Pauses
<1> HIDE DEF t
<1>4. CursorGood(Open(t, b, c, z))
  BY <1>3, CursorOpened DEF CursorGood
<1>5. ASSUME NEW opens PROVE CursorGood(ReplaceSource(s, opens, b, c, z))
  BY <1>3, <1>4 DEF t, ReplaceSource
<1> QED BY <1>2, <1>5

\* A field of this side's is another, its frame and session are not.
LEMMA CursorCapSet ==
  ASSUME NEW s, CursorGood(s), NEW c \in CursorCapType, c.frame = s.cap.frame, c.open = s.cap.open
  PROVE  CursorGood([s EXCEPT !.cap = c])
<1> DEFINE t == [s EXCEPT !.cap = c]
<1>1. t \in CursorType /\ t.cap = c /\ t.comp = s.comp /\ t.q = s.q
  BY DEF CursorGood, CursorType
<1> QED BY <1>1 DEF CursorGood, CursorHeld

\* cursor_frame_event.
LEMMA CursorFrameDispatched ==
  ASSUME NEW s \in CursorType, NEW e \in CursorEvents, e.kind \in {"ready", "failed"},
         (s.cap.open /\ s.cap.frame = e.frame) \/ CursorGood(s)
  PROVE  CursorGood(CursorFrameEvent(s, e))
<1>1. e.value \in CursorValues
  BY DEF CursorEvents
<1>2. CASE s.cap.open /\ s.cap.frame = e.frame
  <2>1. CursorGood(CursorFrameReady(s))
    BY <1>2, CursorCancelled, CursorStarts DEF CursorFrameReady
  <2>2. CursorGood(CursorFrameFailed(s, e.value))
    BY <1>1, <1>2, CursorFrameLost
  <2> QED BY <1>2, <2>1, <2>2 DEF CursorFrameEvent
<1>3. CASE ~(s.cap.open /\ s.cap.frame = e.frame)
  <2>1. CursorGood(s)
    BY <1>3
  <2>2. CursorFrameEvent(s, e) = s \/ (~s.cap.open /\ CursorFrameEvent(s, e) = CancelCursorFrame(s))
    BY <1>3, <2>1 DEF CursorFrameEvent, CursorGood, CursorHeld
  <2>3. ASSUME ~s.cap.open PROVE CursorGood(CancelCursorFrame(s))
    <3> DEFINE side == [s.comp EXCEPT !.frame = 0, !.stage = "none", !.with = 0]
               t == [s EXCEPT !.comp = side]
    <3>1. s.comp \in CursorCompType
      BY DEF CursorType
    <3>2. /\ side \in CursorCompType /\ side.frame = 0 /\ side.stage = "none"
          /\ side.session = s.comp.session
      <4>1. side \in CursorCompType
        BY <3>1, SetCursorComp, Zenon
      <4> QED BY <3>1, <4>1 DEF CursorCompType
    <3>3. CancelCursorFrame(s) = t
      BY <3>1 DEF CancelCursorFrame, CursorType, CursorCompType
    <3> HIDE DEF side
    <3>4. t \in CursorType /\ t.comp = side /\ t.cap = s.cap
      BY <3>2 DEF CursorType
    <3>5. CursorHeld(s)
      BY <2>1 DEF CursorGood
    <3> HIDE DEF t
    <3>6. t.cap = s.cap /\ t.comp.frame = 0 /\ t.comp.session = s.comp.session /\ t.comp.stage = "none"
      BY <3>2, <3>4
    <3>7. s.cap.frame = 0 /\ s.comp.session = "none"
      BY <2>3, <3>5 DEF CursorHeld
    <3>8. CursorHeld(t)
      BY <3>6, <3>7 DEF CursorHeld
    <3> QED BY <3>3, <3>4, <3>8 DEF CursorGood
  <2> QED BY <2>1, <2>2, <2>3
<1> QED BY <1>2, <1>3

\* cursor_pointer_event and cursor_session_event.
LEMMA CursorSessionDispatched ==
  ASSUME NEW s, CursorGood(s), NEW e \in CursorEvents, e.kind \notin {"ready", "failed"}
  PROVE  CursorGood(CursorEvent(s, e))
<1>1. s \in CursorType /\ s.cap \in CursorCapType /\ e.value \in CursorValues
  BY DEF CursorGood, CursorType, CursorEvents
<1>2. CASE ~s.cap.open
  <2> DEFINE t == [s EXCEPT !.reopen = "later"]
  <2>1. t \in CursorType /\ t.cap = s.cap /\ t.comp = s.comp /\ t.q = s.q
    BY <1>1 DEF CursorType, Pauses
  <2>2. CursorGood(t)
    BY <2>1 DEF CursorGood, CursorHeld
  <2> QED BY <1>2, <2>2 DEF CursorEvent
<1>3. CASE s.cap.open
  <2> DEFINE SetTo(c) == [s EXCEPT !.cap = c]
  <2>1. /\ [s.cap EXCEPT !.present = TRUE] \in CursorCapType
        /\ [s.cap EXCEPT !.present = FALSE] \in CursorCapType
        /\ [s.cap EXCEPT !.hot = e.value] \in CursorCapType
        /\ [s.cap EXCEPT !.size = e.value] \in CursorCapType
        /\ [s.cap EXCEPT !.fmt = TRUE] \in CursorCapType
        /\ [s.cap EXCEPT !.ready = TRUE] \in CursorCapType
    BY <1>1, SetCursorCap
  <2>2. /\ CursorGood(SetTo([s.cap EXCEPT !.present = TRUE]))
        /\ CursorGood(SetTo([s.cap EXCEPT !.present = FALSE]))
        /\ CursorGood(SetTo([s.cap EXCEPT !.hot = e.value]))
        /\ CursorGood(SetTo([s.cap EXCEPT !.size = e.value]))
        /\ CursorGood(SetTo([s.cap EXCEPT !.fmt = TRUE]))
        /\ CursorGood(SetTo([s.cap EXCEPT !.ready = TRUE]))
    <3>1. \A c \in CursorCapType : c.frame = s.cap.frame /\ c.open = s.cap.open => CursorGood(SetTo(c))
      BY CursorCapSet
    <3> HIDE DEF SetTo
    <3> QED BY <1>1, <2>1, <3>1 DEF CursorCapType
  <2>3. /\ CursorGood(StartCursor(SetTo([s.cap EXCEPT !.present = TRUE])))
        /\ CursorGood(StartCursor(SetTo([s.cap EXCEPT !.ready = TRUE])))
    BY <2>2, CursorStarts
  <2>4. CursorGood([DropCap(s) EXCEPT !.reopen = "later"])
    BY <1>1, CursorDropped DEF Pauses
  <2>5. CASE e.kind = "enter"
    BY <1>3, <2>3, <2>5 DEF CursorEvent
  <2>6. CASE e.kind = "leave"
    BY <1>3, <2>2, <2>6 DEF CursorEvent
  <2>7. CASE e.kind = "position"
    BY <1>3, <2>7 DEF CursorEvent
  <2>8. CASE e.kind = "hotspot"
    BY <1>3, <2>2, <2>8 DEF CursorEvent
  <2>9. CASE e.kind = "buffer_size"
    BY <1>3, <2>2, <2>9 DEF CursorEvent
  <2>10. CASE e.kind = "shm_format"
    BY <1>3, <2>2, <2>10 DEF CursorEvent
  <2>11. CASE e.kind = "done"
    BY <1>3, <2>3, <2>11 DEF CursorEvent
  <2>12. CASE e.kind = "stopped"
    BY <1>3, <2>4, <2>12 DEF CursorEvent
  <2> QED BY <2>5, <2>6, <2>7, <2>8, <2>9, <2>10, <2>11, <2>12 DEF CursorEvents, CursorKinds
<1> QED BY <1>2, <1>3

\* The event at the head of the queue.
LEMMA CursorDispatched ==
  ASSUME NEW s, CursorGood(s), s.q # <<>>
  PROVE  CursorGood(CursorDispatch(s))
<1> DEFINE e == Head(s.q)
           t == [s EXCEPT !.q = Tail(@)]
<1>1. s \in CursorType /\ s.q \in Seq(CursorEvents)
  BY DEF CursorGood, CursorType
<1>2. /\ e \in CursorEvents /\ Tail(s.q) \in Seq(CursorEvents)
      /\ \A P : Has(s.q, P) <=> e \in P \/ Has(Tail(s.q), P)
  BY <1>1, TailHas
<1>3. t \in CursorType /\ t.cap = s.cap /\ t.comp = s.comp /\ t.q = Tail(s.q)
  BY <1>1, <1>2 DEF CursorType
<1> HIDE DEF e, t
<1>4. (e \in AnswersTo(s.cap.frame) /\ s.cap.open) \/ CursorGood(t)
  BY <1>2, <1>3 DEF CursorGood, CursorHeld
<1>5. CASE e.kind \in {"ready", "failed"}
  <2>1. (t.cap.open /\ t.cap.frame = e.frame) \/ CursorGood(t)
    BY <1>3, <1>4 DEF AnswersTo
  <2>2. CursorGood(CursorFrameEvent(t, e))
    BY <1>2, <1>3, <1>5, <2>1, CursorFrameDispatched
  <2> QED BY <1>5, <2>2 DEF CursorDispatch, e, t
<1>6. CASE e.kind \notin {"ready", "failed"}
  <2>1. CursorGood(t)
    BY <1>4, <1>6 DEF AnswersTo
  <2>2. CursorGood(CursorEvent(t, e))
    BY <1>2, <1>6, <2>1, CursorSessionDispatched
  <2> QED BY <1>6, <2>2 DEF CursorDispatch, e, t
<1> QED BY <1>5, <1>6

\* The compositor's side is another, and answers the frame that is out.
LEMMA CursorCompAnswers ==
  ASSUME NEW s, CursorGood(s), s.cap.open, NEW c \in CursorCompType, NEW fill \in CursorValues,
         c.frame = s.comp.frame, NEW e \in AnswersTo(s.comp.frame)
  PROVE  CursorGood(Emit([s EXCEPT !.comp = c, !.filled = fill], <<e>>))
<1> DEFINE q == s.q \o <<e>>
           t == [s EXCEPT !.comp = c, !.filled = fill, !.q = q]
<1>1. s \in CursorType /\ s.q \in Seq(CursorEvents) /\ e \in CursorEvents
  BY DEF CursorGood, CursorType, AnswersTo
<1>2. <<e>> \in Seq(CursorEvents) /\ Has(<<e>>, AnswersTo(s.comp.frame))
  <2> DEFINE r == <<e>>
  <2>1. r \in Seq(CursorEvents) /\ Len(r) = 1 /\ r[1] = e
    BY <1>1
  <2>2. DOMAIN r = 1 .. 1
    BY <2>1
  <2> HIDE DEF r, AnswersTo
  <2>3. Has(r, AnswersTo(s.comp.frame))
    BY <2>1, <2>2 DEF Has
  <2> QED BY <2>1, <2>3 DEF r
<1>3. q \in Seq(CursorEvents) /\ Has(q, AnswersTo(s.comp.frame))
  BY <1>1, <1>2, ConcatHas
<1> HIDE DEF q
<1>4. t \in CursorType /\ t.comp = c /\ t.cap = s.cap /\ t.q = q
  BY <1>1, <1>3 DEF CursorType
<1>5. Emit([s EXCEPT !.comp = c, !.filled = fill], <<e>>) = t
  BY <1>1 DEF Emit, q, CursorType
<1> QED BY <1>3, <1>4, <1>5 DEF CursorGood, CursorHeld

LEMMA CursorAnswered ==
  ASSUME NEW s, CursorGood(s), s.comp.stage = "copying"
  PROVE  /\ \A c \in CursorValues : CursorGood(CursorCopied(s, c))
         /\ \A why \in CursorValues : CursorGood(CursorFails(s, why))
<1>1. /\ s \in CursorType /\ s.comp \in CursorCompType /\ s.comp.frame \in Nat /\ s.cap.open
      /\ s.filled \in CursorValues /\ 0 \in CursorValues
  BY DEF CursorGood, CursorHeld, CursorType, CursorCompType, CursorValues
<1>2. ASSUME NEW c \in CursorValues PROVE CursorGood(CursorCopied(s, c))
  <2> DEFINE side == [s.comp EXCEPT !.stage = "answered", !.dirty = FALSE]
             t == [s EXCEPT !.comp = side, !.filled = c]
             e == Event("ready", s.comp.frame, 0)
  <2>1. side \in CursorCompType /\ side.frame = s.comp.frame
    BY <1>1, SetCursorComp DEF CursorCompType
  <2>2. e \in AnswersTo(s.comp.frame)
    BY <1>1 DEF Event, AnswersTo, CursorEvents, CursorKinds
  <2>3. CursorCopied(s, c) = Emit(t, <<e>>)
    BY <1>1 DEF CursorCopied, Emit, CursorType, CursorCompType
  <2> HIDE DEF side, e
  <2> QED BY <1>1, <2>1, <2>2, <2>3, CursorCompAnswers
<1>3. ASSUME NEW why \in CursorValues PROVE CursorGood(CursorFails(s, why))
  <2> DEFINE side == [s.comp EXCEPT !.stage = "answered"]
             t == [s EXCEPT !.comp = side, !.filled = s.filled]
             e == Event("failed", s.comp.frame, why)
  <2>1. side \in CursorCompType /\ side.frame = s.comp.frame
    BY <1>1, SetCursorComp DEF CursorCompType
  <2>2. e \in AnswersTo(s.comp.frame)
    BY <1>1 DEF Event, AnswersTo, CursorEvents, CursorKinds
  <2>3. CursorFails(s, why) = Emit(t, <<e>>)
    BY <1>1 DEF CursorFails, Emit, CursorType, CursorCompType
  <2> HIDE DEF side, e
  <2>4. \A fill \in CursorValues :
           CursorGood(Emit([s EXCEPT !.comp = side, !.filled = fill], <<e>>))
    BY <1>1, <2>1, <2>2, CursorCompAnswers
  <2>5. CursorGood(Emit(t, <<e>>))
    BY <1>1, <2>4
  <2> QED BY <2>3, <2>5
<1> QED BY <1>2, <1>3

\* The compositor's session is another, of the same frame.
LEMMA CursorCompSet ==
  ASSUME NEW s, CursorGood(s), NEW c \in CursorCompType, s.cap.open,
         c.frame = s.comp.frame, c.stage = s.comp.stage
  PROVE  LET t == [s EXCEPT !.comp = c] IN CursorGood(t) /\ t.comp = c
<1> DEFINE t == [s EXCEPT !.comp = c]
<1>1. t \in CursorType /\ t.comp = c /\ t.cap = s.cap /\ t.q = s.q
  BY DEF CursorGood, CursorType
<1> QED BY <1>1 DEF CursorGood, CursorHeld

LEMMA CursorStopped ==
  ASSUME NEW s, CursorGood(s), s.comp.session = "live", NEW first \in BOOLEAN
  PROVE  CursorGood(CursorStops(s, first))
<1> DEFINE side == [s.comp EXCEPT !.session = "stopped"]
           t == [s EXCEPT !.comp = side]
           stopped == <<Event("stopped", 0, 0)>>
<1>1. s \in CursorType /\ s.comp \in CursorCompType /\ s.cap.open
  BY DEF CursorGood, CursorHeld, CursorType
<1>2. side \in CursorCompType /\ side.frame = s.comp.frame /\ side.stage = s.comp.stage
  BY <1>1, SetCursorComp, ZenonT(30) DEF CursorCompType
<1>3. CursorGood(t) /\ t.comp = side
  BY <1>1, <1>2, CursorCompSet
<1>4. stopped \in Seq(CursorEvents)
  BY CursorSent DEF CursorKinds, CursorValues
<1> HIDE DEF t, stopped
<1>5. CursorGood(Emit(t, stopped)) /\ Emit(t, stopped).comp = side
  BY <1>3, <1>4, CursorEmits
<1>6. ASSUME s.comp.stage = "copying"
      PROVE  /\ CursorGood(CursorFails(Emit(t, stopped), "stopped"))
             /\ CursorGood(Emit(CursorFails(t, "stopped"), stopped))
  <2>1. "stopped" \in CursorValues
    BY DEF CursorValues
  <2>2. CursorGood(CursorFails(Emit(t, stopped), "stopped")) /\ CursorGood(CursorFails(t, "stopped"))
    BY <1>2, <1>3, <1>5, <1>6, <2>1, CursorAnswered
  <2> QED BY <1>4, <2>2, CursorEmits
<1>7. /\ s.comp.stage # "copying" => CursorStops(s, first) = Emit(t, stopped)
      /\ \/ CursorStops(s, first) = Emit(t, stopped)
         \/ CursorStops(s, first) = CursorFails(Emit(t, stopped), "stopped")
         \/ CursorStops(s, first) = Emit(CursorFails(t, "stopped"), stopped)
  <2>1. t = [s EXCEPT !.comp.session = "stopped"]
    BY DEF t
  <2>2. t.comp.stage = s.comp.stage
    BY <1>2, <1>3
  <2> QED BY <2>1, <2>2 DEF CursorStops, stopped
<1> QED BY <1>5, <1>6, <1>7

LEMMA CursorChanged ==
  ASSUME NEW s, CursorGood(s), NEW b, NEW c \in CursorValues, NEW z \in CursorValues, NEW r
  PROVE  CursorGood(CursorChanges(s, b, c, z, r))
<1>1. CASE s.comp.session # "live"
  BY <1>1 DEF CursorChanges
<1>2. CASE s.comp.session = "live"
  <2> DEFINE side == [s.comp EXCEPT !.dirty = TRUE]
             t == [s EXCEPT !.comp = side]
             one == IF r THEN CursorConstraints(z) ELSE <<>>
             two == IF b THEN <<Event("hotspot", 0, c)>> ELSE <<>>
  <2>1. s \in CursorType /\ s.comp \in CursorCompType /\ s.cap.open
    BY <1>2 DEF CursorGood, CursorHeld, CursorType
  <2>2. side \in CursorCompType /\ side.frame = s.comp.frame /\ side.stage = s.comp.stage
    BY <2>1, SetCursorComp DEF CursorCompType
  <2>3. CursorGood(t)
    BY <2>1, <2>2, CursorCompSet
  <2>4. one \in Seq(CursorEvents) /\ two \in Seq(CursorEvents)
    BY CursorSent DEF CursorKinds
  <2> HIDE DEF t, one, two
  <2>5. CursorGood(Emit(t, one \o two))
    BY <2>3, <2>4, CursorEmits, CursorQueues
  <2> QED BY <1>2, <2>5 DEF t, one, two, CursorChanges
<1> QED BY <1>1, <1>2

\* A pause passes.
LEMMA CursorWaited ==
  ASSUME NEW s, CursorGood(s)
  PROVE  CursorGood([s EXCEPT !.reopen = Later(@), !.cap.retry = Later(@)])
<1> DEFINE cap == [s.cap EXCEPT !.retry = Later(@)]
           t == [s EXCEPT !.cap = cap]
           u == [t EXCEPT !.reopen = Later(@)]
<1>1. s \in CursorType /\ s.cap \in CursorCapType /\ s.cap.retry \in Pauses /\ s.reopen \in Pauses
  BY DEF CursorGood, CursorType, CursorCapType
<1>2. \A r \in Pauses : Later(r) \in Pauses
  BY DEF Later, Pauses
<1>3. cap \in CursorCapType /\ cap.frame = s.cap.frame /\ cap.open = s.cap.open
  BY <1>1, <1>2, SetCursorCap DEF CursorCapType
<1> HIDE DEF cap
<1>4. CursorGood(t) /\ t.reopen = s.reopen
  BY <1>1, <1>3, CursorCapSet DEF CursorType
<1> HIDE DEF t
<1>5. u \in CursorType /\ u.cap = t.cap /\ u.comp = t.comp /\ u.q = t.q
  BY <1>1, <1>2, <1>4 DEF CursorGood, CursorType
<1>6. CursorGood(u)
  BY <1>4, <1>5 DEF CursorGood, CursorHeld
<1>7. u = [s EXCEPT !.reopen = Later(@), !.cap.retry = Later(@)]
  BY <1>1 DEF u, t, cap, CursorType
<1> QED BY <1>6, <1>7

\* A step of one output's capture, and of several.
LEMMA CursorOne ==
  ASSUME CursorInv, NEW o \in Outputs, NEW s, CursorGood(s), cur' = [cur EXCEPT ![o] = s],
         cursor' \in Nat, size' \in {1, 2}
  PROVE  CursorInv'
BY DEF CursorInv, CursorGood

LEMMA CursorAll ==
  ASSUME NEW new, cur' = [o \in Outputs |-> new[o]], \A o \in Outputs : CursorGood(new[o]),
         cursor' \in Nat, size' \in {1, 2}
  PROVE  CursorInv'
BY DEF CursorInv, CursorGood

LEMMA CursorInit ==
  WatchInit => CursorInv
<1> SUFFICES ASSUME WatchInit PROVE CursorInv
  OBVIOUS
<1>1. NewCursor \in CursorType
  BY CursorConstants
<1>2. CursorHeld(NewCursor)
  BY DEF NewCursor, NoCap, NoCursor, CursorHeld
<1> QED BY <1>1, <1>2 DEF WatchInit, CursorInv

LEMMA CursorNext ==
  CursorInv /\ [WatchNext]_watchVars => CursorInv'
<1> SUFFICES ASSUME CursorInv, [WatchNext]_watchVars PROVE CursorInv'
  OBVIOUS
<1>1. /\ \A o \in Outputs : CursorGood(cur[o]) /\ cur[o] \in CursorType
      /\ cur \in [Outputs -> CursorType] /\ cursor \in Nat /\ size \in {1, 2}
      /\ cursor \in CursorValues /\ size \in CursorValues
  BY DEF CursorInv, CursorGood, CursorValues
<1>2. ASSUME UNCHANGED <<caps, cursor, size>> PROVE CursorInv'
  BY <1>2 DEF caps, CursorInv
<1>3. ASSUME NEW o \in Outputs, AddOutput(o) \/ DispatchPower(o) \/ PowerTrouble(o)
      PROVE  CursorInv'
  BY <1>2, <1>3 DEF AddOutput, DispatchPower, PowerTrouble
<1>4. CASE AddManager \/ Watch
  BY <1>2, <1>4 DEF AddManager, Watch
<1>5. ASSUME NEW o \in Outputs, RemoveOutput(o) PROVE CursorInv'
  <2> DEFINE t == [DropCap(cur[o]) EXCEPT !.source = FALSE, !.reopen = "none"]
  <2>1. CursorGood(t)
    BY <1>1, CursorDropped DEF Pauses
  <2>2. cur' = [cur EXCEPT ![o] = t] /\ UNCHANGED <<cursor, size>>
    BY <1>5 DEF RemoveOutput, Become
  <2> HIDE DEF t
  <2> QED BY <1>1, <2>1, <2>2, CursorOne
<1>6. ASSUME NEW o \in Outputs, OpenSource(o) \/ RestartSource(o) PROVE CursorInv'
  <2> DEFINE t == ReplaceSource(cur[o], pointer /\ ~Baked, on = o, cursor, size)
  <2>1. CursorGood(t)
    BY <1>1, CursorTicked
  <2>2. cur' = [cur EXCEPT ![o] = t] /\ UNCHANGED <<cursor, size>>
    BY <1>6 DEF OpenSource, RestartSource, Become
  <2> HIDE DEF t
  <2> QED BY <1>1, <2>1, <2>2, CursorOne
<1>7. CASE SetPointer
  <2> DEFINE new == [o \in Outputs |->
                        IF Baked THEN cur[o] ELSE PointerKnown(cur[o], on = o, cursor, size)]
  <2>1. \A o \in Outputs : CursorGood(new[o])
    BY <1>1, CursorTicked
  <2>2. cur' = new /\ UNCHANGED <<cursor, size>>
    BY <1>7 DEF SetPointer, Become
  <2>3. new = [o \in Outputs |-> new[o]]
    OBVIOUS
  <2> HIDE DEF new
  <2> QED BY <1>1, <2>1, <2>2, <2>3, CursorAll
<1>8. CASE Tick
  <2> DEFINE new == [o \in Outputs |->
                        IF watched /\ pointer /\ ~Baked
                        THEN TickCursor(cur[o], on = o, cursor, size) ELSE cur[o]]
  <2>1. \A o \in Outputs : CursorGood(new[o])
    BY <1>1, CursorTicked
  <2>2. cur' = new /\ UNCHANGED <<cursor, size>>
    BY <1>8 DEF Tick, Become
  <2>3. new = [o \in Outputs |-> new[o]]
    OBVIOUS
  <2> HIDE DEF new
  <2> QED BY <1>1, <2>1, <2>2, <2>3, CursorAll
<1>9. ASSUME NEW o \in Outputs, DispatchCursor(o) PROVE CursorInv'
  <2>1. cur[o].q # <<>> /\ cur' = [cur EXCEPT ![o] = CursorDispatch(cur[o])] /\ UNCHANGED <<cursor, size>>
    BY <1>9 DEF DispatchCursor
  <2>2. CursorGood(CursorDispatch(cur[o]))
    BY <1>1, <2>1, CursorDispatched
  <2> QED BY <1>1, <2>1, <2>2, CursorOne
<1>10. ASSUME NEW o \in Outputs, TimePasses(o) PROVE CursorInv'
  <2> DEFINE t == [cur[o] EXCEPT !.reopen = Later(@), !.cap.retry = Later(@)]
  <2>1. CursorGood(t)
    BY <1>1, CursorWaited
  <2>2. cur' = [cur EXCEPT ![o] = t] /\ UNCHANGED <<cursor, size>>
    BY <1>1, <1>10 DEF TimePasses, Become
  <2> HIDE DEF t
  <2> QED BY <1>1, <2>1, <2>2, CursorOne
<1>11. ASSUME NEW o \in Outputs, CursorAnswers(o) PROVE CursorInv'
  <2>1. /\ cur[o].comp.stage = "copying" /\ UNCHANGED <<cursor, size>>
        /\ \/ cur' = [cur EXCEPT ![o] = CursorCopied(cur[o], cursor)]
           \/ cur' = [cur EXCEPT ![o] = CursorFails(cur[o], "constraints")]
           \/ cur' = [cur EXCEPT ![o] = CursorFails(cur[o], "stopped")]
    BY <1>11 DEF CursorAnswers, CursorCopies, Become
  <2>2. /\ CursorGood(CursorCopied(cur[o], cursor))
        /\ CursorGood(CursorFails(cur[o], "constraints"))
        /\ CursorGood(CursorFails(cur[o], "stopped"))
    BY <1>1, <2>1, CursorAnswered DEF CursorValues
  <2> QED BY <1>1, <2>1, <2>2, CursorOne
<1>12. ASSUME NEW o \in Outputs, CursorTrouble(o) PROVE CursorInv'
  <2>1. UNCHANGED <<cursor, size>>
    BY <1>12 DEF CursorTrouble
  <2>2. ASSUME cur[o].comp.stage = "copying", cur' = [cur EXCEPT ![o] = CursorFails(cur[o], "unknown")]
        PROVE  CursorInv'
    <3>1. CursorGood(CursorFails(cur[o], "unknown"))
      BY <1>1, <2>2, CursorAnswered DEF CursorValues
    <3> QED BY <1>1, <2>1, <2>2, <3>1, CursorOne
  <2>3. ASSUME NEW first \in BOOLEAN, cur[o].comp.session = "live",
               cur' = [cur EXCEPT ![o] = CursorStops(cur[o], first)]
        PROVE  CursorInv'
    <3>1. CursorGood(CursorStops(cur[o], first))
      BY <1>1, <2>3, CursorStopped
    <3> QED BY <1>1, <2>1, <2>3, <3>1, CursorOne
  <2> QED BY <1>12, <2>2, <2>3 DEF CursorTrouble, Become
<1>13. ASSUME NEW resized \in BOOLEAN, CursorChange(resized) PROVE CursorInv'
  <2> DEFINE new == [o \in Outputs |-> CursorChanges(cur[o], on = o, cursor', size', resized)]
  <2>1. cur' = new /\ cursor' = cursor + 1 /\ size' = IF resized THEN 3 - size ELSE size
    BY <1>13 DEF CursorChange, Become
  <2>2. cursor' \in Nat /\ size' \in {1, 2} /\ cursor' \in CursorValues /\ size' \in CursorValues
    BY <1>1, <2>1 DEF CursorValues
  <2>3. \A o \in Outputs : CursorGood(new[o])
    BY <1>1, <2>2, CursorChanged
  <2>4. new = [o \in Outputs |-> new[o]]
    OBVIOUS
  <2> HIDE DEF new
  <2> QED BY <2>1, <2>2, <2>3, <2>4, CursorAll
<1>14. ASSUME NEW o \in Outputs, PointerMoves(o) PROVE CursorInv'
  <2> DEFINE left == <<Event("leave", 0, 0)>>
             new == [p \in Outputs |->
                        IF cur[p].comp.session # "live" THEN cur[p]
                        ELSE IF p = o THEN Emit(cur[p], Entered(cursor))
                        ELSE IF p = on THEN Emit(cur[p], left) ELSE cur[p]]
  <2>1. cur' = new /\ UNCHANGED <<cursor, size>>
    BY <1>14 DEF PointerMoves, Become
  <2>2. Entered(cursor) \in Seq(CursorEvents) /\ left \in Seq(CursorEvents)
    BY <1>1, CursorSent DEF CursorKinds, CursorValues
  <2> HIDE DEF left
  <2>3. \A p \in Outputs : /\ CursorGood(Emit(cur[p], Entered(cursor)))
                           /\ CursorGood(Emit(cur[p], left))
    BY <1>1, <2>2, CursorEmits
  <2>4. \A p \in Outputs : CursorGood(new[p])
    BY <1>1, <2>3
  <2>5. new = [p \in Outputs |-> new[p]]
    OBVIOUS
  <2> HIDE DEF new
  <2> QED BY <1>1, <2>1, <2>4, <2>5, CursorAll
<1>15. CASE UNCHANGED watchVars
  BY <1>2, <1>15 DEF watchVars
<1>16. CASE WaylandThread
  BY <1>3, <1>4, <1>5, <1>6, <1>7, <1>8, <1>9, <1>16 DEF WaylandThread
<1>17. CASE Compositor
  BY <1>3, <1>11, <1>12, <1>13, <1>14, <1>17 DEF Compositor
<1> QED BY <1>4, <1>10, <1>15, <1>16, <1>17 DEF WatchNext

LEMMA CursorAccounts ==
  CursorInv => CursorFramesAccounted
<1> SUFFICES ASSUME CursorInv, NEW o \in Outputs
             PROVE  /\ cur[o].comp.frame = cur[o].cap.frame
                    /\ cur[o].comp.session # "none" => cur[o].cap.open
                    /\ cur[o].comp.stage = "answered" =>
                          \E e \in ToSet(cur[o].q) : /\ e.frame = cur[o].cap.frame
                                                       /\ e.kind \in {"ready", "failed"}
  BY DEF CursorFramesAccounted
<1>1. CursorHeld(cur[o])
  BY DEF CursorInv
<1>2. \A q, f : Has(q, AnswersTo(f)) =>
         \E e \in ToSet(q) : e.frame = f /\ e.kind \in {"ready", "failed"}
  BY DEF Has, AnswersTo, ToSet
<1> QED BY <1>1, <1>2 DEF CursorHeld

\* The compositor and this side hold the same cursor frame and session, and a frame
\* that was answered has its answer on the way (CursorCap, cursor_frame_event,
\* cursor_session_event): for any outputs, however sessions and pointers come and go
\* and frames fail, as often as they do.
THEOREM CursorFramesAlwaysAccounted ==
  WatchSpec => []CursorFramesAccounted
<1>1. WatchInit => CursorInv
  BY CursorInit
<1>2. CursorInv /\ [WatchNext]_watchVars => CursorInv'
  BY CursorNext
<1>3. CursorInv => CursorFramesAccounted
  BY CursorAccounts
<1> QED BY <1>1, <1>2, <1>3, PTL DEF WatchSpec

-----------------------------------------------------------------------------
(* What follows from the screen.  *)

\* The pushes of sync_screen.
PushKinds == {"snapshot", "framebuffer", "input", "clients"}

Due(t, what) == Has(todo[t], {what})

\* A push is made of the copy it begins with, and after it.
PushQueue(q) ==
    /\ q \in Seq(PushKinds)
    /\ \A j \in DOMAIN q : q[j] = "snapshot" => j = 1
    /\ Has(q, {"snapshot"}) => Has(q, {"framebuffer"}) /\ Has(q, {"input"})

\* The copy of a screen.
Copy(s) == [size |-> s.size, rects |-> LayoutRects(s)]

\* The fields of the screen model's records.
ScreenFields == {"size", "next", "modes", "outputs"}
OutputFields == {"wl", "crtc", "pos", "size", "at", "log", "mode", "listed"}

ScreenShape(s) ==
    /\ DOMAIN s = ScreenFields
    /\ \A n \in DOMAIN s.outputs : DOMAIN s.outputs[n] = OutputFields

\* One thread pushes at most, from a copy of the screen as it is; and what does not
\* agree with the screen it has yet to push.
Follows ==
    /\ \A t, u \in Threads : Pushing(t) /\ Pushing(u) => t = u
    /\ \A t \in Threads : Pushing(t) /\ ~Due(t, "snapshot") => snap[t] = Copy(screen)
    /\ fb = screen.size \/ \E t \in Threads : Due(t, "framebuffer")
    /\ \/ rects = LayoutRects(screen) /\ geometry = screen.size
       \/ \E t \in Threads : Due(t, "input")
    /\ told = screen.size \/ \E t \in Threads : Due(t, "clients")

FollowInv ==
    /\ todo = [t \in Threads |-> todo[t]] /\ snap = [t \in Threads |-> snap[t]]
    /\ \A t \in Threads : PushQueue(todo[t])
    /\ ScreenShape(screen)
    /\ ~behind => Follows

\* Operations that put every output where it goes make a screen of any.
LEMMA RelaidShape ==
  ASSUME NEW s
  PROVE  ScreenShape(Bounded(Relayout(s)))
<1> DEFINE at(n) == <<Packed(s.outputs, 1)[n], Packed(s.outputs, 2)[n]>>
           os == [n \in DOMAIN s.outputs |-> PlacedAt(s.outputs[n], at(n))]
           t == Relayout(s)
<1>1. t = [size |-> s.size, next |-> s.next, modes |-> s.modes, outputs |-> os]
  BY DEF Relayout
<1>2. \A o, pos : DOMAIN PlacedAt(o, pos) = OutputFields
  BY DEF PlacedAt, OutputFields
<1> HIDE DEF at
<1>3. \A n \in DOMAIN os : DOMAIN os[n] = OutputFields
  BY <1>2
<1> HIDE DEF os, t
<1>4. DOMAIN Bounded(t) = ScreenFields /\ Bounded(t).outputs = os
  BY <1>1 DEF Bounded, ScreenFields
<1> QED BY <1>3, <1>4 DEF ScreenShape, t

\* A screen with other outputs in the places of its own.
LEMMA SetOutputs ==
  ASSUME NEW s, ScreenShape(s), NEW t, DOMAIN t = ScreenFields,
         DOMAIN t.outputs = DOMAIN s.outputs,
         \A n \in DOMAIN s.outputs : DOMAIN t.outputs[n] = OutputFields
  PROVE  /\ ScreenShape(t)
         /\ (\A n \in DOMAIN s.outputs : /\ t.outputs[n].mode = s.outputs[n].mode
                                        /\ Rect(t.outputs[n]) = Rect(s.outputs[n]))
               => LayoutRects(t) = LayoutRects(s)
<1>1. ScreenShape(t)
  BY DEF ScreenShape
<1>2. ASSUME \A n \in DOMAIN s.outputs : /\ t.outputs[n].mode = s.outputs[n].mode
                                        /\ Rect(t.outputs[n]) = Rect(s.outputs[n])
      PROVE  LayoutRects(t) = LayoutRects(s)
  <2>1. Enabled(t) = Enabled(s)
    BY <1>2 DEF Enabled
  <2>2. Enabled(s) \subseteq DOMAIN s.outputs
    BY DEF Enabled
  <2> QED BY <1>2, <2>1, <2>2 DEF LayoutRects
<1> QED BY <1>1, <1>2

\* What clients ask for: the modes and the lists are others, and the layout is not...
LEMMA ModesShape ==
  ASSUME NEW s, ScreenShape(s), NEW t,
         \/ \E z : t = CreateMode(s, z)
         \/ \E n \in DOMAIN s.outputs : \E id : t \in {AddOutputMode(s, n, id), DeleteOutputMode(s, n, id)}
         \/ \E id : t = DestroyMode(s, id)
  PROVE  ScreenShape(t) /\ LayoutRects(t) = LayoutRects(s) /\ t.size = s.size
<1> DEFINE S == DOMAIN s.outputs
<1>1. DOMAIN s = ScreenFields /\ \A n \in S : DOMAIN s.outputs[n] = OutputFields
  BY DEF ScreenShape
<1>2. ASSUME NEW n \in S, NEW list
      PROVE  LET o == [s.outputs[n] EXCEPT !.listed = list]
             IN  DOMAIN o = OutputFields /\ o.mode = s.outputs[n].mode /\ Rect(o) = Rect(s.outputs[n])
  BY <1>1 DEF OutputFields, Rect
<1>3. ASSUME NEW z, t = CreateMode(s, z)
      PROVE  ScreenShape(t) /\ LayoutRects(t) = LayoutRects(s) /\ t.size = s.size
  <2> DEFINE ms == s.modes \cup {[id |-> s.next, size |-> z, ours |-> FALSE]}
  <2>1. t = [s EXCEPT !.next = s.next + 1, !.modes = ms]
    BY <1>3, Zenon DEF CreateMode, NewMode
  <2> HIDE DEF ms
  <2>2. DOMAIN t = ScreenFields /\ t.outputs = s.outputs /\ t.size = s.size
    BY <1>1, <2>1 DEF ScreenFields
  <2> QED BY <1>1, <2>2, SetOutputs
<1>4. ASSUME NEW n \in S, NEW list, t = [s EXCEPT !.outputs[n].listed = list]
      PROVE  ScreenShape(t) /\ LayoutRects(t) = LayoutRects(s) /\ t.size = s.size
  <2> DEFINE o == [s.outputs[n] EXCEPT !.listed = list]
  <2>1. DOMAIN t = ScreenFields /\ t.outputs = [s.outputs EXCEPT ![n] = o] /\ t.size = s.size
    BY <1>1, <1>4 DEF ScreenFields
  <2>2. DOMAIN o = OutputFields /\ o.mode = s.outputs[n].mode /\ Rect(o) = Rect(s.outputs[n])
    BY <1>2
  <2> HIDE DEF o
  <2>3. DOMAIN t.outputs = S
    BY <2>1
  <2>4. \A k \in S : t.outputs[k] = IF k = n THEN o ELSE s.outputs[k]
    BY <2>1
  <2>5. \A k \in S : /\ DOMAIN t.outputs[k] = OutputFields
                    /\ t.outputs[k].mode = s.outputs[k].mode
                    /\ Rect(t.outputs[k]) = Rect(s.outputs[k])
    BY <1>1, <2>2, <2>4
  <2> QED BY <2>1, <2>3, <2>5, SetOutputs
<1>5. ASSUME NEW id, t = DestroyMode(s, id)
      PROVE  ScreenShape(t) /\ LayoutRects(t) = LayoutRects(s) /\ t.size = s.size
  <2> DEFINE list(n) == Without(s.outputs[n].listed, {id})
             os == [n \in S |-> [s.outputs[n] EXCEPT !.listed = list(n)]]
             ms == {m \in s.modes : m.id # id}
  <2>1. t = [s EXCEPT !.modes = ms, !.outputs = os]
    BY <1>5 DEF DestroyMode
  <2> HIDE DEF list, ms
  <2>2. \A k \in S : DOMAIN os[k] = OutputFields /\ os[k].mode = s.outputs[k].mode
                    /\ Rect(os[k]) = Rect(s.outputs[k])
    BY <1>2
  <2>3. DOMAIN os = S
    OBVIOUS
  <2> HIDE DEF os
  <2>4. DOMAIN t = ScreenFields /\ t.outputs = os /\ t.size = s.size
    BY <1>1, <2>1 DEF ScreenFields
  <2> QED BY <2>2, <2>3, <2>4, SetOutputs
<1> QED BY <1>3, <1>4, <1>5 DEF AddOutputMode, DeleteOutputMode

\* ...and the CRTC or the size are.
LEMMA CrtcShape ==
  ASSUME NEW s, ScreenShape(s), NEW n, NEW id
  PROVE  /\ \A pos : ScreenShape(SetCrtc(s, n, pos, id))
         /\ ScreenShape(AdoptMode(s, n, id)) /\ AdoptMode(s, n, id).size = s.size
<1> DEFINE S == DOMAIN s.outputs
<1>1. DOMAIN s = ScreenFields /\ \A k \in S : DOMAIN s.outputs[k] = OutputFields
  BY DEF ScreenShape
<1>2. ASSUME NEW o, n \in S => DOMAIN o = OutputFields
      PROVE  LET t == [s EXCEPT !.outputs[n] = o] IN ScreenShape(t) /\ t.size = s.size
  <2> DEFINE t == [s EXCEPT !.outputs[n] = o]
  <2>1. DOMAIN t = ScreenFields /\ t.outputs = [s.outputs EXCEPT ![n] = o] /\ t.size = s.size
    BY <1>1 DEF ScreenFields
  <2> HIDE DEF t
  <2>2. DOMAIN t.outputs = S /\ \A k \in S : t.outputs[k] = IF k = n THEN o ELSE s.outputs[k]
    BY <2>1
  <2>3. ScreenShape(t)
    BY <1>1, <1>2, <2>1, <2>2 DEF ScreenShape
  <2> QED BY <2>1, <2>3 DEF t
<1>3. ASSUME NEW pos PROVE ScreenShape(SetCrtc(s, n, pos, id))
  <2> DEFINE o == [s.outputs[n] EXCEPT !.mode = id, !.pos = pos,
                     !.size = IF id = Off THEN s.outputs[n].size
                              ELSE (CHOOSE m \in s.modes : m.id = id).size]
  <2>1. n \in S => DOMAIN o = OutputFields
    BY <1>1
  <2>2. SetCrtc(s, n, pos, id) = [s EXCEPT !.outputs[n] = o]
    BY <1>1 DEF SetCrtc, ScreenFields
  <2> HIDE DEF o
  <2> QED BY <1>2, <2>1, <2>2
<1>4. ScreenShape(AdoptMode(s, n, id)) /\ AdoptMode(s, n, id).size = s.size
  <2> DEFINE native == {m.id : m \in {m \in s.modes : m.ours /\ m.id # id /\ m.size = s.outputs[n].size}}
             list == Without(With(s.outputs[n].listed, id), native)
             o == [s.outputs[n] EXCEPT !.mode = id, !.listed = list]
             t == [s EXCEPT !.outputs[n] = o]
  <2>1. AdoptMode(s, n, id) = s \/ AdoptMode(s, n, id) = Prune(t)
    BY <1>1 DEF AdoptMode, ScreenFields
  <2> HIDE DEF list
  <2>2. n \in S => DOMAIN o = OutputFields
    BY <1>1
  <2> HIDE DEF o
  <2>3. ScreenShape(t) /\ t.size = s.size
    BY <1>2, <2>2
  <2> HIDE DEF t
  <2>4. DOMAIN Prune(t) = ScreenFields /\ Prune(t).outputs = t.outputs /\ Prune(t).size = t.size
    BY <2>3 DEF Prune, ScreenShape, ScreenFields
  <2>5. ScreenShape(Prune(t)) /\ Prune(t).size = s.size
    BY <2>3, <2>4 DEF ScreenShape
  <2> QED BY <2>1, <2>5
<1> QED BY <1>3, <1>4

\* set_size.
LEMMA SizeShape ==
  ASSUME NEW s, ScreenShape(s), NEW z
  PROVE  ScreenShape(SetSize(s, z))
<1>1. DOMAIN SetSize(s, z) = ScreenFields /\ SetSize(s, z).outputs = s.outputs
  BY DEF SetSize, ScreenShape, ScreenFields
<1> QED BY <1>1 DEF ScreenShape

\* What sync_screen has to push.
LEMMA PushesMade ==
  ASSUME NEW notify \in BOOLEAN
  PROVE  LET q == Pushes(notify) IN
         /\ PushQueue(q) /\ q # <<>>
         /\ \A what \in {"snapshot", "framebuffer", "input"} : Has(q, {what})
         /\ notify => Has(q, {"clients"})
<1> DEFINE q == Pushes(notify)
           a == <<"snapshot", "framebuffer", "input">>
           c == <<"clients">>
           r == IF notify THEN c ELSE <<>>
<1>1. /\ a \in Seq(PushKinds) /\ Len(a) = 3
      /\ a[1] = "snapshot" /\ a[2] = "framebuffer" /\ a[3] = "input"
  BY DEF PushKinds
<1>2. c \in Seq(PushKinds) /\ Len(c) = 1 /\ DOMAIN c = 1 .. 1 /\ c[1] = "clients"
  BY DEF PushKinds
<1> HIDE DEF c
<1>3. /\ r \in Seq(PushKinds) /\ Len(r) \in Nat /\ DOMAIN r = 1 .. Len(r)
      /\ notify => r = c
      /\ \A k \in 1 .. Len(r) : r[k] = "clients"
  <2>1. CASE notify
    <3>1. r = c
      BY <2>1
    <3> HIDE DEF r
    <3>2. r \in Seq(PushKinds) /\ Len(r) = 1 /\ DOMAIN r = 1 .. Len(r) /\ r[1] = "clients"
      BY <1>2, <3>1
    <3>3. \A k \in 1 .. Len(r) : k = 1
      BY <3>2
    <3> QED BY <3>1, <3>2, <3>3
  <2>2. CASE ~notify
    <3>1. r = <<>>
      BY <2>2
    <3> HIDE DEF r
    <3> QED BY <2>2, <3>1
  <2> QED BY <2>1, <2>2
<1>4. q = a \o r
  BY DEF Pushes, c
<1> HIDE DEF a, r, q
<1>5. /\ q \in Seq(PushKinds) /\ Len(q) = 3 + Len(r) /\ DOMAIN q = 1 .. Len(q)
      /\ \A k \in 1 .. 3 : q[k] = a[k]
      /\ \A k \in 1 .. Len(r) : q[3 + k] = r[k]
  <2>1. q \in Seq(PushKinds) /\ Len(q) = Len(a) + Len(r)
    BY <1>1, <1>3, <1>4, ConcatProperties
  <2>2. \A i \in 1 .. Len(a) + Len(r) : q[i] = IF i <= Len(a) THEN a[i] ELSE r[i - Len(a)]
    BY <1>1, <1>3, <1>4, ConcatProperties
  <2>3. DOMAIN q = 1 .. Len(q) /\ Len(q) = 3 + Len(r)
    BY <1>1, <2>1, LenProperties
  <2>4. \A k \in 1 .. 3 : q[k] = a[k]
    BY <1>1, <1>3, <2>2
  <2>5. ASSUME NEW k \in 1 .. Len(r) PROVE q[3 + k] = r[k]
    <3>1. 3 + k \in 1 .. 3 + Len(r) /\ ~(3 + k <= 3) /\ 3 + k - 3 = k
      BY <1>3
    <3> QED BY <1>1, <2>2, <3>1
  <2> QED BY <2>1, <2>3, <2>4, <2>5
<1>6. q[1] = "snapshot" /\ q[2] = "framebuffer" /\ q[3] = "input" /\ {1, 2, 3} \subseteq DOMAIN q
  BY <1>1, <1>3, <1>5
<1>7. ASSUME NEW j \in DOMAIN q, j > 3 PROVE q[j] = "clients"
  <2>1. j - 3 \in 1 .. Len(r) /\ 3 + (j - 3) = j
    BY <1>3, <1>5, <1>7
  <2> QED BY <1>3, <1>5, <2>1
<1>8. \A j \in DOMAIN q : j = 1 \/ j = 2 \/ j = 3 \/ j > 3
  BY <1>3, <1>5
<1>9. \A j \in DOMAIN q : q[j] = "snapshot" => j = 1
  BY <1>6, <1>7, <1>8
<1>10. \A what \in {"snapshot", "framebuffer", "input"} : Has(q, {what})
  BY <1>6 DEF Has
<1>11. notify => Has(q, {"clients"})
  <2> SUFFICES ASSUME notify PROVE Has(q, {"clients"})
    OBVIOUS
  <2>1. 3 + 1 \in DOMAIN q /\ q[3 + 1] = "clients"
    BY <1>2, <1>3, <1>5
  <2> QED BY <2>1 DEF Has
<1>12. q # <<>>
  BY <1>6
<1> QED BY <1>5, <1>9, <1>10, <1>11, <1>12 DEF PushQueue, q

\* One of them made.
LEMMA PushMade ==
  ASSUME NEW q, PushQueue(q), q # <<>>
  PROVE  /\ PushQueue(Tail(q)) /\ Head(q) \in PushKinds
         /\ ~Has(Tail(q), {"snapshot"})
         /\ \A what : Has(q, {what}) <=> Head(q) = what \/ Has(Tail(q), {what})
<1> DEFINE t == Tail(q)
<1>1. /\ t \in Seq(PushKinds) /\ Head(q) \in PushKinds /\ Len(q) \in Nat /\ Len(t) = Len(q) - 1
      /\ DOMAIN q = 1 .. Len(q) /\ DOMAIN t = 1 .. Len(t)
      /\ \A j \in 1 .. Len(t) : t[j] = q[j + 1]
  BY HeadTailProperties, EmptySeq, LenProperties DEF PushQueue
<1>2. \A P : Has(q, P) <=> Head(q) \in P \/ Has(t, P)
  BY TailHas DEF PushQueue
<1> HIDE DEF t
<1>3. ASSUME NEW j \in DOMAIN t PROVE t[j] # "snapshot"
  <2>1. j + 1 \in DOMAIN q /\ j + 1 # 1 /\ t[j] = q[j + 1]
    BY <1>1
  <2> QED BY <2>1 DEF PushQueue
<1>4. ~Has(t, {"snapshot"})
  BY <1>3 DEF Has
<1>5. PushQueue(t)
  BY <1>1, <1>3, <1>4 DEF PushQueue
<1> QED BY <1>1, <1>2, <1>4, <1>5 DEF t

\* The empty queue.
LEMMA NoPush ==
  PushQueue(<<>>) /\ \A P : ~Has(<<>>, P)
<1>1. \A P : ~Has(<<>>, P)
  BY DEF Has
<1>2. <<>> \in Seq(PushKinds) /\ DOMAIN <<>> = {}
  OBVIOUS
<1> QED BY <1>1, <1>2 DEF PushQueue

\* A change that is to be pushed: all is due but, if clients are not to be told,
\* that, and then nothing else was on its way.
LEMMA SyncFollows ==
  ASSUME FollowInv, NEW t \in Threads, NEW notify \in BOOLEAN, Sync(t, notify),
         ScreenShape(screen'), UNCHANGED <<snap, followers>>,
         notify \/ (screen' = screen /\ ~Pushing(t))
  PROVE  FollowInv'
<1> DEFINE q == Pushes(notify)
<1>1. /\ PushQueue(q) /\ q # <<>>
      /\ Has(q, {"snapshot"}) /\ Has(q, {"framebuffer"}) /\ Has(q, {"input"})
      /\ notify => Has(q, {"clients"})
  BY PushesMade
<1> HIDE DEF q
<1>2. todo' = [u \in Threads |-> IF u = t THEN q ELSE todo[u]]
  BY DEF Sync, FollowInv, q
<1>3. todo'[t] = q /\ \A u \in Threads \ {t} : todo'[u] = todo[u]
  BY <1>2
<1>4. todo' = [u \in Threads |-> todo'[u]]
  BY <1>2
<1>5. /\ snap' = [u \in Threads |-> snap'[u]]
      /\ \A u \in Threads : PushQueue(todo'[u])
  BY <1>1, <1>3 DEF FollowInv
<1>6. ASSUME ~behind' PROVE Follows'
  <2>1. ~behind /\ \A u \in Threads \ {t} : todo[u] = <<>>
    BY <1>6 DEF Sync, OthersPush, Pushing
  <2>2. \A u \in Threads : Pushing(u)' => u = t
    BY <1>3, <2>1 DEF Pushing
  <2>3. Due(t, "snapshot")' /\ Due(t, "framebuffer")' /\ Due(t, "input")' /\ (notify => Due(t, "clients")')
    BY <1>1, <1>3 DEF Due
  <2>4. ~notify => told' = screen'.size
    <3> SUFFICES ASSUME ~notify PROVE told' = screen'.size
      OBVIOUS
    <3>1. \A u \in Threads : todo[u] = <<>>
      BY <2>1 DEF Pushing
    <3>2. told = screen.size
      BY <2>1, <3>1, NoPush DEF FollowInv, Follows, Due
    <3> QED BY <3>2 DEF followers
  <2> QED BY <2>2, <2>3, <2>4 DEF Follows
<1> QED BY <1>4, <1>5, <1>6 DEF FollowInv

\* A step that changes nothing of what follows.
LEMMA StillFollows ==
  ASSUME FollowInv, UNCHANGED <<todo, snap, followers>>, ScreenShape(screen'),
         screen'.size = screen.size,
         ~behind' => ~behind /\ LayoutRects(screen') = LayoutRects(screen)
  PROVE  FollowInv'
<1>1. ASSUME ~behind' PROVE Follows'
  <2>1. Follows /\ Copy(screen') = Copy(screen)
    BY <1>1 DEF FollowInv, Copy
  <2>2. fb' = fb /\ rects' = rects /\ geometry' = geometry /\ told' = told
    BY DEF followers
  <2> QED BY <1>1, <2>1, <2>2 DEF Follows, Pushing, Due, Copy
<1>2. todo' = todo /\ snap' = snap
  OBVIOUS
<1> QED BY <1>1, <1>2 DEF FollowInv

\* sync_screen's steps.
LEMMA PushFollows ==
  ASSUME FollowInv, NEW t \in Threads, Push(t)
  PROVE  FollowInv'
<1> DEFINE q == todo[t]
<1>1. PushQueue(q) /\ q # <<>>
  BY DEF FollowInv, Push, Pushing
<1>2. /\ PushQueue(Tail(q)) /\ Head(q) \in PushKinds
      /\ ~Has(Tail(q), {"snapshot"})
      /\ \A what : Has(q, {what}) <=> Head(q) = what \/ Has(Tail(q), {what})
  BY <1>1, PushMade
<1>3. todo' = [u \in Threads |-> IF u = t THEN Tail(q) ELSE todo[u]]
  BY DEF Push, FollowInv
<1>4. screen' = screen
  BY DEF Push
<1> HIDE DEF q
<1>5. todo'[t] = Tail(q) /\ \A u \in Threads \ {t} : todo'[u] = todo[u]
  BY <1>3
<1>6. /\ todo' = [u \in Threads |-> todo'[u]]
      /\ \A u \in Threads : PushQueue(todo'[u])
  BY <1>2, <1>3, <1>5 DEF FollowInv
<1>7. /\ \A u \in Threads \ {t} : snap'[u] = snap[u]
      /\ snap' = [u \in Threads |-> snap'[u]]
      /\ Head(q) = "snapshot" => snap'[t] = Copy(screen)
      /\ Head(q) # "snapshot" /\ Tail(q) # <<>> => snap'[t] = snap[t]
  <2>1. snap = [u \in Threads |-> snap[u]]
    BY DEF FollowInv
  <2>2. Tail(q) # <<>> => Len(q) # 1
    <3>1. Tail(q) \in Seq(PushKinds) /\ Len(Tail(q)) = Len(q) - 1 /\ Len(q) \in Nat
      BY <1>1, HeadTailProperties, LenProperties DEF PushQueue
    <3>2. Len(Tail(q)) = 0 => Tail(q) = <<>>
      BY <3>1, EmptySeq
    <3> QED BY <3>1, <3>2
  <2>3. \/ Head(q) = "snapshot" /\ snap' = [snap EXCEPT ![t] = Copy(screen)]
        \/ /\ Head(q) # "snapshot"
           /\ \/ Len(q) = 1 /\ snap' = [snap EXCEPT ![t] = NoSnap]
              \/ snap' = snap
    BY DEF Push, Copy, q
  <2> QED BY <2>1, <2>2, <2>3
<1>8. /\ fb' = IF Head(q) = "framebuffer" THEN snap[t].size ELSE fb
      /\ rects' = IF Head(q) = "input" THEN snap[t].rects ELSE rects
      /\ geometry' = IF Head(q) = "input" THEN snap[t].size ELSE geometry
      /\ told' = IF Head(q) = "clients" THEN snap[t].size ELSE told
  BY DEF Push, q
<1>9. \A u \in Threads : \A what : Due(u, what) => Due(u, what)' \/ (u = t /\ what = Head(q))
  BY <1>2, <1>5 DEF Due, q
<1>10. ASSUME ~behind' PROVE Follows'
  <2>1. \/ ~behind
        \/ Head(q) = "snapshot" /\ Contains(q, "clients") /\ ~OthersPush(t)
    BY <1>10 DEF Push, q
  <2>2. \A u, w \in Threads : Pushing(u)' /\ Pushing(w)' => u = w
    BY <1>1, <1>5, <2>1 DEF FollowInv, Follows, Pushing, OthersPush, q
  <2>3. CASE behind
    <3>1. Head(q) = "snapshot" /\ Contains(q, "clients") /\ ~OthersPush(t)
      BY <2>1, <2>3
    <3>2. Has(q, {"clients"}) /\ Has(q, {"snapshot"})
      <4>1. Len(q) \in Nat /\ DOMAIN q = 1 .. Len(q)
        BY <1>1 DEF PushQueue
      <4>2. Has(q, {"clients"})
        BY <3>1, <4>1 DEF Has, Contains
      <4> QED BY <1>2, <3>1, <4>2
    <3>3. Has(q, {"framebuffer"}) /\ Has(q, {"input"})
      BY <1>1, <3>2 DEF PushQueue
    <3>4. /\ Due(t, "framebuffer")' /\ Due(t, "input")' /\ Due(t, "clients")'
      BY <1>2, <1>5, <3>1, <3>2, <3>3 DEF Due
    <3>5. \A u \in Threads \ {t} : ~Pushing(u)'
      BY <1>5, <3>1 DEF OthersPush, Pushing
    <3>6. snap'[t] = Copy(screen')
      BY <1>4, <1>7, <3>1
    <3> QED BY <2>2, <3>4, <3>5, <3>6 DEF Follows, Copy
  <2>4. CASE ~behind
    <3>1. Follows /\ \A u \in Threads : Pushing(u) => u = t
      <4>1. Follows /\ Pushing(t)
        BY <1>1, <2>4 DEF FollowInv, Pushing, q
      <4> QED BY <4>1 DEF Follows
    <3>2. Head(q) # "snapshot" => snap[t] = Copy(screen)
      BY <1>1, <1>2, <3>1 DEF Follows, Due, Pushing, q
    <3>3. \A u \in Threads : Pushing(u)' /\ ~Due(u, "snapshot")' => snap'[u] = Copy(screen')
      <4>1. \A u \in Threads : Pushing(u)' => u = t /\ Tail(q) # <<>>
        BY <1>5, <3>1 DEF Pushing
      <4> QED BY <1>4, <1>7, <3>2, <4>1
    <3>4. fb' = screen'.size \/ \E u \in Threads : Due(u, "framebuffer")'
      BY <1>4, <1>8, <1>9, <3>1, <3>2 DEF Follows, Copy
    <3>5. \/ rects' = LayoutRects(screen') /\ geometry' = screen'.size
          \/ \E u \in Threads : Due(u, "input")'
      BY <1>4, <1>8, <1>9, <3>1, <3>2 DEF Follows, Copy
    <3>6. told' = screen'.size \/ \E u \in Threads : Due(u, "clients")'
      BY <1>4, <1>8, <1>9, <3>1, <3>2 DEF Follows, Copy
    <3> QED BY <2>2, <3>3, <3>4, <3>5, <3>6 DEF Follows
  <2> QED BY <2>3, <2>4
<1> QED BY <1>4, <1>6, <1>7, <1>10 DEF FollowInv

LEMMA FollowInit ==
  Init => FollowInv
<1> SUFFICES ASSUME Init PROVE FollowInv
  OBVIOUS
<1>1. /\ todo = [t \in Threads |-> <<>>] /\ snap = [t \in Threads |-> NoSnap]
      /\ behind
  BY DEF Init
<1>2. ScreenShape(screen)
  <2> DEFINE ms == NewScreen(FirstSize).modes \cup
                     {[id |-> 2 + k, size |-> Made[k], ours |-> FALSE] : k \in DOMAIN Made}
             os == NewScreen(FirstSize).outputs
  <2>1. screen = [NewScreen(FirstSize) EXCEPT !.next = @ + Len(Made), !.modes = ms]
    BY DEF Init
  <2>2. /\ DOMAIN NewScreen(FirstSize) = ScreenFields /\ DOMAIN os = {1}
        /\ DOMAIN os[1] = OutputFields
    BY DEF NewScreen, ScreenFields, OutputFields
  <2> HIDE DEF ms
  <2>3. DOMAIN screen = ScreenFields /\ screen.outputs = os
    BY <2>1, <2>2 DEF ScreenFields
  <2> HIDE DEF os
  <2> QED BY <2>2, <2>3 DEF ScreenShape
<1> QED BY <1>1, <1>2, NoPush DEF FollowInv

\* What the compositor's events make of the screen.
LEMMA EventShape ==
  ASSUME NEW s, ScreenShape(s), NEW o, NEW r
  PROVE  /\ ScreenShape(SyncOutput(s, o, r)) /\ ScreenShape(RemoveWaylandOutput(s, o))
         /\ ~SyncChanges(s, o, r) => SyncOutput(s, o, r) = s
         /\ ScreenShape(RestoreOutputs(s))
         /\ ~RestoreChanges(s) => RestoreOutputs(s).size = s.size
         /\ SyncChanges(s, o, r) \in BOOLEAN
<1>1. \A t : ScreenShape(Bounded(Relayout(t)))
  BY RelaidShape
<1>2. ScreenShape(SyncOutput(s, o, r))
  BY <1>1 DEF SyncOutput
<1>3. ScreenShape(RemoveWaylandOutput(s, o)) /\ ScreenShape(RestoreOutputs(s))
  <2>1. ScreenShape(RemoveWaylandOutput(s, o))
    BY <1>1 DEF RemoveWaylandOutput
  <2>2. ScreenShape(RestoreOutputs(s))
    BY <1>1, Zenon DEF RestoreOutputs
  <2> QED BY <2>1, <2>2
<1>4. ~SyncChanges(s, o, r) => SyncOutput(s, o, r) = s
  BY DEF SyncChanges, SyncOutput
<1>5. ~RestoreChanges(s) => RestoreOutputs(s).size = s.size
  BY DEF RestoreChanges
<1>6. SyncChanges(s, o, r) \in BOOLEAN
  BY DEF SyncChanges, Same
<1> QED BY <1>2, <1>3, <1>4, <1>5, <1>6

\* An event of the compositor is received.
LEMMA ReceiveFollows ==
  ASSUME FollowInv, Receive
  PROVE  FollowInv'
<1>1. /\ "wayland" \in Threads /\ ~Pushing("wayland") /\ UNCHANGED <<snap, followers>>
      /\ ScreenShape(screen)
  BY DEF Receive, Threads, FollowInv
<1>2. ASSUME NEW e, Apply(e) PROVE FollowInv'
  <2> DEFINE o == e.about
             r == RectOf(Accumulated(acc[o], e))
             changed == SyncChanges(screen, o, r)
  <2>1. screen' = SyncOutput(screen, o, r) /\ Sync("wayland", changed)
    BY <1>2 DEF Apply
  <2> HIDE DEF r
  <2>2. ScreenShape(screen') /\ changed \in BOOLEAN /\ (changed \/ screen' = screen)
    BY <1>1, <2>1, EventShape
  <2> HIDE DEF changed
  <2> QED BY <1>1, <2>1, <2>2, SyncFollows
<1>3. ASSUME NEW e, TakeAway(e) PROVE FollowInv'
  <2> DEFINE o == e.about
             there == Where(screen, LAMBDA p : p.wl = o) # 0
  <2>1. /\ screen' = IF there THEN RemoveWaylandOutput(screen, o) ELSE screen
        /\ Sync("wayland", there)
    BY <1>3 DEF TakeAway
  <2>2. there \in BOOLEAN
    OBVIOUS
  <2> HIDE DEF there
  <2>3. ScreenShape(screen') /\ (there \/ screen' = screen)
    BY <1>1, <2>1, <2>2, EventShape
  <2> QED BY <1>1, <2>1, <2>2, <2>3, SyncFollows
<1> QED BY <1>2, <1>3 DEF Receive

\* A client's request, or the next part of one.
LEMMA ClientFollows ==
  ASSUME FollowInv, NEW t \in XThreads, Client(t)
  PROVE  FollowInv'
<1>1. t \in Threads /\ ScreenShape(screen)
  BY DEF Threads, FollowInv
<1>2. ASSUME UNCHANGED <<todo, snap, followers, behind>>, ScreenShape(screen'),
             screen'.size = screen.size, LayoutRects(screen') = LayoutRects(screen)
      PROVE  FollowInv'
  BY <1>2, StillFollows
<1>3. ASSUME NEW z, AskCreateMode(t, z) PROVE FollowInv'
  <2>1. screen' = CreateMode(screen, z) /\ UNCHANGED <<todo, snap, followers, behind>>
    BY <1>3 DEF AskCreateMode, Ask
  <2> QED BY <1>1, <1>2, <2>1, ModesShape
<1>4. ASSUME NEW n \in DOMAIN screen.outputs, NEW id, AskAddMode(t, n, id) \/ AskDeleteMode(t, n, id)
      PROVE  FollowInv'
  <2>1. /\ screen' \in {AddOutputMode(screen, n, id), DeleteOutputMode(screen, n, id)}
        /\ UNCHANGED <<todo, snap, followers, behind>>
    BY <1>4 DEF AskAddMode, AskDeleteMode, Ask
  <2> QED BY <1>1, <1>2, <2>1, ModesShape
<1>5. ASSUME NEW id, AskDestroyMode(t, id) PROVE FollowInv'
  <2>1. screen' = DestroyMode(screen, id) /\ UNCHANGED <<todo, snap, followers, behind>>
    BY <1>5 DEF AskDestroyMode, Ask
  <2> QED BY <1>1, <1>2, <2>1, ModesShape
<1>6. ASSUME NEW z, AskSetSize(t, z) PROVE FollowInv'
  <2>1. screen' = SetSize(screen, z) /\ Sync(t, TRUE) /\ UNCHANGED <<snap, followers>>
    BY <1>6 DEF AskSetSize, Ask
  <2> QED BY <1>1, <2>1, SizeShape, SyncFollows
<1>7. ASSUME NEW n, NEW pos, NEW id, AskCrtc(t, n, pos, id) PROVE FollowInv'
  <2>1. UNCHANGED <<screen, todo, snap, followers, behind>>
    BY <1>7 DEF AskCrtc, Ask
  <2> QED BY <1>1, <1>2, <2>1
<1>8. ASSUME NEW how, Answer(t, how) PROVE FollowInv'
  <2>1. UNCHANGED <<screen, todo, snap, followers, behind>>
    BY <1>8 DEF Answer
  <2> QED BY <1>1, <1>2, <2>1
<1>9. ASSUME SetLocal(t) PROVE FollowInv'
  <2> DEFINE n == CrtcOf(t)
             id == xs[t].mode
  <2>1. CASE n = 0 \/ ~ModeIsThere(id)
    <3>1. UNCHANGED <<screen, todo, snap, followers, behind>>
      BY <1>9, <2>1 DEF SetLocal
    <3> QED BY <1>1, <1>2, <3>1
  <2>2. CASE ~(n = 0 \/ ~ModeIsThere(id))
    <3>1. /\ screen' = SetCrtc(screen, n, xs[t].pos, id) /\ Sync(t, TRUE)
          /\ UNCHANGED <<snap, followers>>
      BY <1>9, <2>2 DEF SetLocal
    <3> HIDE DEF n, id
    <3> QED BY <1>1, <3>1, CrtcShape, SyncFollows
  <2> QED BY <2>1, <2>2
<1>10. ASSUME Adopt(t) PROVE FollowInv'
  <2> DEFINE n == CrtcOf(t)
             id == xs[t].mode
  <2>1. /\ screen' \in {screen, AdoptMode(screen, n, id)}
        /\ NoSync /\ UNCHANGED <<snap, followers>>
    BY <1>10 DEF Adopt
  <2> HIDE DEF n, id
  <2>2. ScreenShape(screen') /\ screen'.size = screen.size
    BY <1>1, <2>1, CrtcShape
  <2> QED BY <2>1, <2>2, StillFollows DEF NoSync
<1>11. ASSUME Restore(t) PROVE FollowInv'
  <2>1. /\ screen' = RestoreOutputs(screen) /\ UNCHANGED <<snap, followers>>
        /\ IF RestoreChanges(screen) THEN Sync(t, TRUE) ELSE NoSync
    BY <1>11 DEF Restore
  <2>2. ScreenShape(screen') /\ (RestoreChanges(screen) \/ screen'.size = screen.size)
    BY <1>1, <2>1, EventShape
  <2>3. CASE RestoreChanges(screen)
    BY <1>1, <2>1, <2>2, <2>3, SyncFollows
  <2>4. CASE ~RestoreChanges(screen)
    BY <2>1, <2>2, <2>4, StillFollows DEF NoSync
  <2> QED BY <2>3, <2>4
<1> QED BY <1>3, <1>4, <1>5, <1>6, <1>7, <1>8, <1>9, <1>10, <1>11 DEF Client

LEMMA FollowNext ==
  FollowInv /\ [Next]_vars => FollowInv'
<1> SUFFICES ASSUME FollowInv, [Next]_vars PROVE FollowInv'
  OBVIOUS
<1>1. ASSUME NEW o, Unplug(o) \/ \E c \in Configs : PlugIn(o, c) \/ Reconfigure(o, c)
      PROVE  FollowInv'
  <2>1. UNCHANGED <<screen, todo, snap, followers, behind>>
    BY <1>1 DEF Unplug, PlugIn, Reconfigure, Change
  <2> QED BY <2>1, StillFollows DEF FollowInv
<1>2. ASSUME Receive PROVE FollowInv'
  BY <1>2, ReceiveFollows
<1>3. ASSUME NEW t \in Threads, Push(t) PROVE FollowInv'
  BY <1>3, PushFollows
<1>4. ASSUME NEW t \in XThreads, Client(t) PROVE FollowInv'
  BY <1>4, ClientFollows
<1>5. ASSUME UNCHANGED vars PROVE FollowInv'
  BY <1>5, StillFollows DEF vars, FollowInv
<1> QED BY <1>1, <1>2, <1>3, <1>4, <1>5 DEF Next

\* The framebuffer, the input mapping and the clients agree with the screen whenever
\* nobody is on the way to push (sync_screen): for any outputs, modes and clients, in
\* any number of X threads; unless two pushed at once or a change made no push, and
\* none has been made alone since.
THEOREM FollowersAlwaysAgree ==
  Spec => []FollowersAgree
<1>1. FollowInv => FollowersAgree
  <2> SUFFICES ASSUME FollowInv, Quiet, ~behind
               PROVE  /\ fb = screen.size /\ geometry = screen.size /\ told = screen.size
                      /\ rects = LayoutRects(screen)
    BY DEF FollowersAgree
  <2>1. Follows /\ \A t \in Threads : \A what : ~Due(t, what)
    BY NoPush DEF FollowInv, Quiet, Pushing, Due
  <2> QED BY <2>1 DEF Follows
<1> QED BY <1>1, FollowInit, FollowNext, PTL DEF Spec

-----------------------------------------------------------------------------
(* What the screen model's recursions come to.  *)

\* The order of the natural numbers is well founded: a set of them has a least.
LEMMA LeastOf ==
  ASSUME NEW S \in SUBSET Nat, S # {}
  PROVE  \E n \in S : \A m \in S : n <= m
<1>1. IsWellFoundedOn({p \in Nat \X Nat : p[1] < p[2]}, Nat)
  BY NatLessThanWellFounded DEF OpToRel
<1>2. \A x, y \in Nat : <<y, x>> \in {p \in Nat \X Nat : p[1] < p[2]} <=> y < x
  OBVIOUS
<1>3. PICK R : IsWellFoundedOn(R, Nat) /\ \A x, y \in Nat : <<y, x>> \in R <=> y < x
  BY <1>1, <1>2, Zenon
<1>4. PICK n \in S : \A m \in S : ~(<<m, n>> \in R)
  BY <1>3, WFMin
<1>5. ASSUME NEW m \in S PROVE n <= m
  <2>1. n \in Nat /\ m \in Nat
    OBVIOUS
  <2>2. ~(m < n)
    BY <1>3, <1>4, <2>1, Zenon
  <2> QED BY <2>1, <2>2
<1> QED BY <1>5

\* One step of each: of Kept, of AllBack, of PackAxis.
Grown(what, a, b, x, k) ==
  CASE what = "kept"   -> IF a[k] \in b THEN Append(x, a[k]) ELSE x
    [] what = "back"   -> Back(x, k)
    [] what = "placed" -> Placed(a, x, Foremost(a, DOMAIN a \ DOMAIN x.starts))

Growth(what, a, b, first, f, k) ==
  f = [n \in 0 .. k |-> IF n = 0 THEN first ELSE Grown(what, a, b, f[n - 1], n)]

LEMMA GrowthExists ==
  ASSUME NEW what, NEW a, NEW b, NEW first, NEW k \in Nat
  PROVE  \E f : Growth(what, a, b, first, f, k)
<1> DEFINE Bad == {n \in 0 .. k : ~\E f : Growth(what, a, b, first, f, n)}
<1> SUFFICES ASSUME ~\E f : Growth(what, a, b, first, f, k) PROVE FALSE
  OBVIOUS
<1>0. Bad \in SUBSET Nat /\ Bad # {}
  <2>0. k \in 0 .. k
    OBVIOUS
  <2>1. k \in Bad
    BY <2>0, Zenon
  <2>2. Bad \subseteq 0 .. k
    BY Zenon
  <2> HIDE DEF Bad
  <2> QED BY <2>1, <2>2
<1>1. PICK n \in Bad : \A m \in Bad : n <= m
  <2> HIDE DEF Bad
  <2> QED BY <1>0, LeastOf
<1>2. CASE n = 0
  <2> DEFINE f == [m \in 0 .. 0 |-> first]
  <2>1. Growth(what, a, b, first, f, 0)
    BY DEF Growth
  <2> QED BY <1>1, <1>2, <2>1
<1>3. CASE n # 0
  <2>1. n \in Nat /\ n - 1 \in 0 .. k /\ n \in 0 .. k /\ ~(n <= n - 1)
    BY <1>1, <1>3
  <2>2. PICK f : Growth(what, a, b, first, f, n - 1)
    BY <1>1, <2>1
  <2> DEFINE Next1(g, m) == IF m = 0 THEN first ELSE Grown(what, a, b, g[m - 1], m)
             g == [m \in 0 .. n |-> IF m = n THEN Next1(f, n) ELSE f[m]]
  <2>3. f = [m \in 0 .. n - 1 |-> Next1(f, m)]
    BY <2>2 DEF Growth
  <2>4. \A m \in 0 .. n : g[m] = Next1(g, m)
    <3> SUFFICES ASSUME NEW m \in 0 .. n PROVE g[m] = Next1(g, m)
      OBVIOUS
    <3>1. m # 0 => g[m - 1] = f[m - 1]
      <4>1. m # 0 => m - 1 \in 0 .. n /\ m - 1 # n
        BY <2>1
      <4> QED BY <4>1
    <3>2. Next1(g, m) = Next1(f, m)
      BY <3>1
    <3>3. m # n => f[m] = Next1(f, m)
      <4>1. m # n => m \in 0 .. n - 1
        BY <2>1
      <4> HIDE DEF Next1
      <4> QED BY <2>3, <4>1
    <3> HIDE DEF Next1
    <3> QED BY <3>2, <3>3
  <2>5. g = [m \in 0 .. n |-> Next1(g, m)]
    <3> HIDE DEF Next1
    <3> QED BY <2>4
  <2>6. Growth(what, a, b, first, g, n)
    BY <2>5 DEF Growth
  <2> QED BY <1>1, <2>6
<1> QED BY <1>2, <1>3

\* Kept, AllBack and PackAxis, from one turn to the next.
LEMMA KeptGrows ==
  ASSUME NEW list, NEW T, NEW k \in Nat, k = Len(list)
  PROVE  \E f : /\ f[0] = <<>> /\ Kept(list, T) = f[k]
                /\ \A n \in 1 .. k : /\ n - 1 \in 0 .. k
                                     /\ f[n] = IF list[n] \in T THEN Append(f[n - 1], list[n])
                                               ELSE f[n - 1]
<1> DEFINE Turn(f, n) == IF list[n] \in T THEN Append(f[n - 1], list[n]) ELSE f[n - 1]
           f == CHOOSE f : f = [n \in 0 .. k |-> IF n = 0 THEN <<>> ELSE Turn(f, n)]
<1>1. Kept(list, T) = f[k]
  BY DEF Kept
<1>2. \E g : g = [n \in 0 .. k |-> IF n = 0 THEN <<>> ELSE Turn(g, n)]
  <2>1. PICK g : Growth("kept", list, T, <<>>, g, k)
    BY GrowthExists
  <2> QED BY <2>1 DEF Growth, Grown
<1> HIDE DEF Turn
<1>3. f = [n \in 0 .. k |-> IF n = 0 THEN <<>> ELSE Turn(f, n)]
  BY <1>2
<1>4. \A n \in 0 .. k : f[n] = IF n = 0 THEN <<>> ELSE Turn(f, n)
  BY <1>3, Zenon
<1>5. /\ k \in 0 .. k /\ 0 \in 0 .. k
      /\ \A n \in 1 .. k : n # 0 /\ n \in 0 .. k /\ n - 1 \in 0 .. k
  OBVIOUS
<1>6. /\ f[0] = <<>>
      /\ \A n \in 1 .. k : n - 1 \in 0 .. k /\ f[n] = Turn(f, n)
  <2> HIDE DEF f
  <2> QED BY <1>4, <1>5, Zenon
<1> HIDE DEF f
<1> QED BY <1>1, <1>6 DEF Turn

LEMMA BackGrows ==
  ASSUME NEW s, NEW k \in Nat, k = Len(s.outputs)
  PROVE  \E f : /\ f[0] = s /\ AllBack(s) = f[k]
                /\ \A n \in 1 .. k : n - 1 \in 0 .. k /\ f[n] = Back(f[n - 1], n)
<1> DEFINE f == CHOOSE f : f = [n \in 0 .. k |-> IF n = 0 THEN s ELSE Back(f[n - 1], n)]
<1>1. AllBack(s) = f[k]
  BY DEF AllBack
<1>2. \E g : g = [n \in 0 .. k |-> IF n = 0 THEN s ELSE Back(g[n - 1], n)]
  <2>1. PICK g : Growth("back", 0, 0, s, g, k)
    BY GrowthExists
  <2> QED BY <2>1 DEF Growth, Grown
<1>3. f = [n \in 0 .. k |-> IF n = 0 THEN s ELSE Back(f[n - 1], n)]
  BY <1>2
<1>4. \A n \in 0 .. k : f[n] = IF n = 0 THEN s ELSE Back(f[n - 1], n)
  BY <1>3, Zenon
<1>5. /\ k \in 0 .. k /\ 0 \in 0 .. k
      /\ \A n \in 1 .. k : n # 0 /\ n \in 0 .. k /\ n - 1 \in 0 .. k
  OBVIOUS
<1>6. /\ f[0] = s
      /\ \A n \in 1 .. k : n - 1 \in 0 .. k /\ f[n] = Back(f[n - 1], n)
  <2> HIDE DEF f
  <2> QED BY <1>4, <1>5, Zenon
<1> HIDE DEF f
<1> QED BY <1>1, <1>6

PackRun(items, k, f) ==
    /\ f[0] = [starts |-> <<>>, edges |-> Put(<<>>, items[Foremost(items, DOMAIN items)].start, 0)]
    /\ PackAxis(items) = f[k].starts
    /\ \A n \in 1 .. k :
         /\ n - 1 \in 0 .. k
         /\ f[n] = Placed(items, f[n - 1],
                          Foremost(items, DOMAIN items \ DOMAIN f[n - 1].starts))

LEMMA PackGrows ==
  ASSUME NEW items, items # <<>>, NEW k \in Nat, k = Len(items)
  PROVE  \E f : PackRun(items, k, f)
<1> DEFINE Turn(f, n) == Placed(items, f[n - 1],
                                Foremost(items, DOMAIN items \ DOMAIN f[n - 1].starts))
           first == [starts |-> <<>>, edges |-> Put(<<>>, items[Foremost(items, DOMAIN items \ {})].start, 0)]
           f == CHOOSE f : f = [n \in 0 .. k |-> IF n = 0 THEN first ELSE Turn(f, n)]
<1>1. PackAxis(items) = f[k].starts
  BY DEF PackAxis
<1>7. DOMAIN items \ {} = DOMAIN items
  OBVIOUS
<1> HIDE DEF first
<1>2. \E g : g = [n \in 0 .. k |-> IF n = 0 THEN first ELSE Turn(g, n)]
  <2>1. PICK g : Growth("placed", items, 0, first, g, k)
    BY GrowthExists
  <2>2. \A n : Grown("placed", items, 0, g[n - 1], n) = Turn(g, n)
    BY DEF Grown
  <2> HIDE DEF Turn
  <2>3. g = [n \in 0 .. k |-> IF n = 0 THEN first ELSE Turn(g, n)]
    BY <2>1, <2>2 DEF Growth
  <2> QED BY <2>3
<1> HIDE DEF Turn
<1>3. f = [n \in 0 .. k |-> IF n = 0 THEN first ELSE Turn(f, n)]
  BY <1>2
<1>4. \A n \in 0 .. k : f[n] = IF n = 0 THEN first ELSE Turn(f, n)
  BY <1>3, Zenon
<1>5. /\ k \in 0 .. k /\ 0 \in 0 .. k
      /\ \A n \in 1 .. k : n # 0 /\ n \in 0 .. k /\ n - 1 \in 0 .. k
  OBVIOUS
<1>6. /\ f[0] = first
      /\ \A n \in 1 .. k : n - 1 \in 0 .. k /\ f[n] = Turn(f, n)
  <2> HIDE DEF f
  <2> QED BY <1>4, <1>5, Zenon
<1> HIDE DEF f
<1>8. PackRun(items, k, f)
  BY <1>1, <1>6, <1>7 DEF Turn, first, PackRun
<1> QED BY <1>8

-----------------------------------------------------------------------------
(* Lists.  *)

\* q is what of the first n of a list is in T: element i of q is element h[i] of it.
KeptBy(list, T, n, q, h) ==
  /\ h \in [DOMAIN q -> 1 .. n]
  /\ \A i \in DOMAIN q : q[i] = list[h[i]] /\ q[i] \in T
  /\ \A i, j \in DOMAIN q : h[i] = h[j] => i = j
  /\ \A m \in 1 .. n : list[m] \in T => \E i \in DOMAIN q : h[i] = m

LEMMA KeptStep ==
  ASSUME NEW S, NEW list \in Seq(S), NEW T, NEW n \in 1 .. Len(list),
         NEW q \in Seq(S), NEW h, KeptBy(list, T, n - 1, q, h)
  PROVE  LET r == IF list[n] \in T THEN Append(q, list[n]) ELSE q
         IN  r \in Seq(S) /\ \E g : KeptBy(list, T, n, r, g)
<1>1. /\ n \in Nat /\ Len(list) \in Nat /\ list[n] \in S
      /\ Len(q) \in Nat /\ DOMAIN q = 1 .. Len(q)
      /\ \A m \in 1 .. n : m = n \/ m \in 1 .. n - 1
      /\ 1 .. n - 1 \subseteq 1 .. n /\ n \in 1 .. n /\ n \notin 1 .. n - 1
  BY ElementOfSeq, LenProperties
<1>2. CASE list[n] \notin T
  <2>1. KeptBy(list, T, n, q, h)
    BY <1>1, <1>2 DEF KeptBy
  <2> QED BY <1>2, <2>1
<1>3. CASE list[n] \in T
  <2> DEFINE r == Append(q, list[n])
             k == Len(q) + 1
             g == [i \in 1 .. k |-> IF i = k THEN n ELSE h[i]]
  <2>1. /\ r \in Seq(S) /\ DOMAIN r = 1 .. k /\ r[k] = list[n]
        /\ \A i \in 1 .. Len(q) : r[i] = q[i]
    BY <1>1, AppendProperties
  <2>2. /\ k \in 1 .. k /\ k \notin DOMAIN q
        /\ \A i \in 1 .. k : i = k \/ i \in DOMAIN q
        /\ \A i \in DOMAIN q : i \in 1 .. k
    BY <1>1
  <2> HIDE DEF r, k
  <2>3. g[k] = n /\ \A i \in DOMAIN q : g[i] = h[i] /\ h[i] \in 1 .. n - 1
    BY <2>2 DEF KeptBy
  <2> HIDE DEF g
  <2>4. DOMAIN g = 1 .. k /\ g \in [1 .. k -> 1 .. n]
    BY <1>1, <2>2, <2>3 DEF g, KeptBy
  <2>5. \A i \in 1 .. k : r[i] = list[g[i]] /\ r[i] \in T
    BY <1>1, <1>3, <2>1, <2>2, <2>3 DEF KeptBy
  <2>6. \A i, j \in 1 .. k : g[i] = g[j] => i = j
    BY <1>1, <2>2, <2>3 DEF KeptBy
  <2>7. \A m \in 1 .. n : list[m] \in T => \E i \in 1 .. k : g[i] = m
    BY <1>1, <2>2, <2>3 DEF KeptBy
  <2>8. KeptBy(list, T, n, r, g)
    BY <2>1, <2>4, <2>5, <2>6, <2>7 DEF KeptBy
  <2> QED BY <1>3, <2>1, <2>8 DEF r
<1> QED BY <1>2, <1>3

LEMMA KeptIs ==
  ASSUME NEW S, NEW list \in Seq(S), NEW T
  PROVE  Kept(list, T) \in Seq(S) /\ \E h : KeptBy(list, T, Len(list), Kept(list, T), h)
<1> DEFINE k == Len(list)
<1>1. k \in Nat
  BY LenProperties
<1>2. PICK f : /\ f[0] = <<>> /\ Kept(list, T) = f[k]
               /\ \A n \in 1 .. k : /\ n - 1 \in 0 .. k
                                    /\ f[n] = IF list[n] \in T THEN Append(f[n - 1], list[n])
                                              ELSE f[n - 1]
  BY <1>1, KeptGrows
<1>3. f[0] = <<>> /\ k \in 0 .. k
  BY <1>1, <1>2
<1>4. \A n \in 1 .. k : f[n] = IF list[n] \in T THEN Append(f[n - 1], list[n]) ELSE f[n - 1]
  BY <1>2
<1> DEFINE Good(n) == f[n] \in Seq(S) /\ \E h : KeptBy(list, T, n, f[n], h)
           Bad == {n \in 0 .. k : ~Good(n)}
<1>5. Good(0)
  <2>1. <<>> \in Seq(S) /\ DOMAIN <<>> = {} /\ 1 .. 0 = {}
    OBVIOUS
  <2>2. KeptBy(list, T, 0, <<>>, <<>>)
    BY <2>1 DEF KeptBy
  <2> QED BY <1>3, <2>1, <2>2
<1>6. \A n \in 1 .. k : Good(n - 1) => Good(n)
  <2> SUFFICES ASSUME NEW n \in 1 .. k, Good(n - 1) PROVE Good(n)
    OBVIOUS
  <2>1. PICK h : KeptBy(list, T, n - 1, f[n - 1], h)
    OBVIOUS
  <2> DEFINE r == IF list[n] \in T THEN Append(f[n - 1], list[n]) ELSE f[n - 1]
  <2>2. r \in Seq(S) /\ \E g : KeptBy(list, T, n, r, g)
    BY <2>1, KeptStep
  <2>3. f[n] = r
    BY <1>4
  <2> HIDE DEF r
  <2> QED BY <2>2, <2>3
<1>7. Good(k)
  <2> HIDE DEF Good
  <2> SUFFICES ASSUME ~Good(k) PROVE FALSE
    OBVIOUS
  <2>1. Bad \in SUBSET Nat /\ Bad # {}
    BY <1>1, <1>3
  <2>2. PICK n \in Bad : \A m \in Bad : n <= m
    <3> HIDE DEF Bad
    <3> QED BY <2>1, LeastOf
  <2>3. n # 0 /\ n \in 0 .. k
    BY <1>5, <2>2
  <2>4. n \in 1 .. k /\ n - 1 \in 0 .. k /\ ~(n <= n - 1)
    BY <1>1, <2>3
  <2> QED BY <1>6, <2>2, <2>4
<1> QED BY <1>2, <1>7

\* What Kept says of a list's elements.
LEMMA KeptHas ==
  ASSUME NEW S, NEW list \in Seq(S), NEW T
  PROVE  /\ Kept(list, T) \in Seq(S)
         /\ \A x : Contains(Kept(list, T), x) <=> Contains(list, x) /\ x \in T
<1> DEFINE q == Kept(list, T)
<1>1. q \in Seq(S)
  BY KeptIs
<1>2. PICK h : KeptBy(list, T, Len(list), q, h)
  BY KeptIs
<1>3. DOMAIN q = 1 .. Len(q) /\ DOMAIN list = 1 .. Len(list)
  BY <1>1, LenProperties
<1> HIDE DEF q
<1>4. ASSUME NEW x PROVE Contains(q, x) <=> Contains(list, x) /\ x \in T
  BY <1>2, <1>3 DEF Contains, KeptBy
<1> QED BY <1>1, <1>4 DEF q

LEMMA WithHas ==
  ASSUME NEW S, NEW list \in Seq(S), NEW id \in S
  PROVE  /\ With(list, id) \in Seq(S)
         /\ \A x : Contains(With(list, id), x) <=> Contains(list, x) \/ x = id
<1>1. CASE Contains(list, id)
  BY <1>1 DEF With
<1>2. CASE ~Contains(list, id)
  <2> DEFINE r == Append(list, id)
  <2>1. /\ r \in Seq(S) /\ Len(r) = Len(list) + 1 /\ r[Len(list) + 1] = id
        /\ \A i \in 1 .. Len(list) : r[i] = list[i]
        /\ Len(list) \in Nat
    BY AppendProperties, LenProperties
  <2> HIDE DEF r
  <2>2. /\ \A i \in 1 .. Len(r) : i \in 1 .. Len(list) \/ i = Len(list) + 1
        /\ \A i \in 1 .. Len(list) : i \in 1 .. Len(r)
        /\ Len(list) + 1 \in 1 .. Len(r)
    BY <2>1
  <2>3. \A x : Contains(r, x) <=> Contains(list, x) \/ x = id
    BY <2>1, <2>2 DEF Contains
  <2>4. With(list, id) = r
    BY <1>2 DEF With, r
  <2> QED BY <2>1, <2>3, <2>4
<1> QED BY <1>1, <1>2

LEMMA WithoutHas ==
  ASSUME NEW S, NEW list \in Seq(S), NEW ids
  PROVE  /\ Without(list, ids) \in Seq(S)
         /\ \A x : Contains(Without(list, ids), x) <=> Contains(list, x) /\ x \notin ids
<1> DEFINE T == ToSet(list) \ ids
<1>1. /\ Kept(list, T) \in Seq(S)
      /\ \A x : Contains(Kept(list, T), x) <=> Contains(list, x) /\ x \in T
  BY KeptHas
<1>2. \A x : Contains(list, x) <=> x \in ToSet(list)
  <2>1. DOMAIN list = 1 .. Len(list)
    BY LenProperties
  <2> QED BY <2>1 DEF Contains, ToSet
<1>3. Without(list, ids) = Kept(list, T)
  BY DEF Without
<1> HIDE DEF T
<1>4. \A x : x \in T <=> x \in ToSet(list) /\ x \notin ids
  BY DEF T
<1> QED BY <1>1, <1>2, <1>3, <1>4

\* The least of the indices at which something holds.
LEMMA FirstOf ==
  ASSUME NEW k \in Nat, NEW I \in SUBSET (1 .. k)
  PROVE  LET n == IF I # {} THEN Min(I) ELSE 0
         IN  (n = 0 /\ I = {}) \/ (n \in I /\ n # 0)
<1>1. CASE I = {}
  BY <1>1
<1>2. CASE I # {}
  <2>1. I \in SUBSET Nat
    OBVIOUS
  <2>2. \E n \in I : \A m \in I : n <= m
    BY <1>2, <2>1, LeastOf
  <2>3. Min(I) \in I
    BY <2>2 DEF Min
  <2>4. Min(I) # 0
    BY <2>3
  <2> QED BY <1>2, <2>3, <2>4
<1> QED BY <1>1, <1>2

-----------------------------------------------------------------------------
(* The modes.  *)

IsList(q) == \E S : q \in Seq(S)

LEMMA ListIs ==
  ASSUME NEW q, IsList(q)
  PROVE  Len(q) \in Nat /\ DOMAIN q = 1 .. Len(q)
BY LenProperties DEF IsList

LEMMA ListMade ==
  ASSUME NEW k \in Nat, NEW S, NEW q \in [1 .. k -> S]
  PROVE  IsList(q) /\ Len(q) = k /\ DOMAIN q = 1 .. k
<1>1. q \in Seq(S)
  BY IsASeq
<1>2. DOMAIN q = 1 .. k
  OBVIOUS
<1>3. Len(q) = k
  <2>1. Len(q) \in Nat /\ 1 .. Len(q) = 1 .. k
    BY <1>1, <1>2, LenProperties
  <2> QED BY <2>1
<1> QED BY <1>1, <1>2, <1>3 DEF IsList

\* The records of a screen.
Typed(s) ==
    /\ ScreenShape(s) /\ IsList(s.outputs) /\ s.next \in Nat
    /\ \A n \in DOMAIN s.outputs : s.outputs[n].listed \in Seq(Nat)

\* Every id was given once, to a mode or a CRTC, and no two outputs have one name.
Numbered(s) ==
    /\ \A m \in s.modes : m.id \in Nat /\ m.id # Off /\ m.id < s.next
    /\ s.next # Off
    /\ \A m, k \in s.modes : m.id = k.id => m = k
    /\ \A n \in DOMAIN s.outputs :
         /\ s.outputs[n].crtc \in Nat /\ s.outputs[n].crtc < s.next
         /\ s.outputs[n].mode \in Nat /\ s.outputs[n].mode < s.next
         /\ \A id : Contains(s.outputs[n].listed, id) => id \in Nat /\ id < s.next
    /\ \A n, k \in DOMAIN s.outputs :
         s.outputs[n].wl = s.outputs[k].wl \/ s.outputs[n].crtc = s.outputs[k].crtc => n = k

\* The native modes no client has put on a list or taken off one.
OwnModes(s, th) == {m \in s.modes : m.ours /\ m.id \notin th}

Lists(s, n, id) == Contains(s.outputs[n].listed, id)

\* A native mode is listed by the one output it was made for, and by it as long as
\* the output is at it; its size is the output's.
OwnListed(s, th) ==
    \A m \in OwnModes(s, th) :
      /\ \A n \in DOMAIN s.outputs : s.outputs[n].mode = m.id => Lists(s, n, m.id)
      /\ \A n, k \in DOMAIN s.outputs : Lists(s, n, m.id) /\ Lists(s, k, m.id) => n = k

Fits(s, th, late) ==
    \A m \in OwnModes(s, th) : \A n \in DOMAIN s.outputs :
      Lists(s, n, m.id) => s.outputs[n].size = m.size \/ s.outputs[n].wl \in late

NoneLeft(s, th) ==
    \A m \in OwnModes(s, th) : \E n \in DOMAIN s.outputs : Lists(s, n, m.id)

ModesOk(s, th, late) == Typed(s) /\ Numbered(s) /\ OwnListed(s, th) /\ Fits(s, th, late)

\* Outputs at modes of their sizes, but for some.
AtModes(s, of, th) ==
    \A n \in DOMAIN s.outputs :
      Showing(s, n) \/ s.outputs[n].wl \in of \/ s.outputs[n].mode \in th

\* No output lists more of the native modes there were.
Fewer(s, t, th) ==
    /\ s.next \in Nat /\ t.next \in Nat /\ s.next <= t.next
    /\ \A m \in OwnModes(t, th) : m.id < s.next =>
         /\ m \in s.modes
         /\ \A n \in DOMAIN t.outputs : Lists(t, n, m.id) =>
              \E k \in DOMAIN s.outputs : /\ Lists(s, k, m.id)
                                          /\ s.outputs[k].crtc = t.outputs[n].crtc

\* The output's name, CRTC, place and size, which a change of modes leaves alone.
SameSite(p, o) ==
    /\ p.wl = o.wl /\ p.crtc = o.crtc /\ p.pos = o.pos
    /\ p.size = o.size /\ p.at = o.at /\ p.log = o.log

SameSites(s, t) ==
    /\ DOMAIN t.outputs = DOMAIN s.outputs
    /\ \A n \in DOMAIN s.outputs : SameSite(t.outputs[n], s.outputs[n])

LEMMA FewerAll ==
  ASSUME NEW s, NEW t, NEW u, NEW th, Fewer(s, t, th), Fewer(t, u, th), Numbered(u)
  PROVE  Fewer(s, u, th)
<1>1. s.next \in Nat /\ u.next \in Nat /\ t.next \in Nat /\ s.next <= t.next /\ t.next <= u.next
  BY DEF Fewer
<1>2. s.next <= u.next
  BY <1>1
<1>3. ASSUME NEW m \in OwnModes(u, th), m.id < s.next
      PROVE  /\ m \in s.modes
             /\ \A n \in DOMAIN u.outputs : Lists(u, n, m.id) =>
                  \E k \in DOMAIN s.outputs : /\ Lists(s, k, m.id)
                                              /\ s.outputs[k].crtc = u.outputs[n].crtc
  <2>1. m.id \in Nat
    BY DEF Numbered, OwnModes
  <2>2. m.id < t.next
    BY <1>1, <1>3, <2>1
  <2>3. m \in OwnModes(t, th)
    BY <2>2 DEF Fewer, OwnModes
  <2>4. m \in s.modes
    BY <1>3, <2>3 DEF Fewer
  <2>5. ASSUME NEW n \in DOMAIN u.outputs, Lists(u, n, m.id)
        PROVE  \E k \in DOMAIN s.outputs : /\ Lists(s, k, m.id)
                                           /\ s.outputs[k].crtc = u.outputs[n].crtc
    <3>1. PICK j \in DOMAIN t.outputs : Lists(t, j, m.id) /\ t.outputs[j].crtc = u.outputs[n].crtc
      BY <2>2, <2>5 DEF Fewer
    <3>2. PICK k \in DOMAIN s.outputs : Lists(s, k, m.id) /\ s.outputs[k].crtc = t.outputs[j].crtc
      BY <1>3, <2>3, <3>1 DEF Fewer
    <3> QED BY <3>1, <3>2
  <2> QED BY <2>4, <2>5
<1> QED BY <1>1, <1>2, <1>3 DEF Fewer

\* A screen of which one output is another.
LEMMA SetOutput ==
  ASSUME NEW s, Typed(s), NEW n \in DOMAIN s.outputs,
         NEW o, DOMAIN o = OutputFields, o.listed \in Seq(Nat)
  PROVE  LET t == [s EXCEPT !.outputs[n] = o]
         IN  /\ Typed(t) /\ t.size = s.size /\ t.next = s.next /\ t.modes = s.modes
             /\ DOMAIN t.outputs = DOMAIN s.outputs /\ t.outputs[n] = o
             /\ \A k \in DOMAIN s.outputs : k # n => t.outputs[k] = s.outputs[k]
<1> DEFINE t == [s EXCEPT !.outputs[n] = o]
           S == DOMAIN s.outputs
           q == [s.outputs EXCEPT ![n] = o]
<1>1. /\ DOMAIN s = ScreenFields /\ \A k \in S : DOMAIN s.outputs[k] = OutputFields
      /\ IsList(s.outputs) /\ s.next \in Nat /\ \A k \in S : s.outputs[k].listed \in Seq(Nat)
  BY DEF Typed, ScreenShape
<1>2. /\ DOMAIN t = ScreenFields /\ t.outputs = q
      /\ t.size = s.size /\ t.next = s.next /\ t.modes = s.modes
  BY <1>1 DEF ScreenFields
<1>3. DOMAIN q = S /\ q[n] = o /\ \A k \in S : k # n => q[k] = s.outputs[k]
  OBVIOUS
<1>4. IsList(q)
  <2>1. PICK R : s.outputs \in Seq(R)
    BY <1>1 DEF IsList
  <2>2. Len(s.outputs) \in Nat /\ S = 1 .. Len(s.outputs)
    BY <1>1, ListIs
  <2>3. q \in [1 .. Len(s.outputs) -> R \cup {o}]
    <3>1. \A k \in S : s.outputs[k] \in R
      BY <2>1, <2>2, ElementOfSeq
    <3> QED BY <2>2, <3>1
  <2> HIDE DEF q
  <2> QED BY <2>2, <2>3, ListMade
<1> HIDE DEF t, q
<1>5. ScreenShape(t)
  BY <1>1, <1>2, <1>3 DEF ScreenShape
<1>6. \A k \in S : q[k].listed \in Seq(Nat)
  BY <1>1, <1>3
<1>7. Typed(t)
  BY <1>1, <1>2, <1>3, <1>4, <1>5, <1>6 DEF Typed
<1> QED BY <1>2, <1>3, <1>7 DEF t

\* An output with another mode and list.
LEMMA SetListed ==
  ASSUME NEW o, DOMAIN o = OutputFields
  PROVE  /\ \A list : LET p == [o EXCEPT !.listed = list]
                      IN  DOMAIN p = OutputFields /\ SameSite(p, o) /\ p.mode = o.mode /\ p.listed = list
         /\ \A id, list : LET p == [o EXCEPT !.mode = id, !.listed = list]
                          IN  DOMAIN p = OutputFields /\ SameSite(p, o) /\ p.mode = id /\ p.listed = list
BY DEF OutputFields, SameSite

\* A screen with other modes.
LEMMA SetModes ==
  ASSUME NEW s, Typed(s), NEW ms
  PROVE  /\ LET t == [s EXCEPT !.modes = ms]
            IN  /\ Typed(t) /\ t.size = s.size /\ t.next = s.next /\ t.outputs = s.outputs
                /\ t.modes = ms
         /\ LET t == [s EXCEPT !.next = s.next + 1, !.modes = ms]
            IN  /\ Typed(t) /\ t.size = s.size /\ t.next = s.next + 1 /\ t.outputs = s.outputs
                /\ t.modes = ms
<1>1. DOMAIN s = ScreenFields /\ s.next \in Nat
  BY DEF Typed, ScreenShape
<1>2. LET t == [s EXCEPT !.modes = ms]
      IN  /\ DOMAIN t = ScreenFields /\ t.size = s.size /\ t.next = s.next /\ t.outputs = s.outputs
          /\ t.modes = ms
  BY <1>1 DEF ScreenFields
<1>3. LET t == [s EXCEPT !.next = s.next + 1, !.modes = ms]
      IN  /\ DOMAIN t = ScreenFields /\ t.size = s.size /\ t.next = s.next + 1
          /\ t.outputs = s.outputs /\ t.modes = ms
  BY <1>1 DEF ScreenFields
<1>4. \A t : DOMAIN t = ScreenFields /\ t.next \in Nat /\ t.outputs = s.outputs => Typed(t)
  BY DEF Typed, ScreenShape
<1>5. s.next + 1 \in Nat
  BY <1>1
<1> QED BY <1>1, <1>2, <1>3, <1>4, <1>5

\* create_mode and alloc_mode.
LEMMA ModeMade ==
  ASSUME NEW s, NEW th, NEW late, Typed(s), Numbered(s), NEW m, m.id = s.next
  PROVE  LET t == [s EXCEPT !.next = s.next + 1, !.modes = s.modes \cup {m}]
         IN  /\ Typed(t) /\ Numbered(t) /\ t.size = s.size /\ t.outputs = s.outputs
             /\ t.next = s.next + 1 /\ t.modes = s.modes \cup {m}
             /\ Fewer(s, t, th)
             /\ \A n \in DOMAIN s.outputs : ~Lists(s, n, s.next) /\ s.outputs[n].mode # s.next
             /\ OwnListed(s, th) => OwnListed(t, th)
             /\ Fits(s, th, late) => Fits(t, th, late)
             /\ \A id, z2 : HasSize(s, id, z2) => HasSize(t, id, z2)
             /\ HasSize(t, s.next, m.size)
             /\ OwnModes(t, th) \subseteq OwnModes(s, th) \cup {m}
             /\ ~m.ours => OwnModes(t, th) = OwnModes(s, th)
<1> DEFINE ms == s.modes \cup {m}
           t == [s EXCEPT !.next = s.next + 1, !.modes = ms]
<1>3. /\ Typed(t) /\ t.size = s.size /\ t.next = s.next + 1 /\ t.outputs = s.outputs /\ t.modes = ms
      /\ s.next \in Nat
  <2> HIDE DEF ms
  <2> QED BY SetModes DEF Typed
<1> HIDE DEF t
<1>4. Numbered(t)
  <2>1. \A i \in Nat : i < s.next => i < s.next + 1 /\ i # s.next
    BY <1>3
  <2>2. s.next + 1 \in Nat /\ s.next < s.next + 1
    BY <1>3
  <2>3. \A x \in t.modes : x.id \in Nat /\ x.id # Off /\ x.id < t.next
    BY <1>3, <2>1, <2>2 DEF Numbered
  <2>4. \A x, y \in t.modes : x.id = y.id => x = y
    BY <1>3, <2>1 DEF Numbered
  <2>5. \A n \in DOMAIN t.outputs :
          /\ t.outputs[n].crtc \in Nat /\ t.outputs[n].crtc < t.next
          /\ t.outputs[n].mode \in Nat /\ t.outputs[n].mode < t.next
          /\ \A id : Contains(t.outputs[n].listed, id) => id \in Nat /\ id < t.next
    BY <1>3, <2>1 DEF Numbered
  <2>6. \A n, k \in DOMAIN t.outputs :
          t.outputs[n].wl = t.outputs[k].wl \/ t.outputs[n].crtc = t.outputs[k].crtc => n = k
    BY <1>3 DEF Numbered
  <2>7. t.next # Off
    BY <1>3, <2>2 DEF Off
  <2> QED BY <2>3, <2>4, <2>5, <2>6, <2>7 DEF Numbered
<1>5. \A n \in DOMAIN s.outputs : ~Lists(s, n, s.next) /\ s.outputs[n].mode # s.next
  BY <1>3 DEF Numbered, Lists
<1>6. Fewer(s, t, th)
  <2>1. \A k \in OwnModes(t, th) : k.id < s.next => k \in s.modes
    BY <1>3 DEF OwnModes
  <2>2. \A n, id : Lists(t, n, id) <=> Lists(s, n, id)
    BY <1>3 DEF Lists
  <2>3. s.next <= s.next + 1 /\ s.next + 1 \in Nat
    BY <1>3
  <2> QED BY <1>3, <2>1, <2>2, <2>3 DEF Fewer
<1>7. OwnModes(t, th) \subseteq OwnModes(s, th) \cup {m} /\ (~m.ours => OwnModes(t, th) = OwnModes(s, th))
  BY <1>3 DEF OwnModes
<1>8. /\ OwnListed(s, th) => OwnListed(t, th)
      /\ Fits(s, th, late) => Fits(t, th, late)
  BY <1>3, <1>5, <1>7 DEF OwnListed, Fits, Lists
<1>9. (\A id, z2 : HasSize(s, id, z2) => HasSize(t, id, z2)) /\ HasSize(t, s.next, m.size)
  BY <1>3 DEF HasSize
<1> QED BY <1>3, <1>4, <1>5, <1>6, <1>7, <1>8, <1>9 DEF t

\* What depends on the outputs' fields alone, of two screens with the same modes.
LEMMA SameLists ==
  ASSUME NEW s, NEW t, t.modes = s.modes
  PROVE  /\ \A id, z : HasSize(t, id, z) <=> HasSize(s, id, z)
         /\ \A th : OwnModes(t, th) = OwnModes(s, th)
BY DEF HasSize, OwnModes

\* prune_modes.
LEMMA PruneOk ==
  ASSUME NEW s, NEW th, NEW late, ModesOk(s, th, late)
  PROVE  LET t == Prune(s)
         IN  /\ ModesOk(t, th, late) /\ NoneLeft(t, th)
             /\ t.size = s.size /\ t.next = s.next /\ t.outputs = s.outputs
             /\ t.modes \subseteq s.modes
             /\ Fewer(s, t, th)
             /\ \A n \in DOMAIN s.outputs :
                  Showing(s, n) => Showing(t, n) \/ s.outputs[n].mode \in th
<1> DEFINE ms == {m \in s.modes : m.ours => ListedBy(s, m.id) # {}}
           t == [s EXCEPT !.modes = ms]
<1>1. Prune(s) = t
  BY DEF Prune, ModesOk, Typed, ScreenShape, ScreenFields
<1>2. /\ Typed(t) /\ t.size = s.size /\ t.next = s.next /\ t.outputs = s.outputs /\ t.modes = ms
      /\ s.next \in Nat
  <2> HIDE DEF ms
  <2>1. Typed(s) /\ s.next \in Nat
    BY DEF ModesOk, Typed
  <2>2. Typed(t) /\ t.size = s.size /\ t.next = s.next /\ t.outputs = s.outputs /\ t.modes = ms
    BY <2>1, SetModes, Zenon
  <2> QED BY <2>1, <2>2
<1> HIDE DEF t
<1>3. ms \subseteq s.modes /\ \A m \in s.modes : m \in ms <=> (m.ours => ListedBy(s, m.id) # {})
  OBVIOUS
<1> HIDE DEF ms
<1>4. Numbered(t)
  BY <1>2, <1>3 DEF Numbered, ModesOk
<1>5. OwnModes(t, th) \subseteq OwnModes(s, th)
  BY <1>2, <1>3 DEF OwnModes
<1>6. OwnListed(t, th) /\ Fits(t, th, late)
  BY <1>2, <1>5 DEF OwnListed, Fits, Lists, ModesOk
<1>7. NoneLeft(t, th)
  BY <1>2, <1>3 DEF OwnModes, NoneLeft, ListedBy, Lists
<1>8. Fewer(s, t, th)
  <2>1. s.next <= s.next
    BY <1>2
  <2>2. \A n, id : Lists(t, n, id) <=> Lists(s, n, id)
    BY <1>2 DEF Lists
  <2>3. OwnModes(t, th) \subseteq s.modes
    BY <1>5 DEF OwnModes
  <2> QED BY <1>2, <2>1, <2>2, <2>3 DEF Fewer
<1>9. ASSUME NEW n \in DOMAIN s.outputs, Showing(s, n), s.outputs[n].mode \notin th
      PROVE  Showing(t, n)
  <2>1. PICK m \in s.modes : m.id = s.outputs[n].mode /\ m.size = s.outputs[n].size
    BY <1>9 DEF Showing, HasSize
  <2>2. m.ours => ListedBy(s, m.id) # {}
    BY <1>9, <2>1 DEF ModesOk, OwnListed, OwnModes, Lists, ListedBy
  <2> QED BY <1>2, <1>3, <2>1, <2>2 DEF Showing, HasSize
<1> QED BY <1>1, <1>2, <1>3, <1>4, <1>6, <1>7, <1>8, <1>9 DEF ModesOk

\* How a size is shown.
LEMMA ModeForIs ==
  ASSUME NEW s, Typed(s), Numbered(s), NEW n \in DOMAIN s.outputs, NEW z
  PROVE  LET id == ModeFor(s, n, z)
         IN  \/ id = s.next
             \/ /\ id \in Nat /\ id # s.next /\ HasSize(s, id, z)
                /\ id = s.outputs[n].mode \/ Lists(s, n, id)
<1> DEFINE o == s.outputs[n]
           I == {i \in 1 .. Len(o.listed) : HasSize(s, o.listed[i], z)}
           k == IF I # {} THEN Min(I) ELSE 0
<1>1. SelectInSeq(o.listed, LAMBDA id : HasSize(s, id, z)) = k
  BY DEF SelectInSeq
<1>2. (k = 0 /\ I = {}) \/ (k \in I /\ k # 0)
  <2>1. Len(o.listed) \in Nat
    BY LenProperties DEF Typed
  <2>2. I \in SUBSET (1 .. Len(o.listed))
    OBVIOUS
  <2> HIDE DEF I
  <2> QED BY <2>1, <2>2, FirstOf
<1>3. ModeFor(s, n, z) = IF HasSize(s, o.mode, z) THEN o.mode
                         ELSE IF k = 0 THEN s.next ELSE o.listed[k]
  <2> HIDE DEF k
  <2> QED BY <1>1 DEF ModeFor
<1>4. \A id : HasSize(s, id, z) => id \in Nat /\ id # s.next
  <2>1. \A i \in Nat : i < s.next => i # s.next
    BY DEF Typed
  <2> QED BY <2>1 DEF HasSize, Numbered
<1>5. k # 0 => HasSize(s, o.listed[k], z) /\ Lists(s, n, o.listed[k])
  BY <1>2 DEF Lists, Contains
<1> HIDE DEF k
<1> QED BY <1>3, <1>4, <1>5

\* Show: the output is at a mode of the size, which it lists; nothing else is another,
\* but a mode made for it.
LEMMA ShowOk ==
  ASSUME NEW s, NEW th, Typed(s), Numbered(s), OwnListed(s, th),
         NEW n \in DOMAIN s.outputs, NEW z
  PROVE  LET t == Show(s, n, z)
         IN  /\ Typed(t) /\ Numbered(t) /\ OwnListed(t, th) /\ SameSites(s, t)
             /\ t.size = s.size /\ Fewer(s, t, th) /\ s.modes \subseteq t.modes
             /\ HasSize(t, t.outputs[n].mode, z) /\ Lists(t, n, t.outputs[n].mode)
             /\ \A k \in DOMAIN s.outputs : k # n => t.outputs[k] = s.outputs[k]
             /\ \A id : Lists(s, n, id) => Lists(t, n, id)
             /\ \A m \in OwnModes(t, th) :
                  \/ m \in OwnModes(s, th)
                  \/ m.id = s.next /\ m.id = t.outputs[n].mode
             /\ \A m \in OwnModes(t, th) : \A k \in DOMAIN s.outputs :
                  Lists(t, k, m.id) => Lists(s, k, m.id) \/ (k = n /\ m.id = t.outputs[n].mode)
<1> DEFINE id == ModeFor(s, n, z)
           u == IF id = s.next THEN NewMode(s, z, TRUE) ELSE s
           o == [u.outputs[n] EXCEPT !.mode = id, !.listed = With(u.outputs[n].listed, id)]
           t == [u EXCEPT !.outputs[n] = o]
<1>1. Show(s, n, z) = t
  BY DEF Show
<1>2. \/ id = s.next
      \/ /\ id \in Nat /\ id # s.next /\ HasSize(s, id, z)
         /\ id = s.outputs[n].mode \/ Lists(s, n, id)
  BY ModeForIs
<1> HIDE DEF id
<1>3. /\ Typed(u) /\ Numbered(u) /\ OwnListed(u, th) /\ u.outputs = s.outputs /\ u.size = s.size
      /\ Fewer(s, u, th) /\ s.modes \subseteq u.modes
      /\ HasSize(u, id, z) /\ id \in Nat
      /\ id = s.next => \A k \in DOMAIN s.outputs : ~Lists(s, k, id) /\ s.outputs[k].mode # id
      /\ OwnModes(s, th) \subseteq OwnModes(u, th)
      /\ \A m \in OwnModes(u, th) : m \in OwnModes(s, th) \/ (m.id = s.next /\ m.id = id)
      /\ id < u.next
  <2>1. CASE id = s.next
    <3> DEFINE m == [id |-> s.next, size |-> z, ours |-> TRUE]
               v == [s EXCEPT !.next = s.next + 1, !.modes = s.modes \cup {m}]
    <3>0. m.id = s.next /\ m.size = z
      OBVIOUS
    <3>2. u = v
      BY <2>1, Zenon DEF NewMode
    <3> HIDE DEF m
    <3>1. /\ Typed(v) /\ Numbered(v) /\ v.size = s.size /\ v.outputs = s.outputs
          /\ v.next = s.next + 1 /\ v.modes = s.modes \cup {m}
          /\ Fewer(s, v, th)
          /\ \A k \in DOMAIN s.outputs : ~Lists(s, k, s.next) /\ s.outputs[k].mode # s.next
          /\ OwnListed(v, th) /\ HasSize(v, s.next, z)
          /\ OwnModes(v, th) \subseteq OwnModes(s, th) \cup {m}
      BY <3>0, ModeMade
    <3> HIDE DEF v
    <3>3. s.modes \subseteq v.modes /\ OwnModes(s, th) \subseteq OwnModes(v, th)
      BY <3>1 DEF OwnModes
    <3>4. s.next \in Nat /\ s.next < s.next + 1
      BY DEF Typed
    <3> QED BY <2>1, <3>0, <3>1, <3>2, <3>3, <3>4
  <2>2. CASE id # s.next
    <3>1. u = s /\ s.next \in Nat
      BY <2>2 DEF Typed
    <3>2. Fewer(s, s, th)
      <4>1. s.next <= s.next
        BY <3>1
      <4> QED BY <3>1, <4>1 DEF Fewer, OwnModes
    <3>3. id < s.next
      BY <1>2, <2>2 DEF HasSize, Numbered
    <3>4. OwnModes(s, th) \subseteq OwnModes(s, th) /\ s.modes \subseteq s.modes
      OBVIOUS
    <3> HIDE DEF u
    <3> QED BY <1>2, <2>2, <3>1, <3>2, <3>3, <3>4, Zenon
  <2> QED BY <2>1, <2>2
<1> HIDE DEF u
<1>4. /\ DOMAIN o = OutputFields /\ SameSite(o, s.outputs[n]) /\ o.mode = id
      /\ o.listed = With(s.outputs[n].listed, id)
  <2> DEFINE p == s.outputs[n]
             list == With(p.listed, id)
  <2>1. u.outputs = s.outputs /\ DOMAIN p = OutputFields
    BY <1>3 DEF Typed, ScreenShape
  <2>2. o = [p EXCEPT !.mode = id, !.listed = list]
    BY <2>1, Zenon
  <2> HIDE DEF o, p, list
  <2>3. DOMAIN o = OutputFields /\ SameSite(o, p) /\ o.mode = id /\ o.listed = list
    BY <2>1, <2>2 DEF OutputFields, SameSite
  <2> QED BY <2>3 DEF p, list
<1>5. /\ o.listed \in Seq(Nat)
      /\ \A x : Contains(o.listed, x) <=> Contains(s.outputs[n].listed, x) \/ x = id
  <2>1. s.outputs[n].listed \in Seq(Nat)
    BY DEF Typed
  <2> HIDE DEF o
  <2> QED BY <1>3, <1>4, <2>1, WithHas
<1> HIDE DEF o
<1>6. /\ Typed(t) /\ t.size = u.size /\ t.next = u.next /\ t.modes = u.modes
      /\ DOMAIN t.outputs = DOMAIN s.outputs /\ t.outputs[n] = o
      /\ \A k \in DOMAIN s.outputs : k # n => t.outputs[k] = s.outputs[k]
  BY <1>3, <1>4, <1>5, SetOutput
<1> HIDE DEF t
<1>7. SameSites(s, t)
  BY <1>4, <1>6 DEF SameSites, SameSite
<1>8. \A k \in DOMAIN s.outputs : \A x : Lists(t, k, x) <=> Lists(s, k, x) \/ (k = n /\ x = id)
  BY <1>5, <1>6 DEF Lists
<1>9. Numbered(t)
  <2>1. \A k \in DOMAIN s.outputs :
          /\ t.outputs[k].crtc = s.outputs[k].crtc /\ t.outputs[k].wl = s.outputs[k].wl
          /\ t.outputs[k].mode = IF k = n THEN id ELSE s.outputs[k].mode
    BY <1>4, <1>6, <1>7 DEF SameSites, SameSite
  <2>2. \A k \in DOMAIN s.outputs : \A x :
          Contains(t.outputs[k].listed, x) => Contains(s.outputs[k].listed, x) \/ x = id
    BY <1>5, <1>6
  <2>3. u.next = t.next /\ u.modes = t.modes /\ u.outputs = s.outputs /\ id \in Nat /\ id < t.next
    BY <1>3, <1>6
  <2>4. /\ \A m \in t.modes : m.id \in Nat /\ m.id # Off /\ m.id < t.next
        /\ t.next # Off
        /\ \A m, k \in t.modes : m.id = k.id => m = k
        /\ \A k \in DOMAIN s.outputs :
             /\ s.outputs[k].crtc \in Nat /\ s.outputs[k].crtc < t.next
             /\ s.outputs[k].mode \in Nat /\ s.outputs[k].mode < t.next
             /\ \A x : Contains(s.outputs[k].listed, x) => x \in Nat /\ x < t.next
        /\ \A j, k \in DOMAIN s.outputs :
             s.outputs[j].wl = s.outputs[k].wl \/ s.outputs[j].crtc = s.outputs[k].crtc => j = k
    BY <1>3, <2>3, Zenon DEF Numbered
  <2>5. \A k \in DOMAIN s.outputs :
             /\ t.outputs[k].crtc \in Nat /\ t.outputs[k].crtc < t.next
             /\ t.outputs[k].mode \in Nat /\ t.outputs[k].mode < t.next
             /\ \A x : Contains(t.outputs[k].listed, x) => x \in Nat /\ x < t.next
    BY <2>1, <2>2, <2>3, <2>4
  <2>6. \A j, k \in DOMAIN s.outputs :
             t.outputs[j].wl = t.outputs[k].wl \/ t.outputs[j].crtc = t.outputs[k].crtc => j = k
    BY <2>1, <2>4
  <2>7. DOMAIN t.outputs = DOMAIN s.outputs
    BY <1>6
  <2> QED BY <2>4, <2>5, <2>6, <2>7 DEF Numbered
<1>10. OwnModes(t, th) = OwnModes(u, th) /\ HasSize(t, id, z)
  BY <1>3, <1>6, SameLists
<1>11. \A m \in OwnModes(t, th) : \A k \in DOMAIN s.outputs :
         Lists(t, k, m.id) => Lists(s, k, m.id) \/ (k = n /\ m.id = id)
  BY <1>8
<1>12. OwnListed(t, th)
  <2> SUFFICES ASSUME NEW m \in OwnModes(t, th)
               PROVE  /\ \A k \in DOMAIN s.outputs : t.outputs[k].mode = m.id => Lists(t, k, m.id)
                      /\ \A j, k \in DOMAIN s.outputs : Lists(t, j, m.id) /\ Lists(t, k, m.id) => j = k
    BY <1>6 DEF OwnListed
  <2>1. \A k \in DOMAIN s.outputs : t.outputs[k].mode = m.id => Lists(t, k, m.id)
    BY <1>3, <1>4, <1>6, <1>8, <1>10 DEF OwnListed, Lists
  <2>2. \A k \in DOMAIN s.outputs : Lists(t, k, m.id) =>
           Lists(s, k, m.id) \/ (k = n /\ m.id = id)
    BY <1>8
  <2>3. m.id = id => \A k \in DOMAIN s.outputs : Lists(s, k, m.id) => k = n
    <3>1. CASE id = s.next
      BY <1>3, <3>1
    <3>2. CASE id # s.next
      <4>1. m.id = id => m \in OwnModes(s, th) /\ Lists(s, n, id)
        BY <1>2, <1>3, <1>10, <3>2 DEF OwnListed
      <4> QED BY <4>1 DEF OwnListed
    <3> QED BY <3>1, <3>2
  <2>4. m.id # id => \A j, k \in DOMAIN s.outputs : Lists(s, j, m.id) /\ Lists(s, k, m.id) => j = k
    BY <1>3, <1>10 DEF OwnListed
  <2> QED BY <2>1, <2>2, <2>3, <2>4
<1>13. Fewer(s, t, th)
  <2>1. s.next \in Nat /\ t.next \in Nat /\ s.next <= t.next
    BY <1>3, <1>6 DEF Fewer
  <2>2. ASSUME NEW m \in OwnModes(t, th), m.id < s.next PROVE m \in OwnModes(s, th)
    <3>1. ~(s.next < s.next)
      BY <2>1
    <3> QED BY <1>3, <1>10, <2>2, <3>1
  <2>3. ASSUME NEW m \in OwnModes(t, th), m.id < s.next, NEW k \in DOMAIN s.outputs, Lists(t, k, m.id)
        PROVE  Lists(s, k, m.id)
    <3>1. m \in OwnModes(s, th)
      BY <2>2, <2>3
    <3>2. id = s.next \/ (k = n /\ m.id = id => Lists(s, k, m.id))
      BY <1>2, <3>1 DEF OwnListed
    <3>3. m.id # s.next
      BY <2>1, <2>3
    <3> QED BY <1>8, <2>3, <3>2, <3>3
  <2>4. \A k \in DOMAIN s.outputs : t.outputs[k].crtc = s.outputs[k].crtc
    BY <1>7 DEF SameSites, SameSite
  <2>5. OwnModes(s, th) \subseteq s.modes
    BY DEF OwnModes
  <2> QED BY <1>6, <2>1, <2>2, <2>3, <2>4, <2>5 DEF Fewer
<1>14. \A m \in OwnModes(t, th) : m \in OwnModes(s, th) \/ (m.id = s.next /\ m.id = id)
  BY <1>3, <1>10
<1>15. Lists(t, n, id) /\ \A x : Lists(s, n, x) => Lists(t, n, x)
  BY <1>8
<1> QED BY <1>1, <1>3, <1>4, <1>6, <1>7, <1>9, <1>10, <1>11, <1>12, <1>13, <1>14, <1>15

ModesGood(s, th, late) == ModesOk(s, th, late) /\ NoneLeft(s, th)

\* What clients put on lists only grows.
LEMMA Widened ==
  ASSUME NEW s, NEW th, NEW late, ModesGood(s, th, late), NEW more, th \subseteq more
  PROVE  ModesGood(s, more, late)
<1>1. OwnModes(s, more) \subseteq OwnModes(s, th)
  BY DEF OwnModes
<1> QED BY <1>1 DEF ModesGood, ModesOk, OwnListed, Fits, NoneLeft

LEMMA FewerSame ==
  ASSUME NEW s, NEW th, s.next \in Nat
  PROVE  Fewer(s, s, th)
<1>1. s.next <= s.next
  OBVIOUS
<1> QED BY <1>1 DEF Fewer, OwnModes

\* Screens whose outputs are at the same modes, of the same sizes.
LEMMA SameShowing ==
  ASSUME NEW s, NEW t, s.modes \subseteq t.modes, DOMAIN t.outputs = DOMAIN s.outputs,
         \A n \in DOMAIN s.outputs : /\ t.outputs[n].mode = s.outputs[n].mode
                                     /\ t.outputs[n].size = s.outputs[n].size
                                     /\ t.outputs[n].wl = s.outputs[n].wl
  PROVE  /\ \A n \in DOMAIN s.outputs : Showing(s, n) => Showing(t, n)
         /\ \A of, th : AtModes(s, of, th) => AtModes(t, of, th)
BY DEF Showing, HasSize, AtModes

\* The records of a screen of which an output lists other modes.
LEMMA ListSet ==
  ASSUME NEW s, Typed(s), NEW n \in DOMAIN s.outputs, NEW list \in Seq(Nat)
  PROVE  LET t == [s EXCEPT !.outputs[n].listed = list]
         IN  /\ Typed(t) /\ t.size = s.size /\ t.next = s.next /\ t.modes = s.modes
             /\ SameSites(s, t) /\ t.outputs[n].listed = list
             /\ \A k \in DOMAIN s.outputs : /\ t.outputs[k].mode = s.outputs[k].mode
                                            /\ k # n => t.outputs[k].listed = s.outputs[k].listed
<1> DEFINE o == [s.outputs[n] EXCEPT !.listed = list]
           t == [s EXCEPT !.outputs[n] = o]
<1>1. DOMAIN s.outputs[n] = OutputFields
  BY DEF Typed, ScreenShape
<1>2. /\ DOMAIN o = OutputFields /\ SameSite(o, s.outputs[n]) /\ o.mode = s.outputs[n].mode
      /\ o.listed = list
  BY <1>1, SetListed
<1>3. t = [s EXCEPT !.outputs[n].listed = list]
  BY DEF Typed, ScreenShape, ScreenFields
<1> HIDE DEF o
<1>4. /\ Typed(t) /\ t.size = s.size /\ t.next = s.next /\ t.modes = s.modes
      /\ DOMAIN t.outputs = DOMAIN s.outputs /\ t.outputs[n] = o
      /\ \A k \in DOMAIN s.outputs : k # n => t.outputs[k] = s.outputs[k]
  BY <1>2, SetOutput
<1> HIDE DEF t
<1>5. SameSites(s, t)
  BY <1>2, <1>4 DEF SameSites, SameSite
<1> QED BY <1>2, <1>3, <1>4, <1>5

\* Screens that differ in what of their lists is a client's.
LEMMA ListsOk ==
  ASSUME NEW s, NEW th, NEW late, ModesGood(s, th, late), NEW t, Typed(t),
         t.next = s.next, t.modes \subseteq s.modes, SameSites(s, t),
         \A n \in DOMAIN s.outputs :
           /\ t.outputs[n].mode = s.outputs[n].mode
           /\ \A x : Lists(t, n, x) => x \in Nat /\ x < s.next
           /\ \A m \in OwnModes(t, th) : Lists(t, n, m.id) <=> Lists(s, n, m.id)
  PROVE  ModesGood(t, th, late) /\ Fewer(s, t, th)
<1>1. OwnModes(t, th) \subseteq OwnModes(s, th)
  BY DEF OwnModes
<1>2. \A n \in DOMAIN s.outputs : /\ t.outputs[n].wl = s.outputs[n].wl
                                  /\ t.outputs[n].crtc = s.outputs[n].crtc
                                  /\ t.outputs[n].size = s.outputs[n].size
  BY DEF SameSites, SameSite
<1>3. DOMAIN t.outputs = DOMAIN s.outputs
  BY DEF SameSites
<1>4. Numbered(t)
  <2>1. \A n \in DOMAIN s.outputs : \A x :
           Contains(t.outputs[n].listed, x) => x \in Nat /\ x < s.next
    BY DEF Lists
  <2> QED BY <1>2, <1>3, <2>1 DEF Numbered, ModesGood, ModesOk
<1>5. OwnListed(t, th) /\ Fits(t, th, late) /\ NoneLeft(t, th)
  BY <1>1, <1>2, <1>3 DEF OwnListed, Fits, NoneLeft, ModesGood, ModesOk
<1>6. Fewer(s, t, th)
  <2>1. s.next \in Nat /\ s.next <= s.next
    BY DEF ModesGood, ModesOk, Typed
  <2> QED BY <1>1, <1>2, <1>3, <2>1 DEF Fewer, OwnModes
<1> QED BY <1>4, <1>5, <1>6 DEF ModesGood, ModesOk

\* create_mode.
LEMMA CreateOk ==
  ASSUME NEW s, NEW th, NEW late, ModesGood(s, th, late), NEW z
  PROVE  LET t == CreateMode(s, z)
         IN  /\ ModesGood(t, th, late) /\ Fewer(s, t, th) /\ t.size = s.size /\ SameSites(s, t)
             /\ \A of : AtModes(s, of, th) => AtModes(t, of, th)
             /\ \A n \in DOMAIN s.outputs : t.outputs[n].mode = s.outputs[n].mode
             /\ t.outputs = s.outputs
<1> DEFINE m == [id |-> s.next, size |-> z, ours |-> FALSE]
           t == [s EXCEPT !.next = s.next + 1, !.modes = s.modes \cup {m}]
<1>1. m.id = s.next /\ m.size = z /\ ~m.ours
  OBVIOUS
<1>2. CreateMode(s, z) = t
  BY Zenon DEF CreateMode, NewMode
<1> HIDE DEF m
<1>3. /\ Typed(t) /\ Numbered(t) /\ t.size = s.size /\ t.outputs = s.outputs
      /\ t.modes = s.modes \cup {m} /\ Fewer(s, t, th) /\ OwnListed(t, th) /\ Fits(t, th, late)
      /\ OwnModes(t, th) = OwnModes(s, th)
  BY <1>1, ModeMade DEF ModesGood, ModesOk
<1> HIDE DEF t
<1>4. NoneLeft(t, th)
  BY <1>3 DEF NoneLeft, Lists, ModesGood
<1>5. SameSites(s, t)
  BY <1>3 DEF SameSites, SameSite
<1>6. \A of : AtModes(s, of, th) => AtModes(t, of, th)
  BY <1>3, SameShowing
<1> QED BY <1>2, <1>3, <1>4, <1>5, <1>6 DEF ModesGood, ModesOk

\* add_output_mode and delete_output_mode.
LEMMA ListOk ==
  ASSUME NEW s, NEW th, NEW late, ModesGood(s, th, late), NEW n \in DOMAIN s.outputs,
         NEW id \in th, id \in Nat, id < s.next,
         NEW t, t \in {AddOutputMode(s, n, id), DeleteOutputMode(s, n, id)}
  PROVE  /\ ModesGood(t, th, late) /\ Fewer(s, t, th) /\ t.size = s.size /\ SameSites(s, t)
         /\ \A of : AtModes(s, of, th) => AtModes(t, of, th)
         /\ \A k \in DOMAIN s.outputs : t.outputs[k].mode = s.outputs[k].mode
<1> DEFINE old == s.outputs[n].listed
<1>1. Typed(s) /\ Numbered(s) /\ old \in Seq(Nat)
  BY DEF ModesGood, ModesOk, Typed
<1>2. PICK list \in {With(old, id), Without(old, {id})} : t = [s EXCEPT !.outputs[n].listed = list]
  BY DEF AddOutputMode, DeleteOutputMode
<1>3. list \in Seq(Nat) /\ \A x : /\ Contains(list, x) => Contains(old, x) \/ x = id
                                  /\ x # id => (Contains(list, x) <=> Contains(old, x))
  BY <1>1, <1>2, WithHas, WithoutHas
<1>4. /\ Typed(t) /\ t.size = s.size /\ t.next = s.next /\ t.modes = s.modes
      /\ SameSites(s, t) /\ t.outputs[n].listed = list
      /\ \A k \in DOMAIN s.outputs : /\ t.outputs[k].mode = s.outputs[k].mode
                                     /\ k # n => t.outputs[k].listed = s.outputs[k].listed
  BY <1>1, <1>2, <1>3, ListSet
<1>5. \A k \in DOMAIN s.outputs :
        /\ \A x : Lists(t, k, x) => x \in Nat /\ x < s.next
        /\ \A m \in OwnModes(t, th) : Lists(t, k, m.id) <=> Lists(s, k, m.id)
  BY <1>1, <1>3, <1>4 DEF Lists, OwnModes, Numbered
<1>6. ModesGood(t, th, late) /\ Fewer(s, t, th)
  BY <1>4, <1>5, ListsOk
<1>7. DOMAIN t.outputs = DOMAIN s.outputs
      /\ \A k \in DOMAIN s.outputs : /\ t.outputs[k].size = s.outputs[k].size
                                     /\ t.outputs[k].wl = s.outputs[k].wl
  BY <1>4 DEF SameSites, SameSite
<1>8. \A of : AtModes(s, of, th) => AtModes(t, of, th)
  BY <1>4, <1>7, SameShowing
<1> QED BY <1>4, <1>6, <1>8

\* destroy_mode.
LEMMA DestroyOk ==
  ASSUME NEW s, NEW th, NEW late, ModesGood(s, th, late), NEW id
  PROVE  LET t == DestroyMode(s, id)
         IN  /\ ModesGood(t, th, late) /\ Fewer(s, t, th) /\ t.size = s.size /\ SameSites(s, t)
             /\ \A n \in DOMAIN s.outputs : /\ t.outputs[n].mode = s.outputs[n].mode
                                            /\ s.outputs[n].mode # id /\ Showing(s, n) => Showing(t, n)
<1> DEFINE S == DOMAIN s.outputs
           list(n) == Without(s.outputs[n].listed, {id})
           os == [n \in S |-> [s.outputs[n] EXCEPT !.listed = list(n)]]
           ms == {m \in s.modes : m.id # id}
           t == [s EXCEPT !.modes = ms, !.outputs = os]
<1>1. DestroyMode(s, id) = t
  BY DEF DestroyMode
<1>2. /\ DOMAIN s = ScreenFields /\ IsList(s.outputs) /\ s.next \in Nat
      /\ \A n \in S : DOMAIN s.outputs[n] = OutputFields /\ s.outputs[n].listed \in Seq(Nat)
  BY DEF ModesGood, ModesOk, Typed, ScreenShape
<1>3. \A n \in S : /\ list(n) \in Seq(Nat)
                   /\ \A x : Contains(list(n), x) <=> Contains(s.outputs[n].listed, x) /\ x # id
  <2> SUFFICES ASSUME NEW n \in S
               PROVE  /\ list(n) \in Seq(Nat)
                      /\ \A x : Contains(list(n), x) <=> Contains(s.outputs[n].listed, x) /\ x # id
    OBVIOUS
  <2> QED BY <1>2, WithoutHas
<1> HIDE DEF list
<1>4. \A n \in S : /\ DOMAIN os[n] = OutputFields /\ SameSite(os[n], s.outputs[n])
                   /\ os[n].mode = s.outputs[n].mode /\ os[n].listed = list(n)
  BY <1>2 DEF OutputFields, SameSite
<1>5. DOMAIN os = S
  OBVIOUS
<1>6. IsList(os)
  <2>1. Len(s.outputs) \in Nat /\ S = 1 .. Len(s.outputs)
    BY <1>2, ListIs
  <2>2. os \in [1 .. Len(s.outputs) -> {os[n] : n \in S}]
    BY <2>1
  <2> HIDE DEF os
  <2> QED BY <2>1, <2>2, ListMade
<1> HIDE DEF os
<1>7. ms \subseteq s.modes /\ \A m \in s.modes : m.id # id => m \in ms
  OBVIOUS
<1>8. \A m \in ms : m.id # id
  OBVIOUS
<1> HIDE DEF ms
<1>9. /\ DOMAIN t = ScreenFields /\ t.outputs = os /\ t.modes = ms /\ t.next = s.next
      /\ t.size = s.size
  BY <1>2 DEF ScreenFields
<1> HIDE DEF t
<1>10. Typed(t)
  BY <1>2, <1>3, <1>4, <1>5, <1>6, <1>9 DEF Typed, ScreenShape
<1>11. SameSites(s, t)
  BY <1>4, <1>5, <1>9 DEF SameSites
<1>12. \A n \in S :
        /\ t.outputs[n].mode = s.outputs[n].mode
        /\ \A x : Lists(t, n, x) => x \in Nat /\ x < s.next
        /\ \A m \in OwnModes(t, th) : Lists(t, n, m.id) <=> Lists(s, n, m.id)
  <2>1. \A n \in S : \A x : Contains(s.outputs[n].listed, x) => x \in Nat /\ x < s.next
    BY DEF ModesGood, ModesOk, Numbered
  <2> QED BY <1>3, <1>4, <1>8, <1>9, <2>1 DEF Lists, OwnModes
<1>13. ModesGood(t, th, late) /\ Fewer(s, t, th)
  BY <1>7, <1>9, <1>10, <1>11, <1>12, ListsOk
<1>14. \A n \in S : s.outputs[n].mode # id /\ Showing(s, n) => Showing(t, n)
  BY <1>7, <1>9, <1>11, <1>12 DEF Showing, HasSize, SameSites, SameSite
<1> QED BY <1>1, <1>9, <1>11, <1>12, <1>13, <1>14

\* set_crtc.
LEMMA CrtcOk ==
  ASSUME NEW s, NEW th, NEW late, ModesGood(s, th, late), NEW n \in DOMAIN s.outputs,
         NEW pos, NEW id, id = Off \/ \E m \in s.modes : m.id = id,
         \A m \in OwnModes(s, th) : m.id = id => Lists(s, n, id)
  PROVE  LET t == SetCrtc(s, n, pos, id)
             p == t.outputs[n]
             o == s.outputs[n]
             fits == id = Off \/ HasSize(s, id, o.size)
         IN  /\ ModesGood(t, th, IF fits THEN late ELSE late \cup {o.wl})
             /\ Fewer(s, t, th) /\ t.size = s.size /\ t.modes = s.modes
             /\ DOMAIN t.outputs = DOMAIN s.outputs
             /\ \A k \in DOMAIN s.outputs : k # n => t.outputs[k] = s.outputs[k]
             /\ p.wl = o.wl /\ p.crtc = o.crtc /\ p.at = o.at /\ p.log = o.log /\ p.mode = id
             /\ fits => p.size = o.size
             /\ id # Off => Showing(t, n)
<1> DEFINE o == s.outputs[n]
           z == IF id = Off THEN o.size ELSE (CHOOSE m \in s.modes : m.id = id).size
           p == [o EXCEPT !.mode = id, !.pos = pos, !.size = z]
           t == [s EXCEPT !.outputs[n] = p]
           fits == id = Off \/ HasSize(s, id, o.size)
<1>1. SetCrtc(s, n, pos, id) = t
  BY DEF SetCrtc
<1>2. Typed(s) /\ Numbered(s) /\ DOMAIN o = OutputFields /\ o.listed \in Seq(Nat) /\ s.next \in Nat
  BY DEF ModesGood, ModesOk, Typed, ScreenShape
<1>3. id \in Nat /\ id < s.next
  <2>1. 0 < s.next
    BY <1>2 DEF Numbered, Off
  <2> QED BY <1>2, <2>1 DEF Numbered, Off
<1>4. /\ id # Off => HasSize(s, id, z)
      /\ fits => z = o.size
  <2>1. CASE id = Off
    BY <2>1
  <2>2. CASE id # Off
    <3> DEFINE m == CHOOSE m \in s.modes : m.id = id
    <3>1. m \in s.modes /\ m.id = id
      BY <2>2
    <3>2. z = m.size
      BY <2>2
    <3> HIDE DEF m, z
    <3> QED BY <1>2, <2>2, <3>1, <3>2 DEF HasSize, Numbered
  <2> QED BY <2>1, <2>2
<1> HIDE DEF z
<1>5. /\ DOMAIN p = OutputFields /\ p.listed = o.listed /\ p.mode = id /\ p.size = z
      /\ p.wl = o.wl /\ p.crtc = o.crtc /\ p.at = o.at /\ p.log = o.log
  BY <1>2 DEF OutputFields
<1> HIDE DEF p
<1>6. /\ Typed(t) /\ t.size = s.size /\ t.next = s.next /\ t.modes = s.modes
      /\ DOMAIN t.outputs = DOMAIN s.outputs /\ t.outputs[n] = p
      /\ \A k \in DOMAIN s.outputs : k # n => t.outputs[k] = s.outputs[k]
  BY <1>2, <1>5, SetOutput
<1> HIDE DEF t
<1>7. \A k \in DOMAIN s.outputs : /\ t.outputs[k].wl = s.outputs[k].wl
                                  /\ t.outputs[k].crtc = s.outputs[k].crtc
                                  /\ t.outputs[k].listed = s.outputs[k].listed
                                  /\ t.outputs[k].mode = IF k = n THEN id ELSE s.outputs[k].mode
  BY <1>5, <1>6
<1>8. Numbered(t)
  BY <1>2, <1>3, <1>6, <1>7 DEF Numbered
<1>9. OwnModes(t, th) = OwnModes(s, th) /\ \A k \in DOMAIN s.outputs : \A x : Lists(t, k, x) <=> Lists(s, k, x)
  BY <1>6, <1>7, SameLists DEF Lists
<1>10. OwnListed(t, th) /\ NoneLeft(t, th) /\ Fewer(s, t, th)
  <2>1. OwnListed(t, th) /\ NoneLeft(t, th)
    BY <1>6, <1>7, <1>9 DEF OwnListed, NoneLeft, ModesGood, ModesOk
  <2>2. s.next <= s.next
    BY <1>2
  <2> QED BY <1>2, <1>6, <1>7, <1>9, <2>1, <2>2 DEF Fewer, OwnModes
<1>11. Fits(t, th, IF fits THEN late ELSE late \cup {o.wl})
  <2>1. fits => \A k \in DOMAIN s.outputs : t.outputs[k].size = s.outputs[k].size
    BY <1>4, <1>5, <1>6
  <2>2. \A k \in DOMAIN s.outputs : k # n => t.outputs[k].size = s.outputs[k].size
    BY <1>6
  <2> HIDE DEF fits
  <2> QED BY <1>5, <1>6, <1>7, <1>9, <2>1, <2>2 DEF Fits, ModesGood, ModesOk
<1>12. id # Off => Showing(t, n)
  BY <1>4, <1>5, <1>6 DEF Showing, HasSize
<1> QED BY <1>1, <1>4, <1>5, <1>6, <1>8, <1>10, <1>11, <1>12 DEF ModesGood, ModesOk

\* adopt_mode.
LEMMA AdoptOk ==
  ASSUME NEW s, NEW th, NEW late, ModesGood(s, th, late), NEW n \in DOMAIN s.outputs,
         NEW id, HasSize(s, id, s.outputs[n].size),
         \A m \in OwnModes(s, th) : m.id = id => Lists(s, n, id)
  PROVE  LET t == AdoptMode(s, n, id)
         IN  /\ ModesGood(t, th, late) /\ Fewer(s, t, th) /\ t.size = s.size /\ SameSites(s, t)
             /\ \A k \in DOMAIN s.outputs : t.outputs[k].mode = IF k = n THEN id ELSE s.outputs[k].mode
             /\ \A of : AtModes(s, of, th) => AtModes(t, of \ {s.outputs[n].wl}, th)
<1> DEFINE o == s.outputs[n]
           native == {m.id : m \in {m \in s.modes : m.ours /\ m.id # id /\ m.size = o.size}}
           list == Without(With(o.listed, id), native)
           p == [o EXCEPT !.mode = id, !.listed = list]
           u == [s EXCEPT !.outputs[n] = p]
           t == IF o.mode = id THEN s ELSE Prune(u)
<1>1. AdoptMode(s, n, id) = t
  BY DEF AdoptMode
<1>2. Typed(s) /\ Numbered(s) /\ DOMAIN o = OutputFields /\ o.listed \in Seq(Nat) /\ s.next \in Nat
  BY DEF ModesGood, ModesOk, Typed, ScreenShape
<1>3. id \in Nat /\ id < s.next /\ id \notin native
  BY <1>2 DEF HasSize, Numbered
<1> HIDE DEF native
<1>4. list \in Seq(Nat) /\ \A x : Contains(list, x) <=> (Contains(o.listed, x) \/ x = id) /\ x \notin native
  <2> DEFINE one == With(o.listed, id)
  <2>1. one \in Seq(Nat) /\ \A x : Contains(one, x) <=> Contains(o.listed, x) \/ x = id
    BY <1>2, <1>3, WithHas
  <2> HIDE DEF one
  <2>2. /\ Without(one, native) \in Seq(Nat)
        /\ \A x : Contains(Without(one, native), x) <=> Contains(one, x) /\ x \notin native
    BY <2>1, WithoutHas
  <2>3. list = Without(one, native)
    BY DEF one
  <2> HIDE DEF list
  <2> QED BY <2>1, <2>2, <2>3
<1> HIDE DEF list
<1>5. DOMAIN p = OutputFields /\ SameSite(p, o) /\ p.mode = id /\ p.listed = list
  BY <1>2 DEF OutputFields, SameSite
<1> HIDE DEF p
<1>6. /\ Typed(u) /\ u.size = s.size /\ u.next = s.next /\ u.modes = s.modes
      /\ DOMAIN u.outputs = DOMAIN s.outputs /\ u.outputs[n] = p
      /\ \A k \in DOMAIN s.outputs : k # n => u.outputs[k] = s.outputs[k]
  BY <1>2, <1>4, <1>5, SetOutput
<1> HIDE DEF u
<1>7. SameSites(s, u)
      /\ \A k \in DOMAIN s.outputs : u.outputs[k].mode = IF k = n THEN id ELSE s.outputs[k].mode
  BY <1>5, <1>6 DEF SameSites, SameSite
<1>8. /\ OwnModes(u, th) = OwnModes(s, th)
      /\ \A k \in DOMAIN s.outputs : \A x : Lists(u, k, x) =>
           (Lists(s, k, x) \/ (k = n /\ x = id)) /\ x \in Nat /\ x < s.next
      /\ Lists(u, n, id)
      /\ \A k \in DOMAIN s.outputs : k # n => \A x : Lists(u, k, x) <=> Lists(s, k, x)
  BY <1>2, <1>3, <1>4, <1>5, <1>6, SameLists DEF Lists, Numbered
<1>9. \A m \in OwnModes(u, th) : \A k \in DOMAIN s.outputs : Lists(u, k, m.id) => Lists(s, k, m.id)
  BY <1>8
<1>10. Numbered(u)
  <2>1. \A k \in DOMAIN s.outputs : /\ u.outputs[k].crtc = s.outputs[k].crtc
                                    /\ u.outputs[k].wl = s.outputs[k].wl
    BY <1>7 DEF SameSites, SameSite
  <2>2. \A k \in DOMAIN s.outputs : \A x :
          Contains(u.outputs[k].listed, x) => x \in Nat /\ x < s.next
    BY <1>8 DEF Lists
  <2> QED BY <1>2, <1>3, <1>6, <1>7, <2>1, <2>2 DEF Numbered
<1>11. OwnListed(u, th) /\ Fits(u, th, late) /\ Fewer(s, u, th)
  <2>1. OwnListed(u, th)
    <3>1. OwnListed(s, th)
      BY DEF ModesGood, ModesOk
    <3>2. \A m \in OwnModes(u, th) : \A k \in DOMAIN s.outputs :
             u.outputs[k].mode = m.id => Lists(u, k, m.id)
      BY <1>7, <1>8, <3>1 DEF OwnListed
    <3>3. \A m \in OwnModes(u, th) : \A j, k \in DOMAIN s.outputs :
             Lists(u, j, m.id) /\ Lists(u, k, m.id) => j = k
      BY <1>8, <1>9, <3>1 DEF OwnListed
    <3> QED BY <1>6, <3>2, <3>3 DEF OwnListed
  <2>2. Fits(u, th, late)
    BY <1>6, <1>7, <1>8, <1>9 DEF Fits, ModesGood, ModesOk, SameSites, SameSite
  <2>3. Fewer(s, u, th)
    <3>1. s.next <= s.next
      BY <1>2
    <3> QED BY <1>2, <1>6, <1>7, <1>8, <1>9, <3>1 DEF Fewer, OwnModes, SameSites, SameSite
  <2> QED BY <2>1, <2>2, <2>3
<1>12. CASE o.mode = id
  <2>1. t = s
    BY <1>12
  <2>2. Showing(s, n)
    BY <1>12 DEF Showing
  <2>3. \A of : AtModes(s, of, th) => AtModes(s, of \ {o.wl}, th)
    BY <1>2, <2>2 DEF AtModes, Numbered
  <2>4. SameSites(s, s)
    BY DEF SameSites, SameSite
  <2> QED BY <1>1, <1>2, <1>12, <2>1, <2>3, <2>4, FewerSame
<1>13. CASE o.mode # id
  <2> DEFINE v == Prune(u)
  <2>1. t = v
    BY <1>13
  <2>2. /\ ModesOk(v, th, late) /\ NoneLeft(v, th)
        /\ v.size = u.size /\ v.next = u.next /\ v.outputs = u.outputs
        /\ Fewer(u, v, th)
        /\ \A k \in DOMAIN u.outputs : Showing(u, k) => Showing(v, k) \/ u.outputs[k].mode \in th
    BY <1>6, <1>10, <1>11, PruneOk DEF ModesOk
  <2> HIDE DEF v, t
  <2>3. Fewer(s, v, th)
    BY <1>11, <2>2, FewerAll DEF ModesOk
  <2>4. Showing(u, n) /\ \A k \in DOMAIN s.outputs : k # n /\ Showing(s, k) => Showing(u, k)
    BY <1>5, <1>6, <1>7 DEF Showing, HasSize, SameSites, SameSite
  <2>5. ASSUME NEW of, AtModes(s, of, th) PROVE AtModes(v, of \ {o.wl}, th)
    <3>1. \A k \in DOMAIN s.outputs : /\ u.outputs[k].wl = s.outputs[k].wl
                                      /\ k # n => s.outputs[k].wl # o.wl
                                      /\ k # n => u.outputs[k].mode = s.outputs[k].mode
      BY <1>2, <1>7 DEF Numbered, SameSites, SameSite
    <3> QED BY <1>6, <2>2, <2>4, <2>5, <3>1 DEF AtModes
  <2>6. SameSites(s, v)
    BY <1>7, <2>2 DEF SameSites
  <2>7. v.size = s.size /\ \A k \in DOMAIN s.outputs :
                              v.outputs[k].mode = IF k = n THEN id ELSE s.outputs[k].mode
    BY <1>6, <1>7, <2>2
  <2> QED BY <1>1, <2>1, <2>2, <2>3, <2>5, <2>6, <2>7 DEF ModesGood
<1> QED BY <1>12, <1>13

\* A screen put in place: its outputs are all as they were.
SameModes(s, t) ==
    /\ t.next = s.next /\ t.modes = s.modes /\ DOMAIN t.outputs = DOMAIN s.outputs
    /\ \A n \in DOMAIN s.outputs :
         LET p == t.outputs[n]
             o == s.outputs[n]
         IN  /\ p.wl = o.wl /\ p.crtc = o.crtc /\ p.size = o.size /\ p.at = o.at /\ p.log = o.log
             /\ p.mode = o.mode /\ p.listed = o.listed

LEMMA SameModesOk ==
  ASSUME NEW s, NEW t, SameModes(s, t), Typed(t), NEW th, NEW late, ModesGood(s, th, late)
  PROVE  /\ ModesGood(t, th, late)
         /\ \A of : AtModes(s, of, th) => AtModes(t, of, th)
         /\ \A n \in DOMAIN s.outputs : Showing(s, n) => Showing(t, n)
<1>1. OwnModes(t, th) = OwnModes(s, th)
  BY SameLists DEF SameModes
<1>2. \A n \in DOMAIN s.outputs : \A id : Lists(t, n, id) <=> Lists(s, n, id)
  BY DEF SameModes, Lists
<1>3. Numbered(t)
  BY DEF SameModes, Numbered, ModesGood, ModesOk
<1>4. OwnListed(t, th) /\ Fits(t, th, late) /\ NoneLeft(t, th)
  BY <1>1, <1>2 DEF SameModes, OwnListed, Fits, NoneLeft, ModesGood, ModesOk
<1>5. /\ \A of : AtModes(s, of, th) => AtModes(t, of, th)
      /\ \A n \in DOMAIN s.outputs : Showing(s, n) => Showing(t, n)
  BY SameShowing DEF SameModes
<1> QED BY <1>3, <1>4, <1>5 DEF ModesGood, ModesOk

LEMMA SameModesFewer ==
  ASSUME NEW s, NEW t, NEW u, NEW th, Fewer(s, t, th), SameModes(t, u)
  PROVE  Fewer(s, u, th)
<1>1. OwnModes(u, th) = OwnModes(t, th)
  BY SameLists DEF SameModes
<1>2. \A n \in DOMAIN t.outputs : \A id : Lists(u, n, id) <=> Lists(t, n, id)
  BY DEF SameModes, Lists
<1> QED BY <1>1, <1>2 DEF SameModes, Fewer

\* restore_outputs's turn at one output.
LEMMA BackOk ==
  ASSUME NEW s, NEW th, NEW late, ModesGood(s, th, late), NEW n \in DOMAIN s.outputs
  PROVE  LET t == Back(s, n)
         IN  /\ ModesGood(t, th, late) /\ Fewer(s, t, th) /\ t.size = s.size /\ SameSites(s, t)
             /\ \A k \in DOMAIN s.outputs : Showing(s, k) => Showing(t, k)
             /\ Showing(t, n) \/ s.outputs[n].wl = Off
<1> DEFINE o == s.outputs[n]
           t == Show(s, n, o.size)
<1>1. Typed(s) /\ Numbered(s) /\ OwnListed(s, th) /\ s.next \in Nat
  BY DEF ModesGood, ModesOk, Typed
<1>2. CASE o.wl = Off \/ Showing(s, n)
  <2>1. Back(s, n) = s
    BY <1>2 DEF Back
  <2>2. SameSites(s, s)
    BY DEF SameSites, SameSite
  <2> QED BY <1>1, <1>2, <2>1, <2>2, FewerSame
<1>3. CASE ~(o.wl = Off \/ Showing(s, n))
  <2>1. Back(s, n) = t
    BY <1>3 DEF Back
  <2>2. /\ Typed(t) /\ Numbered(t) /\ OwnListed(t, th) /\ SameSites(s, t)
        /\ t.size = s.size /\ Fewer(s, t, th) /\ s.modes \subseteq t.modes
        /\ HasSize(t, t.outputs[n].mode, o.size) /\ Lists(t, n, t.outputs[n].mode)
        /\ \A k \in DOMAIN s.outputs : k # n => t.outputs[k] = s.outputs[k]
        /\ \A id : Lists(s, n, id) => Lists(t, n, id)
        /\ \A m \in OwnModes(t, th) :
             \/ m \in OwnModes(s, th)
             \/ m.id = s.next /\ m.id = t.outputs[n].mode
        /\ \A m \in OwnModes(t, th) : \A k \in DOMAIN s.outputs :
             Lists(t, k, m.id) => Lists(s, k, m.id) \/ (k = n /\ m.id = t.outputs[n].mode)
    BY <1>1, ShowOk
  <2> HIDE DEF t
  <2>3. \A k \in DOMAIN s.outputs : /\ t.outputs[k].size = s.outputs[k].size
                                    /\ t.outputs[k].wl = s.outputs[k].wl
    BY <2>2 DEF SameSites, SameSite
  <2>4. /\ Showing(t, n)
        /\ \A k \in DOMAIN s.outputs : Showing(s, k) => Showing(t, k)
    BY <1>3, <2>2, <2>3 DEF Showing, HasSize
  <2>5. ASSUME NEW m \in OwnModes(t, th), m.id = t.outputs[n].mode PROVE m.size = o.size
    <3>1. PICK x \in t.modes : x.id = m.id /\ x.size = o.size
      BY <2>2, <2>5 DEF HasSize
    <3> QED BY <2>2, <3>1 DEF Numbered, OwnModes
  <2>6. Fits(t, th, late)
    <3> SUFFICES ASSUME NEW m \in OwnModes(t, th), NEW k \in DOMAIN s.outputs, Lists(t, k, m.id)
                 PROVE  s.outputs[k].size = m.size \/ s.outputs[k].wl \in late
      BY <2>2, <2>3 DEF Fits, SameSites
    <3>1. CASE m \in OwnModes(s, th) /\ Lists(s, k, m.id)
      BY <3>1 DEF Fits, ModesGood, ModesOk
    <3>2. CASE k = n /\ m.id = t.outputs[n].mode
      BY <2>5, <3>2
    <3>3. CASE m.id = s.next /\ m.id = t.outputs[n].mode /\ Lists(s, k, m.id)
      <4>1. ~(s.next < s.next)
        BY <1>1
      <4> QED BY <1>1, <3>3, <4>1 DEF Lists, Numbered
    <3> QED BY <2>2, <3>1, <3>2, <3>3
  <2>7. NoneLeft(t, th)
    <3> SUFFICES ASSUME NEW m \in OwnModes(t, th)
                 PROVE  \E k \in DOMAIN s.outputs : Lists(t, k, m.id)
      BY <2>2 DEF NoneLeft, SameSites
    <3>1. CASE m.id = t.outputs[n].mode
      BY <2>2, <3>1
    <3>2. CASE m \in OwnModes(s, th)
      <4>1. PICK k \in DOMAIN s.outputs : Lists(s, k, m.id)
        BY <3>2 DEF NoneLeft, ModesGood
      <4> QED BY <2>2, <4>1 DEF Lists
    <3> QED BY <2>2, <3>1, <3>2
  <2> QED BY <2>1, <2>2, <2>4, <2>6, <2>7 DEF ModesGood, ModesOk
<1> QED BY <1>2, <1>3

LEMMA SitesAll ==
  ASSUME NEW s, NEW t, NEW u, SameSites(s, t), SameSites(t, u)
  PROVE  SameSites(s, u)
BY DEF SameSites, SameSite

\* All of restore_outputs's turns.
LEMMA AllBackOk ==
  ASSUME NEW s, NEW th, NEW late, ModesGood(s, th, late)
  PROVE  LET t == AllBack(s)
         IN  /\ ModesGood(t, th, late) /\ Fewer(s, t, th) /\ t.size = s.size /\ SameSites(s, t)
             /\ \A n \in DOMAIN s.outputs : Showing(t, n) \/ s.outputs[n].wl = Off
<1> DEFINE k == Len(s.outputs)
           Good(t, n) == /\ ModesGood(t, th, late) /\ Fewer(s, t, th) /\ t.size = s.size
                         /\ SameSites(s, t)
                         /\ \A j \in 1 .. n : Showing(t, j) \/ s.outputs[j].wl = Off
<1>1. k \in Nat /\ DOMAIN s.outputs = 1 .. k /\ s.next \in Nat
  BY ListIs DEF ModesGood, ModesOk, Typed
<1>2. PICK f : /\ f[0] = s /\ AllBack(s) = f[k]
               /\ \A n \in 1 .. k : n - 1 \in 0 .. k /\ f[n] = Back(f[n - 1], n)
  BY <1>1, BackGrows
<1>3. Good(f[0], 0)
  <2>1. SameSites(s, s) /\ Fewer(s, s, th)
    BY <1>1, FewerSame DEF SameSites, SameSite
  <2>2. 1 .. 0 = {}
    OBVIOUS
  <2> QED BY <1>2, <2>1, <2>2
<1> HIDE DEF k
<1>4. ASSUME NEW n \in 1 .. k, Good(f[n - 1], n - 1) PROVE Good(f[n], n)
  <2> DEFINE u == f[n - 1]
             t == f[n]
  <2>1. /\ ModesGood(u, th, late) /\ Fewer(s, u, th) /\ u.size = s.size /\ SameSites(s, u)
        /\ \A j \in 1 .. n - 1 : Showing(u, j) \/ s.outputs[j].wl = Off
    BY <1>4
  <2>2. t = Back(u, n) /\ n \in DOMAIN u.outputs
    BY <1>1, <1>2, <2>1 DEF SameSites
  <2> HIDE DEF u, t
  <2>3. /\ ModesGood(t, th, late) /\ Fewer(u, t, th) /\ t.size = u.size /\ SameSites(u, t)
        /\ \A j \in DOMAIN u.outputs : Showing(u, j) => Showing(t, j)
        /\ Showing(t, n) \/ u.outputs[n].wl = Off
    BY <2>1, <2>2, BackOk
  <2>4. SameSites(s, t) /\ Fewer(s, t, th)
    BY <2>1, <2>3, SitesAll, FewerAll DEF ModesGood, ModesOk
  <2>5. \A j \in 1 .. n : j = n \/ j \in 1 .. n - 1
    OBVIOUS
  <2>6. /\ DOMAIN u.outputs = 1 .. k /\ \A j \in 1 .. n : j \in 1 .. k
        /\ u.outputs[n].wl = s.outputs[n].wl
    BY <1>1, <2>1, <2>2 DEF SameSites, SameSite
  <2>7. \A j \in 1 .. n : Showing(t, j) \/ s.outputs[j].wl = Off
    BY <2>1, <2>3, <2>5, <2>6
  <2>8. t.size = s.size
    BY <2>1, <2>3
  <2> QED BY <2>3, <2>4, <2>7, <2>8 DEF t
<1> HIDE DEF Good
<1>5. Good(f[k], k)
  <2> DEFINE Bad == {n \in 0 .. k : ~Good(f[n], n)}
  <2> SUFFICES ASSUME ~Good(f[k], k) PROVE FALSE
    OBVIOUS
  <2>1. Bad \in SUBSET Nat /\ Bad # {}
    <3>1. k \in 0 .. k
      BY <1>1
    <3> QED BY <1>1, <3>1
  <2>2. PICK n \in Bad : \A m \in Bad : n <= m
    <3> HIDE DEF Bad
    <3> QED BY <2>1, LeastOf
  <2>3. n # 0 /\ n \in 0 .. k
    BY <1>3, <2>2
  <2>4. n \in 1 .. k /\ n - 1 \in 0 .. k /\ ~(n <= n - 1)
    BY <1>1, <2>3
  <2> QED BY <1>4, <2>2, <2>4
<1> QED BY <1>1, <1>2, <1>5 DEF Good

\* The rectangle's numbers.
LEMMA ResizedIs ==
  ASSUME NEW s, Typed(s), NEW n \in DOMAIN s.outputs, NEW r
  PROVE  LET t == Resized(s, n, r)
             p == t.outputs[n]
             o == s.outputs[n]
         IN  /\ Typed(t) /\ t.size = s.size /\ t.next = s.next /\ t.modes = s.modes
             /\ DOMAIN t.outputs = DOMAIN s.outputs
             /\ \A k \in DOMAIN s.outputs : k # n => t.outputs[k] = s.outputs[k]
             /\ p.wl = o.wl /\ p.crtc = o.crtc /\ p.mode = o.mode /\ p.listed = o.listed
             /\ p.at = r.at /\ p.log = r.log /\ p.size = r.size
<1> DEFINE o == s.outputs[n]
           p == [o EXCEPT !.at = r.at, !.log = r.log, !.size = r.size]
           t == [s EXCEPT !.outputs[n] = p]
<1>1. Resized(s, n, r) = t
  BY DEF Resized
<1>2. DOMAIN o = OutputFields /\ o.listed \in Seq(Nat)
  BY DEF Typed, ScreenShape
<1>3. /\ DOMAIN p = OutputFields
      /\ p.wl = o.wl /\ p.crtc = o.crtc /\ p.mode = o.mode /\ p.listed = o.listed
      /\ p.at = r.at /\ p.log = r.log /\ p.size = r.size
  BY <1>2 DEF OutputFields
<1> HIDE DEF p
<1>4. /\ Typed(t) /\ t.size = s.size /\ t.next = s.next /\ t.modes = s.modes
      /\ DOMAIN t.outputs = DOMAIN s.outputs /\ t.outputs[n] = p
      /\ \A k \in DOMAIN s.outputs : k # n => t.outputs[k] = s.outputs[k]
  BY <1>2, <1>3, SetOutput
<1> HIDE DEF t
<1> QED BY <1>1, <1>3, <1>4

\* An output changed: whatever of its own modes were native are none of its list any more,
\* but the one it is at.
UpdatedOf(s, t, n, r) ==
    /\ DOMAIN t.outputs = DOMAIN s.outputs
    /\ \A k \in DOMAIN s.outputs : k # n => t.outputs[k] = s.outputs[k]
    /\ LET p == t.outputs[n]
           o == s.outputs[n]
       IN  /\ p.wl = o.wl /\ p.crtc = o.crtc
           /\ p.at = r.at /\ p.log = r.log /\ p.size = r.size

\* Show, and the rectangle's numbers.
LEMMA ShownOk ==
  ASSUME NEW s, NEW th, NEW late, ModesGood(s, th, late), NEW n \in DOMAIN s.outputs, NEW r
  PROVE  LET u == Resized(Show(s, n, r.size), n, r)
         IN  /\ Typed(u) /\ Numbered(u) /\ OwnListed(u, th) /\ NoneLeft(u, th)
             /\ u.size = s.size /\ Fewer(s, u, th) /\ UpdatedOf(s, u, n, r)
             /\ Showing(u, n) /\ Lists(u, n, u.outputs[n].mode)
             /\ \A k \in DOMAIN s.outputs : k # n /\ Showing(s, k) => Showing(u, k)
             /\ \A m \in OwnModes(u, th) : \A k \in DOMAIN s.outputs : k # n /\ Lists(u, k, m.id) =>
                  m \in OwnModes(s, th) /\ Lists(s, k, m.id)
<1> DEFINE z == r.size
           t == Show(s, n, z)
           u == Resized(t, n, r)
<1>1. Typed(s) /\ Numbered(s) /\ OwnListed(s, th) /\ s.next \in Nat
  BY DEF ModesGood, ModesOk, Typed
<1> HIDE DEF z
<1>2. /\ Typed(t) /\ Numbered(t) /\ OwnListed(t, th) /\ SameSites(s, t)
      /\ t.size = s.size /\ Fewer(s, t, th) /\ s.modes \subseteq t.modes
      /\ HasSize(t, t.outputs[n].mode, z) /\ Lists(t, n, t.outputs[n].mode)
      /\ \A k \in DOMAIN s.outputs : k # n => t.outputs[k] = s.outputs[k]
      /\ \A id : Lists(s, n, id) => Lists(t, n, id)
      /\ \A m \in OwnModes(t, th) :
           \/ m \in OwnModes(s, th)
           \/ m.id = s.next /\ m.id = t.outputs[n].mode
  BY <1>1, ShowOk
<1> HIDE DEF t
<1>3. /\ Typed(u) /\ u.size = t.size /\ u.next = t.next /\ u.modes = t.modes
      /\ DOMAIN u.outputs = DOMAIN t.outputs /\ DOMAIN t.outputs = DOMAIN s.outputs
      /\ \A k \in DOMAIN t.outputs : k # n => u.outputs[k] = t.outputs[k]
      /\ u.outputs[n].wl = t.outputs[n].wl /\ u.outputs[n].crtc = t.outputs[n].crtc
      /\ u.outputs[n].mode = t.outputs[n].mode /\ u.outputs[n].listed = t.outputs[n].listed
      /\ u.outputs[n].at = r.at /\ u.outputs[n].log = r.log /\ u.outputs[n].size = z
  BY <1>2, ResizedIs DEF SameSites, z
<1> HIDE DEF u
<1>4. \A k \in DOMAIN s.outputs : /\ u.outputs[k].wl = t.outputs[k].wl
                                  /\ u.outputs[k].crtc = t.outputs[k].crtc
                                  /\ u.outputs[k].mode = t.outputs[k].mode
                                  /\ u.outputs[k].listed = t.outputs[k].listed
  BY <1>3
<1>5. Numbered(u)
  BY <1>2, <1>3, <1>4 DEF Numbered
<1>6. OwnModes(u, th) = OwnModes(t, th) /\ \A k \in DOMAIN s.outputs : \A id : Lists(u, k, id) <=> Lists(t, k, id)
  BY <1>3, <1>4, SameLists DEF Lists
<1>7. OwnListed(u, th)
  BY <1>2, <1>3, <1>4, <1>6 DEF OwnListed
<1>8. NoneLeft(u, th)
  <2> SUFFICES ASSUME NEW m \in OwnModes(t, th)
               PROVE  \E k \in DOMAIN s.outputs : Lists(t, k, m.id)
    BY <1>3, <1>6 DEF NoneLeft
  <2>1. CASE m.id = t.outputs[n].mode
    BY <1>2, <2>1
  <2>2. CASE m \in OwnModes(s, th)
    <3>1. PICK k \in DOMAIN s.outputs : Lists(s, k, m.id)
      BY <2>2 DEF NoneLeft, ModesGood
    <3> QED BY <1>2, <3>1 DEF Lists
  <2> QED BY <1>2, <2>1, <2>2
<1>9. Fewer(s, u, th)
  BY <1>2, <1>3, <1>4, <1>6 DEF Fewer
<1>10. UpdatedOf(s, u, n, r)
  BY <1>2, <1>3 DEF UpdatedOf, SameSites, SameSite, z
<1>11. Showing(u, n) /\ Lists(u, n, u.outputs[n].mode)
  BY <1>2, <1>3, <1>6 DEF Showing, HasSize
<1>12. \A k \in DOMAIN s.outputs : k # n /\ Showing(s, k) => Showing(u, k)
  BY <1>2, <1>3 DEF Showing, HasSize
<1>13. ASSUME NEW m \in OwnModes(u, th), NEW k \in DOMAIN s.outputs, k # n, Lists(u, k, m.id)
       PROVE  m \in OwnModes(s, th) /\ Lists(s, k, m.id)
  <2>1. Lists(s, k, m.id)
    BY <1>2, <1>3, <1>13 DEF Lists
  <2>2. m.id # s.next
    <3>1. m.id < s.next
      BY <1>1, <2>1 DEF Numbered, Lists
    <3> QED BY <1>1, <3>1
  <2> QED BY <1>2, <1>6, <2>1, <2>2
<1>14. u.size = s.size
  BY <1>2, <1>3
<1> QED BY <1>3, <1>5, <1>7, <1>8, <1>9, <1>10, <1>11, <1>12, <1>13, <1>14 DEF u, t, z

\* sync_wayland_output, of an output there is.
LEMMA UpdatedOk ==
  ASSUME NEW s, NEW th, NEW late, ModesGood(s, th, late), NEW n \in DOMAIN s.outputs, NEW r
  PROVE  LET t == Updated(s, n, r)
             w == s.outputs[n].wl
         IN  /\ ModesGood(t, th, late \ {w}) /\ Fewer(s, t, th) /\ UpdatedOf(s, t, n, r)
             /\ \A of : AtModes(s, of, th) => AtModes(t, of \ {w}, th)
<1> DEFINE w == s.outputs[n].wl
           u == Resized(Show(s, n, r.size), n, r)
           o == u.outputs[n]
           stale == {m.id : m \in {m \in u.modes : m.ours /\ m.id # o.mode /\ Contains(o.listed, m.id)}}
           v == IF stale = {} THEN u ELSE [u EXCEPT !.outputs[n].listed = Without(@, stale)]
           t == IF stale = {} THEN u ELSE Prune(v)
<1>1. Updated(s, n, r) = t
  BY DEF Updated
<1>2. /\ Typed(u) /\ Numbered(u) /\ OwnListed(u, th) /\ NoneLeft(u, th)
      /\ u.size = s.size /\ Fewer(s, u, th) /\ UpdatedOf(s, u, n, r)
      /\ Showing(u, n) /\ Lists(u, n, u.outputs[n].mode)
      /\ \A k \in DOMAIN s.outputs : k # n /\ Showing(s, k) => Showing(u, k)
      /\ \A m \in OwnModes(u, th) : \A k \in DOMAIN s.outputs : k # n /\ Lists(u, k, m.id) =>
           m \in OwnModes(s, th) /\ Lists(s, k, m.id)
  BY ShownOk
<1> HIDE DEF u
<1>3. /\ \A m \in OwnModes(u, th) : Lists(u, n, m.id) => m.id = o.mode \/ m.id \in stale
      /\ o.mode \notin stale
  BY DEF OwnModes, Lists
<1> HIDE DEF stale
<1>4. n \in DOMAIN u.outputs /\ DOMAIN u.outputs = DOMAIN s.outputs
      /\ o.listed \in Seq(Nat)
  BY <1>2 DEF UpdatedOf, Typed
<1>5. /\ Typed(v) /\ v.size = u.size /\ v.next = u.next /\ v.modes = u.modes
      /\ DOMAIN v.outputs = DOMAIN u.outputs
      /\ SameSite(v.outputs[n], o) /\ v.outputs[n].mode = o.mode
      /\ \A k \in DOMAIN u.outputs : k # n => v.outputs[k] = u.outputs[k]
      /\ \A x : Lists(v, n, x) <=> Lists(u, n, x) /\ x \notin stale
  <2>1. CASE stale = {}
    <3>1. v = u
      BY <2>1
    <3> HIDE DEF v
    <3> QED BY <1>2, <2>1, <3>1 DEF SameSite
  <2>2. CASE stale # {}
    <3> DEFINE list == Without(o.listed, stale)
               p == [o EXCEPT !.listed = list]
               x == [u EXCEPT !.outputs[n] = p]
    <3>1. list \in Seq(Nat) /\ \A y : Contains(list, y) <=> Contains(o.listed, y) /\ y \notin stale
      BY <1>4, WithoutHas
    <3>2. DOMAIN o = OutputFields
      BY <1>2, <1>4 DEF Typed, ScreenShape
    <3>3. v = x
      BY <1>2, <2>2 DEF Typed, ScreenShape, ScreenFields
    <3> HIDE DEF list, v
    <3>4. DOMAIN p = OutputFields /\ SameSite(p, o) /\ p.mode = o.mode /\ p.listed = list
      BY <3>2 DEF OutputFields, SameSite
    <3> HIDE DEF p
    <3>5. /\ Typed(x) /\ x.size = u.size /\ x.next = u.next /\ x.modes = u.modes
          /\ DOMAIN x.outputs = DOMAIN u.outputs /\ x.outputs[n] = p
          /\ \A k \in DOMAIN u.outputs : k # n => x.outputs[k] = u.outputs[k]
      BY <1>2, <1>4, <3>1, <3>4, SetOutput
    <3> HIDE DEF x
    <3> QED BY <3>1, <3>3, <3>4, <3>5 DEF Lists
  <2> QED BY <2>1, <2>2
<1> HIDE DEF v
<1>6. \A k \in DOMAIN s.outputs : /\ v.outputs[k].wl = u.outputs[k].wl
                                  /\ v.outputs[k].crtc = u.outputs[k].crtc
                                  /\ v.outputs[k].mode = u.outputs[k].mode
                                  /\ \A x : Lists(v, k, x) => Lists(u, k, x)
                                  /\ \A x : k # n => (Lists(v, k, x) <=> Lists(u, k, x))
  BY <1>4, <1>5 DEF SameSite, Lists
<1>7. OwnModes(v, th) = OwnModes(u, th)
  BY <1>5, SameLists
<1>8. Numbered(v)
  <2>1. \A k \in DOMAIN s.outputs : \A x : Contains(v.outputs[k].listed, x) => x \in Nat /\ x < v.next
    BY <1>2, <1>4, <1>5, <1>6 DEF Numbered, Lists
  <2> QED BY <1>2, <1>4, <1>5, <1>6, <2>1 DEF Numbered
<1>9. OwnListed(v, th)
  <2>1. \A m \in OwnModes(u, th) : \A k \in DOMAIN s.outputs : v.outputs[k].mode = m.id => Lists(v, k, m.id)
    <3> SUFFICES ASSUME NEW m \in OwnModes(u, th), NEW k \in DOMAIN s.outputs, v.outputs[k].mode = m.id
                 PROVE  Lists(v, k, m.id)
      OBVIOUS
    <3>1. Lists(u, k, m.id)
      BY <1>2, <1>4, <1>6 DEF OwnListed
    <3>2. k = n => m.id \notin stale
      BY <1>3, <1>6
    <3> QED BY <1>5, <1>6, <3>1, <3>2
  <2>2. \A m \in OwnModes(u, th) : \A j, k \in DOMAIN s.outputs : Lists(v, j, m.id) /\ Lists(v, k, m.id) => j = k
    BY <1>2, <1>4, <1>6 DEF OwnListed
  <2> QED BY <1>4, <1>5, <1>7, <2>1, <2>2 DEF OwnListed
<1>10. UpdatedOf(s, v, n, r)
  BY <1>2, <1>4, <1>5 DEF UpdatedOf, SameSite
<1>11. Fits(v, th, late \ {w})
  <2> SUFFICES ASSUME NEW m \in OwnModes(u, th), NEW k \in DOMAIN s.outputs, Lists(v, k, m.id)
               PROVE  v.outputs[k].size = m.size \/ v.outputs[k].wl \in late \ {w}
    BY <1>4, <1>5, <1>7 DEF Fits
  <2>1. CASE k = n
    <3>1. m.id = o.mode
      BY <1>3, <1>5, <2>1
    <3>2. PICK x \in u.modes : x.id = o.mode /\ x.size = o.size
      BY <1>2 DEF Showing, HasSize
    <3>3. x = m
      BY <1>2, <3>1, <3>2 DEF Numbered, OwnModes
    <3> QED BY <1>5, <2>1, <3>2, <3>3 DEF SameSite
  <2>2. CASE k # n
    <3>1. m \in OwnModes(s, th) /\ Lists(s, k, m.id)
      BY <1>2, <1>6, <2>2
    <3>2. s.outputs[k].size = m.size \/ s.outputs[k].wl \in late
      BY <3>1 DEF Fits, ModesGood, ModesOk
    <3>3. s.outputs[k].wl # w
      BY <2>2 DEF Numbered, ModesGood, ModesOk
    <3>4. v.outputs[k] = s.outputs[k]
      BY <1>10, <2>2 DEF UpdatedOf
    <3> QED BY <3>2, <3>3, <3>4
  <2> QED BY <2>1, <2>2
<1>12. Fewer(s, v, th)
  <2>1. OwnModes(v, th) = OwnModes(u, th) /\ v.next = u.next /\ DOMAIN v.outputs = DOMAIN s.outputs
    BY <1>4, <1>5, <1>7
  <2> QED BY <1>2, <1>4, <1>6, <2>1 DEF Fewer
<1>13. Showing(v, n) /\ \A k \in DOMAIN s.outputs : k # n /\ Showing(s, k) => Showing(v, k)
  BY <1>2, <1>4, <1>5 DEF Showing, HasSize, SameSite
<1>14. ModesOk(v, th, late \ {w})
  BY <1>5, <1>8, <1>9, <1>11 DEF ModesOk
<1>15. /\ ModesGood(t, th, late \ {w}) /\ Fewer(s, t, th) /\ t.outputs = v.outputs
       /\ \A k \in DOMAIN s.outputs : Showing(v, k) => Showing(t, k) \/ v.outputs[k].mode \in th
  <2>1. CASE stale = {}
    <3>1. t = v
      BY <2>1 DEF v
    <3>2. NoneLeft(v, th)
      BY <1>2, <2>1 DEF v
    <3> HIDE DEF t
    <3> QED BY <1>12, <1>14, <3>1, <3>2 DEF ModesGood
  <2>2. CASE stale # {}
    <3> DEFINE x == Prune(v)
    <3>1. t = x
      BY <2>2
    <3>2. /\ ModesOk(x, th, late \ {w}) /\ NoneLeft(x, th) /\ x.outputs = v.outputs
          /\ Fewer(v, x, th)
          /\ \A k \in DOMAIN v.outputs : Showing(v, k) => Showing(x, k) \/ v.outputs[k].mode \in th
      BY <1>14, PruneOk
    <3> HIDE DEF x, t
    <3>3. Fewer(s, x, th)
      BY <1>12, <3>2, FewerAll DEF ModesOk
    <3> QED BY <1>4, <1>5, <3>1, <3>2, <3>3 DEF ModesGood
  <2> QED BY <2>1, <2>2
<1> HIDE DEF t
<1>16. UpdatedOf(s, t, n, r)
  BY <1>10, <1>15 DEF UpdatedOf
<1>17. ASSUME NEW of, AtModes(s, of, th) PROVE AtModes(t, of \ {w}, th)
  <2> SUFFICES ASSUME NEW k \in DOMAIN s.outputs
               PROVE  Showing(t, k) \/ v.outputs[k].wl \in of \ {w} \/ v.outputs[k].mode \in th
    BY <1>4, <1>5, <1>15 DEF AtModes
  <2>1. CASE k = n
    BY <1>13, <1>15, <2>1
  <2>2. CASE k # n
    <3>1. s.outputs[k].wl # w /\ v.outputs[k] = s.outputs[k]
      BY <1>10, <2>2 DEF Numbered, ModesGood, ModesOk, UpdatedOf
    <3>2. Showing(s, k) \/ s.outputs[k].wl \in of \/ s.outputs[k].mode \in th
      BY <1>17 DEF AtModes
    <3> QED BY <1>13, <1>15, <2>2, <3>1, <3>2
  <2> QED BY <2>1, <2>2
<1> QED BY <1>1, <1>15, <1>16, <1>17

\* Where, of an output's name and of its CRTC.
LEMMA WhereIs ==
  ASSUME NEW s, Typed(s), NEW w
  PROVE  /\ LET n == Where(s, LAMBDA o : o.wl = w)
            IN  \/ n = 0 /\ \A k \in DOMAIN s.outputs : s.outputs[k].wl # w
                \/ n # 0 /\ n \in DOMAIN s.outputs /\ s.outputs[n].wl = w
         /\ LET n == Where(s, LAMBDA o : o.crtc = w)
            IN  \/ n = 0 /\ \A k \in DOMAIN s.outputs : s.outputs[k].crtc # w
                \/ n # 0 /\ n \in DOMAIN s.outputs /\ s.outputs[n].crtc = w
<1> DEFINE d == Len(s.outputs)
           I == {i \in 1 .. d : s.outputs[i].wl = w}
           J == {i \in 1 .. d : s.outputs[i].crtc = w}
<1>1. d \in Nat /\ DOMAIN s.outputs = 1 .. d
  BY ListIs DEF Typed
<1>2. /\ Where(s, LAMBDA o : o.wl = w) = IF I # {} THEN Min(I) ELSE 0
      /\ Where(s, LAMBDA o : o.crtc = w) = IF J # {} THEN Min(J) ELSE 0
  BY DEF Where, SelectInSeq
<1> DEFINE a == IF I # {} THEN Min(I) ELSE 0
           b == IF J # {} THEN Min(J) ELSE 0
<1>3. I \in SUBSET (1 .. d) /\ J \in SUBSET (1 .. d)
  OBVIOUS
<1>4. /\ \A k \in 1 .. d : k \in I <=> s.outputs[k].wl = w
      /\ \A k \in 1 .. d : k \in J <=> s.outputs[k].crtc = w
  OBVIOUS
<1> HIDE DEF I, J, d
<1>5. ((a = 0 /\ I = {}) \/ (a \in I /\ a # 0)) /\ ((b = 0 /\ J = {}) \/ (b \in J /\ b # 0))
  BY <1>1, <1>3, FirstOf
<1> HIDE DEF a, b
<1>6. \/ a = 0 /\ \A k \in DOMAIN s.outputs : s.outputs[k].wl # w
      \/ a # 0 /\ a \in DOMAIN s.outputs /\ s.outputs[a].wl = w
  BY <1>1, <1>3, <1>4, <1>5
<1>7. \/ b = 0 /\ \A k \in DOMAIN s.outputs : s.outputs[k].crtc # w
      \/ b # 0 /\ b \in DOMAIN s.outputs /\ s.outputs[b].crtc = w
  BY <1>1, <1>3, <1>4, <1>5
<1>8. Where(s, LAMBDA o : o.wl = w) = a /\ Where(s, LAMBDA o : o.crtc = w) = b
  BY <1>2 DEF a, b
<1> QED BY <1>6, <1>7, <1>8

\* The screen's outputs, in whatever order.
OutputsOf(s) == {s.outputs[n] : n \in DOMAIN s.outputs}

\* A screen with some of its outputs.
LEMMA SomeOutputs ==
  ASSUME NEW s, NEW th, NEW late, ModesOk(s, th, late), NEW P, NEW w,
         P \subseteq ToSet(s.outputs), \A p \in P : p.wl # w
  PROVE  LET t == [s EXCEPT !.outputs = Kept(s.outputs, P)]
         IN  /\ ModesOk(t, th, late \ {w}) /\ OutputsOf(t) = P /\ Fewer(s, t, th)
             /\ t.size = s.size /\ t.next = s.next /\ t.modes = s.modes
             /\ t.outputs = Kept(s.outputs, P)
             /\ \A of : AtModes(s, of, th) => AtModes(t, of \ {w}, th)
<1> DEFINE q == Kept(s.outputs, P)
           t == [s EXCEPT !.outputs = q]
           S == DOMAIN s.outputs
<1>1. PICK R : s.outputs \in Seq(R)
  BY DEF ModesOk, Typed, IsList
<1>2. q \in Seq(R) /\ S = 1 .. Len(s.outputs) /\ DOMAIN q = 1 .. Len(q)
  <2>1. q \in Seq(R)
    BY <1>1, KeptIs
  <2> HIDE DEF q
  <2> QED BY <1>1, <2>1, LenProperties
<1>3. PICK h : KeptBy(s.outputs, P, Len(s.outputs), q, h)
  BY <1>1, KeptIs
<1> HIDE DEF q
<1>4. /\ DOMAIN s = ScreenFields /\ s.next \in Nat
      /\ \A n \in S : DOMAIN s.outputs[n] = OutputFields /\ s.outputs[n].listed \in Seq(Nat)
      /\ Numbered(s) /\ OwnListed(s, th) /\ Fits(s, th, late)
  BY DEF ModesOk, Typed, ScreenShape
<1>5. /\ DOMAIN t = ScreenFields /\ t.outputs = q /\ t.size = s.size /\ t.next = s.next
      /\ t.modes = s.modes
  BY <1>4 DEF ScreenFields
<1> HIDE DEF t
<1>6. /\ \A i \in DOMAIN q : /\ h[i] \in S /\ q[i] = s.outputs[h[i]] /\ q[i] \in P
                             /\ s.outputs[h[i]].wl # w
      /\ \A i, j \in DOMAIN q : h[i] = h[j] => i = j
      /\ \A k \in S : s.outputs[k] \in P => \E i \in DOMAIN q : h[i] = k
  BY <1>2, <1>3 DEF KeptBy
<1>7. OutputsOf(t) = P
  <2>1. \A p \in P : \E k \in S : p = s.outputs[k]
    BY DEF ToSet
  <2>2. \A p \in P : \E i \in DOMAIN q : p = q[i]
    BY <1>6, <2>1
  <2> QED BY <1>5, <1>6, <2>2 DEF OutputsOf
<1>8. Typed(t)
  <2>1. IsList(q)
    BY <1>2 DEF IsList
  <2> QED BY <1>4, <1>5, <1>6, <2>1 DEF Typed, ScreenShape
<1>9. Numbered(t)
  BY <1>4, <1>5, <1>6 DEF Numbered
<1>10. /\ OwnModes(t, th) = OwnModes(s, th)
       /\ \A i \in DOMAIN q : \A id : Lists(t, i, id) <=> Lists(s, h[i], id)
  BY <1>5, <1>6, SameLists DEF Lists
<1>11. OwnListed(t, th)
  <2>1. \A m \in OwnModes(s, th) : \A i \in DOMAIN q : q[i].mode = m.id => Lists(t, i, m.id)
    BY <1>4, <1>6, <1>10 DEF OwnListed
  <2>2. \A m \in OwnModes(s, th) : \A i, j \in DOMAIN q : Lists(t, i, m.id) /\ Lists(t, j, m.id) => i = j
    BY <1>4, <1>6, <1>10 DEF OwnListed
  <2> QED BY <1>5, <1>10, <2>1, <2>2 DEF OwnListed
<1>12. Fits(t, th, late \ {w})
  BY <1>4, <1>5, <1>6, <1>10 DEF Fits
<1>13. Fewer(s, t, th)
  <2>1. s.next <= s.next
    BY <1>4
  <2>2. \A m \in OwnModes(t, th) : \A n \in DOMAIN q : Lists(t, n, m.id) =>
          \E k \in S : Lists(s, k, m.id) /\ s.outputs[k].crtc = q[n].crtc
    BY <1>6, <1>10
  <2> QED BY <1>4, <1>5, <2>1, <2>2 DEF Fewer, OwnModes
<1>14. ASSUME NEW of, AtModes(s, of, th) PROVE AtModes(t, of \ {w}, th)
  <2>1. \A i \in DOMAIN q : Showing(s, h[i]) => Showing(t, i)
    BY <1>5, <1>6 DEF Showing, HasSize
  <2> QED BY <1>5, <1>6, <1>14, <2>1 DEF AtModes
<1>15. ModesOk(t, th, late \ {w})
  BY <1>8, <1>9, <1>11, <1>12 DEF ModesOk
<1> QED BY <1>5, <1>7, <1>13, <1>14, <1>15 DEF t, q

\* A screen with one more output, at a mode of its own.
LEMMA OneMore ==
  ASSUME NEW s, NEW th, NEW late, ModesOk(s, th, late), NEW t,
         NEW o, DOMAIN t = ScreenFields, t.outputs = Append(s.outputs, o),
         t.size = s.size, t.next = s.next + 1, t.modes = s.modes,
         DOMAIN o = OutputFields, o.listed \in Seq(Nat),
         \A x : Contains(o.listed, x) <=> x = o.mode,
         \A n \in DOMAIN s.outputs :
           /\ s.outputs[n].wl # o.wl
           /\ ~Lists(s, n, o.mode) /\ s.outputs[n].mode # o.mode,
         o.crtc = s.next, HasSize(s, o.mode, o.size)
  PROVE  /\ ModesOk(t, th, late) /\ OutputsOf(t) = OutputsOf(s) \cup {o}
         /\ \A of : AtModes(s, of, th) => AtModes(t, of, th)
         /\ \A r : Fewer(r, s, th) /\ r.next <= o.mode => Fewer(r, t, th)
<1> DEFINE q == t.outputs
           S == DOMAIN s.outputs
           k == Len(s.outputs)
           e == k + 1
<1>1. /\ Numbered(s) /\ s.next \in Nat /\ OwnListed(s, th) /\ Fits(s, th, late)
      /\ \A n \in S : DOMAIN s.outputs[n] = OutputFields /\ s.outputs[n].listed \in Seq(Nat)
  BY DEF ModesOk, Typed, ScreenShape
<1>2. PICK R : s.outputs \in Seq(R)
  BY DEF ModesOk, Typed, IsList
<1>3. k \in Nat /\ S = 1 .. k
  BY <1>2, LenProperties
<1>4. /\ q \in Seq(R \cup {o}) /\ Len(q) = e /\ q[e] = o
      /\ \A n \in 1 .. k : q[n] = s.outputs[n]
  <2>1. s.outputs \in Seq(R \cup {o})
    BY <1>2
  <2> QED BY <1>3, <2>1, AppendProperties
<1>5. /\ DOMAIN q = 1 .. e /\ e \notin S /\ e \in DOMAIN q
      /\ \A n \in DOMAIN q : n \in S \/ n = e
      /\ S \subseteq DOMAIN q
  <2>1. DOMAIN q = 1 .. e
    BY <1>4, LenProperties
  <2> QED BY <1>3, <2>1
<1>6. \A n \in S : q[n] = s.outputs[n]
  BY <1>3, <1>4
<1> HIDE DEF q, e, k
<1>7. Typed(t)
  <2>1. IsList(q)
    BY <1>4 DEF IsList
  <2>2. s.next + 1 \in Nat
    BY <1>1
  <2> QED BY <1>1, <1>4, <1>5, <1>6, <2>1, <2>2 DEF Typed, ScreenShape, q
<1>8. OutputsOf(t) = OutputsOf(s) \cup {o}
  BY <1>4, <1>5, <1>6 DEF OutputsOf, q
<1>9. Numbered(t)
  <2>1. \A i \in Nat : i < s.next => i < s.next + 1 /\ i # s.next
    BY <1>1
  <2>2. s.next \in Nat /\ s.next < s.next + 1 /\ s.next + 1 # 0
    BY <1>1
  <2>3. o.mode \in Nat /\ o.mode < s.next
    BY <1>1 DEF HasSize, Numbered
  <2>4. \A n \in DOMAIN q :
          /\ q[n].crtc \in Nat /\ q[n].crtc < t.next
          /\ q[n].mode \in Nat /\ q[n].mode < t.next
          /\ \A id : Contains(q[n].listed, id) => id \in Nat /\ id < t.next
    <3>1. \A n \in S :
          /\ q[n].crtc \in Nat /\ q[n].crtc < t.next
          /\ q[n].mode \in Nat /\ q[n].mode < t.next
          /\ \A id : Contains(q[n].listed, id) => id \in Nat /\ id < t.next
      BY <1>1, <1>6, <2>1 DEF Numbered
    <3>2. /\ q[e].crtc \in Nat /\ q[e].crtc < t.next
          /\ q[e].mode \in Nat /\ q[e].mode < t.next
          /\ \A id : Contains(q[e].listed, id) => id \in Nat /\ id < t.next
      BY <1>4, <2>1, <2>2, <2>3
    <3> QED BY <1>5, <3>1, <3>2
  <2>5. \A n, i \in DOMAIN q : q[n].wl = q[i].wl \/ q[n].crtc = q[i].crtc => n = i
    <3>1. \A n \in S : q[n].crtc # o.crtc /\ q[n].wl # o.wl
      BY <1>1, <1>6, <2>1 DEF Numbered
    <3>2. \A n, i \in S : q[n].wl = q[i].wl \/ q[n].crtc = q[i].crtc => n = i
      BY <1>1, <1>6 DEF Numbered
    <3> QED BY <1>4, <1>5, <3>1, <3>2
  <2>6. /\ \A m \in t.modes : m.id \in Nat /\ m.id # Off /\ m.id < t.next
        /\ \A m, i \in t.modes : m.id = i.id => m = i
    BY <1>1, <2>1 DEF Numbered
  <2> QED BY <2>2, <2>4, <2>5, <2>6 DEF Numbered, q, Off
<1>10. /\ OwnModes(t, th) = OwnModes(s, th)
       /\ \A n \in S : \A id : Lists(t, n, id) <=> Lists(s, n, id)
       /\ \A id : Lists(t, e, id) <=> id = o.mode
  BY <1>4, <1>6, SameLists DEF Lists, q
<1>11. OwnListed(t, th)
  <2>1. \A m \in OwnModes(s, th) : \A n \in DOMAIN q : q[n].mode = m.id => Lists(t, n, m.id)
    BY <1>1, <1>4, <1>5, <1>6, <1>10 DEF OwnListed
  <2>2. ASSUME NEW m \in OwnModes(s, th), NEW n \in DOMAIN q, NEW i \in DOMAIN q,
               Lists(t, n, m.id), Lists(t, i, m.id)
        PROVE  n = i
    <3>1. CASE m.id = o.mode
      <4>1. \A j \in S : ~Lists(t, j, m.id)
        BY <1>10, <3>1
      <4> QED BY <1>5, <2>2, <4>1
    <3>2. CASE m.id # o.mode
      <4>1. n \in S /\ i \in S
        BY <1>5, <1>10, <2>2, <3>2
      <4>2. Lists(s, n, m.id) /\ Lists(s, i, m.id)
        BY <1>10, <2>2, <4>1
      <4> QED BY <1>1, <4>1, <4>2 DEF OwnListed
    <3> QED BY <3>1, <3>2
  <2> QED BY <1>10, <2>1, <2>2 DEF OwnListed, q
<1>12. Fits(t, th, late)
  <2>1. \A m \in OwnModes(s, th) : m.id = o.mode => m.size = o.size
    BY <1>1 DEF HasSize, Numbered, OwnModes
  <2> QED BY <1>1, <1>4, <1>5, <1>6, <1>10, <2>1 DEF Fits, q
<1>13. ASSUME NEW of, AtModes(s, of, th) PROVE AtModes(t, of, th)
  <2>1. Showing(t, e) /\ \A n \in S : Showing(s, n) => Showing(t, n)
    BY <1>4, <1>6 DEF Showing, HasSize, q
  <2> QED BY <1>5, <1>6, <1>13, <2>1 DEF AtModes, q
<1>14. ASSUME NEW r, Fewer(r, s, th), r.next <= o.mode PROVE Fewer(r, t, th)
  <2>1. r.next \in Nat /\ r.next <= s.next + 1 /\ s.next + 1 \in Nat
    BY <1>1, <1>14 DEF Fewer
  <2>2. o.mode \in Nat /\ ~(o.mode < r.next)
    BY <1>1, <1>14, <2>1 DEF HasSize, Numbered
  <2>3. ASSUME NEW m \in OwnModes(t, th), m.id < r.next
        PROVE  /\ m \in r.modes
               /\ \A n \in DOMAIN q : Lists(t, n, m.id) =>
                    \E i \in DOMAIN r.outputs : Lists(r, i, m.id) /\ r.outputs[i].crtc = q[n].crtc
    <3>1. m \in OwnModes(s, th) /\ m.id # o.mode
      BY <1>10, <2>2, <2>3
    <3>2. /\ m \in r.modes
          /\ \A n \in S : Lists(s, n, m.id) =>
               \E i \in DOMAIN r.outputs : Lists(r, i, m.id) /\ r.outputs[i].crtc = s.outputs[n].crtc
      BY <1>14, <2>3, <3>1 DEF Fewer
    <3>3. \A n \in DOMAIN q : Lists(t, n, m.id) => n \in S /\ Lists(s, n, m.id)
      BY <1>5, <1>10, <3>1
    <3> QED BY <1>6, <3>2, <3>3
  <2> QED BY <2>1, <2>3 DEF Fewer, q
<1>15. ModesOk(t, th, late)
  BY <1>7, <1>9, <1>11, <1>12 DEF ModesOk
<1> QED BY <1>8, <1>13, <1>14, <1>15

\* remove_wayland_output, but for where the others then go.
LEMMA RemovedOk ==
  ASSUME NEW s, NEW th, NEW late, ModesGood(s, th, late), NEW w
  PROVE  LET P == {o \in ToSet(s.outputs) : o.wl # w}
             t == Prune([s EXCEPT !.outputs = Kept(s.outputs, P)])
         IN  /\ ModesGood(t, th, late \ {w}) /\ Fewer(s, t, th) /\ OutputsOf(t) = P
             /\ \A of : AtModes(s, of, th) => AtModes(t, of \ {w}, th)
<1> DEFINE P == {o \in ToSet(s.outputs) : o.wl # w}
           u == [s EXCEPT !.outputs = Kept(s.outputs, P)]
           t == Prune(u)
<1>1. /\ ModesOk(u, th, late \ {w}) /\ OutputsOf(u) = P /\ Fewer(s, u, th)
      /\ \A of : AtModes(s, of, th) => AtModes(u, of \ {w}, th)
  <2>1. P \subseteq ToSet(s.outputs) /\ \A p \in P : p.wl # w
    OBVIOUS
  <2> HIDE DEF P
  <2>2. ModesOk(s, th, late)
    BY DEF ModesGood
  <2>3. /\ ModesOk(u, th, late \ {w}) /\ OutputsOf(u) = P /\ Fewer(s, u, th)
        /\ u.size = s.size /\ u.next = s.next /\ u.modes = s.modes
        /\ u.outputs = Kept(s.outputs, P)
        /\ \A of : AtModes(s, of, th) => AtModes(u, of \ {w}, th)
    BY <2>1, <2>2, SomeOutputs, Zenon
  <2> QED BY <2>3, Zenon
<1> HIDE DEF u
<1>2. /\ ModesOk(t, th, late \ {w}) /\ NoneLeft(t, th)
      /\ t.outputs = u.outputs /\ Fewer(u, t, th)
      /\ \A n \in DOMAIN u.outputs : Showing(u, n) => Showing(t, n) \/ u.outputs[n].mode \in th
  BY <1>1, PruneOk
<1> HIDE DEF t
<1>3. OutputsOf(t) = P
  BY <1>1, <1>2 DEF OutputsOf
<1>4. Fewer(s, t, th)
  BY <1>1, <1>2, FewerAll DEF ModesOk
<1>5. ASSUME NEW of, AtModes(s, of, th) PROVE AtModes(t, of \ {w}, th)
  <2>1. AtModes(u, of \ {w}, th)
    BY <1>1, <1>5
  <2> QED BY <1>2, <2>1 DEF AtModes
<1> QED BY <1>2, <1>3, <1>4, <1>5 DEF ModesGood, t, u

\* An output a rectangle was given.
Given(o, w, r) == o.wl = w /\ o.at = r.at /\ o.log = r.log /\ o.size = r.size

\* sync_wayland_output, of a new one.
LEMMA AddedOk ==
  ASSUME NEW s, NEW th, NEW late, ModesGood(s, th, late), NEW w, w # Off, NEW r,
         \A n \in DOMAIN s.outputs : s.outputs[n].wl # w
  PROVE  LET t == Added(s, w, r)
         IN  /\ ModesGood(t, th, late \ {Off}) /\ Fewer(s, t, th)
             /\ \E o : /\ Given(o, w, r)
                       /\ OutputsOf(t) = {p \in ToSet(s.outputs) : p.wl # Off} \cup {o}
             /\ \A of : AtModes(s, of, th) => AtModes(t, of \ {Off}, th)
<1> DEFINE m == [id |-> s.next, size |-> r.size, ours |-> TRUE]
           a == [s EXCEPT !.next = s.next + 1, !.modes = s.modes \cup {m}]
           P == {p \in ToSet(a.outputs) : p.wl # Off}
           o == [wl |-> w, crtc |-> a.next, pos |-> <<0, 0>>, size |-> r.size, at |-> r.at,
                 log |-> r.log, mode |-> s.next, listed |-> <<s.next>>]
           b == [a EXCEPT !.outputs = Kept(a.outputs, P)]
           c == [a EXCEPT !.next = a.next + 1, !.outputs = Append(b.outputs, o)]
           t == Prune(c)
<1>1. Typed(s) /\ Numbered(s) /\ OwnListed(s, th) /\ Fits(s, th, late) /\ s.next \in Nat
  BY DEF ModesGood, ModesOk, Typed
<1>2. m.id = s.next /\ m.size = r.size
  OBVIOUS
<1>3. NewMode(s, r.size, TRUE) = a
  BY Zenon DEF NewMode
<1> HIDE DEF m
<1>4. /\ Typed(a) /\ Numbered(a) /\ a.outputs = s.outputs
      /\ a.next = s.next + 1 /\ a.modes = s.modes \cup {m}
      /\ Fewer(s, a, th)
      /\ \A n \in DOMAIN s.outputs : ~Lists(s, n, s.next) /\ s.outputs[n].mode # s.next
      /\ OwnListed(a, th) /\ Fits(a, th, late) /\ HasSize(a, s.next, m.size)
  BY <1>1, <1>2, ModeMade
<1>5. DOMAIN a = ScreenFields
  BY <1>4 DEF Typed, ScreenShape
<1>6. \A of : AtModes(s, of, th) => AtModes(a, of, th)
  BY <1>4, SameShowing
<1> HIDE DEF a
<1>7. /\ ModesOk(b, th, late \ {Off}) /\ OutputsOf(b) = P /\ Fewer(a, b, th)
      /\ b.size = a.size /\ b.next = a.next /\ b.modes = a.modes
      /\ b.outputs = Kept(a.outputs, P)
      /\ \A of : AtModes(a, of, th) => AtModes(b, of \ {Off}, th)
  <2>1. P \subseteq ToSet(a.outputs) /\ \A p \in P : p.wl # Off
    OBVIOUS
  <2>2. ModesOk(a, th, late)
    BY <1>4 DEF ModesOk
  <2> HIDE DEF P
  <2> QED BY <2>1, <2>2, SomeOutputs
<1>8. P = {p \in ToSet(s.outputs) : p.wl # Off}
  BY <1>4
<1> HIDE DEF P
<1>9. Added(s, w, r) = t
  BY <1>3, <1>4, <1>5, <1>7, <1>8 DEF Added
<1> HIDE DEF b
<1>10. /\ DOMAIN o = OutputFields /\ o.listed \in Seq(Nat) /\ Given(o, w, r)
       /\ o.mode = s.next /\ o.crtc = a.next /\ o.wl = w /\ o.size = r.size
       /\ o.listed = <<s.next>>
  BY <1>1 DEF OutputFields, Given
<1> HIDE DEF o
<1>11. \A x : Contains(o.listed, x) <=> x = o.mode
  <2>1. Len(<<s.next>>) = 1 /\ <<s.next>>[1] = s.next /\ 1 .. 1 = {1}
    OBVIOUS
  <2> QED BY <1>10, <2>1 DEF Contains
<1>12. /\ DOMAIN c = ScreenFields /\ c.outputs = Append(b.outputs, o)
       /\ c.size = b.size /\ c.next = b.next + 1 /\ c.modes = b.modes
  BY <1>5, <1>7 DEF ScreenFields
<1> HIDE DEF c
<1>13. \A n \in DOMAIN b.outputs :
         /\ b.outputs[n].wl # o.wl
         /\ ~Lists(b, n, o.mode) /\ b.outputs[n].mode # o.mode
  <2> SUFFICES ASSUME NEW n \in DOMAIN b.outputs
               PROVE  \E k \in DOMAIN s.outputs : b.outputs[n] = s.outputs[k]
    BY <1>4, <1>10 DEF Lists
  <2>1. b.outputs[n] \in P
    BY <1>7 DEF OutputsOf
  <2> QED BY <1>8, <2>1 DEF ToSet
<1>14. HasSize(b, o.mode, o.size)
  BY <1>2, <1>4, <1>7, <1>10 DEF HasSize
<1>15. /\ ModesOk(c, th, late \ {Off}) /\ OutputsOf(c) = OutputsOf(b) \cup {o}
       /\ \A of : AtModes(b, of, th) => AtModes(c, of, th)
       /\ \A x : Fewer(x, b, th) /\ x.next <= o.mode => Fewer(x, c, th)
  BY <1>7, <1>10, <1>11, <1>12, <1>13, <1>14, OneMore
<1>16. Fewer(s, c, th)
  <2>1. Fewer(s, b, th)
    BY <1>4, <1>7, FewerAll DEF ModesOk
  <2>2. s.next <= o.mode
    BY <1>1, <1>10
  <2> QED BY <1>15, <2>1, <2>2
<1>17. /\ ModesOk(t, th, late \ {Off}) /\ NoneLeft(t, th)
       /\ t.outputs = c.outputs /\ Fewer(c, t, th)
       /\ \A n \in DOMAIN c.outputs : Showing(c, n) => Showing(t, n) \/ c.outputs[n].mode \in th
  BY <1>15, PruneOk
<1> HIDE DEF t
<1>18. Fewer(s, t, th)
  BY <1>16, <1>17, FewerAll DEF ModesOk
<1>19. ASSUME NEW of, AtModes(s, of, th) PROVE AtModes(t, of \ {Off}, th)
  <2>1. AtModes(c, of \ {Off}, th)
    BY <1>6, <1>7, <1>15, <1>19
  <2> QED BY <1>17, <2>1 DEF AtModes
<1>20. OutputsOf(t) = {p \in ToSet(s.outputs) : p.wl # Off} \cup {o}
  BY <1>7, <1>8, <1>15, <1>17 DEF OutputsOf
<1> QED BY <1>9, <1>10, <1>17, <1>18, <1>19, <1>20 DEF ModesGood

-----------------------------------------------------------------------------
(* Where the outputs are.  *)

IsRecord(f) == f = [x \in DOMAIN f |-> f[x]]

IsScreen(s) ==
    IsRecord(s) /\ IsRecord(s.outputs) /\ \A n \in DOMAIN s.outputs : IsRecord(s.outputs[n])

LEMMA ExceptIs ==
  ASSUME NEW f, NEW x, NEW v
  PROVE  IsRecord([f EXCEPT ![x] = v])
BY DEF IsRecord

SpotOf(s, n) == <<Packed(s.outputs, 1)[n], Packed(s.outputs, 2)[n]>>

\* The outputs are where relayout_physical puts them, and the screen their bounding box.
Laid(s) == Relayout(s) = s /\ Extent(s) = s.size

\* Where the outputs go depends on their places and sizes alone.
LEMMA SameSpots ==
  ASSUME NEW s, NEW t, DOMAIN t.outputs = DOMAIN s.outputs,
         \A n \in DOMAIN s.outputs : /\ t.outputs[n].size = s.outputs[n].size
                                     /\ t.outputs[n].at = s.outputs[n].at
                                     /\ t.outputs[n].log = s.outputs[n].log
  PROVE  \A n : SpotOf(t, n) = SpotOf(s, n)
<1> DEFINE item(x, n, a) == [start |-> x.outputs[n].at[a], len |-> x.outputs[n].log[a],
                             phys |-> x.outputs[n].size[a]]
<1>1. ASSUME NEW a PROVE Packed(t.outputs, a) = Packed(s.outputs, a)
  <2>1. \A n \in DOMAIN s.outputs : item(t, n, a) = item(s, n, a)
    OBVIOUS
  <2> HIDE DEF item
  <2>2. [n \in DOMAIN t.outputs |-> item(t, n, a)] = [n \in DOMAIN s.outputs |-> item(s, n, a)]
    BY <2>1
  <2>3. /\ Packed(t.outputs, a) = PackAxis([n \in DOMAIN t.outputs |-> item(t, n, a)])
        /\ Packed(s.outputs, a) = PackAxis([n \in DOMAIN s.outputs |-> item(s, n, a)])
    BY DEF Packed, item
  <2> QED BY <2>2, <2>3
<1> QED BY <1>1 DEF SpotOf

\* Relayout, and when it leaves a screen as it is.
LEMMA RelaidIs ==
  ASSUME NEW s
  PROVE  LET t == Relayout(s)
         IN  /\ SameModes(s, t) /\ t.size = s.size /\ IsScreen(t) /\ DOMAIN t = ScreenFields
             /\ \A n \in DOMAIN s.outputs : /\ t.outputs[n].pos = SpotOf(s, n)
                                            /\ DOMAIN t.outputs[n] = OutputFields
<1> DEFINE q == [n \in DOMAIN s.outputs |-> PlacedAt(s.outputs[n], SpotOf(s, n))]
           t == [size |-> s.size, next |-> s.next, modes |-> s.modes, outputs |-> q]
<1>1. Relayout(s) = t
  BY DEF Relayout, SpotOf
<1>2. \A o, pos : LET p == PlacedAt(o, pos)
                  IN  /\ IsRecord(p) /\ DOMAIN p = OutputFields /\ p.pos = pos
                      /\ p.wl = o.wl /\ p.crtc = o.crtc /\ p.size = o.size /\ p.at = o.at
                      /\ p.log = o.log /\ p.mode = o.mode /\ p.listed = o.listed
  BY DEF PlacedAt, OutputFields, IsRecord
<1>3. /\ IsRecord(q) /\ DOMAIN q = DOMAIN s.outputs
      /\ \A n \in DOMAIN s.outputs : q[n] = PlacedAt(s.outputs[n], SpotOf(s, n))
  BY DEF IsRecord
<1> HIDE DEF q
<1>4. /\ IsRecord(t) /\ DOMAIN t = ScreenFields /\ t.outputs = q /\ t.size = s.size
      /\ t.next = s.next /\ t.modes = s.modes
  BY DEF IsRecord, ScreenFields
<1> HIDE DEF t
<1>5. \A n \in DOMAIN s.outputs : LET p == q[n]
                                      o == s.outputs[n]
                                  IN  /\ IsRecord(p) /\ DOMAIN p = OutputFields /\ p.pos = SpotOf(s, n)
                                      /\ p.wl = o.wl /\ p.crtc = o.crtc /\ p.size = o.size
                                      /\ p.at = o.at /\ p.log = o.log /\ p.mode = o.mode
                                      /\ p.listed = o.listed
  BY <1>2, <1>3
<1> QED BY <1>1, <1>3, <1>4, <1>5 DEF SameModes, IsScreen

LEMMA RelaidIff ==
  ASSUME NEW s, ScreenShape(s)
  PROVE  Relayout(s) = s <=> IsScreen(s) /\ \A n \in DOMAIN s.outputs : s.outputs[n].pos = SpotOf(s, n)
<1> DEFINE t == Relayout(s)
<1>1. /\ SameModes(s, t) /\ t.size = s.size /\ IsScreen(t) /\ DOMAIN t = ScreenFields
      /\ \A n \in DOMAIN s.outputs : /\ t.outputs[n].pos = SpotOf(s, n)
                                     /\ DOMAIN t.outputs[n] = OutputFields
  BY RelaidIs
<1> HIDE DEF t
<1>2. ASSUME IsScreen(s), \A n \in DOMAIN s.outputs : s.outputs[n].pos = SpotOf(s, n)
      PROVE  t = s
  <2>1. \A n \in DOMAIN s.outputs : t.outputs[n] = s.outputs[n]
    <3> SUFFICES ASSUME NEW n \in DOMAIN s.outputs PROVE t.outputs[n] = s.outputs[n]
      OBVIOUS
    <3> DEFINE p == t.outputs[n]
               o == s.outputs[n]
    <3>1. IsRecord(p) /\ IsRecord(o) /\ DOMAIN p = OutputFields /\ DOMAIN o = OutputFields
      BY <1>1, <1>2 DEF IsScreen, ScreenShape, SameModes
    <3>2. /\ p.pos = o.pos /\ p.wl = o.wl /\ p.crtc = o.crtc /\ p.size = o.size /\ p.at = o.at
          /\ p.log = o.log /\ p.mode = o.mode /\ p.listed = o.listed
      BY <1>1, <1>2 DEF SameModes
    <3> HIDE DEF p, o
    <3>3. \A x \in OutputFields : p[x] = o[x]
      BY <3>2 DEF OutputFields
    <3>4. p = o
      BY <3>1, <3>3 DEF IsRecord
    <3> QED BY <3>4 DEF p, o
  <2>2. t.outputs = s.outputs
    BY <1>1, <1>2, <2>1 DEF IsScreen, IsRecord, SameModes
  <2>3. \A x \in ScreenFields : t[x] = s[x]
    BY <1>1, <2>2 DEF ScreenFields, SameModes
  <2>4. IsRecord(t) /\ IsRecord(s) /\ DOMAIN t = DOMAIN s /\ DOMAIN s = ScreenFields
    BY <1>1, <1>2 DEF IsScreen, ScreenShape
  <2> QED BY <2>3, <2>4 DEF IsRecord
<1>3. t = s => IsScreen(s) /\ \A n \in DOMAIN s.outputs : s.outputs[n].pos = SpotOf(s, n)
  BY <1>1
<1> QED BY <1>2, <1>3 DEF t

\* A screen whose outputs are the same, but for their modes.
LEMMA StillLaid ==
  ASSUME NEW s, ScreenShape(s), Laid(s), NEW t, ScreenShape(t), IsScreen(t), SameSites(s, t),
         t.size = s.size, Enabled(t) = Enabled(s)
  PROVE  Laid(t)
<1>1. \A n \in DOMAIN s.outputs : s.outputs[n].pos = SpotOf(s, n)
  BY RelaidIff DEF Laid
<1>2. \A n : SpotOf(t, n) = SpotOf(s, n)
  BY SameSpots DEF SameSites, SameSite
<1>3. Relayout(t) = t
  BY <1>1, <1>2, RelaidIff DEF SameSites, SameSite
<1>4. Extent(t) = Extent(s)
  <2> DEFINE far(x, a) == {x.outputs[n].pos[a] + x.outputs[n].size[a] : n \in Enabled(x)}
  <2>1. \A n \in Enabled(s) : /\ t.outputs[n].pos = s.outputs[n].pos
                              /\ t.outputs[n].size = s.outputs[n].size
    BY DEF Enabled, SameSites, SameSite
  <2>2. \A a : far(t, a) = far(s, a)
    BY <2>1
  <2>3. \A x : Extent(x) = Clamped(<<Max({0} \cup far(x, 1)), Max({0} \cup far(x, 2))>>)
    BY DEF Extent
  <2> HIDE DEF far
  <2> QED BY <2>2, <2>3
<1> QED BY <1>3, <1>4 DEF Laid

\* recompute_bounds after relayout_physical.
LEMMA BoundedOk ==
  ASSUME NEW s, Typed(s)
  PROVE  LET t == Bounded(Relayout(s))
         IN  SameModes(s, t) /\ Typed(t) /\ Laid(t)
<1> DEFINE u == Relayout(s)
           t == [u EXCEPT !.size = Extent(u)]
<1>1. /\ SameModes(s, u) /\ IsScreen(u) /\ DOMAIN u = ScreenFields
      /\ \A n \in DOMAIN s.outputs : /\ u.outputs[n].pos = SpotOf(s, n)
                                     /\ DOMAIN u.outputs[n] = OutputFields
  BY RelaidIs
<1>2. Bounded(u) = t
  BY DEF Bounded
<1> HIDE DEF u
<1>3. /\ DOMAIN t = ScreenFields /\ IsRecord(t) /\ t.size = Extent(u) /\ t.next = u.next
      /\ t.modes = u.modes /\ t.outputs = u.outputs
  BY <1>1, ExceptIs DEF ScreenFields
<1> HIDE DEF t
<1>4. SameModes(s, t) /\ DOMAIN t.outputs = DOMAIN s.outputs
  BY <1>1, <1>3 DEF SameModes
<1>5. IsList(t.outputs)
  <2>1. Len(s.outputs) \in Nat /\ DOMAIN s.outputs = 1 .. Len(s.outputs)
    BY ListIs DEF Typed
  <2> DEFINE R == {u.outputs[n] : n \in DOMAIN s.outputs}
  <2>2. u.outputs \in [1 .. Len(s.outputs) -> R]
    <3>1. IsRecord(u.outputs) /\ DOMAIN u.outputs = 1 .. Len(s.outputs)
      BY <1>1, <2>1 DEF IsScreen, SameModes
    <3>2. \A n \in 1 .. Len(s.outputs) : u.outputs[n] \in R
      BY <2>1
    <3> HIDE DEF R
    <3> QED BY <3>1, <3>2 DEF IsRecord
  <2> HIDE DEF R
  <2> QED BY <1>3, <2>1, <2>2, ListMade
<1>6. Typed(t)
  BY <1>1, <1>3, <1>4, <1>5 DEF Typed, ScreenShape, SameModes
<1>7. \A n : SpotOf(t, n) = SpotOf(s, n)
  BY <1>4, SameSpots DEF SameModes
<1>8. Relayout(t) = t
  <2>1. IsScreen(t)
    BY <1>1, <1>3 DEF IsScreen
  <2>2. ScreenShape(t)
    BY <1>6 DEF Typed
  <2> QED BY <1>1, <1>3, <1>4, <1>7, <2>1, <2>2, RelaidIff
<1>9. Extent(t) = Extent(u)
  BY <1>3 DEF Extent, Enabled
<1> QED BY <1>2, <1>3, <1>4, <1>6, <1>8, <1>9 DEF Laid, u

\* The records of screens that modes are made of, listed in and taken away from.
LEMMA StillScreen ==
  ASSUME NEW s, Typed(s), IsScreen(s), NEW t,
         \/ \E z : t = CreateMode(s, z)
         \/ \E n \in DOMAIN s.outputs : \E id : t \in {AddOutputMode(s, n, id), DeleteOutputMode(s, n, id)}
         \/ \E id : t = DestroyMode(s, id)
         \/ \E n \in DOMAIN s.outputs : \E id : t = AdoptMode(s, n, id)
  PROVE  IsScreen(t)
<1>1. DOMAIN s = ScreenFields
  BY DEF Typed, ScreenShape
<1>2. ASSUME NEW u, IsScreen(u), NEW v, IsRecord(v), v.outputs = u.outputs PROVE IsScreen(v)
  BY <1>2 DEF IsScreen
<1>3. ASSUME NEW n \in DOMAIN s.outputs, NEW o, IsRecord(o)
      PROVE  LET v == [s EXCEPT !.outputs[n] = o] IN IsScreen(v) /\ DOMAIN v = ScreenFields
  <2> DEFINE q == [s.outputs EXCEPT ![n] = o]
             v == [s EXCEPT !.outputs = q]
  <2>1. /\ IsRecord(q) /\ DOMAIN q = DOMAIN s.outputs
        /\ \A k \in DOMAIN q : q[k] = o \/ q[k] = s.outputs[k]
    BY DEF IsRecord
  <2> HIDE DEF q
  <2>2. IsRecord(v) /\ v.outputs = q /\ DOMAIN v = ScreenFields
    BY <1>1 DEF IsRecord, ScreenFields
  <2> HIDE DEF v
  <2>3. IsScreen(v) /\ DOMAIN v = ScreenFields
    BY <1>3, <2>1, <2>2 DEF IsScreen
  <2> QED BY <2>3 DEF v, q
<1>4. ASSUME NEW z PROVE IsScreen(CreateMode(s, z))
  <2>1. IsRecord(CreateMode(s, z)) /\ CreateMode(s, z).outputs = s.outputs
    BY <1>1 DEF CreateMode, NewMode, IsRecord, ScreenFields
  <2> QED BY <1>2, <2>1
<1>5. ASSUME NEW n \in DOMAIN s.outputs, NEW list
      PROVE  IsScreen([s EXCEPT !.outputs[n].listed = list])
  <2> DEFINE o == [s.outputs[n] EXCEPT !.listed = list]
  <2>1. IsRecord(o)
    BY DEF IsRecord
  <2>2. [s EXCEPT !.outputs[n].listed = list] = [s EXCEPT !.outputs[n] = o]
    BY <1>1 DEF ScreenFields
  <2> HIDE DEF o
  <2> QED BY <1>3, <2>1, <2>2
<1>6. ASSUME NEW n \in DOMAIN s.outputs, NEW id
      PROVE  IsScreen(AddOutputMode(s, n, id)) /\ IsScreen(DeleteOutputMode(s, n, id))
  BY <1>5 DEF AddOutputMode, DeleteOutputMode
<1>7. ASSUME NEW id PROVE IsScreen(DestroyMode(s, id))
  <2> DEFINE list(n) == Without(s.outputs[n].listed, {id})
             os == [n \in DOMAIN s.outputs |-> [s.outputs[n] EXCEPT !.listed = list(n)]]
             ms == {m \in s.modes : m.id # id}
             v == [s EXCEPT !.modes = ms, !.outputs = os]
  <2>1. DestroyMode(s, id) = v
    BY DEF DestroyMode
  <2> HIDE DEF list, ms
  <2>2. IsRecord(os) /\ \A n \in DOMAIN os : IsRecord(os[n])
    BY DEF IsRecord
  <2> HIDE DEF os
  <2>3. IsRecord(v) /\ v.outputs = os
    BY <1>1 DEF IsRecord, ScreenFields
  <2> HIDE DEF v
  <2> QED BY <2>1, <2>2, <2>3 DEF IsScreen
<1>8. ASSUME NEW n \in DOMAIN s.outputs, NEW id PROVE IsScreen(AdoptMode(s, n, id))
  <2> DEFINE o == s.outputs[n]
             native == {m.id : m \in {m \in s.modes : m.ours /\ m.id # id /\ m.size = o.size}}
             p == [o EXCEPT !.mode = id, !.listed = Without(With(o.listed, id), native)]
             u == [s EXCEPT !.outputs[n] = p]
  <2>1. AdoptMode(s, n, id) = s \/ AdoptMode(s, n, id) = Prune(u)
    BY DEF AdoptMode
  <2>2. IsRecord(p)
    BY DEF IsRecord
  <2> HIDE DEF p
  <2>3. IsScreen(u) /\ DOMAIN u = ScreenFields
    BY <1>3, <2>2
  <2> HIDE DEF u
  <2>4. IsRecord(Prune(u)) /\ Prune(u).outputs = u.outputs
    BY <2>3 DEF Prune, IsRecord, ScreenFields
  <2> QED BY <1>2, <2>1, <2>3, <2>4
<1> QED BY <1>4, <1>6, <1>7, <1>8

-----------------------------------------------------------------------------
(* A step of the screen.  *)

\* The stand-in is there alone.
Named(s) ==
    /\ \A n \in DOMAIN s.outputs : s.outputs[n].wl \in Outs \cup {Off}
    /\ \A n, k \in DOMAIN s.outputs : s.outputs[n].wl = Off => s.outputs[k].wl = Off

StandsIn(s) == \E n \in DOMAIN s.outputs : s.outputs[n].wl = Off

ScreenInv(s, th, late, of) == ModesGood(s, th, late) /\ AtModes(s, of, th) /\ Named(s)

\* What the compositor changed.
Alike(p, o) == p.wl = o.wl /\ p.at = o.at /\ p.log = o.log /\ p.size = o.size

Others(s, t, w) ==
    /\ \A n \in DOMAIN s.outputs : s.outputs[n].wl \notin {w, Off} =>
         \E k \in DOMAIN t.outputs : Alike(t.outputs[k], s.outputs[n])
    /\ \A k \in DOMAIN t.outputs :
         \/ t.outputs[k].wl = w
         \/ \E n \in DOMAIN s.outputs : s.outputs[n].wl # w /\ Alike(t.outputs[k], s.outputs[n])

LEMMA Looser ==
  ASSUME NEW s, NEW th, NEW late, NEW loose,
         \A n \in DOMAIN s.outputs : s.outputs[n].wl \in late => s.outputs[n].wl \in loose
  PROVE  /\ ModesGood(s, th, late) => ModesGood(s, th, loose)
         /\ AtModes(s, late, th) => AtModes(s, loose, th)
BY DEF ModesGood, ModesOk, Fits, AtModes

\* A screen put in place.
LEMMA PlacedOk ==
  ASSUME NEW s, NEW th, NEW late, NEW of, ModesGood(s, th, late), AtModes(s, of, th)
  PROVE  LET t == Bounded(Relayout(s))
         IN  /\ ModesGood(t, th, late) /\ AtModes(t, of, th) /\ Laid(t) /\ SameModes(s, t)
             /\ \A r : Fewer(r, s, th) => Fewer(r, t, th)
<1> DEFINE t == Bounded(Relayout(s))
<1>1. SameModes(s, t) /\ Typed(t) /\ Laid(t)
  BY BoundedOk DEF ModesGood, ModesOk
<1> HIDE DEF t
<1>2. ModesGood(t, th, late) /\ AtModes(t, of, th)
  BY <1>1, SameModesOk
<1>3. \A r : Fewer(r, s, th) => Fewer(r, t, th)
  BY <1>1, SameModesFewer
<1> QED BY <1>1, <1>2, <1>3 DEF t

\* sync_wayland_output, when it changes something.
LEMMA SyncOk ==
  ASSUME NEW s, NEW th, NEW late, NEW of, ScreenInv(s, th, late, of), NEW w \in Outs, w # Off, NEW r,
         SyncChanges(s, w, r)
  PROVE  LET t == SyncOutput(s, w, r)
         IN  /\ ScreenInv(t, th, late \ {w}, of \ {w}) /\ Fewer(s, t, th) /\ Laid(t)
             /\ ~StandsIn(t) /\ Others(s, t, w)
             /\ \E n \in DOMAIN t.outputs : Given(t.outputs[n], w, r)
<1> DEFINE n == Where(s, LAMBDA o : o.wl = w)
           u == IF n = 0 THEN Added(s, w, r) ELSE Updated(s, n, r)
           t == Bounded(Relayout(u))
<1>1. /\ ModesGood(s, th, late) /\ AtModes(s, of, th) /\ Named(s) /\ Typed(s) /\ Numbered(s)
  BY DEF ScreenInv, ModesGood, ModesOk
<1>2. \/ n = 0 /\ \A k \in DOMAIN s.outputs : s.outputs[k].wl # w
      \/ n # 0 /\ n \in DOMAIN s.outputs /\ s.outputs[n].wl = w
  BY <1>1, WhereIs
<1>3. SyncOutput(s, w, r) = t
  BY DEF SyncOutput, SyncChanges
<1> HIDE DEF n
<1>4. /\ ModesGood(u, th, late \ {w}) /\ AtModes(u, of \ {w}, th) /\ Fewer(s, u, th)
      /\ Others(s, u, w) /\ (\A k \in DOMAIN u.outputs : u.outputs[k].wl \in Outs /\ u.outputs[k].wl # Off)
      /\ \E k \in DOMAIN u.outputs : Given(u.outputs[k], w, r)
  <2>1. CASE n = 0
    <3> DEFINE v == Added(s, w, r)
    <3>1. u = v
      BY <2>1
    <3>2. ModesGood(s, th, late \ {w}) /\ AtModes(s, of \ {w}, th)
      BY <1>1, <1>2, <2>1, Looser
    <3>3. /\ ModesGood(v, th, (late \ {w}) \ {Off}) /\ Fewer(s, v, th)
          /\ \E o : /\ Given(o, w, r)
                    /\ OutputsOf(v) = {p \in ToSet(s.outputs) : p.wl # Off} \cup {o}
          /\ \A off2 : AtModes(s, off2, th) => AtModes(v, off2 \ {Off}, th)
      BY <1>2, <2>1, <3>2, AddedOk
    <3> HIDE DEF v, u
    <3>4. PICK o : /\ Given(o, w, r)
                   /\ OutputsOf(v) = {p \in ToSet(s.outputs) : p.wl # Off} \cup {o}
      BY <3>3
    <3>5. ModesGood(v, th, late \ {w}) /\ AtModes(v, of \ {w}, th)
      <4>1. AtModes(v, (of \ {w}) \ {Off}, th)
        BY <3>2, <3>3
      <4> QED BY <3>3, <4>1, Looser
    <3>6. /\ \A k \in DOMAIN v.outputs : v.outputs[k] = o \/ \E j \in DOMAIN s.outputs :
               v.outputs[k] = s.outputs[j] /\ s.outputs[j].wl # Off
          /\ \A j \in DOMAIN s.outputs : s.outputs[j].wl # Off =>
               \E k \in DOMAIN v.outputs : v.outputs[k] = s.outputs[j]
          /\ \E k \in DOMAIN v.outputs : v.outputs[k] = o
      <4>1. \A k \in DOMAIN v.outputs : v.outputs[k] \in OutputsOf(v)
        BY DEF OutputsOf
      <4>2. \A p \in OutputsOf(v) : \E k \in DOMAIN v.outputs : v.outputs[k] = p
        BY DEF OutputsOf
      <4>3. /\ \A p \in ToSet(s.outputs) : \E j \in DOMAIN s.outputs : p = s.outputs[j]
            /\ \A j \in DOMAIN s.outputs : s.outputs[j] \in ToSet(s.outputs)
        BY DEF ToSet
      <4> QED BY <3>4, <4>1, <4>2, <4>3
    <3>7. Others(s, v, w)
      BY <1>2, <2>1, <3>4, <3>6 DEF Others, Alike, Given
    <3>8. \A k \in DOMAIN v.outputs : v.outputs[k].wl \in Outs /\ v.outputs[k].wl # Off
      BY <1>1, <3>4, <3>6 DEF Named, Given
    <3>9. \E k \in DOMAIN v.outputs : Given(v.outputs[k], w, r)
      BY <3>4, <3>6
    <3> QED BY <3>1, <3>3, <3>5, <3>7, <3>8, <3>9
  <2>2. CASE n # 0
    <3> DEFINE v == Updated(s, n, r)
    <3>0. n \in DOMAIN s.outputs /\ s.outputs[n].wl = w
      BY <1>2, <2>2
    <3>1. u = v
      BY <2>2
    <3>2. /\ ModesGood(v, th, late \ {w}) /\ Fewer(s, v, th) /\ UpdatedOf(s, v, n, r)
          /\ \A off2 : AtModes(s, off2, th) => AtModes(v, off2 \ {w}, th)
      BY <1>1, <3>0, UpdatedOk
    <3> HIDE DEF v, u
    <3>3. AtModes(v, of \ {w}, th)
      BY <1>1, <3>2
    <3>4. \A k \in DOMAIN s.outputs : k # n => s.outputs[k].wl # w
      BY <1>1, <3>0 DEF Numbered
    <3>5. Others(s, v, w)
      BY <3>0, <3>2, <3>4 DEF Others, Alike, UpdatedOf
    <3>6. \A k \in DOMAIN s.outputs : s.outputs[k].wl \in Outs /\ s.outputs[k].wl # Off
      BY <1>1, <3>0 DEF Named
    <3>7. \A k \in DOMAIN v.outputs : v.outputs[k].wl \in Outs /\ v.outputs[k].wl # Off
      BY <3>0, <3>2, <3>6 DEF UpdatedOf
    <3>8. Given(v.outputs[n], w, r) /\ n \in DOMAIN v.outputs
      BY <3>0, <3>2 DEF UpdatedOf, Given
    <3> QED BY <3>1, <3>2, <3>3, <3>5, <3>7, <3>8
  <2> QED BY <2>1, <2>2
<1> HIDE DEF u
<1>5. /\ ModesGood(t, th, late \ {w}) /\ AtModes(t, of \ {w}, th) /\ Laid(t) /\ SameModes(u, t)
      /\ Fewer(s, t, th)
  BY <1>4, PlacedOk
<1> HIDE DEF t
<1>6. Others(s, t, w)
  BY <1>4, <1>5 DEF Others, Alike, SameModes
<1>7. Named(t) /\ ~StandsIn(t)
  BY <1>4, <1>5 DEF Named, StandsIn, SameModes
<1>8. \E k \in DOMAIN t.outputs : Given(t.outputs[k], w, r)
  BY <1>4, <1>5 DEF Given, SameModes
<1> QED BY <1>3, <1>5, <1>6, <1>7, <1>8 DEF ScreenInv

\* remove_wayland_output.
LEMMA RemoveOk ==
  ASSUME NEW s, NEW th, NEW late, NEW of, ScreenInv(s, th, late, of), NEW w
  PROVE  LET t == RemoveWaylandOutput(s, w)
         IN  /\ ScreenInv(t, th, late \ {w}, of \ {w}) /\ Fewer(s, t, th) /\ Laid(t)
             /\ StandsIn(t) => StandsIn(s)
             /\ Others(s, t, w) /\ \A n \in DOMAIN t.outputs : t.outputs[n].wl # w
<1> DEFINE P == {o \in ToSet(s.outputs) : o.wl # w}
           u == Prune([s EXCEPT !.outputs = Kept(s.outputs, P)])
           t == Bounded(Relayout(u))
<1>1. RemoveWaylandOutput(s, w) = t
  BY DEF RemoveWaylandOutput
<1>2. ModesGood(s, th, late) /\ AtModes(s, of, th) /\ Named(s)
  BY DEF ScreenInv
<1>3. /\ ModesGood(u, th, late \ {w}) /\ Fewer(s, u, th) /\ OutputsOf(u) = P
      /\ \A off2 : AtModes(s, off2, th) => AtModes(u, off2 \ {w}, th)
  BY <1>2, RemovedOk
<1> HIDE DEF u
<1>4. AtModes(u, of \ {w}, th)
  BY <1>2, <1>3
<1>5. /\ ModesGood(t, th, late \ {w}) /\ AtModes(t, of \ {w}, th) /\ Laid(t) /\ SameModes(u, t)
      /\ Fewer(s, t, th)
  BY <1>3, <1>4, PlacedOk
<1> HIDE DEF t
<1>6. /\ \A k \in DOMAIN u.outputs : \E j \in DOMAIN s.outputs :
           u.outputs[k] = s.outputs[j] /\ s.outputs[j].wl # w
      /\ \A j \in DOMAIN s.outputs : s.outputs[j].wl # w =>
           \E k \in DOMAIN u.outputs : u.outputs[k] = s.outputs[j]
  <2>1. \A k \in DOMAIN u.outputs : u.outputs[k] \in OutputsOf(u)
    BY DEF OutputsOf
  <2>2. \A p \in OutputsOf(u) : \E k \in DOMAIN u.outputs : u.outputs[k] = p
    BY DEF OutputsOf
  <2>3. /\ \A p \in ToSet(s.outputs) : \E j \in DOMAIN s.outputs : p = s.outputs[j]
        /\ \A j \in DOMAIN s.outputs : s.outputs[j] \in ToSet(s.outputs)
    BY DEF ToSet
  <2>4. \A p : p \in P <=> p \in ToSet(s.outputs) /\ p.wl # w
    OBVIOUS
  <2> HIDE DEF P
  <2> QED BY <1>3, <2>1, <2>2, <2>3, <2>4
<1> HIDE DEF P
<1>7. Others(s, t, w) /\ \A n \in DOMAIN t.outputs : t.outputs[n].wl # w
  BY <1>5, <1>6 DEF Others, Alike, SameModes
<1>8. Named(t) /\ (StandsIn(t) => StandsIn(s))
  BY <1>2, <1>5, <1>6 DEF Named, StandsIn, SameModes
<1> QED BY <1>1, <1>5, <1>7, <1>8 DEF ScreenInv

\* restore_outputs, with no stand-in.
LEMMA RestoreOk ==
  ASSUME NEW s, NEW th, NEW late, NEW of, ScreenInv(s, th, late, of), ~StandsIn(s)
  PROVE  LET t == RestoreOutputs(s)
         IN  /\ ScreenInv(t, th, late, {}) /\ Fewer(s, t, th) /\ Laid(t) /\ ~StandsIn(t)
             /\ Others(s, t, Off)
<1> DEFINE u == AllBack(s)
           t == Bounded(Relayout(u))
<1>1. RestoreOutputs(s) = t
  BY Zenon DEF RestoreOutputs
<1>2. ModesGood(s, th, late) /\ Named(s)
  BY DEF ScreenInv
<1>3. /\ ModesGood(u, th, late) /\ Fewer(s, u, th) /\ SameSites(s, u)
      /\ \A n \in DOMAIN s.outputs : Showing(u, n) \/ s.outputs[n].wl = Off
  BY <1>2, AllBackOk
<1> HIDE DEF u
<1>4. AtModes(u, {}, th)
  BY <1>3 DEF AtModes, StandsIn, SameSites
<1>5. /\ ModesGood(t, th, late) /\ AtModes(t, {}, th) /\ Laid(t) /\ SameModes(u, t)
      /\ Fewer(s, t, th)
  BY <1>3, <1>4, PlacedOk
<1> HIDE DEF t
<1>6. /\ DOMAIN t.outputs = DOMAIN s.outputs
      /\ \A n \in DOMAIN s.outputs : Alike(t.outputs[n], s.outputs[n]) /\ t.outputs[n].wl = s.outputs[n].wl
  BY <1>3, <1>5 DEF SameSites, SameSite, SameModes, Alike
<1>7. Others(s, t, Off) /\ Named(t) /\ ~StandsIn(t)
  BY <1>2, <1>6 DEF Others, Named, StandsIn
<1> QED BY <1>1, <1>5, <1>7 DEF ScreenInv

-----------------------------------------------------------------------------
(* The invariant.  *)

\* Once it has been heard of, the compositor's output is there, or is not, as it is.
Drives(s, c, late, o) ==
    IF c = Gone THEN \A n \in DOMAIN s.outputs : s.outputs[n].wl # o
    ELSE \E n \in DOMAIN s.outputs :
           LET p == s.outputs[n]
           IN  /\ p.wl = o /\ p.at = c.at /\ p.log = TrueLog(c)
               /\ p.size = TrueSize(c) \/ o \in late

\* What a request on its way asks for: the mode is one there was, and a native one
\* is listed by no output but that of its CRTC.
PendingOk(x, s, th) ==
    \/ x = Idle
    \/ /\ {"at", "crtc", "mode"} \subseteq DOMAIN x
       /\ x.mode \in Nat /\ x.mode < s.next
       /\ \A m \in OwnModes(s, th) : m.id = x.mode =>
            \A n \in DOMAIN s.outputs : Lists(s, n, m.id) => s.outputs[n].crtc = x.crtc

\* With the stand-in there, no change is the compositor's.
Asks(x, s) == StandsIn(s) => x.at \in {"idle", "local"}

ClientsInv ==
    /\ xs = [t \in XThreads |-> xs[t]]
    /\ \A t \in XThreads : PendingOk(xs[t], screen, theirs) /\ Asks(xs[t], screen)

\* What OutputAcc has of the output's own events.
OutputHeard(a, c) ==
    /\ a # NoAcc /\ a.mode = c.mode /\ a.turn = c.turn /\ a.scale = c.scale /\ a.at = c.at

AllHeard(a, c) ==
    c # Gone => /\ OutputHeard(a, c)
                /\ xdg # "none" => a.logical /\ a.lat = c.at /\ a.log = TrueLog(c)

AccFields == {"known", "mode", "turn", "scale", "at", "logical", "lat", "log"}

Said(o, parts, c) == [about |-> o, parts |-> parts, what |-> c]

\* What is on its way is about one output: all that was said, or the last of it.
WireOk ==
    \/ wire = <<>>
    \/ \E o \in Outs :
         \/ comp[o] = Gone /\ wire = <<Said(o, {}, Gone)>>
         \/ comp[o] # Gone /\ wire = Says(o, comp[o])
         \/ /\ comp[o] # Gone /\ xdg = "v2" /\ wire = <<Said(o, {"logical"}, comp[o])>>
            /\ OutputHeard(acc[o], comp[o])

HeardInv ==
    /\ xdg \in {"none", "v2", "v3"}
    /\ comp = [o \in Outs |-> comp[o]] /\ acc = [o \in Outs |-> acc[o]]
    /\ \A o \in Outs : /\ comp[o] \in Configs \cup {Gone}
                       /\ acc[o] # NoAcc => DOMAIN acc[o] = AccFields
                                            /\ (acc[o].logical => xdg # "none")
    /\ WireOk
    /\ \A o \in Outs : ~About(o) =>
         AllHeard(acc[o], comp[o]) /\ Drives(screen, comp[o], raced, o)

LayoutInv ==
    /\ ScreenInv(screen, theirs, raced, off)
    /\ moved \/ Laid(screen)
    /\ ClientsInv
    /\ HeardInv

LEMMA DrivesKept ==
  ASSUME NEW s, NEW t, NEW w, Others(s, t, w), NEW p, p # w, p # Off, NEW late, NEW loose,
         p \in late => p \in loose, NEW c, Drives(s, c, late, p)
  PROVE  Drives(t, c, loose, p)
<1>1. CASE c = Gone
  BY <1>1 DEF Drives, Others, Alike
<1>2. CASE c # Gone
  <2>1. PICK n \in DOMAIN s.outputs :
           LET o == s.outputs[n]
           IN  /\ o.wl = p /\ o.at = c.at /\ o.log = TrueLog(c)
               /\ o.size = TrueSize(c) \/ p \in late
    BY <1>2 DEF Drives
  <2>2. PICK k \in DOMAIN t.outputs : Alike(t.outputs[k], s.outputs[n])
    BY <2>1 DEF Others
  <2> QED BY <1>2, <2>1, <2>2 DEF Drives, Alike
<1> QED BY <1>1, <1>2

LEMMA SitesKept ==
  ASSUME NEW s, NEW t, SameSites(s, t)
  PROVE  Others(s, t, Off) /\ (Named(s) => Named(t)) /\ (StandsIn(t) => StandsIn(s))
<1>1. /\ DOMAIN t.outputs = DOMAIN s.outputs
      /\ \A n \in DOMAIN s.outputs : Alike(t.outputs[n], s.outputs[n]) /\ t.outputs[n].wl = s.outputs[n].wl
  BY DEF SameSites, SameSite, Alike
<1> QED BY <1>1 DEF Others, Named, StandsIn

LEMMA PendingKept ==
  ASSUME NEW x, NEW s, NEW t, NEW th, Numbered(t), Fewer(s, t, th), PendingOk(x, s, th)
  PROVE  PendingOk(x, t, th)
<1> SUFFICES ASSUME x # Idle PROVE PendingOk(x, t, th)
  BY DEF PendingOk
<1>1. x.mode \in Nat /\ x.mode < s.next /\ s.next \in Nat /\ t.next \in Nat /\ s.next <= t.next
  BY DEF PendingOk, Fewer
<1>2. x.mode < t.next
  BY <1>1
<1>3. ASSUME NEW m \in OwnModes(t, th), m.id = x.mode, NEW n \in DOMAIN t.outputs, Lists(t, n, m.id)
      PROVE  t.outputs[n].crtc = x.crtc
  <2>1. m \in OwnModes(s, th)
    BY <1>1, <1>3 DEF Fewer, OwnModes
  <2>2. PICK k \in DOMAIN s.outputs : Lists(s, k, m.id) /\ s.outputs[k].crtc = t.outputs[n].crtc
    BY <1>1, <1>3 DEF Fewer
  <2> QED BY <1>3, <2>1, <2>2 DEF PendingOk
<1> QED BY <1>1, <1>2, <1>3 DEF PendingOk

LEMMA PendingWidened ==
  ASSUME NEW x, NEW s, NEW th, NEW more, th \subseteq more, PendingOk(x, s, th)
  PROVE  PendingOk(x, s, more)
<1>1. OwnModes(s, more) \subseteq OwnModes(s, th)
  BY DEF OwnModes
<1> QED BY <1>1 DEF PendingOk

\* A step of the screen, and of one client at most.
LEMMA PendingStep ==
  ASSUME ClientsInv, NEW t \in XThreads, theirs \subseteq theirs', NEW late,
         ModesGood(screen', theirs', late), Fewer(screen, screen', theirs'),
         StandsIn(screen') => StandsIn(screen)
  PROVE  PendingOk(xs[t], screen', theirs') /\ Asks(xs[t], screen')
<1>1. PendingOk(xs[t], screen, theirs) /\ Asks(xs[t], screen)
  BY DEF ClientsInv
<1>2. PendingOk(xs[t], screen, theirs')
  BY <1>1, PendingWidened
<1>3. PendingOk(xs[t], screen', theirs')
  BY <1>2, PendingKept DEF ModesGood, ModesOk
<1> QED BY <1>1, <1>3 DEF Asks

LEMMA ClientsKept ==
  ASSUME ClientsInv, xs' = xs, theirs \subseteq theirs', NEW late,
         ModesGood(screen', theirs', late), Fewer(screen, screen', theirs'),
         StandsIn(screen') => StandsIn(screen)
  PROVE  ClientsInv'
<1>1. \A t \in XThreads : PendingOk(xs[t], screen', theirs') /\ Asks(xs[t], screen')
  BY PendingStep
<1> QED BY <1>1 DEF ClientsInv

LEMMA ClientGoesOn ==
  ASSUME ClientsInv, NEW t \in XThreads, NEW x, xs' = [xs EXCEPT ![t] = x],
         theirs' = theirs, NEW late,
         ModesGood(screen', theirs', late), Fewer(screen, screen', theirs'),
         StandsIn(screen') => StandsIn(screen),
         PendingOk(x, screen', theirs') /\ Asks(x, screen')
  PROVE  ClientsInv'
<1>1. \A u \in XThreads : PendingOk(xs[u], screen', theirs') /\ Asks(xs[u], screen')
  BY PendingStep
<1>2. xs' = [u \in XThreads |-> xs'[u]] /\ \A u \in XThreads : xs'[u] = IF u = t THEN x ELSE xs[u]
  BY DEF ClientsInv
<1> QED BY <1>1, <1>2 DEF ClientsInv

LEMMA IdleIs ==
  ASSUME NEW s, NEW th
  PROVE  PendingOk(Idle, s, th) /\ Asks(Idle, s)
BY DEF PendingOk, Asks, Idle

\* The compositor and its events are as they were.
LEMMA HeardKept ==
  ASSUME HeardInv, UNCHANGED <<comp, wire, xdg, acc>>,
         \A o \in Outs : Drives(screen, comp[o], raced, o) => Drives(screen', comp[o], raced', o)
  PROVE  HeardInv'
<1>2. WireOk'
  BY DEF HeardInv, WireOk, Says
<1>3. \A o \in Outs : AllHeard(acc[o], comp[o])' <=> AllHeard(acc[o], comp[o])
  BY DEF AllHeard
<1>4. \A o \in Outs : About(o)' <=> About(o)
  BY DEF About
<1> QED BY <1>2, <1>3, <1>4 DEF HeardInv

\* One or two messages.
LEMMA Messages ==
  ASSUME NEW a, NEW b
  PROVE  /\ DOMAIN <<>> = {}
         /\ <<a>> # <<>> /\ DOMAIN <<a>> = {1} /\ <<a>>[1] = a /\ Head(<<a>>) = a /\ Tail(<<a>>) = <<>>
         /\ <<a, b>> # <<>> /\ DOMAIN <<a, b>> = {1, 2} /\ <<a, b>>[1] = a /\ <<a, b>>[2] = b
         /\ Head(<<a, b>>) = a /\ Tail(<<a, b>>) = <<b>>
<1>1. DOMAIN <<>> = {} /\ <<a>> # <<>> /\ <<a, b>> # <<>>
  OBVIOUS
<1>2. DOMAIN <<a>> = 1 .. 1 /\ DOMAIN <<a, b>> = 1 .. 2
  OBVIOUS
<1>3. 1 .. 1 = {1} /\ 1 .. 2 = {1, 2}
  OBVIOUS
<1>4. <<a>>[1] = a /\ <<a, b>>[1] = a /\ <<a, b>>[2] = b /\ Head(<<a>>) = a /\ Head(<<a, b>>) = a
  OBVIOUS
<1>5. Tail(<<a>>) = <<>>
  <2>1. <<a>> \in Seq({a}) /\ Len(<<a>>) = 1
    OBVIOUS
  <2>2. Tail(<<a>>) \in Seq({a}) /\ Len(Tail(<<a>>)) = 0
    BY <2>1, HeadTailProperties
  <2> QED BY <2>2, EmptySeq
<1>6. Tail(<<a, b>>) = <<b>>
  <2>1. <<a, b>> \in Seq({a, b}) /\ Len(<<a, b>>) = 2 /\ <<a, b>>[2] = b
    OBVIOUS
  <2>2. /\ Tail(<<a, b>>) \in Seq({a, b}) /\ Len(Tail(<<a, b>>)) = 1
        /\ \A i \in 1 .. 1 : Tail(<<a, b>>)[i] = <<a, b>>[i + 1]
    BY <2>1, HeadTailProperties
  <2>3. Tail(<<a, b>>)[1] = b
    BY <2>1, <2>2
  <2>4. <<b>> \in Seq({a, b}) /\ Len(<<b>>) = 1 /\ <<b>>[1] = b
    OBVIOUS
  <2> DEFINE q == Tail(<<a, b>>)
             r == <<b>>
  <2>5. q \in Seq({a, b}) /\ r \in Seq({a, b}) /\ Len(q) = Len(r) /\ \A i \in 1 .. Len(q) : q[i] = r[i]
    BY <2>2, <2>3, <2>4, <1>3
  <2> HIDE DEF q, r
  <2>6. q = r
    BY <2>5, SeqEqual
  <2> QED BY <2>6 DEF q, r
<1> QED BY <1>1, <1>2, <1>3, <1>4, <1>5, <1>6

LEMMA SaysIs ==
  ASSUME xdg \in {"none", "v2", "v3"}, NEW o, NEW c
  PROVE  \/ xdg = "none" /\ Says(o, c) = <<Said(o, {"output"}, c)>>
         \/ xdg = "v2" /\ Says(o, c) = <<Said(o, {"output"}, c), Said(o, {"logical"}, c)>>
         \/ xdg = "v3" /\ Says(o, c) = <<Said(o, {"output", "logical"}, c)>>
BY DEF Says, Said

\* The compositor changes an output.
LEMMA ChangeKept ==
  ASSUME HeardInv, NEW o \in Outs,
         Unplug(o) \/ \E c \in Configs : PlugIn(o, c) \/ Reconfigure(o, c)
  PROVE  HeardInv'
<1>0. PICK c \in Configs \cup {Gone} : \E events :
        /\ Change(o, c, events)
        /\ \/ c = Gone /\ events = <<Said(o, {}, Gone)>>
           \/ c # Gone /\ events = Says(o, c)
  <2>1. Unplug(o) => Change(o, Gone, <<Said(o, {}, Gone)>>)
    BY DEF Unplug, Said
  <2>2. \A c \in Configs : PlugIn(o, c) \/ Reconfigure(o, c) => Change(o, c, Says(o, c))
    BY DEF PlugIn, Reconfigure
  <2>3. \A c \in Configs : c # Gone
    <3> SUFFICES ASSUME NEW c \in Configs PROVE c # Gone
      OBVIOUS
    <3>1. c \in [mode : (Nat \ {0}) \X (Nat \ {0}), turn : Transforms,
                 scale : Nat \ {0}, at : Int \X Int]
      BY LayoutAssumption
    <3>2. "mode" \in DOMAIN c /\ "mode" \notin DOMAIN Gone
      BY <3>1 DEF Gone
    <3> QED BY <3>2
  <2> QED BY <2>1, <2>2, <2>3
<1>1. PICK events :
        /\ Change(o, c, events)
        /\ \/ c = Gone /\ events = <<Said(o, {}, Gone)>>
           \/ c # Gone /\ events = Says(o, c)
  BY <1>0
<1>2. /\ comp' = [comp EXCEPT ![o] = c] /\ wire = <<>> /\ wire' = events
      /\ UNCHANGED <<xdg, acc, screen, raced>>
  BY <1>1 DEF Change, history
<1>3. comp' = [p \in Outs |-> comp'[p]] /\ \A p \in Outs : comp'[p] = IF p = o THEN c ELSE comp[p]
  BY <1>2 DEF HeardInv
<1>4. WireOk'
  <2>1. Says(o, c)' = Says(o, c)
    BY <1>2 DEF Says
  <2> QED BY <1>1, <1>2, <1>3, <2>1 DEF WireOk
<1>5. About(o)'
  <2>1. \E m : events[1] = m /\ 1 \in DOMAIN events /\ m.about = o
    <3>1. \A a, p, d : <<a>>[1] = a /\ 1 \in DOMAIN <<a>> /\ Said(o, p, d).about = o
      BY Messages DEF Said
    <3>2. \A a, b : <<a, b>>[1] = a /\ 1 \in DOMAIN <<a, b>>
      BY Messages
    <3>3. CASE c = Gone
      BY <1>1, <3>1, <3>3
    <3>4. CASE c # Gone
      BY <1>1, <3>1, <3>2, <3>4, SaysIs DEF HeardInv
    <3> QED BY <3>3, <3>4
  <2> QED BY <1>2, <2>1 DEF About
<1>6. \A p \in Outs : p # o => AllHeard(acc[p], comp[p])' /\ Drives(screen', comp'[p], raced', p)
  <2>1. \A p : ~About(p)
    BY <1>2, Messages DEF About
  <2> QED BY <1>2, <1>3, <2>1 DEF HeardInv, AllHeard
<1>7. \A p \in Outs : p # o \/ About(p)'
  BY <1>5
<1> QED BY <1>1, <1>2, <1>3, <1>4, <1>6, <1>7 DEF HeardInv

\* What is said of an output at once, and OutputAcc before and after.
PartsOk(old, parts, c) ==
    /\ parts \in {{"output"}, {"logical"}, {"output", "logical"}}
    /\ parts = {"logical"} => OutputHeard(old, c)
    /\ "logical" \in parts => xdg # "none"
    /\ parts = {"output"} => xdg \in {"none", "v2"}

AccOk(a) == a # NoAcc => DOMAIN a = AccFields /\ (a.logical => xdg # "none")

AccSays(a, parts, c) ==
    /\ OutputHeard(a, c) /\ DOMAIN a = AccFields /\ (a.logical => xdg # "none")
    /\ "logical" \in parts \/ xdg = "none" => AllHeard(a, c)
    /\ AllHeard(a, c) /\ c # Gone =>
         /\ RectOf(a).at = c.at /\ RectOf(a).log = TrueLog(c) /\ RectOf(a).size = TrueSize(c)

\* Events of an output are put together.
LEMMA AccumulatedIs ==
  ASSUME NEW old, NEW o, NEW c, NEW parts, AccOk(old), PartsOk(old, parts, c)
  PROVE  AccSays(Accumulated(old, Said(o, parts, c)), parts, c)
<1> DEFINE e == Said(o, parts, c)
           b == IF old = NoAcc THEN NewAcc ELSE old
           d == IF "output" \notin parts THEN b
                ELSE [b EXCEPT !.mode = c.mode, !.turn = c.turn, !.scale = c.scale, !.at = c.at]
           a == IF "logical" \notin parts THEN d
                ELSE [d EXCEPT !.logical = TRUE, !.lat = c.at, !.log = TrueLog(c)]
<1>0. /\ parts \in {{"output"}, {"logical"}, {"output", "logical"}}
      /\ parts = {"logical"} => OutputHeard(old, c)
      /\ "logical" \in parts => xdg # "none"
      /\ parts = {"output"} => xdg \in {"none", "v2"}
      /\ old # NoAcc => DOMAIN old = AccFields /\ (old.logical => xdg # "none")
  BY DEF PartsOk, AccOk
<1>1. Accumulated(old, e) = a
  BY DEF Accumulated, Said
<1>2. DOMAIN b = AccFields /\ (b.logical => xdg # "none")
  BY <1>0 DEF NewAcc, AccFields
<1>3. parts = {"logical"} => b = old
  BY <1>0 DEF OutputHeard
<1> HIDE DEF b
<1>4. /\ DOMAIN d = AccFields /\ (d.logical => xdg # "none")
      /\ d.mode = c.mode /\ d.turn = c.turn /\ d.scale = c.scale /\ d.at = c.at
  <2>1. CASE "output" \in parts
    <3>1. d = [b EXCEPT !.mode = c.mode, !.turn = c.turn, !.scale = c.scale, !.at = c.at]
      BY <2>1
    <3> QED BY <1>2, <3>1 DEF AccFields
  <2>2. CASE "output" \notin parts
    <3>1. parts = {"logical"} /\ d = b
      BY <1>0, <2>2
    <3> QED BY <1>0, <1>2, <1>3, <3>1 DEF OutputHeard
  <2> QED BY <2>1, <2>2
<1> HIDE DEF d
<1>5. /\ DOMAIN a = AccFields /\ (a.logical => xdg # "none")
      /\ a.mode = c.mode /\ a.turn = c.turn /\ a.scale = c.scale /\ a.at = c.at
      /\ "logical" \in parts => a.logical /\ a.lat = c.at /\ a.log = TrueLog(c)
  <2>1. CASE "logical" \in parts
    <3> DEFINE z == TrueLog(c)
    <3>1. a = [d EXCEPT !.logical = TRUE, !.lat = c.at, !.log = z]
      BY <2>1
    <3> HIDE DEF z, a
    <3>2. /\ DOMAIN a = AccFields /\ a.logical
          /\ a.mode = c.mode /\ a.turn = c.turn /\ a.scale = c.scale /\ a.at = c.at
          /\ a.lat = c.at /\ a.log = z
      BY <1>4, <3>1 DEF AccFields
    <3> QED BY <1>0, <2>1, <3>2 DEF z
  <2>2. CASE "logical" \notin parts
    BY <1>4, <2>2
  <2> QED BY <2>1, <2>2
<1> HIDE DEF a
<1>6. a # NoAcc
  BY <1>5 DEF NoAcc, AccFields
<1>7. OutputHeard(a, c)
  BY <1>5, <1>6 DEF OutputHeard
<1>8. "logical" \in parts \/ xdg = "none" => AllHeard(a, c)
  BY <1>5, <1>7 DEF AllHeard
<1>9. ASSUME AllHeard(a, c), c # Gone
      PROVE  RectOf(a).at = c.at /\ RectOf(a).log = TrueLog(c) /\ RectOf(a).size = TrueSize(c)
  <2>1. Size(a.turn, a.mode) = TrueSize(c)
    BY <1>5 DEF TrueSize
  <2>2. CASE a.logical
    <3>1. a.lat = c.at /\ a.log = TrueLog(c)
      BY <1>5, <1>9, <2>2 DEF AllHeard
    <3>2. RectOf(a).at = a.lat /\ RectOf(a).log = a.log /\ RectOf(a).size = Size(a.turn, a.mode)
      BY <2>2 DEF RectOf
    <3> QED BY <2>1, <3>1, <3>2
  <2>3. CASE ~a.logical
    <3> DEFINE z == Size(a.turn, a.mode)
               l == <<z[1] \div a.scale, z[2] \div a.scale>>
    <3>1. RectOf(a).at = a.at /\ RectOf(a).log = l /\ RectOf(a).size = z
      BY <2>3, Zenon DEF RectOf
    <3>2. l = TrueLog(c)
      BY <1>5, <2>1, Zenon DEF TrueLog
    <3> QED BY <1>5, <2>1, <3>1, <3>2
  <2> QED BY <2>2, <2>3
<1> QED BY <1>1, <1>5, <1>7, <1>8, <1>9 DEF AccSays

\* The message received, and what is left on its way.
LEMMA WireHead ==
  ASSUME HeardInv, wire # <<>>
  PROVE  \E o \in Outs :
           /\ \A p : p # o => ~About(p)
           /\ \/ comp[o] = Gone /\ Head(wire) = Said(o, {}, Gone) /\ Tail(wire) = <<>>
              \/ \E parts :
                   /\ comp[o] # Gone /\ Head(wire) = Said(o, parts, comp[o])
                   /\ PartsOk(acc[o], parts, comp[o])
                   /\ \/ Tail(wire) = <<>> /\ ("logical" \in parts \/ xdg = "none")
                      \/ /\ Tail(wire) = <<Said(o, {"logical"}, comp[o])>> /\ xdg = "v2"
                         /\ parts = {"output"}
<1>1. PICK o \in Outs :
         \/ comp[o] = Gone /\ wire = <<Said(o, {}, Gone)>>
         \/ comp[o] # Gone /\ wire = Says(o, comp[o])
         \/ /\ comp[o] # Gone /\ xdg = "v2" /\ wire = <<Said(o, {"logical"}, comp[o])>>
            /\ OutputHeard(acc[o], comp[o])
  BY DEF HeardInv, WireOk
<1> DEFINE c == comp[o]
<1> HIDE DEF c
<1>2. \A parts, d : Said(o, parts, d).about = o
  BY DEF Said
<1>3. ASSUME NEW m, m.about = o, wire = <<m>>
      PROVE  (\A p : p # o => ~About(p)) /\ Head(wire) = m /\ Tail(wire) = <<>>
  BY <1>3, Messages DEF About
<1>4. ASSUME NEW m, NEW l, m.about = o, l.about = o, wire = <<m, l>>
      PROVE  (\A p : p # o => ~About(p)) /\ Head(wire) = m /\ Tail(wire) = <<l>>
  BY <1>4, Messages DEF About
<1>5. CASE c = Gone
  <2>1. wire = <<Said(o, {}, Gone)>>
    BY <1>1, <1>5 DEF c
  <2> QED BY <1>2, <1>3, <1>5, <2>1 DEF c
<1>6. CASE c # Gone /\ wire = Says(o, c)
  <2> DEFINE a == Said(o, {"output"}, c)
             b == Said(o, {"logical"}, c)
             d == Said(o, {"output", "logical"}, c)
  <2>1. a.about = o /\ b.about = o /\ d.about = o
    BY <1>2
  <2>2. \/ xdg = "none" /\ wire = <<a>>
        \/ xdg = "v2" /\ wire = <<a, b>>
        \/ xdg = "v3" /\ wire = <<d>>
    BY <1>6, SaysIs DEF HeardInv
  <2> HIDE DEF a, b, d
  <2>3. CASE xdg = "none"
    <3>1. (\A p : p # o => ~About(p)) /\ Head(wire) = a /\ Tail(wire) = <<>>
      BY <1>3, <2>1, <2>2, <2>3
    <3>2. PartsOk(acc[o], {"output"}, c) /\ c # Gone
      BY <1>6, <2>3 DEF PartsOk
    <3> QED BY <2>3, <3>1, <3>2 DEF a, c
  <2>4. CASE xdg = "v2"
    <3>1. (\A p : p # o => ~About(p)) /\ Head(wire) = a /\ Tail(wire) = <<b>>
      BY <1>4, <2>1, <2>2, <2>4
    <3>2. PartsOk(acc[o], {"output"}, c) /\ c # Gone
      BY <1>6, <2>4 DEF PartsOk
    <3> QED BY <2>4, <3>1, <3>2 DEF a, b, c
  <2>5. CASE xdg = "v3"
    <3>1. (\A p : p # o => ~About(p)) /\ Head(wire) = d /\ Tail(wire) = <<>>
      BY <1>3, <2>1, <2>2, <2>5
    <3>2. LET parts == {"output", "logical"}
          IN  "logical" \in parts /\ parts # {"logical"} /\ parts # {"output"}
      OBVIOUS
    <3>3. c # Gone /\ Head(wire) = Said(o, {"output", "logical"}, c)
      BY <1>6, <3>1 DEF d
    <3>4. PartsOk(acc[o], {"output", "logical"}, c)
      BY <2>5, <3>2 DEF PartsOk
    <3> QED BY <3>1, <3>2, <3>3, <3>4 DEF c
  <2> QED BY <2>2, <2>3, <2>4, <2>5
<1>7. CASE c # Gone /\ wire # Says(o, c)
  <2>1. xdg = "v2" /\ wire = <<Said(o, {"logical"}, c)>> /\ OutputHeard(acc[o], c)
    BY <1>1, <1>7 DEF c
  <2>2. (\A p : p # o => ~About(p)) /\ Head(wire) = Said(o, {"logical"}, c) /\ Tail(wire) = <<>>
    BY <1>2, <1>3, <2>1
  <2>3. PartsOk(acc[o], {"logical"}, c)
    BY <2>1 DEF PartsOk
  <2> QED BY <1>7, <2>1, <2>2, <2>3 DEF c
<1> QED BY <1>5, <1>6, <1>7

-----------------------------------------------------------------------------
(* The Wayland thread.  *)

LEMMA OthersSame ==
  ASSUME NEW s, NEW w
  PROVE  Others(s, s, w)
BY DEF Others, Alike

LEMMA ScreenFacts ==
  ASSUME LayoutInv
  PROVE  /\ ScreenInv(screen, theirs, raced, off) /\ ModesGood(screen, theirs, raced)
         /\ AtModes(screen, off, theirs) /\ Named(screen) /\ Typed(screen) /\ Numbered(screen)
         /\ ClientsInv /\ HeardInv
BY DEF LayoutInv, ScreenInv, ModesGood, ModesOk

\* What the message of an output leaves of what is heard of the others.
LEMMA OthersHeard ==
  ASSUME HeardInv, NEW o \in Outs, \A p : p # o => ~About(p), comp' = comp, xdg' = xdg,
         \A p \in Outs : p # o => acc'[p] = acc[p] /\ (p \in raced => p \in raced'),
         Others(screen, screen', o)
  PROVE  \A p \in Outs : p # o =>
           /\ acc'[p] # NoAcc => DOMAIN acc'[p] = AccFields /\ (acc'[p].logical => xdg' # "none")
           /\ AllHeard(acc[p], comp[p])' /\ Drives(screen', comp'[p], raced', p)
<1> SUFFICES ASSUME NEW p \in Outs, p # o
             PROVE  /\ acc'[p] # NoAcc => DOMAIN acc'[p] = AccFields /\ (acc'[p].logical => xdg' # "none")
                    /\ AllHeard(acc[p], comp[p])' /\ Drives(screen', comp'[p], raced', p)
  OBVIOUS
<1>1. AllHeard(acc[p], comp[p]) /\ Drives(screen, comp[p], raced, p)
  BY DEF HeardInv
<1>2. p # Off
  BY LayoutAssumption
<1>3. Drives(screen', comp[p], raced', p)
  BY <1>1, <1>2, DrivesKept
<1>4. AllHeard(acc[p], comp[p])'
  BY <1>1 DEF AllHeard
<1> QED BY <1>3, <1>4 DEF HeardInv

\* apply_output.
LEMMA ApplyKept ==
  ASSUME LayoutInv, Receive, Apply(Head(wire))
  PROVE  LayoutInv'
<1>1. PICK o \in Outs :
         /\ \A p : p # o => ~About(p)
         /\ \/ comp[o] = Gone /\ Head(wire) = Said(o, {}, Gone) /\ Tail(wire) = <<>>
            \/ \E parts :
                 /\ comp[o] # Gone /\ Head(wire) = Said(o, parts, comp[o])
                 /\ PartsOk(acc[o], parts, comp[o])
                 /\ \/ Tail(wire) = <<>> /\ ("logical" \in parts \/ xdg = "none")
                    \/ /\ Tail(wire) = <<Said(o, {"logical"}, comp[o])>> /\ xdg = "v2"
                       /\ parts = {"output"}
  BY WireHead DEF LayoutInv, Receive
<1>2. Head(wire).what # Gone
  BY DEF Apply
<1>3. Head(wire) # Said(o, {}, Gone)
  BY <1>2 DEF Said
<1>4. PICK parts :
         /\ comp[o] # Gone /\ Head(wire) = Said(o, parts, comp[o])
         /\ PartsOk(acc[o], parts, comp[o])
         /\ \/ Tail(wire) = <<>> /\ ("logical" \in parts \/ xdg = "none")
            \/ Tail(wire) = <<Said(o, {"logical"}, comp[o])>> /\ xdg = "v2"
  BY <1>1, <1>3
<1> DEFINE c == comp[o]
           a == Accumulated(acc[o], Said(o, parts, c))
           r == RectOf(a)
           changed == SyncChanges(screen, o, r)
<1>5. /\ acc' = [acc EXCEPT ![o] = a]
      /\ screen' = SyncOutput(screen, o, r)
      /\ moved' = (moved /\ ~changed)
      /\ off' = (IF changed THEN off \ {o} ELSE off)
      /\ raced' = (IF changed THEN raced \ {o} ELSE raced)
      /\ xs' = xs /\ theirs' = theirs
  <2>1. Said(o, parts, c).about = o
    BY DEF Said
  <2>2. Head(wire) = Said(o, parts, c)
    BY <1>4
  <2> QED BY <2>1, <2>2, Zenon DEF Apply
<1>6. wire' = Tail(wire) /\ comp' = comp /\ xdg' = xdg
  BY DEF Receive
<1>7. /\ OutputHeard(a, c) /\ DOMAIN a = AccFields /\ (a.logical => xdg # "none")
      /\ "logical" \in parts \/ xdg = "none" => AllHeard(a, c)
      /\ AllHeard(a, c) /\ c # Gone =>
           /\ r.at = c.at /\ r.log = TrueLog(c) /\ r.size = TrueSize(c)
  <2>1. AccOk(acc[o])
    BY DEF LayoutInv, HeardInv, AccOk
  <2>2. AccSays(a, parts, c)
    BY <1>4, <2>1, AccumulatedIs
  <2> HIDE DEF a, c
  <2> QED BY <2>2 DEF AccSays
<1> HIDE DEF a, r, changed
<1>8. /\ ScreenInv(screen', theirs', raced', off') /\ Fewer(screen, screen', theirs)
      /\ (StandsIn(screen') => StandsIn(screen)) /\ (moved' \/ Laid(screen'))
      /\ \A p \in Outs : p # o => (p \in raced => p \in raced')
      /\ Others(screen, screen', o)
      /\ \E n \in DOMAIN screen'.outputs : Given(screen'.outputs[n], o, r)
  <2>1. CASE changed
    <3> DEFINE t == SyncOutput(screen, o, r)
    <3>1. o # Off
      BY LayoutAssumption
    <3>2. /\ ScreenInv(t, theirs, raced \ {o}, off \ {o}) /\ Fewer(screen, t, theirs) /\ Laid(t)
          /\ ~StandsIn(t) /\ Others(screen, t, o)
          /\ \E n \in DOMAIN t.outputs : Given(t.outputs[n], o, r)
      BY <2>1, <3>1, SyncOk DEF LayoutInv, changed
    <3> HIDE DEF t
    <3>3. screen' = t
      BY <1>5 DEF t
    <3> QED BY <1>5, <2>1, <3>2, <3>3
  <2>2. CASE ~changed
    <3> DEFINE n == Where(screen, LAMBDA q : q.wl = o)
    <3>1. n # 0 /\ Same(screen, n, r)
      BY <2>2 DEF changed, SyncChanges
    <3>2. screen' = screen
      BY <1>5, <3>1 DEF SyncOutput
    <3>3. n \in DOMAIN screen.outputs /\ screen.outputs[n].wl = o
      <4>1. Typed(screen)
        BY ScreenFacts
      <4>2. \/ n = 0 /\ \A k \in DOMAIN screen.outputs : screen.outputs[k].wl # o
            \/ n # 0 /\ n \in DOMAIN screen.outputs /\ screen.outputs[n].wl = o
        BY <4>1, WhereIs
      <4> QED BY <3>1, <4>2
    <3>4. Given(screen.outputs[n], o, r)
      BY <3>1, <3>3 DEF Given, Same
    <3>5. Fewer(screen, screen, theirs) /\ Others(screen, screen, o)
      BY ScreenFacts, FewerSame, OthersSame DEF Typed
    <3> HIDE DEF n
    <3> QED BY <1>5, <2>2, <3>2, <3>3, <3>4, <3>5 DEF LayoutInv
  <2> QED BY <2>1, <2>2
<1>9. ClientsInv'
  BY <1>5, <1>8, ScreenFacts, ClientsKept DEF ScreenInv
<1>10. acc' = [p \in Outs |-> acc'[p]] /\ acc'[o] = a /\ \A p \in Outs : p # o => acc'[p] = acc[p]
  BY <1>5, ScreenFacts DEF HeardInv
<1>11. \A p \in Outs : p # o =>
           /\ acc'[p] # NoAcc => DOMAIN acc'[p] = AccFields /\ (acc'[p].logical => xdg' # "none")
           /\ AllHeard(acc[p], comp[p])' /\ Drives(screen', comp'[p], raced', p)
  BY <1>1, <1>6, <1>8, <1>10, ScreenFacts, OthersHeard
<1>12. WireOk' /\ (About(o)' \/ (AllHeard(acc[o], comp[o])' /\ Drives(screen', comp'[o], raced', o)))
  <2>1. CASE Tail(wire) = <<>> /\ ("logical" \in parts \/ xdg = "none")
    <3>1. WireOk'
      BY <1>6, <2>1 DEF WireOk
    <3>2. AllHeard(a, c)
      BY <1>7, <2>1
    <3>3. AllHeard(acc[o], comp[o])'
      BY <1>6, <1>10, <3>2 DEF AllHeard, c
    <3>4. r.at = c.at /\ r.log = TrueLog(c) /\ r.size = TrueSize(c)
      BY <1>4, <1>7, <3>2
    <3>5. Drives(screen', c, raced', o)
      BY <1>4, <1>8, <3>4 DEF Drives, Given
    <3> QED BY <1>6, <3>1, <3>3, <3>5
  <2>2. CASE Tail(wire) = <<Said(o, {"logical"}, c)>> /\ xdg = "v2"
    <3> DEFINE m == Said(o, {"logical"}, c)
    <3>1. wire' = <<m>> /\ m.about = o
      BY <1>6, <2>2 DEF Said
    <3>2. About(o)'
      <4> HIDE DEF m
      <4>1. 1 \in DOMAIN wire' /\ wire'[1].about = o
        BY <3>1, Messages
      <4> QED BY <4>1 DEF About
    <3>3. OutputHeard(acc'[o], comp'[o])
      BY <1>6, <1>7, <1>10
    <3>4. comp'[o] # Gone /\ xdg' = "v2" /\ wire' = <<Said(o, {"logical"}, comp'[o])>>
      BY <1>4, <1>6, <2>2
    <3> QED BY <3>2, <3>3, <3>4 DEF WireOk, OutputHeard
  <2> QED BY <1>4, <2>1, <2>2
<1>13. HeardInv'
  <2>1. acc'[o] # NoAcc => DOMAIN acc'[o] = AccFields /\ (acc'[o].logical => xdg' # "none")
    BY <1>6, <1>7, <1>10
  <2>2. /\ xdg' \in {"none", "v2", "v3"} /\ comp' = [p \in Outs |-> comp'[p]]
        /\ \A p \in Outs : comp'[p] \in Configs \cup {Gone}
    BY <1>6, ScreenFacts DEF HeardInv
  <2> QED BY <1>10, <1>11, <1>12, <2>1, <2>2 DEF HeardInv
<1> QED BY <1>8, <1>9, <1>13 DEF LayoutInv

\* remove_output.
LEMMA TakeAwayKept ==
  ASSUME LayoutInv, Receive, TakeAway(Head(wire))
  PROVE  LayoutInv'
<1>1. PICK o \in Outs :
         /\ \A p : p # o => ~About(p)
         /\ \/ comp[o] = Gone /\ Head(wire) = Said(o, {}, Gone) /\ Tail(wire) = <<>>
            \/ \E parts :
                 /\ comp[o] # Gone /\ Head(wire) = Said(o, parts, comp[o])
                 /\ PartsOk(acc[o], parts, comp[o])
                 /\ \/ Tail(wire) = <<>> /\ ("logical" \in parts \/ xdg = "none")
                    \/ /\ Tail(wire) = <<Said(o, {"logical"}, comp[o])>> /\ xdg = "v2"
                       /\ parts = {"output"}
  BY WireHead DEF LayoutInv, Receive
<1>2. Head(wire).what = Gone
  BY DEF TakeAway
<1>3. \A parts : Said(o, parts, comp[o]).what = comp[o]
  BY DEF Said
<1>4. comp[o] = Gone /\ Head(wire) = Said(o, {}, Gone) /\ Tail(wire) = <<>>
  BY <1>1, <1>2, <1>3
<1> DEFINE w == Head(wire).about
           there == Where(screen, LAMBDA p : p.wl = w) # 0
           waits(t) == xs[t].at = "waiting" /\ xs[t].wl = o
<1>5. /\ acc' = [acc EXCEPT ![o] = NoAcc]
      /\ xs' = [t \in XThreads |-> xs'[t]]
      /\ \A t \in XThreads :
           xs'[t] = IF waits(t) THEN [xs[t] EXCEPT !.at = "refused"] ELSE xs[t]
      /\ screen' = IF there THEN RemoveWaylandOutput(screen, o) ELSE screen
      /\ moved' = (moved /\ ~there)
      /\ off' = off \ {o} /\ raced' = raced \ {o} /\ theirs' = theirs
  <2>1. w = o
    BY <1>4 DEF Said
  <2>2. /\ acc' = [acc EXCEPT ![w] = NoAcc]
        /\ xs' = [t \in XThreads |-> IF xs[t].at = "waiting" /\ xs[t].wl = w
                                     THEN [xs[t] EXCEPT !.at = "refused"] ELSE xs[t]]
        /\ screen' = IF there THEN RemoveWaylandOutput(screen, w) ELSE screen
        /\ moved' = (moved /\ ~there)
        /\ off' = off \ {w} /\ raced' = raced \ {w} /\ theirs' = theirs
    BY Zenon DEF TakeAway
  <2> HIDE DEF w, there
  <2> QED BY <2>1, <2>2
<1>6. wire' = <<>> /\ comp' = comp /\ xdg' = xdg
  BY <1>4 DEF Receive
<1>7. \/ ~there /\ \A k \in DOMAIN screen.outputs : screen.outputs[k].wl # o
      \/ there
  <2> DEFINE n == Where(screen, LAMBDA p : p.wl = w)
  <2>1. Typed(screen) /\ w = o
    BY <1>4, ScreenFacts DEF Said
  <2>2. \/ n = 0 /\ \A k \in DOMAIN screen.outputs : screen.outputs[k].wl # w
        \/ n # 0 /\ n \in DOMAIN screen.outputs /\ screen.outputs[n].wl = w
    BY <2>1, WhereIs
  <2> HIDE DEF n, w
  <2> QED BY <2>1, <2>2 DEF n
<1> HIDE DEF there, w
<1>8. /\ ScreenInv(screen', theirs', raced', off') /\ Fewer(screen, screen', theirs)
      /\ (StandsIn(screen') => StandsIn(screen)) /\ (moved' \/ Laid(screen'))
      /\ Others(screen, screen', o)
      /\ \A n \in DOMAIN screen'.outputs : screen'.outputs[n].wl # o
  <2>1. CASE there
    <3> DEFINE t == RemoveWaylandOutput(screen, o)
    <3>1. /\ ScreenInv(t, theirs, raced \ {o}, off \ {o}) /\ Fewer(screen, t, theirs) /\ Laid(t)
          /\ StandsIn(t) => StandsIn(screen)
          /\ Others(screen, t, o) /\ \A n \in DOMAIN t.outputs : t.outputs[n].wl # o
      BY RemoveOk, ScreenFacts
    <3> HIDE DEF t
    <3>2. screen' = t
      BY <1>5, <2>1 DEF t
    <3> QED BY <1>5, <3>1, <3>2
  <2>2. CASE ~there
    <3>1. screen' = screen
      BY <1>5, <2>2
    <3>2. \A k \in DOMAIN screen.outputs : screen.outputs[k].wl # o
      BY <1>7, <2>2
    <3>3. Fewer(screen, screen, theirs) /\ Others(screen, screen, o)
      BY ScreenFacts, FewerSame, OthersSame DEF Typed
    <3>4. ModesGood(screen, theirs, raced \ {o}) /\ AtModes(screen, off \ {o}, theirs)
      BY <3>2, ScreenFacts, Looser
    <3>5. ScreenInv(screen, theirs, raced \ {o}, off \ {o})
      BY <3>4, ScreenFacts DEF ScreenInv
    <3>6. moved' \/ Laid(screen')
      BY <1>5, <2>2, <3>1 DEF LayoutInv
    <3> QED BY <1>5, <3>1, <3>2, <3>3, <3>5, <3>6
  <2> QED BY <2>1, <2>2
<1>9. ClientsInv'
  <2> SUFFICES ASSUME NEW t \in XThreads
               PROVE  PendingOk(xs'[t], screen', theirs) /\ Asks(xs'[t], screen')
    BY <1>5 DEF ClientsInv
  <2>1. PendingOk(xs[t], screen, theirs) /\ Asks(xs[t], screen)
    BY ScreenFacts DEF ClientsInv
  <2>2. Numbered(screen')
    BY <1>8 DEF ScreenInv, ModesGood, ModesOk
  <2>3. PendingOk(xs[t], screen', theirs)
    BY <1>8, <2>1, <2>2, PendingKept
  <2>4. CASE ~waits(t)
    BY <1>5, <1>8, <2>1, <2>3, <2>4 DEF Asks
  <2>5. CASE waits(t)
    <3> DEFINE x == [xs[t] EXCEPT !.at = "refused"]
    <3>1. xs'[t] = x
      BY <1>5, <2>5
    <3>2. xs[t] # Idle
      BY <2>5 DEF Idle
    <3>3. "mode" \in DOMAIN xs[t] /\ "crtc" \in DOMAIN xs[t]
      BY <2>3, <3>2 DEF PendingOk
    <3>4. DOMAIN x = DOMAIN xs[t] /\ x.mode = xs[t].mode /\ x.crtc = xs[t].crtc
      BY <3>3
    <3>5. ~StandsIn(screen')
      BY <1>8, <2>1, <2>5 DEF Asks
    <3> HIDE DEF x
    <3>6. PendingOk(x, screen', theirs)
      BY <2>3, <3>2, <3>4 DEF PendingOk
    <3> QED BY <3>1, <3>5, <3>6 DEF Asks
  <2> QED BY <2>4, <2>5
<1>10. acc' = [p \in Outs |-> acc'[p]] /\ acc'[o] = NoAcc /\ \A p \in Outs : p # o => acc'[p] = acc[p]
  BY <1>5, ScreenFacts DEF HeardInv
<1>11. \A p \in Outs : p # o =>
           /\ acc'[p] # NoAcc => DOMAIN acc'[p] = AccFields /\ (acc'[p].logical => xdg' # "none")
           /\ AllHeard(acc[p], comp[p])' /\ Drives(screen', comp'[p], raced', p)
  <2>1. \A p \in Outs : p # o => acc'[p] = acc[p] /\ (p \in raced => p \in raced')
    BY <1>5, <1>10
  <2> QED BY <1>1, <1>6, <1>8, <2>1, ScreenFacts, OthersHeard
<1>12. WireOk' /\ AllHeard(acc[o], comp[o])' /\ Drives(screen', comp'[o], raced', o)
  <2>1. WireOk'
    BY <1>6 DEF WireOk
  <2>2. AllHeard(acc[o], comp[o])'
    BY <1>4, <1>6 DEF AllHeard
  <2>3. Drives(screen', comp'[o], raced', o)
    BY <1>4, <1>6, <1>8 DEF Drives
  <2> QED BY <2>1, <2>2, <2>3
<1>13. HeardInv'
  <2>1. /\ xdg' \in {"none", "v2", "v3"} /\ comp' = [p \in Outs |-> comp'[p]]
        /\ \A p \in Outs : comp'[p] \in Configs \cup {Gone}
    BY <1>6, ScreenFacts DEF HeardInv
  <2> QED BY <1>10, <1>11, <1>12, <2>1 DEF HeardInv
<1> QED BY <1>8, <1>9, <1>13 DEF LayoutInv

LEMMA ReceiveKept ==
  ASSUME LayoutInv, Receive
  PROVE  LayoutInv'
BY ApplyKept, TakeAwayKept DEF Receive

-----------------------------------------------------------------------------
(* The clients.  *)

\* A step that leaves the outputs where the compositor put them.
LEMMA SitesStep ==
  ASSUME LayoutInv, UNCHANGED <<comp, wire, xdg, acc, raced>>, SameSites(screen, screen'),
         ModesGood(screen', theirs', raced), AtModes(screen', off', theirs'),
         moved' \/ Laid(screen'), ClientsInv'
  PROVE  LayoutInv'
<1>1. Others(screen, screen', Off) /\ Named(screen')
  BY ScreenFacts, SitesKept
<1>2. \A o \in Outs : Drives(screen, comp[o], raced, o) => Drives(screen', comp[o], raced', o)
  BY <1>1, DrivesKept, LayoutAssumption
<1>3. HeardInv'
  BY <1>2, ScreenFacts, HeardKept
<1> QED BY <1>1, <1>3 DEF LayoutInv, ScreenInv

LEMMA EnabledSame ==
  ASSUME NEW s, NEW t, DOMAIN t.outputs = DOMAIN s.outputs,
         \A n \in DOMAIN s.outputs : t.outputs[n].mode = Off <=> s.outputs[n].mode = Off
  PROVE  Enabled(t) = Enabled(s)
BY DEF Enabled

LEMMA LaidStep ==
  ASSUME LayoutInv, SameSites(screen, screen'), screen'.size = screen.size, Typed(screen'),
         \A n \in DOMAIN screen.outputs : screen'.outputs[n].mode = Off <=> screen.outputs[n].mode = Off,
         \/ \E z : screen' = CreateMode(screen, z)
         \/ \E n \in DOMAIN screen.outputs : \E id :
               screen' \in {AddOutputMode(screen, n, id), DeleteOutputMode(screen, n, id)}
         \/ \E id : screen' = DestroyMode(screen, id)
         \/ \E n \in DOMAIN screen.outputs : \E id : screen' = AdoptMode(screen, n, id)
  PROVE  moved \/ Laid(screen')
<1> SUFFICES ASSUME Laid(screen) PROVE Laid(screen')
  BY DEF LayoutInv
<1>1. Typed(screen) /\ ScreenShape(screen) /\ ScreenShape(screen')
  BY ScreenFacts DEF Typed
<1>2. IsScreen(screen)
  BY <1>1, RelaidIff DEF Laid
<1>3. IsScreen(screen')
  BY <1>1, <1>2, StillScreen
<1>4. Enabled(screen') = Enabled(screen)
  BY EnabledSame DEF SameSites
<1> QED BY <1>1, <1>3, <1>4, StillLaid

\* RandrCreateMode.
LEMMA CreateKept ==
  ASSUME LayoutInv, NEW t \in XThreads, NEW z, AskCreateMode(t, z)
  PROVE  LayoutInv'
<1>1. /\ screen' = CreateMode(screen, z) /\ UNCHANGED <<comp, wire, xdg, acc, xs>>
      /\ UNCHANGED <<moved, off, raced, theirs>>
  BY DEF AskCreateMode, Ask, compositor, history
<1>2. /\ ModesGood(screen', theirs, raced) /\ Fewer(screen, screen', theirs)
      /\ screen'.size = screen.size /\ SameSites(screen, screen')
      /\ AtModes(screen', off, theirs)
      /\ \A n \in DOMAIN screen.outputs : screen'.outputs[n].mode = screen.outputs[n].mode
  BY <1>1, ScreenFacts, CreateOk
<1>3. ClientsInv'
  BY <1>1, <1>2, ScreenFacts, ClientsKept, SitesKept
<1>4. moved \/ Laid(screen')
  BY <1>1, <1>2, LaidStep DEF ModesGood, ModesOk
<1> QED BY <1>1, <1>2, <1>3, <1>4, SitesStep

\* RandrAddOutputMode and RandrDeleteOutputMode.
LEMMA ListKept ==
  ASSUME LayoutInv, NEW t \in XThreads, NEW n \in DOMAIN screen.outputs, NEW m \in screen.modes,
         AskAddMode(t, n, m.id) \/ AskDeleteMode(t, n, m.id)
  PROVE  LayoutInv'
<1> DEFINE id == m.id
           th == theirs \cup {id}
<1>1. /\ screen' \in {AddOutputMode(screen, n, id), DeleteOutputMode(screen, n, id)}
      /\ UNCHANGED <<comp, wire, xdg, acc, xs>> /\ theirs' = th
      /\ UNCHANGED <<moved, off, raced>>
  BY DEF AskAddMode, AskDeleteMode, Ask, compositor
<1>2. id \in Nat /\ id < screen.next /\ id \in th
  BY ScreenFacts DEF Numbered
<1>3. theirs \subseteq th
  OBVIOUS
<1> HIDE DEF id, th
<1>4. ModesGood(screen, th, raced)
  BY <1>3, ScreenFacts, Widened
<1>5. /\ ModesGood(screen', th, raced) /\ Fewer(screen, screen', th)
      /\ screen'.size = screen.size /\ SameSites(screen, screen')
      /\ \A of : AtModes(screen, of, th) => AtModes(screen', of, th)
      /\ \A k \in DOMAIN screen.outputs : screen'.outputs[k].mode = screen.outputs[k].mode
  BY <1>1, <1>2, <1>4, ListOk
<1>6. AtModes(screen', off, th)
  <2>1. AtModes(screen, off, th)
    BY <1>3, ScreenFacts DEF AtModes
  <2> QED BY <1>5, <2>1
<1>7. ClientsInv'
  BY <1>1, <1>3, <1>5, ScreenFacts, ClientsKept, SitesKept
<1>8. moved \/ Laid(screen')
  BY <1>1, <1>5, LaidStep DEF ModesGood, ModesOk
<1> QED BY <1>1, <1>5, <1>6, <1>7, <1>8, SitesStep

\* RandrDestroyMode.
LEMMA DestroyKept ==
  ASSUME LayoutInv, NEW t \in XThreads, NEW id, AskDestroyMode(t, id)
  PROVE  LayoutInv'
<1>1. /\ screen' = DestroyMode(screen, id) /\ UNCHANGED <<comp, wire, xdg, acc, xs>>
      /\ UNCHANGED <<moved, raced, theirs>>
      /\ off' = off \cup {o.wl : o \in {o \in ToSet(screen.outputs) : o.mode = id}}
  BY DEF AskDestroyMode, Ask, compositor
<1>2. /\ ModesGood(screen', theirs, raced) /\ Fewer(screen, screen', theirs)
      /\ screen'.size = screen.size /\ SameSites(screen, screen')
      /\ \A n \in DOMAIN screen.outputs :
           /\ screen'.outputs[n].mode = screen.outputs[n].mode
           /\ screen.outputs[n].mode # id /\ Showing(screen, n) => Showing(screen', n)
  BY <1>1, ScreenFacts, DestroyOk
<1>3. AtModes(screen', off', theirs)
  <2>1. off \subseteq off'
    BY <1>1
  <2>2. \A n \in DOMAIN screen.outputs : screen.outputs[n].mode = id => screen.outputs[n].wl \in off'
    <3>1. \A n \in DOMAIN screen.outputs : screen.outputs[n] \in ToSet(screen.outputs)
      BY DEF ToSet
    <3> QED BY <1>1, <3>1
  <2>3. \A n \in DOMAIN screen.outputs : screen'.outputs[n].wl = screen.outputs[n].wl
    BY <1>2 DEF SameSites, SameSite
  <2>4. DOMAIN screen'.outputs = DOMAIN screen.outputs
    BY <1>2 DEF SameSites
  <2> QED BY <1>2, <2>1, <2>2, <2>3, <2>4, ScreenFacts DEF AtModes
<1>4. ClientsInv'
  BY <1>1, <1>2, ScreenFacts, ClientsKept, SitesKept
<1>5. moved \/ Laid(screen')
  BY <1>1, <1>2, LaidStep DEF ModesGood, ModesOk
<1> QED BY <1>1, <1>2, <1>3, <1>4, <1>5, SitesStep

\* RandrSetScreenSize.
LEMMA SizeKept ==
  ASSUME LayoutInv, NEW t \in XThreads, NEW z, AskSetSize(t, z)
  PROVE  LayoutInv'
<1> DEFINE y == Clamped(z)
<1>1. /\ screen' = [screen EXCEPT !.size = y] /\ UNCHANGED <<comp, wire, xdg, acc, xs>>
      /\ UNCHANGED <<off, raced, theirs>> /\ moved' = TRUE
  BY DEF AskSetSize, SetSize, Ask, compositor
<1> HIDE DEF y
<1>2. /\ DOMAIN screen' = ScreenFields /\ screen'.outputs = screen.outputs
      /\ screen'.next = screen.next /\ screen'.modes = screen.modes
  BY <1>1, ScreenFacts DEF Typed, ScreenShape, ScreenFields
<1>3. SameModes(screen, screen') /\ Typed(screen') /\ SameSites(screen, screen')
  BY <1>2, ScreenFacts DEF SameModes, SameSites, SameSite, Typed, ScreenShape
<1>4. ModesGood(screen', theirs, raced) /\ AtModes(screen', off, theirs)
  BY <1>3, ScreenFacts, SameModesOk
<1>5. Fewer(screen, screen', theirs)
  BY <1>3, ScreenFacts, FewerSame, SameModesFewer DEF Typed
<1>6. ClientsInv'
  BY <1>1, <1>3, <1>4, <1>5, ScreenFacts, ClientsKept, SitesKept
<1> QED BY <1>1, <1>3, <1>4, <1>6, SitesStep

\* RandrSetCrtcConfig, its plan: a native mode is used where it is listed.
LEMMA PlanKept ==
  ASSUME LayoutInv, NEW t \in XThreads, NEW n \in DOMAIN screen.outputs, NEW pos,
         NEW id \in Usable(n) \cup {Off}, AskCrtc(t, n, pos, id)
  PROVE  LayoutInv'
<1> DEFINE o == screen.outputs[n]
           local == [at |-> "local", crtc |-> o.crtc, pos |-> pos, mode |-> id]
           waiting(z) == [at |-> "waiting", wl |-> o.wl, size |-> z,
                          crtc |-> o.crtc, pos |-> pos, mode |-> id]
<1>1. UNCHANGED <<comp, wire, xdg, acc, screen, moved, off, raced, theirs>>
  BY DEF AskCrtc, Ask, compositor, history
<1>2. \/ xs' = xs
      \/ \E x : /\ xs' = [xs EXCEPT ![t] = x] /\ {"at", "crtc", "mode"} \subseteq DOMAIN x
                /\ x.mode = id /\ x.crtc = o.crtc
                /\ x.at = "local" \/ o.wl # Off
  <2>1. \/ xs' = xs
        \/ xs' = [xs EXCEPT ![t] = local]
        \/ o.wl # Off /\ \E z : xs' = [xs EXCEPT ![t] = waiting(z)]
    BY Zenon DEF AskCrtc
  <2>2. /\ {"at", "crtc", "mode"} \subseteq DOMAIN local
        /\ local.mode = id /\ local.crtc = o.crtc /\ local.at = "local"
    OBVIOUS
  <2>3. \A z : /\ {"at", "crtc", "mode"} \subseteq DOMAIN waiting(z)
               /\ waiting(z).mode = id /\ waiting(z).crtc = o.crtc
    OBVIOUS
  <2> HIDE DEF local, waiting
  <2> QED BY <2>1, <2>2, <2>3
<1> HIDE DEF local, waiting
<1>3. id \in Nat /\ id < screen.next
  <2>1. CASE id = Off
    BY <2>1, ScreenFacts DEF Numbered, Typed, Off
  <2>2. CASE id # Off
    <3>1. \E m \in screen.modes : m.id = id
      BY <2>2 DEF Usable
    <3> QED BY <3>1, ScreenFacts DEF Numbered
  <2> QED BY <2>1, <2>2
<1>4. ASSUME NEW m \in OwnModes(screen, theirs), m.id = id,
             NEW k \in DOMAIN screen.outputs, Lists(screen, k, m.id)
      PROVE  screen.outputs[k].crtc = o.crtc
  <2>1. m \in screen.modes /\ m.ours /\ id # Off
    BY <1>4, ScreenFacts DEF OwnModes, Numbered
  <2>2. PICK j \in screen.modes : j.id = id /\ (~j.ours \/ Contains(screen.outputs[n].listed, j.id))
    BY <2>1 DEF Usable
  <2>3. j = m
    BY <1>4, <2>1, <2>2, ScreenFacts DEF Numbered
  <2>4. Lists(screen, n, m.id)
    BY <2>1, <2>2, <2>3 DEF Lists
  <2>5. OwnListed(screen, theirs)
    BY ScreenFacts DEF ModesGood, ModesOk
  <2>6. k = n
    BY <1>4, <2>4, <2>5 DEF OwnListed
  <2> QED BY <2>6
<1>5. StandsIn(screen) => o.wl = Off
  BY ScreenFacts DEF StandsIn, Named
<1>6. Fewer(screen, screen', theirs') /\ SameSites(screen, screen')
  <2>1. Fewer(screen, screen, theirs)
    BY ScreenFacts, FewerSame DEF Typed
  <2> QED BY <1>1, <2>1 DEF SameSites, SameSite
<1>7. ModesGood(screen', theirs', raced) /\ AtModes(screen', off', theirs') /\ (moved' \/ Laid(screen'))
  BY <1>1, ScreenFacts DEF LayoutInv
<1>8. ClientsInv'
  <2>1. CASE xs' = xs
    BY <1>1, <1>6, <1>7, <2>1, ScreenFacts, ClientsKept
  <2>2. ASSUME NEW x, xs' = [xs EXCEPT ![t] = x], {"at", "crtc", "mode"} \subseteq DOMAIN x,
               x.mode = id, x.crtc = o.crtc, x.at = "local" \/ o.wl # Off
        PROVE  ClientsInv'
    <3>1. PendingOk(x, screen, theirs)
      BY <1>3, <1>4, <2>2 DEF PendingOk
    <3>2. Asks(x, screen)
      BY <1>5, <2>2 DEF Asks
    <3> QED BY <1>1, <1>6, <1>7, <2>2, <3>1, <3>2, ScreenFacts, ClientGoesOn
  <2> QED BY <1>2, <2>1, <2>2
<1> QED BY <1>1, <1>6, <1>7, <1>8, SitesStep

\* The CRTC a client asked for, and the mode it asked to put there.
LEMMA AskedMode ==
  ASSUME LayoutInv, NEW t \in XThreads, xs[t] # Idle, CrtcOf(t) # 0
  PROVE  LET n == CrtcOf(t)
         IN  /\ n \in DOMAIN screen.outputs
             /\ \A m \in OwnModes(screen, theirs) : m.id = xs[t].mode => Lists(screen, n, xs[t].mode)
<1> DEFINE n == CrtcOf(t)
           w == xs[t].crtc
           k == Where(screen, LAMBDA o : o.crtc = w)
<1>1. \/ k = 0 /\ \A j \in DOMAIN screen.outputs : screen.outputs[j].crtc # w
      \/ k # 0 /\ k \in DOMAIN screen.outputs /\ screen.outputs[k].crtc = w
  BY ScreenFacts, WhereIs
<1>2. n = k
  BY DEF CrtcOf
<1> HIDE DEF k, n
<1>3. n \in DOMAIN screen.outputs /\ screen.outputs[n].crtc = xs[t].crtc
  BY <1>1, <1>2 DEF n
<1>4. ASSUME NEW m \in OwnModes(screen, theirs), m.id = xs[t].mode
      PROVE  Lists(screen, n, m.id)
  <2>1. PICK j \in DOMAIN screen.outputs : Lists(screen, j, m.id)
    BY ScreenFacts DEF ModesGood, NoneLeft
  <2>2. screen.outputs[j].crtc = xs[t].crtc
    BY <1>4, <2>1, ScreenFacts DEF ClientsInv, PendingOk
  <2>3. j = n
    BY <1>3, <2>2, ScreenFacts DEF Numbered
  <2> QED BY <2>1, <2>3
<1> QED BY <1>3, <1>4 DEF n

\* The compositor answers.
LEMMA AnswerKept ==
  ASSUME LayoutInv, NEW t \in XThreads, NEW how \in {"changed", "refused"}, Answer(t, how)
  PROVE  LayoutInv'
<1> DEFINE x == [xs[t] EXCEPT !.at = how]
<1>1. /\ UNCHANGED <<comp, wire, xdg, acc, screen, moved, off, raced, theirs>>
      /\ xs' = [xs EXCEPT ![t] = x] /\ xs[t].at = "waiting"
  BY DEF Answer, compositor, history
<1>2. PendingOk(xs[t], screen, theirs) /\ Asks(xs[t], screen)
  BY ScreenFacts DEF ClientsInv
<1>3. xs[t] # Idle
  BY <1>1 DEF Idle
<1>4. DOMAIN x = DOMAIN xs[t] /\ x.mode = xs[t].mode /\ x.crtc = xs[t].crtc
  <2>1. "mode" \in DOMAIN xs[t] /\ "crtc" \in DOMAIN xs[t]
    BY <1>2, <1>3 DEF PendingOk
  <2> QED BY <2>1
<1> HIDE DEF x
<1>5. PendingOk(x, screen, theirs)
  BY <1>2, <1>3, <1>4 DEF PendingOk
<1>6. Asks(x, screen)
  BY <1>1, <1>2 DEF Asks
<1>7. Fewer(screen, screen', theirs') /\ SameSites(screen, screen')
  <2>1. Fewer(screen, screen, theirs)
    BY ScreenFacts, FewerSame DEF Typed
  <2> QED BY <1>1, <2>1 DEF SameSites, SameSite
<1>8. ModesGood(screen', theirs', raced) /\ AtModes(screen', off', theirs') /\ (moved' \/ Laid(screen'))
  BY <1>1, ScreenFacts DEF LayoutInv
<1>9. ClientsInv'
  BY <1>1, <1>5, <1>6, <1>7, <1>8, ScreenFacts, ClientGoesOn
<1> QED BY <1>1, <1>7, <1>8, <1>9, SitesStep

\* adopt_mode.
LEMMA AdoptKept ==
  ASSUME LayoutInv, NEW t \in XThreads, Adopt(t)
  PROVE  LayoutInv'
<1> DEFINE n == CrtcOf(t)
           id == xs[t].mode
           adopts == n # 0 /\ HasSize(screen, id, screen.outputs[n].size)
<1>1. /\ UNCHANGED <<comp, wire, xdg, acc, raced, theirs>>
      /\ xs[t].at = "changed" /\ xs' = [xs EXCEPT ![t] = Idle]
      /\ screen' = (IF adopts THEN AdoptMode(screen, n, id) ELSE screen)
      /\ moved' = (moved \/ (adopts /\ screen.outputs[n].mode = Off))
      /\ off' = (IF adopts THEN off \ {screen.outputs[n].wl} ELSE off)
  BY DEF Adopt, compositor
<1>2. xs[t] # Idle
  BY <1>1 DEF Idle
<1>3. n # 0 => /\ n \in DOMAIN screen.outputs
               /\ \A m \in OwnModes(screen, theirs) : m.id = id => Lists(screen, n, id)
  BY <1>2, AskedMode
<1> HIDE DEF n, id
<1>4. /\ ModesGood(screen', theirs, raced) /\ Fewer(screen, screen', theirs)
      /\ SameSites(screen, screen') /\ AtModes(screen', off', theirs)
      /\ moved' \/ Laid(screen')
  <2>1. CASE adopts
    <3>1. n \in DOMAIN screen.outputs /\ HasSize(screen, id, screen.outputs[n].size)
      BY <1>3, <2>1
    <3>2. screen' = AdoptMode(screen, n, id)
      BY <1>1, <2>1
    <3>3. /\ ModesGood(screen', theirs, raced) /\ Fewer(screen, screen', theirs)
          /\ screen'.size = screen.size /\ SameSites(screen, screen')
          /\ \A k \in DOMAIN screen.outputs :
               screen'.outputs[k].mode = IF k = n THEN id ELSE screen.outputs[k].mode
          /\ \A of : AtModes(screen, of, theirs) => AtModes(screen', of \ {screen.outputs[n].wl}, theirs)
      BY <1>3, <2>1, <3>1, <3>2, ScreenFacts, AdoptOk
    <3>4. AtModes(screen', off', theirs)
      BY <1>1, <2>1, <3>3, ScreenFacts
    <3>5. id # Off
      BY <3>1, ScreenFacts DEF HasSize, Numbered
    <3>6. moved' \/ Laid(screen')
      <4> SUFFICES ASSUME ~moved' PROVE Laid(screen')
        OBVIOUS
      <4>1. ~moved /\ screen.outputs[n].mode # Off
        BY <1>1, <2>1
      <4>2. \A k \in DOMAIN screen.outputs :
              screen'.outputs[k].mode = Off <=> screen.outputs[k].mode = Off
        BY <3>3, <3>5, <4>1
      <4>3. Typed(screen')
        BY <3>3 DEF ModesGood, ModesOk
      <4> QED BY <3>1, <3>2, <3>3, <4>1, <4>2, <4>3, LaidStep
    <3> QED BY <3>3, <3>4, <3>6
  <2>2. CASE ~adopts
    <3>1. screen' = screen /\ off' = off /\ (moved' <=> moved)
      BY <1>1, <2>2
    <3>2. Fewer(screen, screen, theirs)
      BY ScreenFacts, FewerSame DEF Typed
    <3> QED BY <3>1, <3>2, ScreenFacts DEF SameSites, SameSite, LayoutInv
  <2> QED BY <2>1, <2>2
<1>5. ClientsInv'
  BY <1>1, <1>4, ScreenFacts, ClientGoesOn, IdleIs, SitesKept
<1> QED BY <1>1, <1>4, <1>5, SitesStep

\* set_crtc.
LEMMA LocalKept ==
  ASSUME LayoutInv, NEW t \in XThreads, SetLocal(t)
  PROVE  LayoutInv'
<1> DEFINE n == CrtcOf(t)
           id == xs[t].mode
           wl == screen.outputs[n].wl
           fits == id = Off \/ HasSize(screen, id, screen.outputs[n].size)
           sets == n # 0 /\ ModeIsThere(id)
<1>1. /\ UNCHANGED <<comp, wire, xdg, acc, theirs>>
      /\ xs[t].at = "local" /\ xs' = [xs EXCEPT ![t] = Idle]
      /\ ~sets => UNCHANGED <<screen, moved, off, raced>>
      /\ sets => /\ screen' = SetCrtc(screen, n, xs[t].pos, id)
                 /\ moved' = TRUE
                 /\ off' = IF id = Off THEN off \cup {wl} ELSE off \ {wl}
                 /\ raced' = IF fits THEN raced ELSE raced \cup {wl}
  BY Zenon DEF SetLocal, compositor, history
<1>2. xs[t] # Idle
  BY <1>1 DEF Idle
<1>3. n # 0 => /\ n \in DOMAIN screen.outputs
               /\ \A m \in OwnModes(screen, theirs) : m.id = id => Lists(screen, n, id)
  BY <1>2, AskedMode
<1>4. CASE ~sets
  <2>1. Fewer(screen, screen', theirs') /\ SameSites(screen, screen')
    <3>1. Fewer(screen, screen, theirs)
      BY ScreenFacts, FewerSame DEF Typed
    <3> QED BY <1>1, <1>4, <3>1 DEF SameSites, SameSite
  <2>2. ModesGood(screen', theirs', raced) /\ AtModes(screen', off', theirs') /\ (moved' \/ Laid(screen'))
    BY <1>1, <1>4, ScreenFacts DEF LayoutInv
  <2>3. ClientsInv'
    BY <1>1, <1>4, <2>1, <2>2, ScreenFacts, ClientGoesOn, IdleIs
  <2> QED BY <1>1, <1>4, <2>1, <2>2, <2>3, SitesStep
<1>5. CASE sets
  <2> DEFINE o == screen.outputs[n]
             p == screen'.outputs[n]
  <2>1. n \in DOMAIN screen.outputs /\ (id = Off \/ \E m \in screen.modes : m.id = id)
    BY <1>3, <1>5 DEF ModeIsThere
  <2>2. /\ screen' = SetCrtc(screen, n, xs[t].pos, id) /\ (moved' <=> TRUE)
        /\ off' = (IF id = Off THEN off \cup {wl} ELSE off \ {wl})
        /\ raced' = (IF fits THEN raced ELSE raced \cup {wl})
    BY <1>1, <1>5
  <2>3. \A m \in OwnModes(screen, theirs) : m.id = id => Lists(screen, n, id)
    BY <1>3, <1>5
  <2> DEFINE s2 == SetCrtc(screen, n, xs[t].pos, id)
  <2>4. /\ ModesGood(s2, theirs, IF fits THEN raced ELSE raced \cup {o.wl})
        /\ Fewer(screen, s2, theirs) /\ s2.size = screen.size /\ s2.modes = screen.modes
        /\ DOMAIN s2.outputs = DOMAIN screen.outputs
        /\ \A k \in DOMAIN screen.outputs : k # n => s2.outputs[k] = screen.outputs[k]
        /\ LET q == s2.outputs[n]
           IN  /\ q.wl = o.wl /\ q.crtc = o.crtc /\ q.at = o.at /\ q.log = o.log /\ q.mode = id
               /\ fits => q.size = o.size
               /\ id # Off => Showing(s2, n)
    <3> HIDE DEF n, id
    <3> QED BY <2>1, <2>3, ScreenFacts, CrtcOk
  <2> HIDE DEF s2, id
  <2>5. /\ ModesGood(screen', theirs, raced')
        /\ Fewer(screen, screen', theirs) /\ screen'.modes = screen.modes
        /\ DOMAIN screen'.outputs = DOMAIN screen.outputs
        /\ \A k \in DOMAIN screen.outputs : k # n => screen'.outputs[k] = screen.outputs[k]
        /\ p.wl = o.wl /\ p.crtc = o.crtc /\ p.at = o.at /\ p.log = o.log /\ p.mode = id
        /\ fits => p.size = o.size
        /\ id # Off => Showing(screen', n)
    <3>1. screen' = s2
      BY <2>2 DEF s2
    <3> HIDE DEF n
    <3> QED BY <2>2, <2>4, <3>1
  <2> HIDE DEF n, fits
  <2>6. AtModes(screen', off', theirs)
    <3> SUFFICES ASSUME NEW k \in DOMAIN screen.outputs
                 PROVE  \/ Showing(screen', k) \/ screen'.outputs[k].wl \in off'
                        \/ screen'.outputs[k].mode \in theirs
      BY <2>5 DEF AtModes
    <3>1. CASE k = n
      BY <2>2, <2>5, <3>1
    <3>2. CASE k # n
      <4>1. screen'.outputs[k] = screen.outputs[k] /\ (Showing(screen, k) => Showing(screen', k))
        BY <2>5, <3>2 DEF Showing, HasSize
      <4>2. screen.outputs[k].wl # wl
        BY <2>1, <3>2, ScreenFacts DEF Numbered
      <4>3. screen.outputs[k].wl \in off => screen.outputs[k].wl \in off'
        BY <2>2, <4>2
      <4> QED BY <4>1, <4>3, ScreenFacts DEF AtModes
    <3> QED BY <3>1, <3>2
  <2>7. Named(screen') /\ (StandsIn(screen') => StandsIn(screen))
    <3>1. \A k \in DOMAIN screen.outputs : screen'.outputs[k].wl = screen.outputs[k].wl
      BY <2>5
    <3> QED BY <2>5, <3>1, ScreenFacts DEF Named, StandsIn
  <2>8. \A q \in Outs : Drives(screen, comp[q], raced, q) => Drives(screen', comp'[q], raced', q)
    <3> SUFFICES ASSUME NEW q \in Outs, Drives(screen, comp[q], raced, q)
                 PROVE  Drives(screen', comp[q], raced', q)
      BY <1>1
    <3>1. \A k \in DOMAIN screen.outputs : screen'.outputs[k].wl = screen.outputs[k].wl
      BY <2>5
    <3>2. CASE comp[q] = Gone
      BY <2>5, <3>1, <3>2 DEF Drives
    <3>3. CASE comp[q] # Gone
      <4>1. PICK k \in DOMAIN screen.outputs :
               LET u == screen.outputs[k]
               IN  /\ u.wl = q /\ u.at = comp[q].at /\ u.log = TrueLog(comp[q])
                   /\ u.size = TrueSize(comp[q]) \/ q \in raced
        BY <3>3 DEF Drives
      <4>2. LET u == screen'.outputs[k]
            IN  /\ u.wl = q /\ u.at = comp[q].at /\ u.log = TrueLog(comp[q])
                /\ u.size = TrueSize(comp[q]) \/ q \in raced'
        <5>1. CASE k # n
          BY <2>2, <2>5, <4>1, <5>1
        <5>2. CASE k = n
          <6>1. fits => raced' = raced /\ p.size = o.size
            BY <2>2, <2>5
          <6>2. ~fits => q \in raced'
            BY <2>2, <4>1, <5>2
          <6> QED BY <2>5, <4>1, <5>2, <6>1, <6>2
        <5> QED BY <5>1, <5>2
      <4> QED BY <2>5, <3>3, <4>1, <4>2 DEF Drives
    <3> QED BY <3>2, <3>3
  <2>9. ClientsInv'
    BY <1>1, <2>5, <2>7, ScreenFacts, ClientGoesOn, IdleIs
  <2>10. HeardInv'
    BY <1>1, <2>8, ScreenFacts, HeardKept
  <2> QED BY <1>1, <2>2, <2>5, <2>6, <2>7, <2>9, <2>10 DEF LayoutInv, ScreenInv
<1> QED BY <1>4, <1>5

\* restore_outputs.
LEMMA RestoreKept ==
  ASSUME LayoutInv, NEW t \in XThreads, Restore(t)
  PROVE  LayoutInv'
<1>1. /\ UNCHANGED <<comp, wire, xdg, acc, raced, theirs>>
      /\ xs[t].at = "refused" /\ xs' = [xs EXCEPT ![t] = Idle]
      /\ screen' = RestoreOutputs(screen) /\ off' = {}
  BY DEF Restore, compositor
<1>2. ~StandsIn(screen)
  BY <1>1, ScreenFacts DEF ClientsInv, Asks
<1>3. /\ ScreenInv(screen', theirs, raced, {}) /\ Fewer(screen, screen', theirs)
      /\ Laid(screen') /\ ~StandsIn(screen') /\ Others(screen, screen', Off)
  BY <1>1, <1>2, ScreenFacts, RestoreOk
<1>4. \A o \in Outs : Drives(screen, comp[o], raced, o) => Drives(screen', comp[o], raced', o)
  BY <1>1, <1>3, DrivesKept, LayoutAssumption
<1>5. HeardInv'
  BY <1>1, <1>4, ScreenFacts, HeardKept
<1>6. ClientsInv'
  BY <1>1, <1>3, ScreenFacts, ClientGoesOn, IdleIs DEF ScreenInv
<1> QED BY <1>1, <1>3, <1>5, <1>6 DEF LayoutInv

LEMMA ClientKept ==
  ASSUME LayoutInv, NEW t \in XThreads, Client(t)
  PROVE  LayoutInv'
BY CreateKept, SizeKept, DestroyKept, ListKept, PlanKept, LocalKept, AnswerKept, AdoptKept,
   RestoreKept DEF Client

\* Nothing the invariant is about.
LEMMA StillInv ==
  ASSUME LayoutInv, UNCHANGED <<comp, wire, xdg, acc, screen, xs, history>>
  PROVE  LayoutInv'
<1>1. UNCHANGED <<moved, off, raced, theirs>>
  BY DEF history
<1>2. HeardInv'
  BY <1>1, ScreenFacts, HeardKept
<1>3. ClientsInv'
  BY <1>1, ScreenFacts DEF ClientsInv
<1> QED BY <1>1, <1>2, <1>3 DEF LayoutInv

LEMMA LayoutNext ==
  ASSUME LayoutInv, [Next]_vars
  PROVE  LayoutInv'
<1>1. ASSUME NEW o \in Outs, Unplug(o) \/ \E c \in Configs : PlugIn(o, c) \/ Reconfigure(o, c)
      PROVE  LayoutInv'
  <2>1. HeardInv'
    BY <1>1, ScreenFacts, ChangeKept
  <2>2. UNCHANGED <<screen, xs, moved, off, raced, theirs>>
    BY <1>1 DEF Unplug, PlugIn, Reconfigure, Change, history
  <2>3. ClientsInv'
    BY <2>2, ScreenFacts DEF ClientsInv
  <2> QED BY <2>1, <2>2, <2>3 DEF LayoutInv
<1>2. CASE Receive
  BY <1>2, ReceiveKept
<1>3. ASSUME NEW t \in Threads, Push(t) PROVE LayoutInv'
  BY <1>3, StillInv DEF Push, compositor
<1>4. ASSUME NEW t \in XThreads, Client(t) PROVE LayoutInv'
  BY <1>4, ClientKept
<1>5. CASE UNCHANGED vars
  BY <1>5, StillInv DEF vars, compositor
<1> QED BY <1>1, <1>2, <1>3, <1>4, <1>5 DEF Next

-----------------------------------------------------------------------------
(* Where pack_axis puts the outputs.  *)

\* Of some whole numbers one is least.
LEMMA LowestOf ==
  ASSUME NEW S, IsFiniteSet(S), S # {}, NEW f, \A i \in S : f[i] \in Int
  PROVE  \E i \in S : \A j \in S : f[i] <= f[j]
<1> DEFINE Low(T) == \E i \in T : \A j \in T : f[i] <= f[j]
           Bad == {c \in Nat : \E T \in SUBSET S : T # {} /\ Cardinality(T) = c /\ ~Low(T)}
<1> SUFFICES ASSUME ~Low(S) PROVE FALSE
  OBVIOUS
<1>1. Bad \in SUBSET Nat /\ Bad # {}
  <2>1. Cardinality(S) \in Nat
    BY FS_CardinalityType
  <2>2. Cardinality(S) \in Bad
    BY <2>1
  <2> QED BY <2>2
<1>2. PICK c \in Bad : \A d \in Bad : c <= d
  <2> HIDE DEF Bad
  <2> QED BY <1>1, LeastOf
<1>3. PICK T \in SUBSET S : c \in Nat /\ T # {} /\ Cardinality(T) = c /\ ~Low(T)
  BY <1>2
<1>4. PICK x : x \in T
  BY <1>3
<1> DEFINE U == T \ {x}
<1>5. U \in SUBSET S /\ Cardinality(U) = c - 1 /\ c # 0
  <2>1. IsFiniteSet(T)
    BY FS_Subset
  <2>2. Cardinality(T) # 0
    BY <1>3, <2>1, FS_EmptySet
  <2> QED BY <1>3, <1>4, <2>1, <2>2, FS_RemoveElement
<1>6. U # {} => Low(U)
  <2>1. c - 1 \in Nat /\ ~(c <= c - 1)
    BY <1>3, <1>5
  <2>2. c - 1 \notin Bad
    BY <1>2, <2>1
  <2> HIDE DEF Low, U
  <2> QED BY <1>5, <2>1, <2>2
<1>7. CASE U = {}
  <2>1. \A j \in T : f[x] <= f[j]
    BY <1>3, <1>4, <1>7
  <2> QED BY <1>3, <1>4, <2>1
<1>8. CASE U # {}
  <2>1. PICK i \in U : \A j \in U : f[i] <= f[j]
    BY <1>6, <1>8
  <2>2. f[i] \in Int /\ f[x] \in Int /\ i \in T /\ \A j \in T : f[j] \in Int
    BY <1>3, <1>4, <2>1
  <2>3. CASE f[i] <= f[x]
    <3>1. \A j \in T : f[i] <= f[j]
      BY <2>1, <2>3
    <3> QED BY <1>3, <2>2, <3>1
  <2>4. CASE ~(f[i] <= f[x])
    <3>1. \A j \in T : f[x] <= f[j]
      <4> SUFFICES ASSUME NEW j \in T PROVE f[x] <= f[j]
        OBVIOUS
      <4>1. CASE j = x
        BY <2>2, <4>1
      <4>2. CASE j # x
        BY <2>1, <2>2, <2>4, <4>2
      <4> QED BY <4>1, <4>2
    <3> QED BY <1>3, <1>4, <3>1
  <2> QED BY <2>3, <2>4
<1> QED BY <1>7, <1>8

\* And one greatest.
LEMMA HighestOf ==
  ASSUME NEW S, IsFiniteSet(S), S # {}, NEW f, \A i \in S : f[i] \in Int
  PROVE  \E i \in S : \A j \in S : f[j] <= f[i]
<1> DEFINE g == [i \in S |-> 0 - f[i]]
<1>1. \A i \in S : g[i] \in Int /\ g[i] = 0 - f[i]
  OBVIOUS
<1> HIDE DEF g
<1>2. PICK i \in S : \A j \in S : g[i] <= g[j]
  BY <1>1, LowestOf
<1>3. \A j \in S : f[j] <= f[i]
  BY <1>1, <1>2
<1> QED BY <1>3

LEMMA MaxOf ==
  ASSUME NEW a \in Int, NEW b \in Int
  PROVE  LET m == Max({a, b}) IN m \in {a, b} /\ m >= a /\ m >= b
<1>1. \E x \in {a, b} : \A y \in {a, b} : x >= y
  <2>1. CASE a >= b
    <3>1. \A y \in {a, b} : a >= y
      BY <2>1
    <3> QED BY <3>1
  <2>2. CASE ~(a >= b)
    <3>1. \A y \in {a, b} : b >= y
      BY <2>2
    <3> QED BY <3>1
  <2> QED BY <2>1, <2>2
<1>2. Max({a, b}) \in {a, b} /\ \A y \in {a, b} : Max({a, b}) >= y
  BY <1>1 DEF Max
<1> QED BY <1>2

\* There is a nearest edge.
LEMMA NearestIs ==
  ASSUME NEW E, DOMAIN E \subseteq Int, NEW z \in Int, NEW c \in DOMAIN E, c <= z
  PROVE  LET e == Nearest(E, z)
         IN  e \in DOMAIN E /\ e <= z /\ \A f \in DOMAIN E : f <= z => f <= e
<1> DEFINE S == {z - e : e \in {e \in DOMAIN E : e <= z}}
<1>1. S \in SUBSET Nat /\ S # {}
  <2>1. \A e \in DOMAIN E : e <= z => z - e \in Nat
    OBVIOUS
  <2>2. S \subseteq Nat
    BY <2>1
  <2>3. z - c \in S
    OBVIOUS
  <2> QED BY <2>2, <2>3
<1>2. PICK d \in S : \A f \in S : d <= f
  <2> HIDE DEF S
  <2> QED BY <1>1, LeastOf
<1>3. PICK e \in DOMAIN E : e <= z /\ d = z - e
  BY <1>2
<1>4. ASSUME NEW f \in DOMAIN E, f <= z PROVE f <= e
  <2>1. z - f \in S
    BY <1>4
  <2>2. z - e <= z - f
    BY <1>2, <1>3, <2>1
  <2>3. e \in Int /\ f \in Int
    BY <1>3, <1>4
  <2> QED BY <2>2, <2>3
<1>5. \E g \in DOMAIN E : g <= z /\ \A f \in DOMAIN E : f <= z => f <= g
  BY <1>3, <1>4
<1> QED BY <1>5 DEF Nearest

\* The outputs along one axis, and that they have some extent there.
ItemsOk(items) ==
    /\ IsList(items) /\ items # <<>>
    /\ \A n \in DOMAIN items : /\ items[n].start \in Int /\ items[n].phys \in Int
                               /\ items[n].len \in Nat

Positive(items) == \A n \in DOMAIN items : items[n].len # 0

\* Some are the first.
LEMMA ForemostIs ==
  ASSUME NEW items, ItemsOk(items), NEW S, S \subseteq DOMAIN items, S # {}
  PROVE  LET n == Foremost(items, S)
         IN  n \in S /\ \A m \in S : items[n].start <= items[m].start
<1> DEFINE k == Len(items)
           starts == [n \in S |-> items[n].start]
<1>1. k \in Nat /\ DOMAIN items = 1 .. k
  BY ListIs DEF ItemsOk
<1>2. IsFiniteSet(S) /\ S \subseteq Nat
  <2>1. IsFiniteSet(1 .. k)
    BY <1>1, FS_Interval
  <2> QED BY <1>1, <2>1, FS_Subset
<1>3. \A i \in S : starts[i] = items[i].start /\ items[i].start \in Int
  BY DEF ItemsOk
<1> HIDE DEF starts, k
<1>4. PICK l \in S : \A m \in S : starts[l] <= starts[m]
  BY <1>2, <1>3, LowestOf
<1> DEFINE T == {i \in S : starts[i] = starts[l]}
<1>5. T \in SUBSET Nat /\ T # {}
  BY <1>2
<1>6. PICK n \in T : \A m \in T : n <= m
  <2> HIDE DEF T
  <2> QED BY <1>5, LeastOf
<1>7. ASSUME NEW m \in S \ {n} PROVE starts[n] < starts[m] \/ (starts[n] = starts[m] /\ n < m)
  <2>1. n \in S /\ starts[n] = starts[l] /\ starts[l] <= starts[m]
    BY <1>4, <1>6
  <2>2. starts[n] \in Int /\ starts[m] \in Int /\ n \in Nat /\ m \in Nat
    BY <1>2, <1>3, <2>1
  <2>3. starts[n] = starts[m] => n <= m
    BY <1>6, <2>1
  <2> QED BY <2>1, <2>2, <2>3
<1>8. \E j \in S : \A m \in S \ {j} :
          items[j].start < items[m].start \/ (items[j].start = items[m].start /\ j < m)
  BY <1>3, <1>6, <1>7
<1> DEFINE f == Foremost(items, S)
<1>9. f \in S /\ \A m \in S \ {f} : items[f].start < items[m].start \/ (items[f].start = items[m].start /\ f < m)
  BY <1>8 DEF Foremost
<1> HIDE DEF f
<1>10. ASSUME NEW m \in S PROVE items[f].start <= items[m].start
  <2>1. items[f].start \in Int /\ items[m].start \in Int
    BY <1>3, <1>9
  <2>2. CASE m = f
    BY <2>1, <2>2
  <2>3. CASE m # f
    BY <1>9, <2>1, <2>3
  <2> QED BY <2>2, <2>3
<1> QED BY <1>9, <1>10 DEF f

\* Some of the outputs have been placed...
PackTyped(items, lo, a) ==
    /\ DOMAIN a.starts \subseteq DOMAIN items /\ \A n \in DOMAIN a.starts : a.starts[n] \in Int
    /\ DOMAIN a.edges \subseteq Int /\ \A c \in DOMAIN a.edges : a.edges[c] \in Int
    /\ lo \in DOMAIN a.edges

\* ...those that begin first, and where the edges say.
PackInv(items, lo, a) ==
    LET D == DOMAIN a.starts
        E == a.edges
        start(n) == items[n].start
        far(n) == items[n].start + items[n].len
        end(n) == a.starts[n] + items[n].phys
    IN  /\ E[lo] = 0
        /\ \A n \in D, m \in DOMAIN items \ D : start(n) <= start(m)
        /\ \A n \in D : start(n) \in DOMAIN E /\ a.starts[n] = E[start(n)]
        /\ \A n \in D : far(n) \in DOMAIN E /\ E[far(n)] >= end(n)
        /\ \A c \in DOMAIN E : \/ c = lo
                               \/ \E m \in D : far(m) = c /\ E[c] = end(m)
                               \/ \E n \in D : start(n) = c /\ \A m \in D : far(m) # c

\* One more is.
LEMMA PlacedOne ==
  ASSUME NEW items, ItemsOk(items), NEW lo \in Int, \A n \in DOMAIN items : lo <= items[n].start,
         NEW a, PackTyped(items, lo, a), DOMAIN items \ DOMAIN a.starts # {}
  PROVE  LET n == Foremost(items, DOMAIN items \ DOMAIN a.starts)
             b == Placed(items, a, n)
         IN  /\ n \in DOMAIN items \ DOMAIN a.starts /\ DOMAIN b.starts = DOMAIN a.starts \cup {n}
             /\ PackTyped(items, lo, b)
             /\ Positive(items) /\ PackInv(items, lo, a) => PackInv(items, lo, b)
<1> DEFINE D == DOMAIN a.starts
           rest == DOMAIN items \ D
           n == Foremost(items, rest)
           start(m) == items[m].start
           far(m) == items[m].start + items[m].len
           z == items[n].start
           f == items[n].start + items[n].len
           ph == items[n].phys
           E == a.edges
           e == Nearest(E, z)
           at == E[e] + z - e
           E2 == Put(E, z, at)
           top == IF f \in DOMAIN E2 THEN Max({E2[f], at + ph}) ELSE at + ph
           E3 == Put(E2, f, top)
           b == Placed(items, a, n)
<1>1. b.starts = Put(a.starts, n, at) /\ b.edges = E3
  BY Zenon DEF Placed
<1>2. n \in rest /\ \A m \in rest : z <= start(m)
  BY ForemostIs
<1>3. \A m \in DOMAIN items : /\ start(m) \in Int /\ far(m) \in Int /\ lo <= start(m)
                              /\ items[m].phys \in Int
                              /\ Positive(items) => start(m) < far(m)
  <2>1. \A m \in DOMAIN items : /\ items[m].start \in Int /\ items[m].phys \in Int
                                /\ items[m].len \in Nat
                                /\ Positive(items) => items[m].len # 0
    BY DEF ItemsOk, Positive
  <2>2. \A x \in Int, y \in Nat : x + y \in Int /\ (y # 0 => x < x + y)
    OBVIOUS
  <2> QED BY <2>1, <2>2
<1>4. /\ D \subseteq DOMAIN items /\ (\A m \in D : a.starts[m] \in Int)
      /\ DOMAIN E \subseteq Int /\ (\A c \in DOMAIN E : E[c] \in Int)
      /\ lo \in DOMAIN E
  BY DEF PackTyped
<1>5. PackInv(items, lo, a) =>
        /\ E[lo] = 0
        /\ \A m \in D : /\ \A j \in rest : start(m) <= start(j)
                        /\ start(m) \in DOMAIN E /\ a.starts[m] = E[start(m)]
                        /\ far(m) \in DOMAIN E /\ E[far(m)] >= a.starts[m] + items[m].phys
        /\ \A c \in DOMAIN E : \/ c = lo
                               \/ \E m \in D : far(m) = c /\ E[c] = a.starts[m] + items[m].phys
                               \/ \E m \in D : start(m) = c /\ \A j \in D : far(j) # c
  BY DEF PackInv
<1>7. n \in DOMAIN items /\ z \in Int /\ f \in Int /\ (Positive(items) => z < f) /\ lo <= z /\ ph \in Int
  BY <1>2, <1>3
<1> HIDE DEF b, rest, n, z, f, ph, E, D, start, far
<1>8. e \in DOMAIN E /\ e <= z /\ \A c \in DOMAIN E : c <= z => c <= e
  BY <1>4, <1>7, NearestIs
<1>9. at \in Int /\ (z \in DOMAIN E => at = E[z])
  <2>1. e \in Int /\ E[e] \in Int
    BY <1>4, <1>8
  <2>2. z \in DOMAIN E => e = z
    BY <1>7, <1>8, <2>1
  <2> HIDE DEF e
  <2> QED BY <1>7, <2>1, <2>2
<1> HIDE DEF at, e
<1>10. /\ DOMAIN E2 = DOMAIN E \cup {z} /\ E2[z] = at
       /\ \A c \in DOMAIN E : E2[c] = E[c]
  <2>1. /\ DOMAIN E2 = DOMAIN E \cup {z} /\ E2[z] = at
        /\ \A c \in DOMAIN E : c # z => E2[c] = E[c]
    BY DEF Put
  <2> QED BY <1>9, <2>1
<1> HIDE DEF E2
<1>11. \A c \in DOMAIN E2 : c \in Int /\ E2[c] \in Int
  BY <1>4, <1>7, <1>9, <1>10
<1>12. /\ top \in Int /\ top >= at + ph
       /\ f \in DOMAIN E2 => top >= E2[f]
       /\ top = at + ph \/ (f \in DOMAIN E2 /\ top = E2[f])
  <2>1. at + ph \in Int
    BY <1>7, <1>9
  <2>2. CASE f \in DOMAIN E2
    <3> DEFINE x == E2[f]
               y == at + ph
               m == Max({x, y})
    <3>1. x \in Int /\ y \in Int
      BY <1>11, <2>1, <2>2
    <3> HIDE DEF x, y
    <3>2. m \in {x, y} /\ m >= x /\ m >= y
      BY <3>1, MaxOf
    <3>3. top = m
      BY <2>2 DEF x, y
    <3> HIDE DEF m
    <3>4. m \in Int /\ (m = x \/ m = y)
      BY <3>1, <3>2
    <3> HIDE DEF top
    <3> QED BY <2>2, <3>2, <3>3, <3>4 DEF x, y
  <2>3. CASE f \notin DOMAIN E2
    <3>1. top = at + ph
      BY <2>3
    <3> HIDE DEF top
    <3> QED BY <2>1, <2>3, <3>1
  <2> QED BY <2>2, <2>3
<1> HIDE DEF top
<1>13. /\ DOMAIN E3 = DOMAIN E \cup {z, f} /\ E3[f] = top
       /\ \A c \in DOMAIN E2 : c # f => E3[c] = E2[c]
  <2>1. /\ DOMAIN E3 = DOMAIN E2 \cup {f} /\ E3[f] = top
        /\ \A c \in DOMAIN E2 : c # f => E3[c] = E2[c]
    BY DEF Put
  <2> QED BY <1>10, <2>1
<1> HIDE DEF E3
<1>14. /\ DOMAIN b.starts = D \cup {n} /\ b.starts[n] = at
       /\ \A m \in D : b.starts[m] = a.starts[m]
  <2>1. n \notin D
    BY <1>2 DEF rest
  <2> QED BY <1>1, <2>1 DEF Put, D
<1>15. b.edges = E3 /\ E3[f] \in Int /\ \A c \in DOMAIN E3 : c \in Int /\ E3[c] \in Int
  <2>1. \A c \in DOMAIN E3 : c = f \/ c \in DOMAIN E2
    BY <1>10, <1>13
  <2> QED BY <1>1, <1>7, <1>11, <1>12, <1>13, <2>1
<1> DEFINE D2 == D \cup {n}
<1>16. D2 \subseteq DOMAIN items
  BY <1>4, <1>7
<1>17. PackTyped(items, lo, b)
  <2>1. DOMAIN b.starts = D2 /\ b.edges = E3 /\ \A m \in D2 : b.starts[m] \in Int
    BY <1>4, <1>9, <1>14, <1>15
  <2> QED BY <1>4, <1>13, <1>15, <1>16, <2>1 DEF PackTyped
<1>18. ASSUME Positive(items), PackInv(items, lo, a) PROVE PackInv(items, lo, b)
  <2>0. /\ z < f /\ E3[z] = at /\ \A c \in DOMAIN E : c # f => E3[c] = E[c]
    BY <1>7, <1>10, <1>13, <1>18
  <2>15. /\ E[lo] = 0
         /\ \A m \in D : /\ \A j \in rest : start(m) <= start(j)
                         /\ start(m) \in DOMAIN E /\ a.starts[m] = E[start(m)]
                         /\ far(m) \in DOMAIN E /\ E[far(m)] >= a.starts[m] + items[m].phys
         /\ \A c \in DOMAIN E : \/ c = lo
                                \/ \E m \in D : far(m) = c /\ E[c] = a.starts[m] + items[m].phys
                                \/ \E m \in D : start(m) = c /\ \A j \in D : far(j) # c
    BY <1>5, <1>18
  <2>16. \A m \in D : start(m) <= z /\ start(m) # f /\ m \in DOMAIN items
    <3>1. \A m \in D : start(m) <= z /\ start(m) \in Int /\ m \in DOMAIN items
      <4>1. \A m \in D : start(m) <= start(n)
        BY <1>2, <2>15
      <4>2. start(n) = z
        BY DEF start, z
      <4> QED BY <1>3, <1>4, <4>1, <4>2
    <3> QED BY <1>7, <2>0, <3>1
  <2>17. \A m \in D : b.starts[m] = E3[start(m)] /\ start(m) \in DOMAIN E3
    BY <2>15, <1>13, <2>0, <1>14, <2>16
  <2>18. \A m \in D : far(m) \in DOMAIN E3 /\ E3[far(m)] >= b.starts[m] + items[m].phys
    <3> SUFFICES ASSUME NEW m \in D
                 PROVE  far(m) \in DOMAIN E3 /\ E3[far(m)] >= b.starts[m] + items[m].phys
      OBVIOUS
    <3>1. far(m) \in DOMAIN E /\ E[far(m)] >= b.starts[m] + items[m].phys
      BY <2>15, <1>14
    <3>2. E[far(m)] \in Int /\ a.starts[m] \in Int /\ items[m].phys \in Int
      BY <1>3, <1>4, <2>15, <2>16, <3>1
    <3>3. CASE far(m) # f
      BY <1>13, <2>0, <3>1, <3>3
    <3>4. CASE far(m) = f
      <4>1. top >= E[f] /\ top \in Int
        BY <1>10, <1>12, <3>1, <3>4
      <4> QED BY <1>13, <2>0, <1>14, <3>1, <3>2, <3>4, <4>1
    <3> QED BY <3>3, <3>4
  <2>19. start(n) = z /\ far(n) = f /\ items[n].phys = ph
    BY DEF start, z, far, f, ph
  <2>20. \A c \in DOMAIN E3 : \/ c = lo
                              \/ \E m \in D2 : far(m) = c /\ E3[c] = b.starts[m] + items[m].phys
                              \/ \E m \in D2 : start(m) = c /\ \A j \in D2 : far(j) # c
    <3> SUFFICES ASSUME NEW c \in DOMAIN E3, c # lo
                 PROVE  \/ \E m \in D2 : far(m) = c /\ E3[c] = b.starts[m] + items[m].phys
                        \/ \E m \in D2 : start(m) = c /\ \A j \in D2 : far(j) # c
      OBVIOUS
    <3>1. CASE c = f /\ top = at + ph
      BY <1>13, <2>0, <1>14, <2>19, <3>1
    <3>2. CASE c \in DOMAIN E /\ c # f
      <4>1. E3[c] = E[c]
        BY <1>13, <2>0, <3>2
      <4> QED BY <2>15, <1>14, <2>19, <3>2, <4>1
    <3>3. CASE c = f /\ f \in DOMAIN E /\ top = E[f]
      <4>1. \A m \in D : start(m) # c
        BY <2>16, <3>3
      <4> QED BY <2>15, <1>13, <2>0, <1>14, <3>3, <4>1
    <3>4. CASE c = z /\ z \notin DOMAIN E
      <4>1. \A j \in D : far(j) # c
        BY <2>15, <3>4
      <4>2. far(n) # c
        BY <1>7, <2>0, <2>19, <3>4
      <4> QED BY <2>19, <3>4, <4>1, <4>2
    <3>5. c = f \/ c \in DOMAIN E \/ (c = z /\ z \notin DOMAIN E)
      BY <1>13, <2>0
    <3>6. f \in DOMAIN E2 => f \in DOMAIN E /\ E2[f] = E[f]
      BY <1>7, <1>10, <2>0
    <3> QED BY <1>12, <3>1, <3>2, <3>3, <3>4, <3>5, <3>6
  <2>21. \A m \in D2, j \in DOMAIN items \ D2 : start(m) <= start(j)
    <3>1. \A j \in DOMAIN items \ D2 : j \in rest
      BY DEF rest
    <3> QED BY <1>2, <2>15, <2>19, <3>1
  <2>22. lo \in DOMAIN E3 /\ E3[lo] = 0
    <3>1. lo # f
      BY <1>7, <2>0
    <3> QED BY <1>4, <1>13, <2>0, <2>15, <3>1
  <2> QED
    <3>1. DOMAIN b.starts = D2 /\ b.edges = E3
      BY <1>14, <1>15
    <3>2. \A m \in D2 : start(m) \in DOMAIN E3 /\ b.starts[m] = E3[start(m)]
      BY <1>13, <2>0, <1>14, <2>17, <2>19
    <3>3. \A m \in D2 : far(m) \in DOMAIN E3 /\ E3[far(m)] >= b.starts[m] + items[m].phys
      BY <1>12, <1>13, <2>0, <1>14, <2>18, <2>19
    <3> HIDE DEF D2
    <3> QED BY <1>15, <2>20, <2>21, <2>22, <3>1, <3>2, <3>3 DEF PackInv, start, far
<1> QED BY <1>2, <1>14, <1>17, <1>18 DEF rest, D, n, b

\* All of them are.
LEMMA PackedAll ==
  ASSUME NEW items, ItemsOk(items)
  PROVE  \E a : \E lo \in Int :
           /\ PackAxis(items) = a.starts /\ DOMAIN a.starts = DOMAIN items
           /\ PackTyped(items, lo, a) /\ (Positive(items) => PackInv(items, lo, a))
           /\ \A n \in DOMAIN items : lo <= items[n].start
           /\ \E n \in DOMAIN items : lo = items[n].start
<1> DEFINE k == Len(items)
           S == DOMAIN items
           lo == items[Foremost(items, S)].start
           first == [starts |-> <<>>, edges |-> Put(<<>>, lo, 0)]
           turn(g) == Foremost(items, S \ DOMAIN g.starts)
<1>1. k \in Nat /\ S = 1 .. k
  BY ListIs DEF ItemsOk
<1>2. S # {}
  <2>1. k # 0
    BY EmptySeq DEF ItemsOk, IsList
  <2>2. 1 \in 1 .. k
    BY <1>1, <2>1
  <2> QED BY <1>1, <2>2
<1>3. lo \in Int /\ (\A n \in S : lo <= items[n].start) /\ \E n \in S : lo = items[n].start
  BY <1>2, ForemostIs DEF ItemsOk
<1>4. PICK f : /\ f[0] = first /\ PackAxis(items) = f[k].starts
               /\ \A n \in 1 .. k : n - 1 \in 0 .. k /\ f[n] = Placed(items, f[n - 1], turn(f[n - 1]))
  <2>1. items # <<>>
    BY DEF ItemsOk
  <2>2. k \in Nat /\ k = Len(items)
    BY <1>1
  <2> HIDE DEF k
  <2>3. PICK f : PackRun(items, k, f)
    BY <2>1, <2>2, PackGrows
  <2> QED BY <2>3, Zenon DEF PackRun, S
<1>5. IsFiniteSet(S) /\ Cardinality(S) = k
  <2>1. IsFiniteSet(1 .. k) /\ Cardinality(1 .. k) = IF 1 > k THEN 0 ELSE k - 1 + 1
    BY <1>1, FS_Interval
  <2> QED BY <1>1, <2>1
<1> HIDE DEF lo, k, S
<1> DEFINE Good(j) == /\ PackTyped(items, lo, f[j]) /\ (Positive(items) => PackInv(items, lo, f[j]))
                     /\ Cardinality(DOMAIN f[j].starts) = j
<1>6. Good(0)
  <2>1. DOMAIN first.starts = {} /\ DOMAIN first.edges = {lo} /\ first.edges[lo] = 0
    BY Messages DEF Put
  <2> HIDE DEF first
  <2>2. PackTyped(items, lo, first) /\ PackInv(items, lo, first)
    BY <1>3, <2>1 DEF PackTyped, PackInv
  <2>3. Cardinality(DOMAIN first.starts) = 0
    BY <2>1, FS_EmptySet
  <2> QED BY <1>4, <2>2, <2>3
<1> HIDE DEF first
<1>7. ASSUME NEW j \in 1 .. k, Good(j - 1) PROVE Good(j)
  <2> DEFINE a == f[j - 1]
             D == DOMAIN a.starts
             n == turn(a)
             b == Placed(items, a, n)
  <2>1. /\ PackTyped(items, lo, a) /\ (Positive(items) => PackInv(items, lo, a))
        /\ Cardinality(D) = j - 1 /\ f[j] = b /\ j - 1 \in Nat /\ j - 1 < k
    BY <1>1, <1>4, <1>7
  <2>2. D \subseteq S
    BY <2>1 DEF PackTyped, S
  <2>3. IsFiniteSet(D) /\ S \ D # {}
    <3>1. IsFiniteSet(D)
      BY <1>5, <2>2, FS_Subset
    <3>2. S # D
      BY <1>1, <1>5, <2>1
    <3> QED BY <2>2, <3>1, <3>2
  <2> HIDE DEF a
  <2>4. /\ n \in S \ D /\ DOMAIN b.starts = D \cup {n}
        /\ PackTyped(items, lo, b) /\ (Positive(items) => PackInv(items, lo, b))
    BY <1>3, <2>1, <2>3, PlacedOne DEF S
  <2> HIDE DEF b, n, D
  <2>5. Cardinality(D \cup {n}) = j
    <3>1. Cardinality(D \cup {n}) = j - 1 + 1
      BY <2>1, <2>3, <2>4, FS_AddElement
    <3> QED BY <3>1
  <2> QED BY <2>1, <2>4, <2>5
<1>8. Good(k)
  <2> HIDE DEF Good
  <2> DEFINE Bad == {j \in 0 .. k : ~Good(j)}
  <2> SUFFICES ASSUME ~Good(k) PROVE FALSE
    OBVIOUS
  <2>1. Bad \in SUBSET Nat /\ Bad # {}
    <3>1. k \in 0 .. k /\ 0 .. k \subseteq Nat
      BY <1>1
    <3>2. k \in Bad /\ Bad \subseteq 0 .. k
      BY <3>1
    <3> HIDE DEF Bad
    <3> QED BY <3>1, <3>2
  <2>2. PICK j \in Bad : \A m \in Bad : j <= m
    <3> HIDE DEF Bad
    <3> QED BY <2>1, LeastOf
  <2>3. j \in 0 .. k /\ ~Good(j)
    BY <2>2
  <2>4. j \in 1 .. k /\ j - 1 \in 0 .. k /\ ~(j <= j - 1)
    BY <1>1, <1>6, <2>3
  <2>5. Good(j - 1)
    BY <2>2, <2>4
  <2> QED BY <1>7, <2>3, <2>4, <2>5
<1>9. DOMAIN f[k].starts = S
  <2>1. DOMAIN f[k].starts \subseteq S /\ Cardinality(DOMAIN f[k].starts) = k
    BY <1>8 DEF PackTyped, S
  <2> QED BY <1>5, <2>1, FS_Subset
<1> QED BY <1>3, <1>4, <1>8, <1>9 DEF S

\* Each of them has a place.
LEMMA PackAxisPlaces ==
  ASSUME NEW items, ItemsOk(items)
  PROVE  /\ DOMAIN PackAxis(items) = DOMAIN items
         /\ \A n \in DOMAIN items : PackAxis(items)[n] \in Int
<1> DEFINE at == PackAxis(items)
           S == DOMAIN items
<1>1. PICK a : \E lo : at = a.starts /\ DOMAIN a.starts = S /\ PackTyped(items, lo, a)
  BY PackedAll
<1> QED BY <1>1 DEF PackTyped

\* pack_axis, of any number of outputs that have some extent: those that begin
\* together are placed together, the first of them at 0; and one that begins where
\* others end is placed at the farthest of their ends.
THEOREM PackAxisMeets ==
  ASSUME NEW items, ItemsOk(items), Positive(items)
  PROVE  LET at == PackAxis(items)
             far(m) == items[m].start + items[m].len
         IN  /\ \A m, n \in DOMAIN items : items[n].start = items[m].start => at[n] = at[m]
             /\ \A n \in DOMAIN items :
                  (\A m \in DOMAIN items : items[n].start <= items[m].start) => at[n] = 0
             /\ \A m, n \in DOMAIN items : items[n].start = far(m) => at[n] >= at[m] + items[m].phys
             /\ \A n \in DOMAIN items :
                  (\E m \in DOMAIN items : items[n].start = far(m)) =>
                    \E m \in DOMAIN items : items[n].start = far(m) /\ at[n] = at[m] + items[m].phys
<1> DEFINE at == PackAxis(items)
           S == DOMAIN items
           start(m) == items[m].start
           far(m) == items[m].start + items[m].len
<1>1. PICK a : \E lo \in Int :
           /\ at = a.starts /\ DOMAIN a.starts = S
           /\ PackTyped(items, lo, a) /\ PackInv(items, lo, a)
           /\ (\A n \in S : lo <= start(n)) /\ \E n \in S : lo = start(n)
  BY PackedAll
<1>2. PICK lo \in Int :
           /\ at = a.starts /\ DOMAIN a.starts = S
           /\ PackTyped(items, lo, a) /\ PackInv(items, lo, a)
           /\ (\A n \in S : lo <= start(n)) /\ \E n \in S : lo = start(n)
  BY <1>1
<1> DEFINE E == a.edges
<1>3. /\ DOMAIN E \subseteq Int /\ \A c \in DOMAIN E : E[c] \in Int
      /\ lo \in DOMAIN E /\ E[lo] = 0
      /\ \A n \in S : start(n) \in DOMAIN E /\ at[n] = E[start(n)]
      /\ \A n \in S : far(n) \in DOMAIN E /\ E[far(n)] >= at[n] + items[n].phys
      /\ \A c \in DOMAIN E : \/ c = lo
                             \/ \E m \in S : far(m) = c /\ E[c] = at[m] + items[m].phys
                             \/ \E n \in S : start(n) = c /\ \A m \in S : far(m) # c
  BY <1>2 DEF PackTyped, PackInv
<1>4. \A m \in S : start(m) \in Int /\ far(m) \in Int /\ start(m) < far(m) /\ lo <= start(m)
  <2>1. \A m \in S : items[m].start \in Int /\ items[m].len \in Nat \ {0}
    BY DEF ItemsOk, Positive
  <2>2. \A x \in Int, y \in Nat \ {0} : x + y \in Int /\ x < x + y
    OBVIOUS
  <2> QED BY <1>2, <2>1, <2>2
<1> HIDE DEF E, at, S, start, far
<1>5. \A m, n \in S : start(n) = start(m) => at[n] = at[m]
  BY <1>2, <1>3
<1>6. ASSUME NEW n \in S, \A m \in S : start(n) <= start(m) PROVE at[n] = 0
  <2>1. start(n) = lo
    <3>1. PICK j \in S : lo = start(j)
      BY <1>2
    <3>2. start(n) <= start(j) /\ lo <= start(n) /\ lo \in Int /\ start(n) \in Int
      BY <1>2, <1>4, <1>6
    <3> QED BY <3>1, <3>2
  <2> QED BY <1>3, <2>1
<1>7. ASSUME NEW m \in S, NEW n \in S, start(n) = far(m) PROVE at[n] >= at[m] + items[m].phys
  BY <1>3, <1>7
<1>8. ASSUME NEW n \in S, NEW j \in S, start(n) = far(j)
      PROVE  \E m \in S : start(n) = far(m) /\ at[n] = at[m] + items[m].phys
  <2>1. start(n) # lo
    BY <1>4, <1>8
  <2> QED BY <1>3, <1>8, <2>1
<1> QED BY <1>5, <1>6, <1>7, <1>8 DEF at, S, start, far

LEMMA PackOfThree ==
  ASSUME NEW items, DOMAIN items = 1 .. 3, ItemsOk(items), Positive(items)
  PROVE  LET at == PackAxis(items)
             end(n) == items[n].start + items[n].len
             meet(m, n) == items[n].start = end(m)
         IN  \A m, n \in 1 .. 3 :
               /\ items[m].start = items[n].start => at[m] = at[n]
               /\ meet(m, n) => at[n] >= at[m] + items[m].phys
               /\ \A l \in 1 .. 3 : meet(m, n) /\ meet(n, l) =>
                    at[m] = 0 /\ at[n] = items[m].phys
                              /\ at[l] = items[m].phys + items[n].phys
<1> DEFINE at == PackAxis(items)
           start(n) == items[n].start
           far(n) == items[n].start + items[n].len
           ph(n) == items[n].phys
<1>0. \A n \in 1 .. 3 : at[n] \in Int
  BY PackAxisPlaces
<1>1. /\ \A m, n \in 1 .. 3 : start(n) = start(m) => at[n] = at[m]
      /\ \A n \in 1 .. 3 : (\A m \in 1 .. 3 : start(n) <= start(m)) => at[n] = 0
      /\ \A m, n \in 1 .. 3 : start(n) = far(m) => at[n] >= at[m] + ph(m)
      /\ \A n \in 1 .. 3 : (\E m \in 1 .. 3 : start(n) = far(m)) =>
           \E m \in 1 .. 3 : start(n) = far(m) /\ at[n] = at[m] + ph(m)
  BY PackAxisMeets
<1>2. \A m \in 1 .. 3 : /\ start(m) \in Int /\ far(m) \in Int /\ start(m) < far(m)
                        /\ ph(m) \in Int
  <2>1. \A m \in 1 .. 3 : /\ items[m].start \in Int /\ items[m].len \in Nat \ {0}
                          /\ items[m].phys \in Int
    BY DEF ItemsOk, Positive
  <2>2. \A x \in Int, y \in Nat \ {0} : x + y \in Int /\ x < x + y
    OBVIOUS
  <2> QED BY <2>1, <2>2
<1> HIDE DEF at, start, far, ph
<1>3. ASSUME NEW m \in 1 .. 3, NEW n \in 1 .. 3, NEW l \in 1 .. 3,
             start(n) = far(m), start(l) = far(n)
      PROVE  at[m] = 0 /\ at[n] = ph(m) /\ at[l] = ph(m) + ph(n)
  <2>1. start(m) < start(n) /\ start(n) < start(l) /\ start(l) < far(l) /\ start(m) < start(l)
        /\ far(n) # start(n) /\ far(l) # start(n) /\ far(l) # start(l) /\ far(m) # start(l)
    BY <1>2, <1>3
  <2>2. \A j \in 1 .. 3 : j = m \/ j = n \/ j = l
    <3>1. m # n /\ n # l /\ m # l
      BY <1>2, <2>1
    <3> QED BY <3>1
  <2>3. at[m] = 0
    <3>1. \A j \in 1 .. 3 : start(m) <= start(j)
      BY <1>2, <2>1, <2>2
    <3> QED BY <1>1, <3>1
  <2>4. at[n] = ph(m)
    <3>1. PICK j \in 1 .. 3 : start(n) = far(j) /\ at[n] = at[j] + ph(j)
      BY <1>1, <1>3
    <3>2. j = m
      BY <2>1, <2>2, <3>1
    <3> QED BY <1>0, <1>2, <2>3, <3>1, <3>2
  <2>5. at[l] = ph(m) + ph(n)
    <3>1. PICK j \in 1 .. 3 : start(l) = far(j) /\ at[l] = at[j] + ph(j)
      BY <1>1, <1>3
    <3>2. j = n
      BY <2>1, <2>2, <3>1
    <3> QED BY <1>0, <1>2, <2>4, <3>1, <3>2
  <2> QED BY <2>3, <2>4, <2>5
<1>4. \A m, n \in 1 .. 3 :
        /\ start(m) = start(n) => at[m] = at[n]
        /\ start(n) = far(m) => at[n] >= at[m] + ph(m)
        /\ \A l \in 1 .. 3 : start(n) = far(m) /\ start(l) = far(n) =>
             at[m] = 0 /\ at[n] = ph(m) /\ at[l] = ph(m) + ph(n)
  BY <1>1, <1>3
<1> QED BY <1>4, Zenon DEF at, start, far, ph

LEMMA EdgesDoMeet == EdgesMeet
<1> SUFFICES ASSUME NEW i \in [start : -1 .. 1, len : 1 .. 2, phys : 1 .. 3],
                    NEW j \in [start : -1 .. 1, len : 1 .. 2, phys : 1 .. 3],
                    NEW k \in [start : -1 .. 1, len : 1 .. 2, phys : 1 .. 3]
             PROVE  LET items == <<i, j, k>>
                        at == PackAxis(items)
                        end(n) == items[n].start + items[n].len
                        meet(m, n) == items[n].start = end(m)
                    IN  \A m, n \in 1 .. 3 :
                          /\ items[m].start = items[n].start => at[m] = at[n]
                          /\ meet(m, n) => at[n] >= at[m] + items[m].phys
                          /\ \A l \in 1 .. 3 : meet(m, n) /\ meet(n, l) =>
                               at[m] = 0 /\ at[n] = items[m].phys
                                         /\ at[l] = items[m].phys + items[n].phys
  BY Zenon DEF EdgesMeet
<1> DEFINE items == <<i, j, k>>
           R == [start : -1 .. 1, len : 1 .. 2, phys : 1 .. 3]
<1>1. items \in Seq(R) /\ DOMAIN items = 1 .. 3 /\ items # <<>>
      /\ items[1] = i /\ items[2] = j /\ items[3] = k
  OBVIOUS
<1>2. \A x \in R : x.start \in Int /\ x.len \in Nat \ {0} /\ x.phys \in Int
  OBVIOUS
<1>3. \A n \in 1 .. 3 : items[n] \in R
  BY <1>1
<1> HIDE DEF items, R
<1>4. ItemsOk(items) /\ Positive(items)
  BY <1>1, <1>2, <1>3 DEF ItemsOk, Positive, IsList
<1> QED BY <1>1, <1>4, PackOfThree DEF items

\* EdgesMeet, which is about pack_axis alone: neighbours touch and do not overlap.
THEOREM EdgesAlwaysMeet == Spec => []EdgesMeet
BY EdgesDoMeet, PTL

-----------------------------------------------------------------------------
(* The first screen.  *)

\* One output alone is at the origin.
LEMMA PackOfOne ==
  ASSUME NEW items, IsRecord(items), DOMAIN items = {1}, items[1].start \in Int
  PROVE  PackAxis(items)[1] = 0
<1> DEFINE x == items[1].start
<1>1. DOMAIN items = {1} /\ items[1].start = x /\ x \in Int
  OBVIOUS
<1>2. Len(items) = 1 /\ items # <<>>
  <2>1. 1 .. 1 = {1}
    OBVIOUS
  <2>2. items \in [1 .. 1 -> {items[1]}]
    BY <2>1 DEF IsRecord
  <2>3. Len(items) = 1
    BY <2>2, ListMade
  <2>4. items # <<>>
    BY <1>1, Messages
  <2> QED BY <2>3, <2>4
<1> HIDE DEF x
<1>3. PICK f : PackRun(items, 1, f)
  BY <1>2, PackGrows
<1>4. \A S : S = {1} => Foremost(items, S) = 1
  BY DEF Foremost
<1> DEFINE a == f[0]
<1>5. /\ a = [starts |-> <<>>, edges |-> Put(<<>>, x, 0)]
      /\ PackAxis(items) = f[1].starts
      /\ f[1] = Placed(items, a, Foremost(items, DOMAIN items \ DOMAIN a.starts))
  <2>1. Foremost(items, DOMAIN items) = 1
    BY <1>1, <1>4
  <2>2. \A n \in 1 .. 1 :
          f[n] = Placed(items, f[n - 1], Foremost(items, DOMAIN items \ DOMAIN f[n - 1].starts))
    BY <1>3 DEF PackRun
  <2>3. 1 \in 1 .. 1 /\ 1 - 1 = 0
    OBVIOUS
  <2>4. f[1] = Placed(items, f[1 - 1], Foremost(items, DOMAIN items \ DOMAIN f[1 - 1].starts))
    BY <2>2, <2>3
  <2> QED BY <1>1, <1>3, <2>1, <2>3, <2>4 DEF PackRun
<1> HIDE DEF a
<1>6. a.starts = <<>> /\ a.edges = Put(<<>>, x, 0)
  BY <1>5
<1>7. DOMAIN a.starts = {} /\ DOMAIN a.edges = {x} /\ a.edges[x] = 0
  BY <1>6, Messages DEF Put
<1>8. f[1] = Placed(items, a, 1)
  <2>1. DOMAIN items \ DOMAIN a.starts = {1}
    BY <1>1, <1>7
  <2> QED BY <1>4, <1>5, <2>1
<1> DEFINE e == Nearest(a.edges, x)
           at == a.edges[e] + x - e
<1>9. e = x
  <2>1. x \in DOMAIN a.edges /\ DOMAIN a.edges \subseteq Int /\ x <= x
    BY <1>1, <1>7
  <2>2. e \in DOMAIN a.edges
    BY <1>1, <2>1, NearestIs
  <2> QED BY <1>7, <2>2
<1>10. at = 0
  BY <1>1, <1>7, <1>9
<1>11. f[1].starts = Put(a.starts, 1, at)
  <2>1. f[1].starts = Put(a.starts, 1, a.edges[Nearest(a.edges, items[1].start)] + items[1].start
                                         - Nearest(a.edges, items[1].start))
    <3>1. Placed(items, a, 1).starts
            = Put(a.starts, 1, a.edges[Nearest(a.edges, items[1].start)] + items[1].start
                                 - Nearest(a.edges, items[1].start))
      BY Zenon DEF Placed
    <3> QED BY <1>8, <3>1
  <2> QED BY <1>1, <2>1
<1> HIDE DEF at
<1>12. f[1].starts[1] = 0
  BY <1>10, <1>11 DEF Put
<1> QED BY <1>5, <1>12

LEMMA FirstScreen ==
  ASSUME Init
  PROVE  /\ ScreenInv(screen, theirs, raced, off)
         /\ \A n \in DOMAIN screen.outputs : screen.outputs[n].wl = Off
         /\ moved \/ Laid(screen)
<1> DEFINE o == [wl |-> Off, crtc |-> 2, pos |-> <<0, 0>>, size |-> FirstSize, at |-> <<0, 0>>,
                 log |-> FirstSize, mode |-> 1, listed |-> <<1>>]
           first == [id |-> 1, size |-> FirstSize, ours |-> TRUE]
           made == {[id |-> 2 + k, size |-> Made[k], ours |-> FALSE] : k \in DOMAIN Made}
           d == Len(Made)
           s == [size |-> FirstSize, next |-> 3 + d, modes |-> {first} \cup made, outputs |-> <<o>>]
<1>1. /\ screen = s /\ off = {} /\ raced = {} /\ theirs = {}
      /\ moved <=> Clamped(FirstSize) # FirstSize
  <2> DEFINE q == <<o>>
             z == FirstSize
             ms == {first}
             t == [size |-> z, next |-> 3, modes |-> ms, outputs |-> q]
  <2>1. screen = [NewScreen(FirstSize) EXCEPT !.next = @ + d, !.modes = @ \cup made]
    BY Zenon DEF Init
  <2>2. NewScreen(FirstSize) = t
    BY Zenon DEF NewScreen
  <2> HIDE DEF q, ms, made, d, z
  <2>3. [t EXCEPT !.next = @ + d, !.modes = @ \cup made]
          = [size |-> z, next |-> 3 + d, modes |-> ms \cup made, outputs |-> q]
    <3> DEFINE nx == t.next + d
               mo == t.modes \cup made
    <3>1. t.next = 3 /\ t.modes = ms
      OBVIOUS
    <3>2. nx = 3 + d /\ mo = ms \cup made
      BY <3>1
    <3> HIDE DEF nx, mo
    <3>3. [t EXCEPT !.next = nx, !.modes = mo]
            = [size |-> z, next |-> nx, modes |-> mo, outputs |-> q]
      <4> DEFINE u == [t EXCEPT !.next = nx]
                 v == [u EXCEPT !.modes = mo]
                 r == [size |-> z, next |-> nx, modes |-> mo, outputs |-> q]
      <4>1. DOMAIN t = ScreenFields /\ t.size = z /\ t.outputs = q
        BY DEF ScreenFields
      <4> HIDE DEF t
      <4>2. DOMAIN u = ScreenFields /\ u.size = z /\ u.outputs = q /\ u.next = nx
        BY <4>1 DEF ScreenFields
      <4> HIDE DEF u
      <4>3. DOMAIN v = ScreenFields /\ v.size = z /\ v.outputs = q /\ v.next = nx /\ v.modes = mo
        BY <4>2 DEF ScreenFields
      <4>4. DOMAIN r = ScreenFields /\ r.size = z /\ r.outputs = q /\ r.next = nx /\ r.modes = mo
        BY DEF ScreenFields
      <4>5. v = [x \in DOMAIN v |-> v[x]] /\ r = [x \in DOMAIN r |-> r[x]]
        BY Zenon
      <4> HIDE DEF v, r
      <4>6. \A x \in ScreenFields : v[x] = r[x]
        BY <4>3, <4>4 DEF ScreenFields
      <4>7. v = r
        BY <4>3, <4>4, <4>5, <4>6
      <4>8. [t EXCEPT !.next = nx, !.modes = mo] = v
        BY Zenon DEF u, v
      <4> QED BY <4>7, <4>8 DEF r
    <3>4. [t EXCEPT !.next = @ + d, !.modes = @ \cup made] = [t EXCEPT !.next = nx, !.modes = mo]
      BY Zenon DEF nx, mo
    <3> QED BY <3>2, <3>3, <3>4
  <2>4. screen = [size |-> z, next |-> 3 + d, modes |-> ms \cup made, outputs |-> q]
    BY <2>1, <2>2, <2>3
  <2> QED BY <2>4 DEF Init, q, ms, z
<1>2. d \in Nat /\ DOMAIN Made = 1 .. d
  BY LayoutAssumption
<1> HIDE DEF d
<1>3. /\ DOMAIN o = OutputFields /\ o.wl = Off /\ o.crtc = 2 /\ o.pos = <<0, 0>> /\ o.size = FirstSize
      /\ o.at = <<0, 0>> /\ o.log = FirstSize /\ o.mode = 1 /\ o.listed = <<1>> /\ IsRecord(o)
  BY DEF OutputFields, IsRecord
<1> HIDE DEF o
<1> DEFINE q == <<o>>
<1>4. DOMAIN q = {1} /\ q[1] = o /\ IsList(q) /\ IsRecord(q)
  <2>1. q \in Seq({o})
    OBVIOUS
  <2>2. \A n \in {1} : q[n] = o
    BY Messages
  <2>3. q = [n \in DOMAIN q |-> q[n]]
    OBVIOUS
  <2> QED BY <2>1, <2>3, Messages DEF IsList, IsRecord
<1> HIDE DEF q
<1> DEFINE ms == {first} \cup made
<1>5. /\ \A m \in ms : \/ m.id = 1 /\ m.size = FirstSize /\ m.ours /\ m = first
                       \/ ~m.ours /\ \E k \in 1 .. d : m.id = 2 + k /\ m = [id |-> 2 + k, size |-> Made[k], ours |-> FALSE]
      /\ first \in ms /\ first.id = 1 /\ first.size = FirstSize
  BY <1>2
<1> HIDE DEF ms
<1>6. /\ DOMAIN s = ScreenFields /\ s.size = FirstSize /\ s.next = 3 + d /\ s.modes = ms
      /\ s.outputs = q /\ IsRecord(s)
  <2> DEFINE z == FirstSize
             nx == 3 + d
             t == [size |-> z, next |-> nx, modes |-> ms, outputs |-> q]
  <2>1. s = t
    BY DEF ms, q
  <2> HIDE DEF z, nx, s
  <2>2. /\ DOMAIN t = ScreenFields /\ t.size = z /\ t.next = nx /\ t.modes = ms /\ t.outputs = q
        /\ IsRecord(t)
    BY DEF ScreenFields, IsRecord
  <2> QED BY <2>1, <2>2 DEF z, nx
<1> HIDE DEF s, first
<1>7. \A id : Contains(<<1>>, id) <=> id = 1
  <2>1. DOMAIN <<1>> = {1} /\ <<1>>[1] = 1
    BY Messages
  <2>2. Len(<<1>>) = 1 /\ 1 .. 1 = {1}
    OBVIOUS
  <2> QED BY <2>1, <2>2 DEF Contains
<1>8. Typed(s)
  <2>1. <<1>> \in Seq(Nat)
    OBVIOUS
  <2>2. s.next \in Nat
    BY <1>2, <1>6
  <2>3. ScreenShape(s)
    BY <1>3, <1>4, <1>6 DEF ScreenShape
  <2>4. \A n \in DOMAIN s.outputs : s.outputs[n].listed \in Seq(Nat)
    BY <1>3, <1>4, <1>6, <2>1
  <2> QED BY <1>4, <1>6, <2>2, <2>3, <2>4 DEF Typed
<1>9. Numbered(s)
  <2>1. \A m \in ms : m.id \in Nat /\ m.id # Off /\ m.id < 3 + d
    BY <1>2, <1>5 DEF Off
  <2>2. \A m, k \in ms : m.id = k.id => m = k
    <3> SUFFICES ASSUME NEW m \in ms, NEW k \in ms, m.id = k.id PROVE m = k
      OBVIOUS
    <3>1. \A i \in 1 .. d : 2 + i # 1 /\ \A j \in 1 .. d : 2 + i = 2 + j => i = j
      BY <1>2
    <3>2. CASE m.id = 1
      BY <1>5, <3>1, <3>2
    <3>3. CASE m.id # 1
      <4>1. PICK i \in 1 .. d : m.id = 2 + i /\ m = [id |-> 2 + i, size |-> Made[i], ours |-> FALSE]
        BY <1>5, <3>3
      <4>2. PICK j \in 1 .. d : k.id = 2 + j /\ k = [id |-> 2 + j, size |-> Made[j], ours |-> FALSE]
        BY <1>5, <3>3
      <4>3. i = j
        BY <3>1, <4>1, <4>2
      <4> QED BY <4>1, <4>2, <4>3
    <3> QED BY <3>2, <3>3
  <2>3. 3 + d # Off /\ 2 < 3 + d /\ 1 < 3 + d
    BY <1>2 DEF Off
  <2> QED BY <1>2, <1>3, <1>4, <1>6, <1>7, <2>1, <2>2, <2>3 DEF Numbered
<1>10. \A n \in DOMAIN s.outputs : \A id : Lists(s, n, id) <=> id = 1
  BY <1>3, <1>4, <1>6, <1>7 DEF Lists
<1>11. \A m \in OwnModes(s, {}) : m.id = 1 /\ m.size = FirstSize
  BY <1>5, <1>6 DEF OwnModes
<1>12. ModesGood(s, {}, {})
  <2>1. OwnListed(s, {})
    BY <1>3, <1>4, <1>6, <1>10, <1>11 DEF OwnListed
  <2>2. Fits(s, {}, {})
    BY <1>3, <1>4, <1>6, <1>11 DEF Fits
  <2>3. NoneLeft(s, {})
    BY <1>4, <1>6, <1>10, <1>11 DEF NoneLeft
  <2> QED BY <1>8, <1>9, <2>1, <2>2, <2>3 DEF ModesGood, ModesOk
<1>13. AtModes(s, {}, {})
  <2>1. Showing(s, 1)
    BY <1>3, <1>4, <1>5, <1>6 DEF Showing, HasSize
  <2> QED BY <1>4, <1>6, <2>1 DEF AtModes
<1>14. Named(s) /\ \A n \in DOMAIN s.outputs : s.outputs[n].wl = Off
  BY <1>3, <1>4, <1>6 DEF Named
<1>15. ASSUME Clamped(FirstSize) = FirstSize
       PROVE  Laid(s)
  <2>1. Packed(s.outputs, 1)[1] = 0 /\ Packed(s.outputs, 2)[1] = 0
    <3>1. ASSUME NEW a \in {1, 2} PROVE Packed(s.outputs, a)[1] = 0
      <4> DEFINE items == [n \in DOMAIN s.outputs |-> [start |-> s.outputs[n].at[a], len |-> s.outputs[n].log[a],
                                                       phys |-> s.outputs[n].size[a]]]
      <4>1. Packed(s.outputs, a) = PackAxis(items)
        BY Zenon DEF Packed
      <4>2. IsRecord(items) /\ DOMAIN items = DOMAIN s.outputs
        BY DEF IsRecord
      <4>3. items[1].start \in Int
        BY <1>3, <1>4, <1>6
      <4> HIDE DEF items
      <4>4. DOMAIN items = {1}
        BY <1>4, <1>6, <4>2
      <4>5. PackAxis(items)[1] = 0
        BY <4>2, <4>3, <4>4, PackOfOne, Zenon
      <4> QED BY <4>1, <4>5, Zenon
    <3> QED BY <3>1
  <2>2. Relayout(s) = s
    <3>1. SpotOf(s, 1) = <<0, 0>>
      BY <2>1 DEF SpotOf
    <3>2. IsScreen(s) /\ \A n \in DOMAIN s.outputs : s.outputs[n].pos = SpotOf(s, n)
      BY <1>3, <1>4, <1>6, <3>1 DEF IsScreen
    <3> QED BY <1>8, <3>2, RelaidIff DEF Typed
  <2>3. Extent(s) = s.size
    <3>1. Enabled(s) = {1}
      BY <1>3, <1>4, <1>6 DEF Enabled, Off
    <3> DEFINE far(a) == Max({0} \cup {s.outputs[n].pos[a] + s.outputs[n].size[a] : n \in Enabled(s)})
    <3>2. ASSUME NEW a \in {1, 2} PROVE far(a) = FirstSize[a]
      <4>1. FirstSize[a] \in Nat
        BY LayoutAssumption
      <4>2. s.outputs[1].pos[a] + s.outputs[1].size[a] = FirstSize[a]
        BY <1>3, <1>4, <1>6, <4>1
      <4>3. {0} \cup {s.outputs[n].pos[a] + s.outputs[n].size[a] : n \in Enabled(s)} = {FirstSize[a], 0}
        BY <3>1, <4>2
      <4> DEFINE v == FirstSize[a]
      <4> HIDE DEF v
      <4>4. v \in Nat => Max({v, 0}) = v
        <5>1. v \in Nat => Max({v, 0}) \in {v, 0} /\ Max({v, 0}) >= v
          BY MaxOf
        <5> QED BY <5>1
      <4> QED BY <4>1, <4>3, <4>4 DEF v
    <3>3. Extent(s) = Clamped(<<FirstSize[1], FirstSize[2]>>)
      BY <3>2 DEF Extent
    <3>4. FirstSize = <<FirstSize[1], FirstSize[2]>>
      BY LayoutAssumption
    <3> QED BY <1>6, <1>15, <3>3, <3>4
  <2> QED BY <2>2, <2>3 DEF Laid
<1> QED BY <1>1, <1>12, <1>13, <1>14, <1>15 DEF ScreenInv

LEMMA LayoutInit ==
  ASSUME Init
  PROVE  LayoutInv
<1>1. /\ comp = [o \in Outs |-> Gone] /\ wire = <<>> /\ xdg \in Xdg /\ acc = [o \in Outs |-> NoAcc]
      /\ xs = [t \in XThreads |-> Idle]
  BY DEF Init
<1>2. ClientsInv
  BY <1>1, IdleIs DEF ClientsInv
<1>3. HeardInv
  <2>1. xdg \in {"none", "v2", "v3"}
    BY <1>1, LayoutAssumption
  <2>2. \A o \in Outs : o # Off
    BY LayoutAssumption
  <2>3. \A o \in Outs : AllHeard(acc[o], comp[o]) /\ Drives(screen, comp[o], raced, o)
    BY <1>1, <2>2, FirstScreen DEF AllHeard, Drives
  <2> QED BY <1>1, <2>1, <2>3 DEF HeardInv, WireOk
<1> QED BY <1>2, <1>3, FirstScreen DEF LayoutInv

-----------------------------------------------------------------------------
(* What follows.  *)

\* The screen is the compositor's, its modes numbered, listed and at their outputs'
\* sizes, but for what clients did since: every step keeps this.
THEOREM LayoutAlwaysKept == Spec => []LayoutInv
<1>1. Init => LayoutInv
  BY LayoutInit
<1>2. LayoutInv /\ [Next]_vars => LayoutInv'
  BY LayoutNext
<1> QED BY <1>1, <1>2, PTL DEF Spec

\* NativeModesStand: a native mode is listed, and stands for the size of the output
\* that lists it.
THEOREM NativeModesAlwaysStand == Spec => []NativeModesStand
<1>1. ASSUME LayoutInv PROVE NativeModesStand
  <2>1. NoneLeft(screen, theirs) /\ Fits(screen, theirs, raced)
    BY <1>1, ScreenFacts DEF ModesGood, ModesOk
  <2> SUFFICES ASSUME NEW m \in screen.modes, m.ours, m.id \notin theirs
               PROVE  /\ ListedBy(screen, m.id) # {}
                      /\ \A n \in ListedBy(screen, m.id) :
                           LET o == screen.outputs[n] IN o.size = m.size \/ o.wl \in raced
    BY DEF NativeModesStand
  <2>2. m \in OwnModes(screen, theirs)
    BY DEF OwnModes
  <2>3. \A n : n \in ListedBy(screen, m.id) <=> n \in DOMAIN screen.outputs /\ Lists(screen, n, m.id)
    BY DEF ListedBy, Lists
  <2>4. PICK n \in DOMAIN screen.outputs : Lists(screen, n, m.id)
    BY <2>1, <2>2 DEF NoneLeft
  <2>5. ListedBy(screen, m.id) # {}
    BY <2>3, <2>4
  <2> QED BY <2>1, <2>2, <2>3, <2>5 DEF Fits
<1> QED BY <1>1, LayoutAlwaysKept, PTL

\* AsTheCompositorHasIt: what was heard of an output is on the screen, each output is
\* at a mode of its size, and the CRTCs and the screen are where they belong.
THEOREM AlwaysAsTheCompositorHasIt == Spec => []AsTheCompositorHasIt
<1>1. ASSUME LayoutInv PROVE AsTheCompositorHasIt
  <2>1. ASSUME NEW o \in Outs, ~About(o)
        PROVE  /\ comp[o] = Gone <=> Shown(o) = 0
               /\ comp[o] # Gone =>
                   LET p == screen.outputs[Shown(o)]
                   IN  /\ p.at = comp[o].at /\ p.log = TrueLog(comp[o])
                       /\ p.size = TrueSize(comp[o]) \/ o \in raced
    <3> DEFINE n == Shown(o)
    <3>1. Drives(screen, comp[o], raced, o)
      BY <1>1, <2>1, ScreenFacts DEF HeardInv
    <3>2. \/ n = 0 /\ \A k \in DOMAIN screen.outputs : screen.outputs[k].wl # o
          \/ n # 0 /\ n \in DOMAIN screen.outputs /\ screen.outputs[n].wl = o
      <4>1. Typed(screen)
        BY <1>1, ScreenFacts
      <4> DEFINE k == Where(screen, LAMBDA p : p.wl = o)
      <4>2. \/ k = 0 /\ \A j \in DOMAIN screen.outputs : screen.outputs[j].wl # o
            \/ k # 0 /\ k \in DOMAIN screen.outputs /\ screen.outputs[k].wl = o
        BY <4>1, WhereIs
      <4>3. n = k
        BY DEF Shown
      <4> HIDE DEF n, k
      <4> QED BY <4>2, <4>3
    <3> HIDE DEF n
    <3>3. CASE comp[o] = Gone
      <4>1. n = 0
        BY <3>1, <3>2, <3>3 DEF Drives
      <4> QED BY <3>3, <4>1 DEF n
    <3>4. CASE comp[o] # Gone
      <4>1. PICK k \in DOMAIN screen.outputs :
               LET p == screen.outputs[k]
               IN  /\ p.wl = o /\ p.at = comp[o].at /\ p.log = TrueLog(comp[o])
                   /\ p.size = TrueSize(comp[o]) \/ o \in raced
        BY <3>1, <3>4 DEF Drives
      <4>2. n # 0 /\ n = k
        BY <1>1, <3>2, <4>1, ScreenFacts DEF Numbered
      <4> QED BY <3>4, <4>1, <4>2 DEF n
    <3> QED BY <3>3, <3>4
  <2>2. \A n \in DOMAIN screen.outputs :
          LET p == screen.outputs[n] IN Showing(screen, n) \/ p.wl \in off \/ p.mode \in theirs
    BY <1>1, ScreenFacts DEF AtModes
  <2>3. moved \/ (Relayout(screen) = screen /\ Extent(screen) = screen.size)
    BY <1>1 DEF LayoutInv, Laid
  <2> QED BY <2>1, <2>2, <2>3 DEF AsTheCompositorHasIt
<1> QED BY <1>1, LayoutAlwaysKept, PTL

-----------------------------------------------------------------------------
(* Pictures, tiles and the logical space.  *)

\* A transform moves the pixels of a buffer to those of its own size, each to one.
Moves(t, m, z) ==
    /\ \A x \in 0 .. m[1] - 1, y \in 0 .. m[2] - 1 :
         \E u \in 0 .. z[1] - 1 : \E v \in 0 .. z[2] - 1 : Point(t, <<x, y>>, m) = <<u, v>>
    /\ \A u \in 0 .. z[1] - 1, v \in 0 .. z[2] - 1 :
         \E x \in 0 .. m[1] - 1 : \E y \in 0 .. m[2] - 1 : Point(t, <<x, y>>, m) = <<u, v>>

LEMMA PointMoves ==
  ASSUME NEW t \in Transforms, NEW m \in (Nat \ {0}) \X (Nat \ {0})
  PROVE  Moves(t, m, Size(t, m))
<1> DEFINE z == Size(t, m)
           w == m[1]
           h == m[2]
           X == 0 .. w - 1
           Y == 0 .. h - 1
           P(x, y) == Point(t, <<x, y>>, m)
           right(x) == w - 1 - x
           below(y) == h - 1 - y
<1>1. z[1] = (IF Swaps(t) THEN h ELSE w) /\ z[2] = (IF Swaps(t) THEN w ELSE h)
  BY DEF Size
<1>2. w \in Nat \ {0} /\ h \in Nat \ {0}
  OBVIOUS
<1>3. ASSUME NEW x, NEW y
      PROVE  /\ t = "normal" => P(x, y) = <<x, y>>
             /\ t = "90" => P(x, y) = <<below(y), x>>
             /\ t = "180" => P(x, y) = <<right(x), below(y)>>
             /\ t = "270" => P(x, y) = <<y, right(x)>>
             /\ t = "flipped" => P(x, y) = <<right(x), y>>
             /\ t = "flipped-90" => P(x, y) = <<y, x>>
             /\ t = "flipped-180" => P(x, y) = <<x, below(y)>>
             /\ t = "flipped-270" => P(x, y) = <<below(y), right(x)>>
  BY DEF Point
<1> HIDE DEF w, h, z
<1>4. /\ \A x \in X : right(x) \in X /\ right(right(x)) = x
      /\ \A y \in Y : below(y) \in Y /\ below(below(y)) = y
  BY <1>2
<1> HIDE DEF P, right, below, X, Y
<1>5. ASSUME ~Swaps(t)
      PROVE  /\ \A x \in X, y \in Y : \E u \in X : \E v \in Y : P(x, y) = <<u, v>>
             /\ \A u \in X, v \in Y : \E x \in X : \E y \in Y : P(x, y) = <<u, v>>
  <2>1. t \in {"normal", "180", "flipped", "flipped-180"}
    BY <1>5 DEF Swaps, Transforms
  <2>2. CASE t = "normal"
    <3>1. \A x, y : P(x, y) = <<x, y>>
      BY <1>3, <2>2
    <3> QED BY <1>4, <3>1
  <2>3. CASE t = "180"
    <3>1. \A x, y : P(x, y) = <<right(x), below(y)>>
      BY <1>3, <2>3
    <3> QED BY <1>4, <3>1
  <2>4. CASE t = "flipped"
    <3>1. \A x, y : P(x, y) = <<right(x), y>>
      BY <1>3, <2>4
    <3> QED BY <1>4, <3>1
  <2>5. CASE t = "flipped-180"
    <3>1. \A x, y : P(x, y) = <<x, below(y)>>
      BY <1>3, <2>5
    <3> QED BY <1>4, <3>1
  <2> QED BY <2>1, <2>2, <2>3, <2>4, <2>5
<1>6. ASSUME Swaps(t)
      PROVE  /\ \A x \in X, y \in Y : \E u \in Y : \E v \in X : P(x, y) = <<u, v>>
             /\ \A u \in Y, v \in X : \E x \in X : \E y \in Y : P(x, y) = <<u, v>>
  <2>1. t \in {"90", "270", "flipped-90", "flipped-270"}
    BY <1>6 DEF Swaps
  <2>2. CASE t = "90"
    <3>1. \A x, y : P(x, y) = <<below(y), x>>
      BY <1>3, <2>2
    <3> QED BY <1>4, <3>1
  <2>3. CASE t = "270"
    <3>1. \A x, y : P(x, y) = <<y, right(x)>>
      BY <1>3, <2>3
    <3> QED BY <1>4, <3>1
  <2>4. CASE t = "flipped-90"
    <3>1. \A x, y : P(x, y) = <<y, x>>
      BY <1>3, <2>4
    <3> QED BY <1>4, <3>1
  <2>5. CASE t = "flipped-270"
    <3>1. \A x, y : P(x, y) = <<below(y), right(x)>>
      BY <1>3, <2>5
    <3> QED BY <1>4, <3>1
  <2> QED BY <2>1, <2>2, <2>3, <2>4, <2>5
<1>7. 0 .. z[1] - 1 = (IF Swaps(t) THEN Y ELSE X) /\ 0 .. z[2] - 1 = IF Swaps(t) THEN X ELSE Y
  BY <1>1 DEF X, Y
<1>8. /\ \A x \in X, y \in Y : \E u \in 0 .. z[1] - 1 : \E v \in 0 .. z[2] - 1 : P(x, y) = <<u, v>>
      /\ \A u \in 0 .. z[1] - 1, v \in 0 .. z[2] - 1 : \E x \in X : \E y \in Y : P(x, y) = <<u, v>>
  <2> DEFINE U == 0 .. z[1] - 1
             V == 0 .. z[2] - 1
  <2> HIDE DEF P, X, Y, U, V
  <2>1. CASE Swaps(t)
    <3>1. U = Y /\ V = X
      BY <1>7, <2>1 DEF U, V
    <3>2. /\ \A x \in X, y \in Y : \E u \in U : \E v \in V : P(x, y) = <<u, v>>
          /\ \A u \in U, v \in V : \E x \in X : \E y \in Y : P(x, y) = <<u, v>>
      BY <1>6, <2>1, <3>1
    <3> QED BY <3>2, Zenon DEF U, V
  <2>2. CASE ~Swaps(t)
    <3>1. U = X /\ V = Y
      BY <1>7, <2>2 DEF U, V
    <3>2. /\ \A x \in X, y \in Y : \E u \in U : \E v \in V : P(x, y) = <<u, v>>
          /\ \A u \in U, v \in V : \E x \in X : \E y \in Y : P(x, y) = <<u, v>>
      BY <1>5, <2>2, <3>1
    <3> QED BY <3>2, Zenon DEF U, V
  <2> QED BY <2>1, <2>2, Zenon
<1> QED BY <1>8, Zenon DEF Moves, P, X, Y, w, h, z

\* The picture fills its tile, wherever that is.
LEMMA DrawnIsTile ==
  ASSUME NEW t \in Transforms, NEW m \in (Nat \ {0}) \X (Nat \ {0}), NEW pos
  PROVE  Drawn(t, m, pos) = Tile(Size(t, m), pos)
<1> DEFINE z == Size(t, m)
<1>1. Moves(t, m, z)
  BY PointMoves
<1> HIDE DEF z
<1>2. ASSUME NEW p \in Drawn(t, m, pos) PROVE p \in Tile(z, pos)
  <2>1. PICK x \in 0 .. m[1] - 1, y \in 0 .. m[2] - 1 : p = Plus(pos, Point(t, <<x, y>>, m))
    BY DEF Drawn
  <2>2. PICK u \in 0 .. z[1] - 1, v \in 0 .. z[2] - 1 : Point(t, <<x, y>>, m) = <<u, v>>
    BY <1>1, Zenon DEF Moves
  <2>3. p = Plus(pos, <<u, v>>)
    BY <2>1, <2>2
  <2> QED BY <2>3 DEF Tile
<1>3. ASSUME NEW p \in Tile(z, pos) PROVE p \in Drawn(t, m, pos)
  <2>1. PICK u \in 0 .. z[1] - 1, v \in 0 .. z[2] - 1 : p = Plus(pos, <<u, v>>)
    BY DEF Tile
  <2>2. PICK x \in 0 .. m[1] - 1, y \in 0 .. m[2] - 1 : Point(t, <<x, y>>, m) = <<u, v>>
    BY <1>1, Zenon DEF Moves
  <2>3. p = Plus(pos, Point(t, <<x, y>>, m))
    BY <2>1, <2>2
  <2> QED BY <2>3 DEF Drawn
<1> QED BY <1>2, <1>3 DEF z

\* Scaling down a place in a length leaves it in the scaled length.
LEMMA Scaled ==
  ASSUME NEW k \in Nat, NEW l \in Nat \ {0}, NEW n \in Nat \ {0}, k < n
  PROVE  (k * l) \div n \in 0 .. l - 1
<1> DEFINE q == (k * l) \div n
           r == (k * l) % n
<1>1. k * l \in Nat
  OBVIOUS
<1>2. q \in Int /\ r \in 0 .. n - 1 /\ k * l = n * q + r
  BY <1>1
<1> HIDE DEF q, r
<1>3. q >= 0
  <2> SUFFICES ASSUME q < 0 PROVE FALSE
    BY <1>2
  <2>1. n * q <= n * (0 - 1)
    BY <1>2
  <2> QED BY <1>1, <1>2, <2>1
<1>4. q < l
  <2> SUFFICES ASSUME q >= l PROVE FALSE
    BY <1>2
  <2>1. n * q >= n * l
    BY <1>2
  <2>2. n * l > k * l
    OBVIOUS
  <2>3. n * l \in Int /\ n * q \in Int
    BY <1>2
  <2> QED BY <1>1, <1>2, <2>1, <2>2, <2>3
<1> QED BY <1>2, <1>3, <1>4 DEF q

\* Rectangle pairs as the pointer needs them.
RectsOk(rs) ==
    /\ IsFiniteSet(DOMAIN rs) /\ DOMAIN rs # {} /\ DOMAIN rs \subseteq Int
    /\ \A n \in DOMAIN rs : rs[n].at \in Int \X Int /\ rs[n].log \in Nat \X Nat

\* The logical space begins at or before each of the outputs, and ends at or past it.
LEMMA SpanIs ==
  ASSUME NEW rs, RectsOk(rs), NEW a \in {1, 2}
  PROVE  /\ Origin(rs)[a] \in Int /\ Span(rs)[a] \in Int
         /\ \A n \in DOMAIN rs : /\ Origin(rs)[a] <= rs[n].at[a]
                                 /\ (rs[n].at[a] + rs[n].log[a]) - Origin(rs)[a] <= Span(rs)[a]
<1> DEFINE S == DOMAIN rs
           f == [n \in S |-> rs[n].at[a]]
           g == [n \in S |-> rs[n].at[a] + rs[n].log[a]]
           L == {rs[n].at[a] : n \in S}
           H == {rs[n].at[a] + rs[n].log[a] : n \in S}
           low == Min(L)
           high == Max(H)
           span == Max({1, high - low})
<1>1. \A n \in S : /\ f[n] = rs[n].at[a] /\ rs[n].at[a] \in Int
                   /\ g[n] = rs[n].at[a] + rs[n].log[a] /\ rs[n].at[a] + rs[n].log[a] \in Int
  <2>1. \A n \in S : rs[n].at \in Int \X Int /\ rs[n].log \in Nat \X Nat
    BY DEF RectsOk
  <2>2. \A z : /\ z \in Int \X Int => z[1] \in Int /\ z[2] \in Int
               /\ z \in Nat \X Nat => z[1] \in Nat /\ z[2] \in Nat
    OBVIOUS
  <2>3. \A n \in S : rs[n].at[a] \in Int /\ rs[n].log[a] \in Nat
    BY <2>1, <2>2
  <2> QED BY <2>3
<1>0. S # {} /\ IsFiniteSet(S) /\ (\A n \in S : f[n] \in Int) /\ \A n \in S : g[n] \in Int
  BY <1>1 DEF RectsOk
<1> HIDE DEF f, g
<1>2. PICK i \in S : \A j \in S : f[i] <= f[j]
  BY <1>0, LowestOf
<1>3. PICK k \in S : \A j \in S : g[j] <= g[k]
  BY <1>0, HighestOf
<1>4. low \in L /\ \A x \in L : low <= x
  <2>1. \E y \in L : \A x \in L : y <= x
    BY <1>1, <1>2
  <2> HIDE DEF L
  <2> QED BY <2>1 DEF Min
<1>5. high \in H /\ \A x \in H : high >= x
  <2>1. \E y \in H : \A x \in H : y >= x
    BY <1>1, <1>3
  <2> HIDE DEF H
  <2> QED BY <2>1 DEF Max
<1> HIDE DEF low, high
<1>6. low \in Int /\ high \in Int
  BY <1>1, <1>4, <1>5
<1>7. span \in Int /\ span >= high - low
  <2> DEFINE x == high - low
  <2>1. x \in Int
    BY <1>6
  <2> HIDE DEF x
  <2>2. Max({1, x}) \in {1, x} /\ Max({1, x}) >= x
    BY <2>1, MaxOf
  <2> QED BY <2>1, <2>2 DEF x
<1>8. \A n \in S : low <= rs[n].at[a] /\ rs[n].at[a] + rs[n].log[a] <= high
  BY <1>1, <1>4, <1>5, <1>6
<1>9. Origin(rs)[a] = low
  <2>1. /\ Origin(rs)[1] = Min({rs[n].at[1] : n \in S})
        /\ Origin(rs)[2] = Min({rs[n].at[2] : n \in S})
    BY DEF Origin
  <2>2. CASE a = 1
    BY <2>1, <2>2 DEF low
  <2>3. CASE a = 2
    BY <2>1, <2>3 DEF low
  <2> QED BY <2>2, <2>3
<1>10. Span(rs)[a] = span
  <2>1. /\ Span(rs)[1] = Max({1, Max({rs[n].at[1] + rs[n].log[1] : n \in S}) - Origin(rs)[1]})
        /\ Span(rs)[2] = Max({1, Max({rs[n].at[2] + rs[n].log[2] : n \in S}) - Origin(rs)[2]})
    BY DEF Span
  <2>2. CASE a = 1
    BY <1>9, <2>1, <2>2 DEF high
  <2>3. CASE a = 2
    BY <1>9, <2>1, <2>3 DEF high
  <2> QED BY <2>2, <2>3
<1> HIDE DEF span
<1>11. \A n \in S : (rs[n].at[a] + rs[n].log[a]) - low <= span
  <2>1. \A v, h, l, w \in Int : v <= h /\ w >= h - l => v - l <= w
    OBVIOUS
  <2> QED BY <1>1, <1>6, <1>7, <1>8, <2>1
<1> QED BY <1>6, <1>7, <1>8, <1>9, <1>10, <1>11

\* A point in the tile of one output only goes into its logical rectangle.
LEMMA GoesIn ==
  ASSUME NEW rs, RectsOk(rs), NEW n \in DOMAIN rs, NEW p \in Int \X Int,
         rs[n].pos \in Int \X Int, rs[n].size \in (Nat \ {0}) \X (Nat \ {0}),
         rs[n].log[1] > 0, rs[n].log[2] > 0,
         Within(p, rs[n].pos, rs[n].size),
         \A k \in DOMAIN rs \ {n} : ~Within(p, rs[k].pos, rs[k].size)
  PROVE  Within(ToLogical(rs, p), <<rs[n].at[1] - Origin(rs)[1], rs[n].at[2] - Origin(rs)[2]>>,
                rs[n].log)
<1>1. OutputAt(rs, p) = n
  <2>1. {k \in DOMAIN rs : Within(p, rs[k].pos, rs[k].size)} = {n}
    OBVIOUS
  <2>2. Min({n}) = n
    BY DEF Min, RectsOk
  <2>3. {n} # {}
    OBVIOUS
  <2> QED BY <2>1, <2>2, <2>3, Zenon DEF OutputAt
<1> DEFINE r == rs[n]
           part(a) == (Confine(p[a] - r.pos[a], 0, r.size[a] - 1) * r.log[a]) \div r.size[a]
           value(a) == Confine(r.at[a] + part(a) - Origin(rs)[a], 0, Span(rs)[a])
<1>2. ToLogical(rs, p) = <<value(1), value(2)>>
  BY <1>1, Zenon DEF ToLogical
<1>3. ASSUME NEW a \in {1, 2}
      PROVE  value(a) >= r.at[a] - Origin(rs)[a] /\ value(a) < r.at[a] - Origin(rs)[a] + r.log[a]
  <2>1. /\ p[a] \in Int /\ r.pos[a] \in Int /\ r.size[a] \in Nat \ {0}
        /\ r.at[a] \in Int /\ r.log[a] \in Nat \ {0}
    <3>1. \A z : /\ z \in Int \X Int => z[1] \in Int /\ z[2] \in Int
                 /\ z \in Nat \X Nat => z[1] \in Nat /\ z[2] \in Nat
                 /\ z \in (Nat \ {0}) \X (Nat \ {0}) => z[1] \in Nat \ {0} /\ z[2] \in Nat \ {0}
      OBVIOUS
    <3>2. r.at \in Int \X Int /\ r.log \in Nat \X Nat
      BY DEF RectsOk
    <3>3. r.log[1] \in Nat \ {0} /\ r.log[2] \in Nat \ {0}
      BY <3>1, <3>2
    <3> QED BY <3>1, <3>2, <3>3
  <2>2. p[a] >= r.pos[a] /\ p[a] < r.pos[a] + r.size[a]
    BY DEF Within
  <2> DEFINE k == p[a] - r.pos[a]
             o == Origin(rs)[a]
             w == Span(rs)[a]
  <2>3. /\ o \in Int /\ w \in Int /\ o <= r.at[a] /\ (r.at[a] + r.log[a]) - o <= w
    BY SpanIs
  <2>4. k \in Nat /\ k < r.size[a]
    BY <2>1, <2>2
  <2>5. Confine(k, 0, r.size[a] - 1) = k
    BY <2>1, <2>4 DEF Confine
  <2>6. part(a) \in 0 .. r.log[a] - 1
    <3> HIDE DEF k, r
    <3>1. (k * r.log[a]) \div r.size[a] \in 0 .. r.log[a] - 1
      BY <2>1, <2>4, Scaled
    <3> QED BY <2>5, <3>1 DEF k
  <2> HIDE DEF part, o, w, k, r
  <2>7. Confine(r.at[a] + part(a) - o, 0, w) = r.at[a] + part(a) - o
    BY <2>1, <2>3, <2>6 DEF Confine
  <2> QED BY <2>1, <2>3, <2>6, <2>7 DEF o, w
<1> HIDE DEF value
<1> QED BY <1>2, <1>3 DEF Within

-----------------------------------------------------------------------------
(* The numbers of the screen.  *)

Points == Int \X Int
Extents == Nat \X Nat

\* The outputs' places and sizes are points and sizes of the two spaces...
SitesIn(s) ==
    \A n \in DOMAIN s.outputs :
      LET o == s.outputs[n]
      IN  o.pos \in Points /\ o.size \in Extents /\ o.at \in Points /\ o.log \in Extents

\* ...and the modes' sizes are, those new to a screen too.
SizesIn(s) == \A m \in s.modes : m.size \in Extents

MadeOf(s, t, z) == \A m \in t.modes : m \in s.modes \/ m.size = z

LEMMA PairIs ==
  /\ \A z \in Points : z[1] \in Int /\ z[2] \in Int
  /\ \A z \in Extents : z[1] \in Nat /\ z[2] \in Nat
  /\ \A x, y \in Int : <<x, y>> \in Points
  /\ \A x, y \in Nat : <<x, y>> \in Extents
BY DEF Points, Extents

\* The place relayout_physical gives an output is a point.
LEMMA SpotIn ==
  ASSUME NEW s, IsList(s.outputs), NEW n \in DOMAIN s.outputs,
         \A k \in DOMAIN s.outputs :
           /\ s.outputs[k].size \in Extents /\ s.outputs[k].at \in Points /\ s.outputs[k].log \in Extents
  PROVE  SpotOf(s, n) \in Points
<1> DEFINE D == DOMAIN s.outputs
<1>1. ASSUME NEW a \in {1, 2} PROVE Packed(s.outputs, a)[n] \in Int
  <2> DEFINE item(k) == [start |-> s.outputs[k].at[a], len |-> s.outputs[k].log[a],
                         phys |-> s.outputs[k].size[a]]
             items == [k \in D |-> item(k)]
  <2>1. \A k \in D : /\ s.outputs[k].size[a] \in Nat /\ s.outputs[k].at[a] \in Int
                     /\ s.outputs[k].log[a] \in Nat
    BY PairIs
  <2>2. Len(s.outputs) \in Nat /\ D = 1 .. Len(s.outputs)
    BY ListIs
  <2>3. \A k \in D : item(k).start \in Int /\ item(k).len \in Nat /\ item(k).phys \in Int
    BY <2>1
  <2> HIDE DEF item
  <2>4. /\ DOMAIN items = D
        /\ \A k \in D : items[k].start \in Int /\ items[k].len \in Nat /\ items[k].phys \in Int
    BY <2>3
  <2>5. IsList(items)
    <3> DEFINE S == {item(k) : k \in D}
    <3>1. items \in [1 .. Len(s.outputs) -> S]
      BY <2>2
    <3> HIDE DEF items, S
    <3> QED BY <2>2, <3>1, ListMade
  <2>6. Packed(s.outputs, a) = PackAxis(items)
    BY DEF Packed, items, item
  <2> HIDE DEF items
  <2>7. items # <<>>
    BY <2>4, Messages
  <2>8. ItemsOk(items)
    BY <2>4, <2>5, <2>7 DEF ItemsOk
  <2> QED BY <2>4, <2>6, <2>8, PackAxisPlaces
<1> QED BY <1>1, PairIs DEF SpotOf

\* A screen put in place.
LEMMA LaidIn ==
  ASSUME NEW s, Typed(s), Laid(s),
         \A k \in DOMAIN s.outputs :
           /\ s.outputs[k].size \in Extents /\ s.outputs[k].at \in Points /\ s.outputs[k].log \in Extents
  PROVE  SitesIn(s)
<1>1. \A n \in DOMAIN s.outputs : s.outputs[n].pos = SpotOf(s, n)
  BY RelaidIff DEF Laid, Typed
<1>2. \A n \in DOMAIN s.outputs : SpotOf(s, n) \in Points
  BY SpotIn DEF Typed
<1> QED BY <1>1, <1>2 DEF SitesIn

\* The compositor gave an output a rectangle, or took it away, or none is given one.
LEMMA OthersIn ==
  ASSUME NEW s, NEW t, NEW w, SitesIn(s), Typed(t), Laid(t), Numbered(t), Others(s, t, w),
         \/ \A n \in DOMAIN t.outputs : t.outputs[n].wl # w
         \/ \E r : /\ r.size \in Extents /\ r.at \in Points /\ r.log \in Extents
                   /\ \E n \in DOMAIN t.outputs : Given(t.outputs[n], w, r)
  PROVE  SitesIn(t)
<1> SUFFICES ASSUME NEW k \in DOMAIN t.outputs
             PROVE  /\ t.outputs[k].size \in Extents /\ t.outputs[k].at \in Points
                    /\ t.outputs[k].log \in Extents
  BY LaidIn
<1>1. CASE t.outputs[k].wl = w
  <2>1. PICK r : /\ r.size \in Extents /\ r.at \in Points /\ r.log \in Extents
                 /\ \E n \in DOMAIN t.outputs : Given(t.outputs[n], w, r)
    BY <1>1
  <2>2. PICK n \in DOMAIN t.outputs : Given(t.outputs[n], w, r)
    BY <2>1
  <2>3. k = n
    BY <1>1, <2>2 DEF Numbered, Given
  <2> QED BY <2>1, <2>2, <2>3 DEF Given
<1>2. CASE t.outputs[k].wl # w
  <2>1. PICK n \in DOMAIN s.outputs : Alike(t.outputs[k], s.outputs[n])
    BY <1>2 DEF Others
  <2> QED BY <2>1 DEF Alike, SitesIn
<1> QED BY <1>1, <1>2

LEMMA MadeIn ==
  ASSUME NEW s, NEW t, SizesIn(s), NEW z \in Extents, MadeOf(s, t, z)
  PROVE  SizesIn(t)
BY DEF SizesIn, MadeOf

\* The modes there are after a change, by what changes them.
LEMMA ModesMade ==
  ASSUME NEW s, Typed(s)
  PROVE  /\ Prune(s).modes \subseteq s.modes
         /\ \A n \in DOMAIN s.outputs : \A z : MadeOf(s, Show(s, n, z), z)
         /\ \A z : MadeOf(s, CreateMode(s, z), z)
         /\ \A n, id : /\ AddOutputMode(s, n, id).modes = s.modes
                       /\ DeleteOutputMode(s, n, id).modes = s.modes
         /\ \A id : DestroyMode(s, id).modes \subseteq s.modes
<1>0. DOMAIN s = ScreenFields
  BY DEF Typed, ScreenShape
<1>1. Prune(s).modes \subseteq s.modes
  BY <1>0 DEF Prune, ScreenFields
<1>2. ASSUME NEW n \in DOMAIN s.outputs, NEW z PROVE MadeOf(s, Show(s, n, z), z)
  <2> DEFINE t == IF ModeFor(s, n, z) = s.next THEN NewMode(s, z, TRUE) ELSE s
  <2>1. DOMAIN t = ScreenFields /\ \A m \in t.modes : m \in s.modes \/ m.size = z
    BY <1>0 DEF NewMode, ScreenFields
  <2>2. Show(s, n, z).modes = t.modes
    <3>1. \E o : Show(s, n, z) = [t EXCEPT !.outputs[n] = o]
      BY Zenon DEF Show
    <3> HIDE DEF t
    <3> QED BY <2>1, <3>1 DEF ScreenFields
  <2> HIDE DEF t
  <2> QED BY <2>1, <2>2 DEF MadeOf
<1>3. ASSUME NEW z PROVE MadeOf(s, CreateMode(s, z), z)
  BY <1>0 DEF CreateMode, NewMode, MadeOf, ScreenFields
<1>4. ASSUME NEW n, NEW id
      PROVE  AddOutputMode(s, n, id).modes = s.modes /\ DeleteOutputMode(s, n, id).modes = s.modes
  BY <1>0 DEF AddOutputMode, DeleteOutputMode, ScreenFields
<1>5. ASSUME NEW id PROVE DestroyMode(s, id).modes \subseteq s.modes
  BY <1>0 DEF DestroyMode, ScreenFields
<1> QED BY <1>1, <1>2, <1>3, <1>4, <1>5

LEMMA SizesFewer ==
  ASSUME NEW s, NEW t, SizesIn(s), t.modes \subseteq s.modes
  PROVE  SizesIn(t)
BY DEF SizesIn

\* prune_modes, of a record made of a screen's fields.
LEMMA PruneFewer ==
  ASSUME NEW s, DOMAIN s = ScreenFields
  PROVE  DOMAIN Prune(s) = ScreenFields /\ Prune(s).modes \subseteq s.modes
BY DEF Prune, ScreenFields

\* adopt_mode.
LEMMA AdoptFewer ==
  ASSUME NEW s, Typed(s), NEW n \in DOMAIN s.outputs, NEW id
  PROVE  AdoptMode(s, n, id).modes \subseteq s.modes
<1>1. DOMAIN s = ScreenFields
  BY DEF Typed, ScreenShape
<1>2. \A o : LET t == [s EXCEPT !.outputs[n] = o] IN DOMAIN t = ScreenFields /\ t.modes = s.modes
  BY <1>1 DEF ScreenFields
<1>3. AdoptMode(s, n, id) = s \/ \E o : AdoptMode(s, n, id) = Prune([s EXCEPT !.outputs[n] = o])
  BY Zenon DEF AdoptMode
<1>4. \A o : Prune([s EXCEPT !.outputs[n] = o]).modes \subseteq s.modes
  <2> SUFFICES ASSUME NEW o PROVE Prune([s EXCEPT !.outputs[n] = o]).modes \subseteq s.modes
    OBVIOUS
  <2> DEFINE t == [s EXCEPT !.outputs[n] = o]
  <2>1. DOMAIN t = ScreenFields /\ t.modes = s.modes
    BY <1>2
  <2> HIDE DEF t
  <2>2. Prune(t).modes \subseteq t.modes
    BY <2>1, PruneFewer
  <2> QED BY <2>1, <2>2 DEF t
<1> QED BY <1>3, <1>4

\* restore_outputs's turns.
LEMMA BackIn ==
  ASSUME NEW s, NEW th, NEW late, ModesGood(s, th, late), SitesIn(s), SizesIn(s),
         NEW n \in DOMAIN s.outputs
  PROVE  LET t == Back(s, n)
         IN  ModesGood(t, th, late) /\ SitesIn(t) /\ SizesIn(t) /\ SameSites(s, t)
<1> DEFINE t == Back(s, n)
           z == s.outputs[n].size
<1>1. Typed(s) /\ z \in Extents
  BY DEF ModesGood, ModesOk, SitesIn
<1>2. ModesGood(t, th, late) /\ SameSites(s, t)
  BY BackOk
<1>3. t = s \/ t = Show(s, n, z)
  BY DEF Back
<1> HIDE DEF t, z
<1>4. MadeOf(s, Show(s, n, z), z)
  BY <1>1, ModesMade
<1>5. SizesIn(t)
  BY <1>1, <1>3, <1>4, MadeIn
<1>6. SitesIn(t)
  BY <1>2 DEF SitesIn, SameSites, SameSite
<1> QED BY <1>2, <1>5, <1>6 DEF t

LEMMA AllBackIn ==
  ASSUME NEW s, NEW th, NEW late, ModesGood(s, th, late), SitesIn(s), SizesIn(s)
  PROVE  SizesIn(AllBack(s))
<1> DEFINE k == Len(s.outputs)
           Good(t) == ModesGood(t, th, late) /\ SitesIn(t) /\ SizesIn(t) /\ SameSites(s, t)
<1>1. k \in Nat /\ DOMAIN s.outputs = 1 .. k
  BY ListIs DEF ModesGood, ModesOk, Typed
<1>2. PICK f : /\ f[0] = s /\ AllBack(s) = f[k]
               /\ \A n \in 1 .. k : n - 1 \in 0 .. k /\ f[n] = Back(f[n - 1], n)
  BY <1>1, BackGrows
<1>3. Good(f[0])
  BY <1>2 DEF SameSites, SameSite
<1> HIDE DEF k
<1>4. ASSUME NEW n \in 1 .. k, Good(f[n - 1]) PROVE Good(f[n])
  <2> DEFINE u == f[n - 1]
             t == f[n]
  <2>1. ModesGood(u, th, late) /\ SitesIn(u) /\ SizesIn(u) /\ SameSites(s, u)
    BY <1>4
  <2>2. t = Back(u, n) /\ n \in DOMAIN u.outputs
    BY <1>1, <1>2, <2>1 DEF SameSites
  <2> HIDE DEF u, t
  <2>3. ModesGood(t, th, late) /\ SitesIn(t) /\ SizesIn(t) /\ SameSites(u, t)
    BY <2>1, <2>2, BackIn
  <2>4. SameSites(s, t)
    BY <2>1, <2>3, SitesAll
  <2> QED BY <2>3, <2>4 DEF t
<1> HIDE DEF Good
<1>5. Good(f[k])
  <2> DEFINE Bad == {n \in 0 .. k : ~Good(f[n])}
  <2> SUFFICES ASSUME ~Good(f[k]) PROVE FALSE
    OBVIOUS
  <2>1. Bad \in SUBSET Nat /\ Bad # {}
    <3>1. k \in 0 .. k
      BY <1>1
    <3> QED BY <1>1, <3>1
  <2>2. PICK n \in Bad : \A m \in Bad : n <= m
    <3> HIDE DEF Bad
    <3> QED BY <2>1, LeastOf
  <2>3. n # 0 /\ n \in 0 .. k
    BY <1>3, <2>2
  <2>4. n \in 1 .. k /\ n - 1 \in 0 .. k /\ ~(n <= n - 1)
    BY <1>1, <2>3
  <2> QED BY <1>4, <2>2, <2>4
<1> QED BY <1>2, <1>5 DEF Good

\* Putting the outputs in place leaves the modes.
LEMMA BoundedModes ==
  ASSUME NEW s
  PROVE  Bounded(Relayout(s)).modes = s.modes
<1> DEFINE t == Relayout(s)
<1>1. DOMAIN t = ScreenFields /\ t.modes = s.modes
  BY RelaidIs DEF SameModes
<1> HIDE DEF t
<1>2. Bounded(t).modes = t.modes
  BY <1>1 DEF Bounded, ScreenFields
<1> QED BY <1>1, <1>2 DEF t

\* sync_wayland_output.
LEMMA SyncSizes ==
  ASSUME NEW s, Typed(s), Numbered(s), SizesIn(s), NEW w, NEW r, r.size \in Extents,
         NEW th, NEW late, ModesGood(s, th, late)
  PROVE  SizesIn(SyncOutput(s, w, r))
<1> DEFINE n == Where(s, LAMBDA o : o.wl = w)
           z == r.size
<1>0. DOMAIN s = ScreenFields
  BY DEF Typed, ScreenShape
<1>1. SizesIn(Added(s, w, r))
  <2> DEFINE t == NewMode(s, z, TRUE)
             q(real, o) == [t EXCEPT !.next = @ + 1, !.outputs = Append(real, o)]
  <2>1. DOMAIN t = ScreenFields /\ MadeOf(s, t, z)
    BY <1>0 DEF NewMode, ScreenFields, MadeOf
  <2>2. \E real, o : Added(s, w, r) = Prune(q(real, o))
    BY Zenon DEF Added
  <2> HIDE DEF t
  <2>3. \A real, o : DOMAIN q(real, o) = ScreenFields /\ q(real, o).modes = t.modes
    BY <2>1 DEF ScreenFields
  <2> HIDE DEF q
  <2>4. \A real, o : Prune(q(real, o)).modes \subseteq t.modes
    BY <2>3, PruneFewer
  <2>5. SizesIn(t)
    BY <2>1, MadeIn
  <2> QED BY <2>2, <2>4, <2>5, SizesFewer
<1>2. ASSUME NEW k \in DOMAIN s.outputs PROVE SizesIn(Updated(s, k, r))
  <2> DEFINE u == Resized(Show(s, k, z), k, r)
             q(stale) == [u EXCEPT !.outputs[k].listed = Without(@, stale)]
  <2>1. DOMAIN u = ScreenFields /\ SizesIn(u)
    <3> DEFINE t == Show(s, k, z)
    <3>1. OwnListed(s, th)
      BY DEF ModesGood, ModesOk
    <3>2. Typed(t) /\ SameSites(s, t)
      BY <3>1, ShowOk
    <3>3. SizesIn(t)
      BY ModesMade, MadeIn
    <3> HIDE DEF t
    <3>4. k \in DOMAIN t.outputs
      BY <3>2 DEF SameSites
    <3>5. Typed(Resized(t, k, r)) /\ Resized(t, k, r).modes = t.modes
      BY <3>2, <3>4, ResizedIs
    <3>6. SizesIn(Resized(t, k, r))
      BY <3>3, <3>5, SizesFewer
    <3> QED BY <3>5, <3>6 DEF Typed, ScreenShape, t
  <2>2. Updated(s, k, r) = u \/ \E stale : Updated(s, k, r) = Prune(q(stale))
    BY Zenon DEF Updated
  <2> HIDE DEF u
  <2>3. \A stale : DOMAIN q(stale) = ScreenFields /\ q(stale).modes = u.modes
    BY <2>1 DEF ScreenFields
  <2> HIDE DEF q
  <2>4. \A stale : Prune(q(stale)).modes \subseteq u.modes
    BY <2>3, PruneFewer
  <2> QED BY <2>1, <2>2, <2>4, SizesFewer
<1>3. n = 0 \/ n \in DOMAIN s.outputs
  <2>1. \/ n = 0 /\ \A k \in DOMAIN s.outputs : s.outputs[k].wl # w
        \/ n # 0 /\ n \in DOMAIN s.outputs /\ s.outputs[n].wl = w
    BY WhereIs
  <2> HIDE DEF n
  <2> QED BY <2>1
<1>4. \/ n = 0 /\ SyncOutput(s, w, r) = Bounded(Relayout(Added(s, w, r)))
      \/ SyncOutput(s, w, r) = s
      \/ n # 0 /\ SyncOutput(s, w, r) = Bounded(Relayout(Updated(s, n, r)))
  BY Zenon DEF SyncOutput
<1> HIDE DEF n, z
<1>5. \A t : SizesIn(t) => SizesIn(Bounded(Relayout(t)))
  BY BoundedModes, SizesFewer
<1> QED BY <1>1, <1>2, <1>3, <1>4, <1>5

\* remove_wayland_output, and restore_outputs.
LEMMA RemoveSizes ==
  ASSUME NEW s, Typed(s), SizesIn(s), NEW w
  PROVE  SizesIn(RemoveWaylandOutput(s, w))
<1> DEFINE q(kept) == [s EXCEPT !.outputs = kept]
<1>0. DOMAIN s = ScreenFields
  BY DEF Typed, ScreenShape
<1>1. \E kept : RemoveWaylandOutput(s, w) = Bounded(Relayout(Prune(q(kept))))
  BY Zenon DEF RemoveWaylandOutput
<1>2. \A kept : DOMAIN q(kept) = ScreenFields /\ q(kept).modes = s.modes
  BY <1>0 DEF ScreenFields
<1> HIDE DEF q
<1>3. \A kept : Prune(q(kept)).modes \subseteq s.modes
  BY <1>2, PruneFewer
<1>4. \A kept : Bounded(Relayout(Prune(q(kept)))).modes \subseteq s.modes
  BY <1>3, BoundedModes
<1> QED BY <1>1, <1>4, SizesFewer

LEMMA RestoreSizes ==
  ASSUME NEW s, NEW th, NEW late, ModesGood(s, th, late), SitesIn(s), SizesIn(s)
  PROVE  SizesIn(RestoreOutputs(s))
<1>1. SizesIn(AllBack(s))
  BY AllBackIn
<1>2. RestoreOutputs(s).modes = AllBack(s).modes
  BY BoundedModes, Zenon DEF RestoreOutputs
<1> QED BY <1>1, <1>2, SizesFewer

-----------------------------------------------------------------------------
(* The numbers of the events, the clients and the screen.  *)

Buffers == (Nat \ {0}) \X (Nat \ {0})

AccTyped(a) ==
    /\ a.mode \in Buffers /\ a.turn \in Transforms /\ a.scale \in Nat \ {0}
    /\ a.at \in Points /\ a.lat \in Points /\ a.log \in Extents

\* Every output on the screen has been heard of.
HeardOf(s, heard) == \A n \in DOMAIN s.outputs : s.outputs[n].wl # Off => heard[s.outputs[n].wl] # NoAcc

ClientsIn == \A t \in XThreads : xs[t].at = "local" => xs[t].pos \in Points

AccsIn == \A o \in Outs : acc[o] # NoAcc => AccTyped(acc[o])

GeometryInv == AccsIn /\ HeardOf(screen, acc) /\ SitesIn(screen) /\ SizesIn(screen) /\ ClientsIn

LEMMA Buffered ==
  ASSUME NEW m \in Buffers, NEW t, NEW k \in Nat \ {0}
  PROVE  /\ Size(t, m) \in Buffers /\ Size(t, m) \in Extents
         /\ <<Size(t, m)[1] \div k, Size(t, m)[2] \div k>> \in Extents
<1> DEFINE z == Size(t, m)
<1>1. z \in Buffers /\ z[1] \in Nat \ {0} /\ z[2] \in Nat \ {0} /\ z \in Extents
  BY DEF Size, Buffers, Extents
<1> HIDE DEF z
<1>2. \A y \in Nat : y \div k \in Nat
  OBVIOUS
<1> QED BY <1>1, <1>2, PairIs DEF z

LEMMA ConfigIs ==
  ASSUME NEW c \in Configs
  PROVE  /\ c.mode \in Buffers /\ c.turn \in Transforms /\ c.scale \in Nat \ {0} /\ c.at \in Points
         /\ TrueLog(c) \in Extents
<1>1. /\ c.mode \in Buffers /\ c.turn \in Transforms /\ c.scale \in Nat \ {0} /\ c.at \in Points
  BY LayoutAssumption DEF Buffers, Points
<1> QED BY <1>1, Buffered DEF TrueLog, TrueSize

LEMMA AccumulatedIn ==
  ASSUME NEW old, NEW o, NEW c \in Configs, NEW parts, AccOk(old), PartsOk(old, parts, c),
         old # NoAcc => AccTyped(old)
  PROVE  AccTyped(Accumulated(old, Said(o, parts, c)))
<1> DEFINE e == Said(o, parts, c)
           b == IF old = NoAcc THEN NewAcc ELSE old
           d == IF "output" \notin parts THEN b
                ELSE [b EXCEPT !.mode = c.mode, !.turn = c.turn, !.scale = c.scale, !.at = c.at]
           a == IF "logical" \notin parts THEN d
                ELSE [d EXCEPT !.logical = TRUE, !.lat = c.at, !.log = TrueLog(c)]
<1>0. /\ "output" \notin parts => old # NoAcc
      /\ old # NoAcc => DOMAIN old = AccFields
  BY DEF PartsOk, AccOk, OutputHeard
<1>1. Accumulated(old, e) = a
  BY DEF Accumulated, Said
<1>2. DOMAIN b = AccFields /\ b.lat \in Points /\ b.log \in Extents
  <2>1. <<0, 0>> \in Points /\ <<0, 0>> \in Extents
    BY PairIs
  <2>2. DOMAIN NewAcc = AccFields /\ NewAcc.lat = <<0, 0>> /\ NewAcc.log = <<0, 0>>
    BY DEF NewAcc, AccFields
  <2> QED BY <1>0, <2>1, <2>2 DEF AccTyped
<1>3. "output" \notin parts => b = old /\ AccTyped(b)
  BY <1>0
<1> HIDE DEF b
<1>4. DOMAIN d = AccFields /\ AccTyped(d)
  <2>1. CASE "output" \notin parts
    BY <1>2, <1>3, <2>1
  <2>2. CASE "output" \in parts
    <3>1. d = [b EXCEPT !.mode = c.mode, !.turn = c.turn, !.scale = c.scale, !.at = c.at]
      BY <2>2
    <3>2. /\ DOMAIN d = AccFields /\ d.mode = c.mode /\ d.turn = c.turn /\ d.scale = c.scale
          /\ d.at = c.at /\ d.lat = b.lat /\ d.log = b.log
      BY <1>2, <3>1 DEF AccFields
    <3> QED BY <1>2, <3>2, ConfigIs DEF AccTyped
  <2> QED BY <2>1, <2>2
<1> HIDE DEF d
<1>5. AccTyped(a)
  <2>1. CASE "logical" \notin parts
    BY <1>4, <2>1
  <2>2. CASE "logical" \in parts
    <3> DEFINE z == TrueLog(c)
    <3>0. z \in Extents /\ c.at \in Points
      BY ConfigIs
    <3>1. a = [d EXCEPT !.logical = TRUE, !.lat = c.at, !.log = z]
      BY <2>2
    <3> HIDE DEF z, a
    <3>2. /\ a.mode = d.mode /\ a.turn = d.turn /\ a.scale = d.scale
          /\ a.at = d.at /\ a.lat = c.at /\ a.log = z
      BY <1>4, <3>1 DEF AccFields
    <3> QED BY <1>4, <3>0, <3>2 DEF AccTyped
  <2> QED BY <2>1, <2>2
<1> QED BY <1>1, <1>5

LEMMA RectIn ==
  ASSUME NEW a, AccTyped(a)
  PROVE  RectOf(a).size \in Extents /\ RectOf(a).at \in Points /\ RectOf(a).log \in Extents
<1> DEFINE z == Size(a.turn, a.mode)
           l == <<z[1] \div a.scale, z[2] \div a.scale>>
<1>1. z \in Extents /\ l \in Extents
  BY Buffered DEF AccTyped
<1>2. /\ RectOf(a).size = z
      /\ RectOf(a).at = (IF a.logical THEN a.lat ELSE a.at)
      /\ RectOf(a).log = (IF a.logical THEN a.log ELSE l)
  BY Zenon DEF RectOf
<1> HIDE DEF z, l
<1> QED BY <1>1, <1>2 DEF AccTyped

\* A step that makes of one output what was heard, or takes it away.
LEMMA HeardStep ==
  ASSUME GeometryInv, NEW o \in Outs, acc = [p \in Outs |-> acc[p]], Named(screen'),
         NEW a, acc' = [acc EXCEPT ![o] = a], a # NoAcc => AccTyped(a),
         Others(screen, screen', o),
         a # NoAcc \/ \A n \in DOMAIN screen'.outputs : screen'.outputs[n].wl # o,
         SitesIn(screen'), SizesIn(screen'), ClientsIn'
  PROVE  GeometryInv'
<1>1. \A p \in Outs : acc'[p] = IF p = o THEN a ELSE acc[p]
  OBVIOUS
<1>2. AccsIn'
  BY <1>1 DEF GeometryInv, AccsIn
<1>3. HeardOf(screen', acc')
  <2> SUFFICES ASSUME NEW n \in DOMAIN screen'.outputs, screen'.outputs[n].wl # Off
               PROVE  acc'[screen'.outputs[n].wl] # NoAcc
    BY DEF HeardOf
  <2> DEFINE w == screen'.outputs[n].wl
  <2>1. w \in Outs /\ w # Off
    BY DEF Named
  <2>2. CASE w = o
    BY <1>1, <2>2
  <2>3. CASE w # o
    <3>1. PICK k \in DOMAIN screen.outputs : screen.outputs[k].wl = w
      BY <2>3 DEF Others, Alike
    <3>2. acc[w] # NoAcc
      BY <2>1, <3>1 DEF GeometryInv, HeardOf
    <3> QED BY <1>1, <2>1, <2>3, <3>2
  <2> QED BY <2>2, <2>3
<1> QED BY <1>2, <1>3 DEF GeometryInv

\* A step of which nothing is heard.
LEMMA QuietStep ==
  ASSUME GeometryInv, acc' = acc, SitesIn(screen'), SizesIn(screen'), ClientsIn',
         \A k \in DOMAIN screen'.outputs :
            \E n \in DOMAIN screen.outputs : screen'.outputs[k].wl = screen.outputs[n].wl
  PROVE  GeometryInv'
<1>1. HeardOf(screen', acc')
  BY DEF GeometryInv, HeardOf
<1>2. AccsIn'
  BY DEF GeometryInv, AccsIn
<1> QED BY <1>1, <1>2 DEF GeometryInv

\* A step that leaves the outputs where they are.
LEMMA SameStep ==
  ASSUME GeometryInv, acc' = acc, SameSites(screen, screen'), SizesIn(screen'), ClientsIn'
  PROVE  GeometryInv'
<1>1. SitesIn(screen')
  BY DEF GeometryInv, SitesIn, SameSites, SameSite
<1>2. \A k \in DOMAIN screen'.outputs :
        \E n \in DOMAIN screen.outputs : screen'.outputs[k].wl = screen.outputs[n].wl
  BY DEF SameSites, SameSite
<1> QED BY <1>1, <1>2, QuietStep

LEMMA ClientsStay ==
  ASSUME GeometryInv, xs' = xs
  PROVE  ClientsIn'
BY DEF GeometryInv, ClientsIn

LEMMA ClientMoves ==
  ASSUME GeometryInv, ClientsInv, NEW t \in XThreads, NEW x, xs' = [xs EXCEPT ![t] = x],
         x.at = "local" => x.pos \in Points
  PROVE  ClientsIn'
<1>1. \A u \in XThreads : xs'[u] = IF u = t THEN x ELSE xs[u]
  BY DEF ClientsInv
<1> QED BY <1>1 DEF GeometryInv, ClientsIn

\* apply_output.
LEMMA ApplyIn ==
  ASSUME LayoutInv, GeometryInv, Receive, Apply(Head(wire))
  PROVE  GeometryInv'
<1>1. PICK o \in Outs :
         \/ comp[o] = Gone /\ Head(wire) = Said(o, {}, Gone)
         \/ \E parts : /\ comp[o] # Gone /\ Head(wire) = Said(o, parts, comp[o])
                       /\ PartsOk(acc[o], parts, comp[o])
  <2>1. PICK o \in Outs :
          /\ \A p : p # o => ~About(p)
          /\ \/ comp[o] = Gone /\ Head(wire) = Said(o, {}, Gone) /\ Tail(wire) = <<>>
             \/ \E parts :
                  /\ comp[o] # Gone /\ Head(wire) = Said(o, parts, comp[o])
                  /\ PartsOk(acc[o], parts, comp[o])
                  /\ \/ Tail(wire) = <<>> /\ ("logical" \in parts \/ xdg = "none")
                     \/ /\ Tail(wire) = <<Said(o, {"logical"}, comp[o])>> /\ xdg = "v2"
                        /\ parts = {"output"}
    BY WireHead DEF LayoutInv, Receive
  <2> QED BY <2>1
<1>2. Head(wire) # Said(o, {}, Gone)
  BY DEF Apply, Said
<1>3. PICK parts : /\ comp[o] # Gone /\ Head(wire) = Said(o, parts, comp[o])
                   /\ PartsOk(acc[o], parts, comp[o])
  BY <1>1, <1>2
<1> DEFINE c == comp[o]
           a == Accumulated(acc[o], Said(o, parts, c))
           r == RectOf(a)
           changed == SyncChanges(screen, o, r)
<1>4. acc' = [acc EXCEPT ![o] = a] /\ screen' = SyncOutput(screen, o, r) /\ xs' = xs
  <2>1. Said(o, parts, c).about = o
    BY DEF Said
  <2>2. Head(wire) = Said(o, parts, c)
    BY <1>3
  <2> QED BY <2>1, <2>2, Zenon DEF Apply
<1>5. AccTyped(a) /\ a # NoAcc
  <2>1. c \in Configs /\ AccOk(acc[o])
    BY <1>3, ScreenFacts DEF HeardInv, AccOk
  <2>2. acc[o] # NoAcc => AccTyped(acc[o])
    BY DEF GeometryInv, AccsIn
  <2>3. AccTyped(a)
    BY <1>3, <2>1, <2>2, AccumulatedIn
  <2>4. AccSays(a, parts, c)
    BY <1>3, <2>1, AccumulatedIs
  <2> HIDE DEF a, c
  <2> QED BY <2>3, <2>4 DEF AccSays, OutputHeard
<1> HIDE DEF a, c
<1>6. r.size \in Extents /\ r.at \in Points /\ r.log \in Extents
  BY <1>5, RectIn
<1> HIDE DEF r
<1>7. SizesIn(screen')
  <2>1. Typed(screen) /\ Numbered(screen) /\ ModesGood(screen, theirs, raced) /\ SizesIn(screen)
    BY ScreenFacts DEF GeometryInv
  <2> QED BY <1>4, <1>6, <2>1, SyncSizes
<1>8. SitesIn(screen') /\ Others(screen, screen', o) /\ Named(screen')
  <2>1. CASE changed
    <3> DEFINE t == SyncOutput(screen, o, r)
    <3>1. o # Off
      BY LayoutAssumption
    <3>2. /\ ScreenInv(t, theirs, raced \ {o}, off \ {o}) /\ Laid(t) /\ Others(screen, t, o)
          /\ \E n \in DOMAIN t.outputs : Given(t.outputs[n], o, r)
      BY <2>1, <3>1, SyncOk DEF LayoutInv, changed
    <3> HIDE DEF t
    <3>3. Typed(t) /\ Numbered(t) /\ Named(t)
      BY <3>2 DEF ScreenInv, ModesGood, ModesOk
    <3>4. SitesIn(t)
      BY <1>6, <3>2, <3>3, OthersIn DEF GeometryInv
    <3> QED BY <1>4, <3>2, <3>3, <3>4 DEF t
  <2>2. CASE ~changed
    <3>1. screen' = screen
      BY <1>4, <2>2 DEF changed, SyncChanges, SyncOutput
    <3> QED BY <3>1, OthersSame, ScreenFacts DEF GeometryInv
  <2> QED BY <2>1, <2>2
<1>9. ClientsIn'
  BY <1>4, ClientsStay
<1> QED BY <1>4, <1>5, <1>7, <1>8, <1>9, ScreenFacts, HeardStep DEF HeardInv

\* remove_output.
LEMMA TakeAwayIn ==
  ASSUME LayoutInv, GeometryInv, Receive, TakeAway(Head(wire))
  PROVE  GeometryInv'
<1> DEFINE w == Head(wire).about
           there == Where(screen, LAMBDA p : p.wl = w) # 0
           gone == RemoveWaylandOutput(screen, w)
<1>1. w \in Outs
  <2>1. PICK o \in Outs :
          /\ \A p : p # o => ~About(p)
          /\ \/ comp[o] = Gone /\ Head(wire) = Said(o, {}, Gone) /\ Tail(wire) = <<>>
             \/ \E parts :
                  /\ comp[o] # Gone /\ Head(wire) = Said(o, parts, comp[o])
                  /\ PartsOk(acc[o], parts, comp[o])
                  /\ \/ Tail(wire) = <<>> /\ ("logical" \in parts \/ xdg = "none")
                     \/ /\ Tail(wire) = <<Said(o, {"logical"}, comp[o])>> /\ xdg = "v2"
                        /\ parts = {"output"}
    BY WireHead DEF LayoutInv, Receive
  <2>2. Head(wire).about = o
    BY <2>1 DEF Said
  <2> QED BY <2>2
<1>2. /\ acc' = [acc EXCEPT ![w] = NoAcc]
      /\ xs' = [t \in XThreads |-> IF xs[t].at = "waiting" /\ xs[t].wl = w
                                   THEN [xs[t] EXCEPT !.at = "refused"] ELSE xs[t]]
      /\ screen' = IF there THEN gone ELSE screen
  BY Zenon DEF TakeAway
<1>3. ~there => \A k \in DOMAIN screen.outputs : screen.outputs[k].wl # w
  <2> DEFINE n == Where(screen, LAMBDA p : p.wl = w)
  <2>1. \/ n = 0 /\ \A k \in DOMAIN screen.outputs : screen.outputs[k].wl # w
        \/ n # 0 /\ n \in DOMAIN screen.outputs /\ screen.outputs[n].wl = w
    BY ScreenFacts, WhereIs
  <2> HIDE DEF n, w
  <2> QED BY <2>1 DEF n
<1> HIDE DEF there, w
<1>4. /\ SitesIn(screen') /\ SizesIn(screen') /\ Others(screen, screen', w) /\ Named(screen')
      /\ \A n \in DOMAIN screen'.outputs : screen'.outputs[n].wl # w
  <2>1. CASE there
    <3>1. /\ ScreenInv(gone, theirs, raced \ {w}, off \ {w}) /\ Laid(gone) /\ Others(screen, gone, w)
          /\ \A n \in DOMAIN gone.outputs : gone.outputs[n].wl # w
      BY RemoveOk, ScreenFacts
    <3>2. SizesIn(gone)
      BY RemoveSizes, ScreenFacts DEF GeometryInv
    <3> HIDE DEF gone
    <3>3. Typed(gone) /\ Numbered(gone) /\ Named(gone)
      BY <3>1 DEF ScreenInv, ModesGood, ModesOk
    <3>4. SitesIn(gone)
      BY <3>1, <3>3, OthersIn DEF GeometryInv
    <3> QED BY <1>2, <2>1, <3>1, <3>2, <3>3, <3>4
  <2>2. CASE ~there
    <3>1. screen' = screen
      BY <1>2, <2>2
    <3> QED BY <1>3, <2>2, <3>1, OthersSame, ScreenFacts DEF GeometryInv
  <2> QED BY <2>1, <2>2
<1>5. ClientsIn'
  <2> SUFFICES ASSUME NEW t \in XThreads, xs'[t].at = "local" PROVE xs'[t].pos \in Points
    BY DEF ClientsIn
  <2>1. CASE xs[t].at = "waiting" /\ xs[t].wl = w
    <3>1. xs'[t] = [xs[t] EXCEPT !.at = "refused"]
      BY <1>2, <2>1
    <3>2. xs[t] # Idle
      BY <2>1 DEF Idle
    <3>3. "at" \in DOMAIN xs[t]
      BY <3>2, ScreenFacts DEF ClientsInv, PendingOk
    <3>4. xs'[t].at = "refused"
      BY <3>1, <3>3
    <3> QED BY <3>4
  <2>2. CASE ~(xs[t].at = "waiting" /\ xs[t].wl = w)
    <3>1. xs'[t] = xs[t]
      BY <1>2, <2>2
    <3> QED BY <3>1 DEF GeometryInv, ClientsIn
  <2> QED BY <2>1, <2>2
<1> QED BY <1>1, <1>2, <1>4, <1>5, ScreenFacts, HeardStep DEF HeardInv

\* A client's lists of modes.
LEMMA ModesIn ==
  ASSUME LayoutInv, GeometryInv, NEW t \in XThreads,
         \/ \E z \in Sizes : AskCreateMode(t, z)
         \/ \E m \in screen.modes : AskDestroyMode(t, m.id)
         \/ \E n \in DOMAIN screen.outputs : \E m \in screen.modes :
              AskAddMode(t, n, m.id) \/ AskDeleteMode(t, n, m.id)
  PROVE  GeometryInv'
<1>0. Typed(screen) /\ SizesIn(screen)
  BY ScreenFacts DEF GeometryInv
<1>1. ASSUME NEW z \in Sizes, AskCreateMode(t, z) PROVE GeometryInv'
  <2>1. screen' = CreateMode(screen, z) /\ acc' = acc /\ xs' = xs
    BY <1>1 DEF AskCreateMode, Ask
  <2>2. SameSites(screen, screen')
    BY <2>1, ScreenFacts, CreateOk
  <2>3. z \in Extents
    BY LayoutAssumption DEF Extents
  <2>4. MadeOf(screen, screen', z)
    BY <1>0, <2>1, ModesMade
  <2>5. SizesIn(screen')
    BY <1>0, <2>3, <2>4, MadeIn
  <2> QED BY <2>1, <2>2, <2>5, ClientsStay, SameStep
<1>2. ASSUME NEW m \in screen.modes, AskDestroyMode(t, m.id) PROVE GeometryInv'
  <2>1. screen' = DestroyMode(screen, m.id) /\ acc' = acc /\ xs' = xs
    BY <1>2 DEF AskDestroyMode, Ask
  <2>2. SameSites(screen, screen')
    BY <2>1, ScreenFacts, DestroyOk
  <2>3. screen'.modes \subseteq screen.modes
    BY <1>0, <2>1, ModesMade
  <2>4. SizesIn(screen')
    BY <1>0, <2>3, SizesFewer
  <2> QED BY <2>1, <2>2, <2>4, ClientsStay, SameStep
<1>3. ASSUME NEW n \in DOMAIN screen.outputs, NEW m \in screen.modes,
             AskAddMode(t, n, m.id) \/ AskDeleteMode(t, n, m.id)
      PROVE  GeometryInv'
  <2> DEFINE id == m.id
             th == theirs \cup {id}
  <2>1. /\ screen' \in {AddOutputMode(screen, n, id), DeleteOutputMode(screen, n, id)}
        /\ acc' = acc /\ xs' = xs
    BY <1>3 DEF AskAddMode, AskDeleteMode, Ask
  <2>2. id \in Nat /\ id < screen.next /\ id \in th /\ theirs \subseteq th
    BY ScreenFacts DEF Numbered
  <2> HIDE DEF id, th
  <2>3. ModesGood(screen, th, raced)
    BY <2>2, ScreenFacts, Widened
  <2>4. SameSites(screen, screen')
    BY <2>1, <2>2, <2>3, ListOk
  <2>5. screen'.modes = screen.modes
    BY <1>0, <2>1, ModesMade
  <2>6. SizesIn(screen')
    BY <1>0, <2>5, SizesFewer
  <2> QED BY <2>1, <2>4, <2>6, ClientsStay, SameStep
<1> QED BY <1>1, <1>2, <1>3

\* RandrSetScreenSize.
LEMMA SizeIn ==
  ASSUME LayoutInv, GeometryInv, NEW t \in XThreads, NEW z, AskSetSize(t, z)
  PROVE  GeometryInv'
<1> DEFINE y == Clamped(z)
<1>1. screen' = [screen EXCEPT !.size = y] /\ acc' = acc /\ xs' = xs
  BY DEF AskSetSize, SetSize, Ask
<1> HIDE DEF y
<1>2. screen'.outputs = screen.outputs /\ screen'.modes = screen.modes
  BY <1>1, ScreenFacts DEF Typed, ScreenShape, ScreenFields
<1>3. SameSites(screen, screen') /\ SizesIn(screen')
  BY <1>2 DEF SameSites, SameSite, GeometryInv, SizesIn
<1> QED BY <1>1, <1>3, ClientsStay, SameStep

LEMMA SameScreenIn ==
  ASSUME GeometryInv, acc' = acc, screen' = screen, ClientsIn'
  PROVE  GeometryInv'
<1>1. SameSites(screen, screen') /\ SizesIn(screen')
  BY DEF SameSites, SameSite, GeometryInv
<1> QED BY <1>1, SameStep

\* RandrSetCrtcConfig, its plan.
LEMMA PlanIn ==
  ASSUME LayoutInv, GeometryInv, NEW t \in XThreads, NEW n \in DOMAIN screen.outputs,
         NEW pos \in Places, NEW id, AskCrtc(t, n, pos, id)
  PROVE  GeometryInv'
<1> DEFINE o == screen.outputs[n]
           local == [at |-> "local", crtc |-> o.crtc, pos |-> pos, mode |-> id]
           waiting(z) == [at |-> "waiting", wl |-> o.wl, size |-> z,
                          crtc |-> o.crtc, pos |-> pos, mode |-> id]
<1>1. screen' = screen /\ acc' = acc
  BY DEF AskCrtc, Ask
<1>2. pos \in Points
  BY LayoutAssumption DEF Points
<1>3. \/ xs' = xs
      \/ \E x : xs' = [xs EXCEPT ![t] = x] /\ (x.at = "local" => x.pos \in Points)
  <2>1. \/ xs' = xs
        \/ xs' = [xs EXCEPT ![t] = local]
        \/ \E z : xs' = [xs EXCEPT ![t] = waiting(z)]
    BY Zenon DEF AskCrtc
  <2>2. local.pos = pos /\ \A z : waiting(z).pos = pos
    OBVIOUS
  <2> HIDE DEF local, waiting
  <2> QED BY <1>2, <2>1, <2>2
<1> HIDE DEF local, waiting
<1>4. ClientsIn'
  BY <1>3, ScreenFacts, ClientsStay, ClientMoves
<1> QED BY <1>1, <1>4, SameScreenIn

\* set_crtc.
LEMMA CrtcIn ==
  ASSUME NEW s, Typed(s), SitesIn(s), SizesIn(s), NEW n \in DOMAIN s.outputs,
         NEW pos \in Points, NEW id, id = Off \/ \E m \in s.modes : m.id = id
  PROVE  LET t == SetCrtc(s, n, pos, id)
         IN  /\ SitesIn(t) /\ t.modes = s.modes
             /\ \A k \in DOMAIN t.outputs :
                  k \in DOMAIN s.outputs /\ t.outputs[k].wl = s.outputs[k].wl
<1> DEFINE o == s.outputs[n]
           z == IF id = Off THEN o.size ELSE (CHOOSE m \in s.modes : m.id = id).size
           p == [o EXCEPT !.mode = id, !.pos = pos, !.size = z]
           t == [s EXCEPT !.outputs[n] = p]
<1>1. SetCrtc(s, n, pos, id) = t
  BY DEF SetCrtc
<1>2. DOMAIN o = OutputFields /\ o.listed \in Seq(Nat)
  BY DEF Typed, ScreenShape
<1>3. z \in Extents
  <2>1. CASE id = Off
    BY <2>1 DEF SitesIn
  <2>2. CASE id # Off
    <3> DEFINE m == CHOOSE m \in s.modes : m.id = id
    <3>1. m \in s.modes /\ z = m.size
      BY <2>2
    <3> HIDE DEF m, z
    <3> QED BY <3>1 DEF SizesIn
  <2> QED BY <2>1, <2>2
<1> HIDE DEF z
<1>4. /\ DOMAIN p = OutputFields /\ p.listed = o.listed /\ p.pos = pos /\ p.size = z
      /\ p.wl = o.wl /\ p.at = o.at /\ p.log = o.log
  BY <1>2 DEF OutputFields
<1> HIDE DEF p
<1>5. /\ t.modes = s.modes /\ DOMAIN t.outputs = DOMAIN s.outputs /\ t.outputs[n] = p
      /\ \A k \in DOMAIN s.outputs : k # n => t.outputs[k] = s.outputs[k]
  BY <1>2, <1>4, SetOutput
<1> HIDE DEF t
<1>6. SitesIn(t)
  <2> SUFFICES ASSUME NEW k \in DOMAIN s.outputs
               PROVE  /\ t.outputs[k].pos \in Points /\ t.outputs[k].size \in Extents
                      /\ t.outputs[k].at \in Points /\ t.outputs[k].log \in Extents
    BY <1>5 DEF SitesIn
  <2>1. CASE k = n
    BY <1>3, <1>4, <1>5, <2>1 DEF SitesIn
  <2>2. CASE k # n
    BY <1>5, <2>2 DEF SitesIn
  <2> QED BY <2>1, <2>2
<1>7. \A k \in DOMAIN s.outputs : t.outputs[k].wl = s.outputs[k].wl
  BY <1>4, <1>5
<1> QED BY <1>1, <1>5, <1>6, <1>7

LEMMA IdleIn ==
  ASSUME LayoutInv, GeometryInv, NEW t \in XThreads, xs' = [xs EXCEPT ![t] = Idle]
  PROVE  ClientsIn'
<1>1. Idle.at # "local"
  BY DEF Idle
<1> QED BY <1>1, ScreenFacts, ClientMoves

LEMMA LocalIn ==
  ASSUME LayoutInv, GeometryInv, NEW t \in XThreads, SetLocal(t)
  PROVE  GeometryInv'
<1> DEFINE n == CrtcOf(t)
           id == xs[t].mode
           sets == n # 0 /\ ModeIsThere(id)
<1>1. /\ acc' = acc /\ xs[t].at = "local" /\ xs' = [xs EXCEPT ![t] = Idle]
      /\ ~sets => UNCHANGED screen
      /\ sets => screen' = SetCrtc(screen, n, xs[t].pos, id)
  BY Zenon DEF SetLocal
<1>2. xs[t] # Idle
  BY <1>1 DEF Idle
<1>3. n # 0 => n \in DOMAIN screen.outputs
  BY <1>2, AskedMode
<1> HIDE DEF n
<1>4. ClientsIn'
  BY <1>1, IdleIn
<1>5. CASE ~sets
  BY <1>1, <1>4, <1>5, SameScreenIn
<1>6. CASE sets
  <2>1. n \in DOMAIN screen.outputs /\ (id = Off \/ \E m \in screen.modes : m.id = id)
    BY <1>3, <1>6 DEF ModeIsThere
  <2>2. xs[t].pos \in Points /\ SitesIn(screen) /\ SizesIn(screen) /\ Typed(screen)
    BY <1>1, ScreenFacts DEF GeometryInv, ClientsIn
  <2> DEFINE u == SetCrtc(screen, n, xs[t].pos, id)
  <2>3. /\ SitesIn(u) /\ u.modes = screen.modes
        /\ \A k \in DOMAIN u.outputs :
             k \in DOMAIN screen.outputs /\ u.outputs[k].wl = screen.outputs[k].wl
    BY <2>1, <2>2, CrtcIn
  <2>4. screen' = u
    BY <1>1, <1>6
  <2> HIDE DEF u
  <2>5. SizesIn(screen')
    BY <2>2, <2>3, <2>4, SizesFewer
  <2> QED BY <1>1, <1>4, <2>3, <2>4, <2>5, QuietStep
<1> QED BY <1>5, <1>6

\* The compositor's answer.
LEMMA AnswerIn ==
  ASSUME LayoutInv, GeometryInv, NEW t \in XThreads, NEW how \in {"changed", "refused"}, Answer(t, how)
  PROVE  GeometryInv'
<1> DEFINE x == [xs[t] EXCEPT !.at = how]
<1>1. screen' = screen /\ acc' = acc /\ xs' = [xs EXCEPT ![t] = x] /\ xs[t].at = "waiting"
  BY DEF Answer
<1>2. "at" \in DOMAIN xs[t]
  BY <1>1, ScreenFacts DEF ClientsInv, PendingOk, Idle
<1>3. x.at # "local"
  BY <1>2
<1> HIDE DEF x
<1>4. ClientsIn'
  BY <1>1, <1>3, ScreenFacts, ClientMoves
<1> QED BY <1>1, <1>4, SameScreenIn

\* adopt_mode.
LEMMA AdoptIn ==
  ASSUME LayoutInv, GeometryInv, NEW t \in XThreads, Adopt(t)
  PROVE  GeometryInv'
<1> DEFINE n == CrtcOf(t)
           id == xs[t].mode
           adopts == n # 0 /\ HasSize(screen, id, screen.outputs[n].size)
<1>1. /\ acc' = acc /\ xs[t].at = "changed" /\ xs' = [xs EXCEPT ![t] = Idle]
      /\ screen' = (IF adopts THEN AdoptMode(screen, n, id) ELSE screen)
  BY DEF Adopt
<1>2. xs[t] # Idle
  BY <1>1 DEF Idle
<1>3. n # 0 => /\ n \in DOMAIN screen.outputs
               /\ \A m \in OwnModes(screen, theirs) : m.id = id => Lists(screen, n, id)
  BY <1>2, AskedMode
<1> HIDE DEF n, id
<1>4. ClientsIn'
  BY <1>1, IdleIn
<1>5. CASE adopts
  <2>1. n \in DOMAIN screen.outputs /\ HasSize(screen, id, screen.outputs[n].size)
    BY <1>3, <1>5
  <2>2. screen' = AdoptMode(screen, n, id)
    BY <1>1, <1>5
  <2>3. SameSites(screen, screen')
    BY <1>3, <1>5, <2>1, <2>2, ScreenFacts, AdoptOk
  <2>4. screen'.modes \subseteq screen.modes
    BY <2>1, <2>2, ScreenFacts, AdoptFewer
  <2>5. SizesIn(screen')
    BY <2>4, SizesFewer DEF GeometryInv
  <2> QED BY <1>1, <1>4, <2>3, <2>5, SameStep
<1>6. CASE ~adopts
  BY <1>1, <1>4, <1>6, SameScreenIn
<1> QED BY <1>5, <1>6

\* restore_outputs.
LEMMA RestoreIn ==
  ASSUME LayoutInv, GeometryInv, NEW t \in XThreads, Restore(t)
  PROVE  GeometryInv'
<1>1. /\ acc' = acc /\ xs[t].at = "refused" /\ xs' = [xs EXCEPT ![t] = Idle]
      /\ screen' = RestoreOutputs(screen)
  BY DEF Restore
<1>2. ~StandsIn(screen)
  BY <1>1, ScreenFacts DEF ClientsInv, Asks
<1>3. /\ ScreenInv(screen', theirs, raced, {}) /\ Laid(screen') /\ ~StandsIn(screen')
      /\ Others(screen, screen', Off)
  BY <1>1, <1>2, ScreenFacts, RestoreOk
<1>4. Typed(screen') /\ Numbered(screen') /\ \A n \in DOMAIN screen'.outputs : screen'.outputs[n].wl # Off
  BY <1>3 DEF ScreenInv, ModesGood, ModesOk, StandsIn
<1>5. SitesIn(screen')
  BY <1>3, <1>4, OthersIn DEF GeometryInv
<1>6. SizesIn(screen')
  BY <1>1, ScreenFacts, RestoreSizes DEF GeometryInv
<1>7. ClientsIn'
  BY <1>1, IdleIn
<1>8. \A k \in DOMAIN screen'.outputs :
        \E n \in DOMAIN screen.outputs : screen'.outputs[k].wl = screen.outputs[n].wl
  BY <1>3, <1>4 DEF Others, Alike
<1> QED BY <1>1, <1>5, <1>6, <1>7, <1>8, QuietStep

LEMMA ClientIn ==
  ASSUME LayoutInv, GeometryInv, NEW t \in XThreads, Client(t)
  PROVE  GeometryInv'
BY ModesIn, SizeIn, PlanIn, LocalIn, AnswerIn, AdoptIn, RestoreIn DEF Client

LEMMA StillIn ==
  ASSUME GeometryInv, UNCHANGED <<acc, screen, xs>>
  PROVE  GeometryInv'
BY ClientsStay, SameScreenIn

LEMMA GeometryNext ==
  ASSUME LayoutInv, GeometryInv, [Next]_vars
  PROVE  GeometryInv'
<1>1. ASSUME NEW o \in Outs, Unplug(o) \/ \E c \in Configs : PlugIn(o, c) \/ Reconfigure(o, c)
      PROVE  GeometryInv'
  BY <1>1, StillIn DEF Unplug, PlugIn, Reconfigure, Change
<1>2. CASE Receive
  BY <1>2, ApplyIn, TakeAwayIn DEF Receive
<1>3. ASSUME NEW t \in Threads, Push(t) PROVE GeometryInv'
  BY <1>3, StillIn DEF Push
<1>4. ASSUME NEW t \in XThreads, Client(t) PROVE GeometryInv'
  BY <1>4, ClientIn
<1>5. CASE UNCHANGED vars
  BY <1>5, StillIn DEF vars
<1> QED BY <1>1, <1>2, <1>3, <1>4, <1>5 DEF Next

LEMMA GeometryInit ==
  ASSUME Init
  PROVE  GeometryInv
<1> DEFINE o == [wl |-> Off, crtc |-> 2, pos |-> <<0, 0>>, size |-> FirstSize, at |-> <<0, 0>>,
                 log |-> FirstSize, mode |-> 1, listed |-> <<1>>]
<1>1. /\ acc = [p \in Outs |-> NoAcc] /\ xs = [t \in XThreads |-> Idle]
      /\ screen = [NewScreen(FirstSize) EXCEPT
                    !.next = @ + Len(Made),
                    !.modes = @ \cup {[id |-> 2 + k, size |-> Made[k], ours |-> FALSE] :
                                          k \in DOMAIN Made}]
  BY DEF Init
<1>2. /\ screen.outputs = <<o>>
      /\ screen.modes = {[id |-> 1, size |-> FirstSize, ours |-> TRUE]}
                          \cup {[id |-> 2 + k, size |-> Made[k], ours |-> FALSE] : k \in DOMAIN Made}
  BY <1>1 DEF NewScreen
<1>3. FirstSize \in Extents /\ <<0, 0>> \in Points /\ \A k \in DOMAIN Made : Made[k] \in Extents
  <2>1. FirstSize \in Extents /\ Made \in Seq(Extents)
    BY LayoutAssumption DEF Extents
  <2> QED BY <2>1, PairIs
<1>4. SizesIn(screen)
  BY <1>2, <1>3 DEF SizesIn
<1>5. SitesIn(screen)
  <2>1. o.pos = <<0, 0>> /\ o.size = FirstSize /\ o.at = <<0, 0>> /\ o.log = FirstSize
    OBVIOUS
  <2> HIDE DEF o
  <2>2. DOMAIN screen.outputs = {1} /\ screen.outputs[1] = o
    BY <1>2, Messages
  <2> QED BY <1>3, <2>1, <2>2 DEF SitesIn
<1>6. HeardOf(screen, acc)
  BY FirstScreen DEF HeardOf
<1>7. AccsIn /\ ClientsIn
  BY <1>1 DEF AccsIn, ClientsIn, Idle
<1> QED BY <1>4, <1>5, <1>6, <1>7 DEF GeometryInv

-----------------------------------------------------------------------------
(* Where the pointer goes.  *)

\* The pushed rectangles, of a screen.
LEMMA RectsIn ==
  ASSUME NEW s, Typed(s), SitesIn(s), Enabled(s) # {}
  PROVE  /\ RectsOk(LayoutRects(s)) /\ LayoutRects(s) # <<>>
         /\ DOMAIN LayoutRects(s) = Enabled(s)
         /\ \A n \in Enabled(s) :
              LET o == s.outputs[n]
                  r == LayoutRects(s)[n]
              IN  /\ o.pos \in Points /\ r.pos = o.pos /\ r.size = o.size
                  /\ r.at = o.at /\ r.log = o.log
<1> DEFINE rs == LayoutRects(s)
<1>1. DOMAIN rs = Enabled(s) /\ \A n \in Enabled(s) : rs[n] = Rect(s.outputs[n])
  BY DEF LayoutRects
<1> HIDE DEF rs
<1>2. \A n \in Enabled(s) : /\ rs[n].pos = s.outputs[n].pos /\ rs[n].size = s.outputs[n].size
                            /\ rs[n].at = s.outputs[n].at /\ rs[n].log = s.outputs[n].log
  BY <1>1 DEF Rect
<1>3. Enabled(s) \subseteq DOMAIN s.outputs
  BY DEF Enabled
<1>4. IsFiniteSet(Enabled(s)) /\ Enabled(s) \subseteq Int
  <2>1. Len(s.outputs) \in Nat /\ DOMAIN s.outputs = 1 .. Len(s.outputs)
    BY ListIs DEF Typed
  <2>2. IsFiniteSet(1 .. Len(s.outputs))
    BY <2>1, FS_Interval
  <2> QED BY <1>3, <2>1, <2>2, FS_Subset
<1>5. RectsOk(rs)
  BY <1>1, <1>2, <1>3, <1>4 DEF RectsOk, SitesIn, Points, Extents
<1>6. rs # <<>>
  BY <1>1, Messages
<1> QED BY <1>1, <1>2, <1>3, <1>5, <1>6 DEF rs, SitesIn

\* A point of a tile.
LEMMA TileIs ==
  ASSUME NEW pos \in Points, NEW z \in Buffers, NEW p \in Tile(z, pos)
  PROVE  p \in Int \X Int /\ Within(p, pos, z)
<1>1. PICK x \in 0 .. z[1] - 1, y \in 0 .. z[2] - 1 : p = Plus(pos, <<x, y>>)
  BY DEF Tile
<1>2. pos[1] \in Int /\ pos[2] \in Int /\ z[1] \in Nat \ {0} /\ z[2] \in Nat \ {0}
  BY DEF Points, Buffers
<1>3. p = <<pos[1] + x, pos[2] + y>>
  BY <1>1 DEF Plus
<1>4. p[1] = pos[1] + x /\ p[2] = pos[2] + y
  BY <1>3
<1>5. x \in Int /\ y \in Int /\ 0 <= x /\ x < z[1] /\ 0 <= y /\ y < z[2]
  BY <1>2
<1> QED BY <1>2, <1>3, <1>4, <1>5 DEF Within

\* The picture of one output, and the pointer there.
LEMMA PictureMet ==
  ASSUME LayoutInv, GeometryInv, rects = LayoutRects(screen), NEW n \in Enabled(screen),
         screen.outputs[n].wl # Off,
         Size(acc[screen.outputs[n].wl].turn, acc[screen.outputs[n].wl].mode) = screen.outputs[n].size
  PROVE  LET o == screen.outputs[n]
             a == acc[o.wl]
         IN  /\ Drawn(a.turn, a.mode, o.pos) = Tile(o.size, o.pos)
             /\ o.log[1] > 0 /\ o.log[2] > 0 =>
                  \A p \in Tile(o.size, o.pos) :
                    (\A k \in Enabled(screen) \ {n} :
                        ~Within(p, screen.outputs[k].pos, screen.outputs[k].size)) =>
                    Within(Motion(rects, geometry, p).value,
                           <<o.at[1] - Origin(rects)[1], o.at[2] - Origin(rects)[2]>>, o.log)
<1> DEFINE o == screen.outputs[n]
           a == acc[o.wl]
<1>1. n \in DOMAIN screen.outputs /\ o.wl \in Outs
  BY ScreenFacts DEF Enabled, Named
<1>2. AccTyped(a)
  BY <1>1 DEF GeometryInv, AccsIn, HeardOf
<1>3. o.size \in Buffers
  BY <1>2, Buffered DEF AccTyped
<1>4. Drawn(a.turn, a.mode, o.pos) = Tile(o.size, o.pos)
  BY <1>2, DrawnIsTile DEF AccTyped, Buffers
<1>5. ASSUME o.log[1] > 0, o.log[2] > 0, NEW p \in Tile(o.size, o.pos),
             \A k \in Enabled(screen) \ {n} :
                ~Within(p, screen.outputs[k].pos, screen.outputs[k].size)
      PROVE  Within(Motion(rects, geometry, p).value,
                    <<o.at[1] - Origin(rects)[1], o.at[2] - Origin(rects)[2]>>, o.log)
  <2> DEFINE base == <<o.at[1] - Origin(rects)[1], o.at[2] - Origin(rects)[2]>>
  <2>1. /\ RectsOk(rects) /\ rects # <<>> /\ DOMAIN rects = Enabled(screen)
        /\ \A k \in Enabled(screen) :
              /\ screen.outputs[k].pos \in Points
              /\ rects[k].pos = screen.outputs[k].pos /\ rects[k].size = screen.outputs[k].size
              /\ rects[k].at = screen.outputs[k].at /\ rects[k].log = screen.outputs[k].log
    BY ScreenFacts, RectsIn DEF GeometryInv
  <2>2. p \in Int \X Int /\ Within(p, o.pos, o.size)
    BY <1>3, <2>1, TileIs
  <2>3. Within(ToLogical(rects, p),
               <<rects[n].at[1] - Origin(rects)[1], rects[n].at[2] - Origin(rects)[2]>>, rects[n].log)
    <3>1. rects[n].pos \in Int \X Int /\ rects[n].size \in (Nat \ {0}) \X (Nat \ {0})
      BY <1>3, <2>1 DEF Points, Buffers
    <3>2. rects[n].log[1] > 0 /\ rects[n].log[2] > 0
      BY <1>5, <2>1
    <3>3. Within(p, rects[n].pos, rects[n].size)
      BY <2>1, <2>2
    <3>4. \A k \in DOMAIN rects \ {n} : ~Within(p, rects[k].pos, rects[k].size)
      BY <1>5, <2>1
    <3> QED BY <2>1, <2>2, <3>1, <3>2, <3>3, <3>4, GoesIn
  <2>4. Motion(rects, geometry, p).value = ToLogical(rects, p)
    BY <2>1, Zenon DEF Motion
  <2> QED BY <2>1, <2>3, <2>4
<1> QED BY <1>4, <1>5

\* The screen's numbers are points and sizes, and every output on it has been heard of:
\* what the arithmetic of the pointer rests on.
THEOREM GeometryAlwaysKept == Spec => []GeometryInv
<1>1. Init => GeometryInv
  BY GeometryInit
<1>2. LayoutInv /\ GeometryInv /\ [Next]_vars => GeometryInv'
  BY GeometryNext
<1> QED BY <1>1, <1>2, LayoutAlwaysKept, PTL DEF Spec

\* PointerMeetsPicture: the picture of each output fills its tile, and a point of it
\* goes into that output's logical rectangle, under every transform and scale.
THEOREM PointerAlwaysMeetsPicture == Spec => []PointerMeetsPicture
<1>1. ASSUME LayoutInv, GeometryInv, FollowersAgree PROVE PointerMeetsPicture
  <2> SUFFICES ASSUME Quiet, ~behind, NEW n \in Enabled(screen),
                      screen.outputs[n].wl # Off,
                      Size(acc[screen.outputs[n].wl].turn, acc[screen.outputs[n].wl].mode)
                        = screen.outputs[n].size
               PROVE  LET o == screen.outputs[n]
                          a == acc[o.wl]
                          drawn == Drawn(a.turn, a.mode, o.pos)
                          alone(p) == \A k \in Enabled(screen) \ {n} :
                                          ~Within(p, screen.outputs[k].pos, screen.outputs[k].size)
                          base == <<o.at[1] - Origin(rects)[1], o.at[2] - Origin(rects)[2]>>
                      IN  /\ drawn = Tile(o.size, o.pos)
                          /\ o.log[1] > 0 /\ o.log[2] > 0 =>
                               \A p \in {p \in drawn : alone(p)} :
                                 Within(Motion(rects, geometry, p).value, base, o.log)
    BY Zenon DEF PointerMeetsPicture
  <2>1. rects = LayoutRects(screen)
    BY <1>1 DEF FollowersAgree
  <2> QED BY <1>1, <2>1, PictureMet
<1> QED BY <1>1, LayoutAlwaysKept, GeometryAlwaysKept, FollowersAlwaysAgree, PTL

=============================================================================

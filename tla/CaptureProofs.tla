----------------------------- MODULE CaptureProofs -----------------------------
(***************************************************************************)
(* What is proved of screen capture, for any outputs, layouts, rows and    *)
(* clients, whichever backend serves and whatever changes, fails, stops or *)
(* is resized how often.                                                   *)
(*                                                                         *)
(* OutInv is about the outputs.  Shape: the two sides hold the same frame  *)
(* and session.  CopyQueue and SessionQueue: what may be on its way at     *)
(* each stage, and in which order (image-copy's session has events of its  *)
(* own, and those of a failed or stopped frame may still be coming: they   *)
(* are ahead of the constraints that make the session ready for another).  *)
(* Drawn: where the framebuffer is out of date a live session has damage,  *)
(* or a frame filled since is coming; and what such a frame shows anew it  *)
(* has damage for.                                                         *)
(*                                                                         *)
(* ClientInv is about the clients, and needs OutInv at the blit alone: the *)
(* rows whose picture the blit changes are within what is reported, as the *)
(* compositor's damage covers them or they are the hull of a difference.   *)
(***************************************************************************)
EXTENDS Capture, SequenceTheorems, WellFoundedInduction, TLAPS

-----------------------------------------------------------------------------
(* Queues.                                                                 *)

\* Some element of q is one of P; all are; those after one of P are all of R.
Has(q, P) == \E j \in DOMAIN q : q[j] \in P
All(q, P) == \A j \in DOMAIN q : q[j] \in P
After(q, P, R) == \A j, l \in DOMAIN q : j < l /\ q[j] \in P => q[l] \in R

\* Queues put one after the other.
LEMMA ConcatQueue ==
  ASSUME NEW S, NEW q \in Seq(S), NEW r \in Seq(S)
  PROVE  /\ q \o r \in Seq(S)
         /\ \A P : /\ Has(q \o r, P) <=> Has(q, P) \/ Has(r, P)
                   /\ All(q, P) /\ All(r, P) => All(q \o r, P)
         /\ \A P, R : After(q, P, R) /\ After(r, P, R) /\ (Has(q, P) => All(r, R)) => After(q \o r, P, R)
<1> DEFINE b == q \o r
<1>1. /\ b \in Seq(S) /\ Len(b) = Len(q) + Len(r) /\ Len(q) \in Nat /\ Len(r) \in Nat
      /\ DOMAIN q = 1 .. Len(q) /\ DOMAIN r = 1 .. Len(r) /\ DOMAIN b = 1 .. Len(b)
  BY LenProperties, ConcatProperties
<1>2. /\ \A j \in 1 .. Len(q) : b[j] = q[j]
      /\ \A j \in 1 .. Len(r) : b[Len(q) + j] = r[j]
  BY <1>1, ConcatProperties
<1> HIDE DEF b
<1>3. /\ \A j \in DOMAIN q : j \in DOMAIN b /\ b[j] = q[j]
      /\ \A j \in DOMAIN r : Len(q) + j \in DOMAIN b /\ b[Len(q) + j] = r[j]
  BY <1>1, <1>2
<1>4. \A j \in DOMAIN b : \/ j \in DOMAIN q /\ b[j] = q[j]
                          \/ /\ j \notin DOMAIN q
                             /\ j - Len(q) \in DOMAIN r /\ b[j] = r[j - Len(q)]
  <2> SUFFICES ASSUME NEW j \in DOMAIN b, j \notin DOMAIN q
               PROVE  j - Len(q) \in DOMAIN r /\ b[j] = r[j - Len(q)]
    BY <1>3
  <2>1. j - Len(q) \in DOMAIN r /\ Len(q) + (j - Len(q)) = j
    BY <1>1
  <2> QED BY <1>2, <1>1, <2>1
<1>5. ASSUME NEW P PROVE Has(b, P) <=> Has(q, P) \/ Has(r, P)
  BY <1>3, <1>4 DEF Has
<1>6. ASSUME NEW P PROVE All(q, P) /\ All(r, P) => All(b, P)
  BY <1>4 DEF All
<1>7. ASSUME NEW P, NEW R, After(q, P, R), After(r, P, R), Has(q, P) => All(r, R)
      PROVE  After(b, P, R)
  <2> SUFFICES ASSUME NEW j \in DOMAIN b, NEW l \in DOMAIN b, j < l, b[j] \in P PROVE b[l] \in R
    BY DEF After
  <2>1. CASE j \in DOMAIN q /\ l \in DOMAIN q
    BY <1>3, <1>7, <2>1 DEF After
  <2>2. CASE j \in DOMAIN q /\ l \notin DOMAIN q
    <3>1. Has(q, P) /\ l - Len(q) \in DOMAIN r /\ b[l] = r[l - Len(q)]
      BY <1>3, <1>4, <2>2 DEF Has
    <3> QED BY <1>7, <3>1 DEF All
  <2>3. CASE j \notin DOMAIN q
    <3>1. l \notin DOMAIN q
      BY <1>1, <2>3
    <3>2. /\ j - Len(q) \in DOMAIN r /\ b[j] = r[j - Len(q)]
          /\ l - Len(q) \in DOMAIN r /\ b[l] = r[l - Len(q)]
      BY <1>4, <2>3, <3>1
    <3>3. j - Len(q) < l - Len(q)
      BY <1>1
    <3> QED BY <1>7, <3>2, <3>3 DEF After
  <2> QED BY <2>1, <2>2, <2>3
<1> QED BY <1>1, <1>5, <1>6, <1>7 DEF b

\* The queue once its head is taken.
LEMMA TailQueue ==
  ASSUME NEW S, NEW q \in Seq(S), q # <<>>
  PROVE  /\ Tail(q) \in Seq(S) /\ Head(q) \in S
         /\ \A P : /\ Has(q, P) <=> Head(q) \in P \/ Has(Tail(q), P)
                   /\ All(q, P) => All(Tail(q), P) /\ Head(q) \in P
         /\ \A P, R : After(q, P, R) => After(Tail(q), P, R) /\ (Head(q) \in P => All(Tail(q), R))
<1> DEFINE t == Tail(q)
<1>1. /\ t \in Seq(S) /\ Head(q) \in S /\ Len(t) = Len(q) - 1 /\ Len(q) \in Nat \ {0}
      /\ \A j \in 1 .. Len(t) : t[j] = q[j + 1]
  BY HeadTailProperties, EmptySeq
<1>2. DOMAIN q = 1 .. Len(q) /\ DOMAIN t = 1 .. Len(t) /\ Head(q) = q[1]
  BY <1>1
<1> HIDE DEF t
<1>3. \A j \in DOMAIN t : /\ j + 1 \in DOMAIN q /\ t[j] = q[j + 1] /\ 1 < j + 1
                          /\ \A l \in DOMAIN t : j < l => j + 1 < l + 1
  BY <1>1, <1>2
<1>4. \A j \in DOMAIN q : j = 1 \/ (j - 1 \in DOMAIN t /\ t[j - 1] = q[j])
  <2> SUFFICES ASSUME NEW j \in DOMAIN q, j # 1 PROVE j - 1 \in DOMAIN t /\ t[j - 1] = q[j]
    OBVIOUS
  <2>1. j - 1 \in DOMAIN t /\ j - 1 + 1 = j
    BY <1>1, <1>2
  <2> QED BY <1>3, <2>1
<1>5. 1 \in DOMAIN q
  BY <1>1, <1>2
<1>6. ASSUME NEW P PROVE Has(q, P) <=> Head(q) \in P \/ Has(t, P)
  <2>1. Has(q, P) => Head(q) \in P \/ Has(t, P)
    BY <1>2, <1>4 DEF Has
  <2>2. Head(q) \in P \/ Has(t, P) => Has(q, P)
    BY <1>2, <1>3, <1>5 DEF Has
  <2> QED BY <2>1, <2>2
<1>7. ASSUME NEW P PROVE All(q, P) => All(t, P) /\ Head(q) \in P
  BY <1>2, <1>3, <1>5 DEF All
<1>8. ASSUME NEW P, NEW R PROVE After(q, P, R) => After(t, P, R) /\ (Head(q) \in P => All(t, R))
  BY <1>2, <1>3, <1>5 DEF After, All
<1> QED BY <1>1, <1>6, <1>7, <1>8 DEF t

\* A queue is not of what it has none of, and no order is of what is not there.
LEMMA QueueSets ==
  \A q, P, Q : /\ All(q, P) /\ P \subseteq Q => All(q, Q)
               /\ Has(q, P) /\ P \subseteq Q => Has(q, Q)
               /\ All(q, P) /\ P \cap Q = {} => ~Has(q, Q)
               /\ ~Has(q, P) => After(q, P, Q)
               /\ All(q, Q) => After(q, P, Q)
               /\ \A R : After(q, P, Q) /\ Q \subseteq R => After(q, P, R)
               /\ \A R : After(q, P, R) /\ Q \subseteq P => After(q, Q, R)
BY DEF All, Has, After

-----------------------------------------------------------------------------
(* Regions.                                                                *)

\* Sets of rows that have a last one.
Regions == {rows \in SUBSET Nat : \E last \in Nat : \A r \in rows : r <= last}

\* The order of the natural numbers, as a relation, is well founded.
LEMMA NatOrder ==
  \E R : IsWellFoundedOn(R, Nat) /\ \A x, y \in Nat : <<y, x>> \in R <=> y < x
<1>1. IsWellFoundedOn({p \in Nat \X Nat : p[1] < p[2]}, Nat)
  BY NatLessThanWellFounded DEF OpToRel
<1>2. \A x, y \in Nat : <<y, x>> \in {p \in Nat \X Nat : p[1] < p[2]} <=> y < x
  OBVIOUS
<1> QED BY <1>1, <1>2, Zenon

\* A set of natural numbers has a least one.
LEMMA Least ==
  ASSUME NEW S \in SUBSET Nat, S # {}
  PROVE  \E n \in S : \A m \in S : n <= m
<1>1. PICK R : IsWellFoundedOn(R, Nat) /\ \A x, y \in Nat : <<y, x>> \in R <=> y < x
  BY NatOrder
<1>2. PICK n \in S : \A m \in S : ~(<<m, n>> \in R)
  BY <1>1, WFMin
<1>3. ASSUME NEW m \in S PROVE n <= m
  <2>1. n \in Nat /\ m \in Nat
    OBVIOUS
  <2>2. ~(m < n)
    BY <1>1, <1>2, <2>1, Zenon
  <2> QED BY <2>1, <2>2
<1> QED BY <1>3

\* A region has a first row, a last one, and all of it lies between.
LEMMA HullCovers ==
  ASSUME NEW rows \in Regions
  PROVE  rows \subseteq Hull(rows) /\ Hull(rows) \in Regions
<1>1. CASE rows = {}
  BY <1>1 DEF Hull
<1>2. CASE rows # {}
  <2>1. rows \in SUBSET Nat
    BY DEF Regions
  <2>2. PICK last \in Nat : \A r \in rows : r <= last
    BY DEF Regions
  <2>3. Min(rows) \in rows /\ \A r \in rows : Min(rows) <= r
    <3>1. \E x \in rows : \A y \in rows : x <= y
      BY <1>2, <2>1, Least
    <3> QED BY <3>1 DEF Min
  <2>4. Max(rows) \in rows /\ \A r \in rows : Max(rows) >= r
    <3> DEFINE above == {m \in Nat : \A r \in rows : r <= m}
    <3>1. above \in SUBSET Nat /\ above # {}
      BY <2>2
    <3>2. PICK m \in above : \A y \in above : m <= y
      BY <3>1, Least
    <3>3. m \in rows
      <4> SUFFICES ASSUME m \notin rows PROVE FALSE
        OBVIOUS
      <4>1. PICK x \in rows : TRUE
        BY <1>2
      <4>2. m \in Nat /\ m - 1 \in Nat
        BY <2>1, <4>1
      <4>3. \A r \in rows : r <= m - 1
        BY <2>1, <4>2
      <4>4. m - 1 \in above
        BY <4>2, <4>3
      <4> QED BY <3>2, <4>2, <4>4
    <3>4. \A y \in rows : m >= y
      BY <2>1
    <3>5. \E x \in rows : \A y \in rows : x >= y
      BY <3>3, <3>4
    <3> QED BY <3>5 DEF Max
  <2>5. Hull(rows) = Min(rows) .. Max(rows)
    BY <1>2 DEF Hull
  <2>6. Min(rows) \in Nat /\ Max(rows) \in Nat
    BY <2>1, <2>3, <2>4
  <2>7. rows \subseteq Hull(rows)
    BY <2>1, <2>3, <2>4, <2>5, <2>6
  <2>8. Hull(rows) \in Regions
    <3>1. Hull(rows) \in SUBSET Nat /\ \A r \in Hull(rows) : r <= Max(rows)
      BY <2>5, <2>6
    <3> QED BY <2>6, <3>1 DEF Regions
  <2> QED BY <2>7, <2>8
<1> QED BY <1>1, <1>2

\* Regions put together are regions, and so is part of one.
LEMMA RegionSets ==
  /\ {} \in Regions
  /\ \A R, S \in Regions : R \cup S \in Regions
  /\ \A R \in Regions : \A S : R \cap S \in Regions /\ S \cap R \in Regions /\ R \ S \in Regions
  /\ \A n \in Int : 1 .. n \in Regions
<1>1. {} \in Regions
  BY DEF Regions
<1>2. ASSUME NEW R \in Regions, NEW S \in Regions PROVE R \cup S \in Regions
  <2>1. PICK a \in Nat : \A r \in R : r <= a
    BY DEF Regions
  <2>2. PICK b \in Nat : \A r \in S : r <= b
    BY DEF Regions
  <2>3. R \subseteq Nat /\ S \subseteq Nat /\ a + b \in Nat
    BY DEF Regions
  <2>4. \A r \in R \cup S : r <= a + b
    BY <2>1, <2>2, <2>3
  <2> QED BY <2>3, <2>4 DEF Regions
<1>3. ASSUME NEW R \in Regions, NEW S PROVE R \cap S \in Regions /\ S \cap R \in Regions /\ R \ S \in Regions
  BY DEF Regions
<1>4. ASSUME NEW n \in Int PROVE 1 .. n \in Regions
  <2>1. CASE n \in Nat
    <3>1. 1 .. n \in SUBSET Nat /\ \A r \in 1 .. n : r <= n
      BY <2>1
    <3> QED BY <2>1, <3>1 DEF Regions
  <2>2. CASE n \notin Nat
    <3>1. 1 .. n = {}
      BY <2>2
    <3> QED BY <1>1, <3>1
  <2> QED BY <2>1, <2>2
<1> QED BY <1>1, <1>2, <1>3, <1>4

-----------------------------------------------------------------------------
(* The invariant of one output's frames.                                   *)

\* What events carry: a number of rows, a set of them, or why a frame failed.
Numbers == 0 .. MaxRows
RowSets == SUBSET Rows(MaxRows)
Reasons == {"constraints", "stopped", "unknown"}
Contents == Numbers \cup RowSets \cup Reasons

\* An event is of a frame, or of the session.
Event ==
  {e \in [kind : SessionKinds \cup CopyKinds \cup {"damage", "ready", "failed"},
          frame : 0 .. 3, rows : Contents] :
     /\ e.kind \in {"buffer_size", "buffer"} => e.rows \in Numbers
     /\ e.kind = "damage" => e.rows \in RowSets
     /\ e.frame = 0 <=> e.kind \in SessionKinds}

Kind(kinds) == {e \in Event : e.kind \in kinds}
Of(f) == {e \in Event : e.frame = f}
Ends(f) == {e \in Event : e.frame = f /\ e.kind \in {"ready", "failed"}}

FrameNames == 0 .. 3
Sessions == {"none", "live", "stopped"}
Stages == {"none", "asked", "offered", "copying", "answered"}

CtxType ==
  [frame : FrameNames, buf : Numbers, due : BOOLEAN, session : BOOLEAN, ready : BOOLEAN,
   size : Numbers, fmt : BOOLEAN, damage : RowSets, pend : Numbers, made : BOOLEAN]

CompType ==
  [size : Numbers, session : Sessions, frame : FrameNames, stage : Stages, with : Numbers,
   damage : RowSets, dup : BOOLEAN]

OutType == [ctx : CtxType, comp : CompType, q : Seq(Event), news : RowSets, behind : RowSets]

\* Both sides hold the same frame and session.
Shape(s) ==
  /\ s.comp.frame = s.ctx.frame /\ ~s.comp.dup
  /\ s.ctx.frame = 0 <=> s.comp.stage = "none"
  /\ s.comp.stage = "copying" => s.comp.with = s.ctx.buf
  /\ s.comp.session # "none" <=> s.ctx.session
  /\ s.ctx.session \/ s.ctx.frame # 0 => s.ctx.made

\* With screencopy nothing is on its way but what the frame's stage has sent.
CopyQueue(s, under) ==
  /\ ~s.ctx.session
  /\ s.comp.stage \in {"none", "asked", "copying"} => s.q = <<>>
  /\ s.comp.stage = "offered" =>
       All(s.q, Of(s.ctx.frame) \cap Kind(CopyKinds)) /\ After(s.q, Kind({"buffer_done"}), {})
  /\ s.comp.stage = "answered" /\ under => s.q = <<>>
  /\ s.comp.stage = "answered" /\ ~under => \E e \in Ends(s.ctx.frame) : s.q = <<e>>

\* With image-copy, whatever is left of an earlier frame is dispatched before the
\* session is ready for another: it is ahead of the session's constraints.  An
\* answer is the last of its frame, and a stop the last of its session but for the
\* failure of the frame on it.
SessionQueue(s, under) ==
  LET f == s.ctx.frame IN
  /\ s.comp.stage \in {"none", "copying", "answered"}
  /\ f # 0 => s.ctx.session /\ s.ctx.ready
  /\ s.ctx.ready => All(s.q, Of(0) \cup Of(f))
  /\ After(s.q, Kind({"done"}), Of(0) \cup Of(f))
  /\ Has(s.q, Kind({"stopped"})) => s.comp.session = "stopped"
  /\ After(s.q, Kind({"stopped"}), Kind({"failed"}))
  /\ f # 0 => All(s.q, (Event \ Of(f)) \cup Kind({"damage", "ready", "failed"}))
  /\ f # 0 /\ Has(s.q, Of(f)) => s.comp.stage = "answered" /\ ~under
  /\ f # 0 => After(s.q, Ends(f), Event \ Of(f))
  /\ s.comp.stage = "answered" /\ ~under => Has(s.q, Ends(f))

\* What holds of an output with the given backend, `under` if its frame is being
\* put on the framebuffer.
Good(s, b, under) ==
  /\ Shape(s)
  /\ s.ctx.made => b \in {"screencopy", "imagecopy"}
  /\ s.ctx.made /\ b = "screencopy" => CopyQueue(s, under)
  /\ s.ctx.made /\ b = "imagecopy" => SessionQueue(s, under)
  /\ under => s.comp.stage = "answered"

Reports(o) == ready # NoFrame /\ ready.out = o

FramesOf(o) ==
  /\ Good(out[o], backend, Reports(o))
  /\ out[o].ctx.made => o \in present
  /\ o \in present /\ ~out[o].ctx.made => out[o].q = <<>>

FramesInv == \A o \in Outputs : FramesOf(o)

-----------------------------------------------------------------------------
(* The invariant of what pictures differ.                                  *)

\* The damage of row r, and that a frame that was filled is on its way.
Damages(f, r) == {e \in Event : e.frame = f /\ e.kind = "damage" /\ r \in e.rows}
Filling(s) == s.ctx.frame # 0 /\ Has(s.q, Ends(s.ctx.frame) \cap Kind({"ready"}))

\* Where an output's picture differs from the compositor's (old), a live session
\* will damage it, unless a frame that was filled since will show it, or is being
\* blitted; and where a frame of a session shows something new, it is damaged.
\* Wiped rows are excepted.
Drawn(s, old, wiped, b, blits) ==
  /\ old \subseteq Rows(s.comp.size) /\ s.behind \subseteq Rows(s.comp.size)
  /\ s.comp.session = "live" =>
       IF Filling(s) THEN s.behind \subseteq s.comp.damage
       ELSE ~blits => old \subseteq s.comp.damage \cup wiped
  /\ b = "imagecopy" /\ Filling(s) =>
       \A r \in s.news : r \in s.ctx.damage \cup wiped \/ Has(s.q, Damages(s.ctx.frame, r))

Blitting(o) == ready.step = "blit" /\ ready.out = o

PicturesOf(o) ==
  /\ Drawn(out[o], stale[o], blank[o], backend, Blitting(o))
  /\ Blitting(o) =>
       /\ ready.behind \subseteq Rows(out[o].comp.size)
       /\ out[o].comp.session = "live" => ready.behind \subseteq out[o].comp.damage
       /\ ~ready.diff => ready.news \subseteq ready.damage \cup blank[o]
       /\ ready.at.place[o] # layout.place[o] => blank[o] = Rows(MaxRows)

PicturesInv == \A o \in Outputs : PicturesOf(o)

BlitSteps ==
  [step : {"blit"}, out : Outputs, active : BOOLEAN, at : Layouts, rows : RowSets, news : RowSets,
   behind : RowSets, diff : BOOLEAN, damage : RowSets]
ReportSteps == [step : {"report"}, out : Outputs, rows : Regions]

OutputsType ==
  /\ layout \in Layouts
  /\ stale \in [Outputs -> RowSets] /\ blank \in [Outputs -> RowSets]
  /\ ready \in {NoFrame} \cup BlitSteps \cup ReportSteps
  /\ out \in [Outputs -> OutType] /\ present \in SUBSET Outputs
  /\ backend \in {"none", "screencopy", "imagecopy"}

OutInv == OutputsType /\ FramesInv /\ PicturesInv

-----------------------------------------------------------------------------
(* The operators on one output keep what holds of it.                      *)

\* The kinds of event a frame has, and a session.
LEMMA Kinds ==
  /\ Of(0) = Kind(SessionKinds)
  /\ \A f : f # 0 => Of(f) \subseteq Kind(CopyKinds \cup {"damage", "ready", "failed"})
  /\ \A f : Ends(f) \subseteq Of(f) /\ Ends(f) = Of(f) \cap Kind({"ready", "failed"})
  /\ \A f, g : f # g => Of(f) \cap Of(g) = {}
  /\ \A e \in Event : e \in Of(e.frame)
BY DEF Of, Ends, Kind, Event, SessionKinds, CopyKinds

\* A compositor's side and a context of which some fields are others.
LEMMA SetComp ==
  ASSUME NEW c \in CompType
  PROVE  /\ \A f \in FrameNames, g \in Stages, h \in Numbers :
              [c EXCEPT !.frame = f, !.stage = g, !.with = h] \in CompType
         /\ \A f \in FrameNames, g \in Stages, h \in Numbers, p \in BOOLEAN :
              [c EXCEPT !.dup = p, !.frame = f, !.stage = g, !.with = h] \in CompType
         /\ \A g \in Stages, h \in Numbers : [c EXCEPT !.stage = g, !.with = h] \in CompType
         /\ \A f \in FrameNames, g \in Stages : [c EXCEPT !.frame = f, !.stage = g] \in CompType
         /\ \A g \in Stages, r \in RowSets : [c EXCEPT !.stage = g, !.damage = r] \in CompType
         /\ \A g \in Stages : [c EXCEPT !.stage = g] \in CompType
         /\ \A k \in Sessions, r \in RowSets : [c EXCEPT !.session = k, !.damage = r] \in CompType
         /\ \A k \in Sessions : [c EXCEPT !.session = k] \in CompType
         /\ \A n \in Numbers, r \in RowSets : [c EXCEPT !.size = n, !.damage = r] \in CompType
         /\ \A n \in Numbers : [c EXCEPT !.size = n] \in CompType
         /\ \A r \in RowSets : [c EXCEPT !.damage = r] \in CompType
BY DEF CompType

LEMMA SetCtx ==
  ASSUME NEW c \in CtxType
  PROVE  /\ \A k, y, m, d \in BOOLEAN, n \in Numbers :
              [c EXCEPT !.session = k, !.ready = y, !.size = n, !.fmt = m, !.due = d] \in CtxType
         /\ \A f \in FrameNames, k, y, m, d \in BOOLEAN, n \in Numbers :
              [c EXCEPT !.frame = f, !.session = k, !.ready = y, !.size = n, !.fmt = m, !.due = d]
                \in CtxType
         /\ \A f \in FrameNames, b \in Numbers, r \in RowSets :
              [c EXCEPT !.frame = f, !.buf = b, !.damage = r] \in CtxType
         /\ \A f \in FrameNames, d \in BOOLEAN, b \in Numbers :
              [c EXCEPT !.frame = f, !.due = d, !.buf = b] \in CtxType
         /\ \A f \in FrameNames, d \in BOOLEAN, r \in RowSets :
              [c EXCEPT !.frame = f, !.damage = r, !.due = d] \in CtxType
         /\ \A f \in FrameNames, d \in BOOLEAN : [c EXCEPT !.frame = f, !.due = d] \in CtxType
         /\ \A f \in FrameNames : [c EXCEPT !.frame = f] \in CtxType
         /\ \A d \in BOOLEAN : [c EXCEPT !.due = d] \in CtxType
         /\ \A n \in Numbers : [c EXCEPT !.size = n] \in CtxType
         /\ \A m \in BOOLEAN : [c EXCEPT !.fmt = m] \in CtxType
         /\ \A y \in BOOLEAN : [c EXCEPT !.ready = y] \in CtxType
         /\ \A r \in RowSets : [c EXCEPT !.damage = r] \in CtxType
         /\ \A b, n \in Numbers : [c EXCEPT !.buf = b, !.pend = n] \in CtxType
         /\ \A n \in Numbers : [c EXCEPT !.pend = n] \in CtxType
BY ZenonT(30) DEF CtxType

\* What the initial states and the resets are made of.
LEMMA Constants ==
  /\ 0 \in Numbers /\ 0 \in FrameNames
  /\ "none" \in Stages /\ "asked" \in Stages /\ "offered" \in Stages /\ "copying" \in Stages
  /\ "answered" \in Stages /\ "none" \in Sessions /\ "live" \in Sessions /\ "stopped" \in Sessions
  /\ {} \in RowSets
BY LayoutsAssumption DEF Numbers, FrameNames, Stages, Sessions, RowSets

\* The compositor's side once its frame is destroyed.
LEMMA FrameGone ==
  ASSUME NEW c \in CompType
  PROVE  LET d == [c EXCEPT !.frame = 0, !.stage = "none", !.with = 0] IN
         /\ d \in CompType /\ d.frame = 0 /\ d.stage = "none" /\ d.with = 0
         /\ d.size = c.size /\ d.session = c.session /\ d.damage = c.damage /\ d.dup = c.dup
<1>1. [c EXCEPT !.frame = 0, !.stage = "none", !.with = 0] \in CompType
  BY SetComp, Constants
<1> QED BY <1>1 DEF CompType

\* The fields of an output whose frame is destroyed.
LEMMA Destroyed ==
  ASSUME NEW s \in OutType
  PROVE  LET t == DestroyFrame(s) IN
         /\ t \in OutType
         /\ t.ctx = s.ctx /\ t.q = s.q /\ t.news = s.news /\ t.behind = s.behind
         /\ t.comp \in CompType
         /\ t.comp.frame = 0 /\ t.comp.stage = "none" /\ t.comp.with = 0
         /\ t.comp.size = s.comp.size /\ t.comp.session = s.comp.session
         /\ t.comp.damage = s.comp.damage /\ t.comp.dup = s.comp.dup
<1> DEFINE c == [s.comp EXCEPT !.frame = 0, !.stage = "none", !.with = 0]
<1>1. s.comp \in CompType
  BY DEF OutType
<1>2. /\ c \in CompType /\ c.frame = 0 /\ c.stage = "none" /\ c.with = 0
      /\ c.size = s.comp.size /\ c.session = s.comp.session
      /\ c.damage = s.comp.damage /\ c.dup = s.comp.dup
  BY <1>1, FrameGone
<1>3. DestroyFrame(s) = [s EXCEPT !.comp = c]
  BY <1>1 DEF DestroyFrame, OutType, CompType
<1> HIDE DEF c
<1> QED BY <1>2, <1>3 DEF OutType

\* A context that is not there, one just made, and an output no one captures.
LEMMA NewCtxs ==
  /\ NoCtx \in CtxType /\ NewCtx \in CtxType
  /\ ~NoCtx.made /\ ~NoCtx.session /\ NoCtx.frame = 0
  /\ NewCtx.made /\ ~NewCtx.session /\ NewCtx.frame = 0 /\ ~NewCtx.ready
  /\ NewCtx.damage = {}
  /\ \A n \in Numbers : /\ IdleComp(n) \in CompType /\ IdleComp(n).frame = 0 /\ ~IdleComp(n).dup
                        /\ IdleComp(n).stage = "none" /\ IdleComp(n).session = "none"
                        /\ IdleComp(n).size = n
BY Constants DEF NoCtx, NewCtx, IdleComp, CtxType, CompType

\* Events of a session, and of a frame.
LEMMA Events ==
  /\ \A n \in Numbers :
       /\ [kind |-> "buffer_size", frame |-> 0, rows |-> n] \in Event
       /\ \A f \in 1 .. 3 : [kind |-> "buffer", frame |-> f, rows |-> n] \in Event
  /\ \A kind \in SessionKinds \ {"buffer_size"}, why \in {0, {}} :
       [kind |-> kind, frame |-> 0, rows |-> why] \in Event
  /\ \A f \in 1 .. 3 :
       /\ [kind |-> "buffer_done", frame |-> f, rows |-> 0] \in Event
       /\ [kind |-> "ready", frame |-> f, rows |-> {}] \in Event
       /\ \A rows \in RowSets : [kind |-> "damage", frame |-> f, rows |-> rows] \in Event
       /\ \A why \in Reasons : [kind |-> "failed", frame |-> f, rows |-> why] \in Event
<1>1. /\ Numbers \subseteq Contents /\ RowSets \subseteq Contents /\ {} \in RowSets
      /\ 0 \in Contents /\ {} \in Contents
      /\ Reasons \subseteq Contents
  BY Constants DEF Contents
<1>2. 0 \in 0 .. 3 /\ \A f \in 1 .. 3 : f \in 0 .. 3 /\ f # 0
  OBVIOUS
<1> QED BY <1>1, <1>2 DEF Event, SessionKinds, CopyKinds

\* The oldest event is taken off the queue, and is not the answer to the frame.
LEMMA Popped ==
  ASSUME NEW s \in OutType, NEW b, Good(s, b, FALSE), s.q # <<>>, Head(s.q) \notin Ends(s.ctx.frame)
  PROVE  LET t == [s EXCEPT !.q = Tail(@)] IN
         /\ t \in OutType /\ t.ctx = s.ctx /\ t.comp = s.comp /\ t.q = Tail(s.q)
         /\ t.news = s.news /\ t.behind = s.behind /\ Good(t, b, FALSE)
<1> DEFINE t == [s EXCEPT !.q = Tail(@)]
<1>1. /\ t \in OutType /\ t.ctx = s.ctx /\ t.comp = s.comp /\ t.q = Tail(s.q)
      /\ t.news = s.news /\ t.behind = s.behind /\ s.q \in Seq(Event)
  BY TailQueue DEF OutType
<1> HIDE DEF t
<1>2. Shape(t)
  BY <1>1 DEF Good, Shape
<1>3. ASSUME CopyQueue(s, FALSE) PROVE CopyQueue(t, FALSE)
  <2>1. CASE s.comp.stage = "offered"
    BY <1>1, <1>3, <2>1, TailQueue DEF CopyQueue
  <2>2. CASE s.comp.stage = "answered"
    BY <1>1, <1>3, <2>2 DEF CopyQueue
  <2> QED BY <1>1, <1>3, <2>1, <2>2 DEF CopyQueue
<1>4. ASSUME SessionQueue(s, FALSE) PROVE SessionQueue(t, FALSE)
  <2>1. \A P : /\ Has(t.q, P) => Has(s.q, P)
               /\ All(s.q, P) => All(t.q, P)
               /\ Head(s.q) \notin P => (Has(s.q, P) <=> Has(t.q, P))
    BY <1>1, TailQueue
  <2>2. \A P, R : After(s.q, P, R) => After(t.q, P, R)
    BY <1>1, TailQueue
  <2> QED BY <1>1, <1>4, <2>1, <2>2 DEF SessionQueue
<1>5. Good(t, b, FALSE)
  BY <1>1, <1>2, <1>3, <1>4 DEF Good
<1> QED BY <1>1, <1>5 DEF t

\* It is: the frame stays, answered, with nothing of it on its way.
LEMMA Answered ==
  ASSUME NEW s \in OutType, NEW b, Good(s, b, FALSE), s.q # <<>>, Head(s.q) \in Ends(s.ctx.frame),
         s.ctx.frame # 0
  PROVE  LET t == [s EXCEPT !.q = Tail(@)] IN
         /\ t \in OutType /\ t.ctx = s.ctx /\ t.comp = s.comp /\ t.q = Tail(s.q)
         /\ t.news = s.news /\ t.behind = s.behind /\ Good(t, b, TRUE)
<1> DEFINE t == [s EXCEPT !.q = Tail(@)]
<1>1. /\ t \in OutType /\ t.ctx = s.ctx /\ t.comp = s.comp /\ t.q = Tail(s.q)
      /\ t.news = s.news /\ t.behind = s.behind /\ s.q \in Seq(Event) /\ t.q \in Seq(Event)
  BY TailQueue DEF OutType
<1> HIDE DEF t
<1>2. Shape(t) /\ t.ctx.made /\ s.comp.stage # "none" /\ s.comp.stage \in Stages
  BY <1>1 DEF Good, Shape, OutType, CompType
<1>3. Head(s.q) \in Of(s.ctx.frame) /\ Head(s.q) \notin Kind(CopyKinds)
  BY Kinds DEF Ends, Kind, CopyKinds
<1>4. ASSUME CopyQueue(s, FALSE) PROVE CopyQueue(t, TRUE) /\ t.comp.stage = "answered"
  <2>1. s.comp.stage # "offered"
    <3> SUFFICES ASSUME s.comp.stage = "offered" PROVE FALSE
      OBVIOUS
    <3>1. All(s.q, Of(s.ctx.frame) \cap Kind(CopyKinds))
      BY <1>4 DEF CopyQueue
    <3> QED BY <1>1, <1>3, <3>1, TailQueue
  <2>2. s.comp.stage = "answered"
    BY <1>2, <1>4, <2>1 DEF CopyQueue, Stages
  <2>3. PICK e \in Ends(s.ctx.frame) : s.q = <<e>>
    BY <1>4, <2>2 DEF CopyQueue
  <2>4. Tail(s.q) = <<>>
    BY <2>3
  <2> QED BY <1>1, <1>4, <2>2, <2>4 DEF CopyQueue
<1>5. ASSUME SessionQueue(s, FALSE) PROVE SessionQueue(t, TRUE) /\ t.comp.stage = "answered"
  <2>1. \A P : /\ Has(t.q, P) => Has(s.q, P)
               /\ All(s.q, P) => All(t.q, P)
               /\ Head(s.q) \in P => Has(s.q, P)
    BY <1>1, TailQueue
  <2>2. \A P, R : After(s.q, P, R) => After(t.q, P, R) /\ (Head(s.q) \in P => All(t.q, R))
    BY <1>1, TailQueue
  <2>3. s.comp.stage = "answered" /\ All(t.q, Event \ Of(s.ctx.frame))
    BY <1>1, <1>3, <1>5, <2>1, <2>2 DEF SessionQueue
  <2>4. ~Has(t.q, Of(s.ctx.frame))
    BY <2>3 DEF All, Has
  <2> QED BY <1>1, <1>5, <2>1, <2>2, <2>3, <2>4 DEF SessionQueue
<1>6. Good(t, b, TRUE)
  BY <1>1, <1>2, <1>4, <1>5 DEF Good
<1> QED BY <1>1, <1>6 DEF t

\* A frame of which nothing is on its way ends.
LEMMA FrameEnds ==
  ASSUME NEW s \in OutType, NEW b, NEW t \in OutType, Good(s, b, TRUE),
         t.q = s.q, t.comp.frame = 0, t.comp.stage = "none", t.ctx.frame = 0,
         t.comp.session = s.comp.session, t.comp.dup = s.comp.dup,
         t.ctx.session = s.ctx.session, t.ctx.ready = s.ctx.ready, t.ctx.made = s.ctx.made
  PROVE  Good(t, b, FALSE)
<1>1. Shape(t) /\ s.comp.stage = "answered" /\ s.ctx.frame # 0 /\ s.q \in Seq(Event)
  BY DEF Shape, Good, OutType
<1>2. ASSUME CopyQueue(s, TRUE) PROVE CopyQueue(t, FALSE)
  BY <1>1, <1>2 DEF CopyQueue
<1>3. ASSUME SessionQueue(s, TRUE) PROVE SessionQueue(t, FALSE)
  <2>1. ~Has(s.q, Of(s.ctx.frame))
    BY <1>1, <1>3 DEF SessionQueue
  <2>2. t.ctx.ready => All(t.q, Of(0) \cup Of(0))
    BY <1>3, <2>1 DEF SessionQueue, All, Has
  <2>3. After(t.q, Kind({"done"}), Of(0) \cup Of(0))
    BY <1>3, <2>1 DEF SessionQueue, After, Has
  <2> QED BY <1>3, <2>2, <2>3 DEF SessionQueue
<1> QED BY <1>1, <1>2, <1>3 DEF Good

\* No frame is filled after the step, and the session's damage is what it was or all.
Calm(s, t) ==
  /\ t.behind = s.behind /\ t.comp.size = s.comp.size /\ ~Filling(t)
  /\ t.comp.session = "live" =>
       \/ s.comp.session = "live" /\ t.comp.damage = s.comp.damage
       \/ t.comp.damage = Rows(t.comp.size)

\* Such a step leaves right what is said of the pictures.
LEMMA CalmDrawn ==
  ASSUME NEW s, NEW t, NEW old, NEW wiped, NEW b, NEW b2, NEW blits, Calm(s, t),
         ~Filling(s) \/ t.comp.session # "live", Drawn(s, old, wiped, b, blits)
  PROVE  Drawn(t, old, wiped, b2, blits)
BY DEF Calm, Drawn

\* Whatever a frame ends with.
LEMMA Ended ==
  ASSUME NEW s \in OutType, NEW b, Good(s, b, TRUE), NEW x \in CtxType,
         x.frame = 0, x.session = s.ctx.session, x.ready = s.ctx.ready, x.made = s.ctx.made
  PROVE  LET t == DestroyFrame([s EXCEPT !.ctx = x]) IN
         t \in OutType /\ t.ctx = x /\ t.q = s.q /\ Good(t, b, FALSE) /\ Calm(s, t)
<1> DEFINE u == [s EXCEPT !.ctx = x]
           t == DestroyFrame(u)
<1>1. /\ u \in OutType /\ u.ctx = x /\ u.comp = s.comp /\ u.q = s.q
      /\ u.news = s.news /\ u.behind = s.behind
  BY DEF OutType
<1> HIDE DEF u
<1>2. /\ t \in OutType
      /\ t.ctx = u.ctx /\ t.q = u.q /\ t.news = u.news /\ t.behind = u.behind
      /\ t.comp.frame = 0 /\ t.comp.stage = "none"
      /\ t.comp.size = u.comp.size /\ t.comp.session = u.comp.session
      /\ t.comp.damage = u.comp.damage /\ t.comp.dup = u.comp.dup
  BY <1>1, Destroyed
<1> HIDE DEF t
<1>3. Good(t, b, FALSE)
  BY <1>1, <1>2, FrameEnds
<1>4. Calm(s, t)
  BY <1>1, <1>2 DEF Calm, Filling
<1> QED BY <1>1, <1>2, <1>3, <1>4 DEF t, u

EndsAs(s, t, b) ==
  t \in OutType /\ t.ctx.made = s.ctx.made /\ t.q = s.q /\ Good(t, b, FALSE) /\ Calm(s, t)
  /\ t.ctx.frame = 0

\* The three ways a frame is over.
LEMMA FrameOver ==
  ASSUME NEW s \in OutType, NEW b, Good(s, b, TRUE), NEW v \in Numbers
  PROVE  /\ EndsAs(s, DestroyFrame([s EXCEPT !.ctx.frame = 0, !.ctx.due = FALSE, !.ctx.buf = v]), b)
         /\ EndsAs(s, DestroyFrame([s EXCEPT !.ctx.frame = 0, !.ctx.due = FALSE]), b)
         /\ EndsAs(s, DestroyFrame([s EXCEPT !.ctx.frame = 0, !.ctx.damage = {}, !.ctx.due = TRUE]), b)
<1> DEFINE x == [s.ctx EXCEPT !.frame = 0, !.due = FALSE, !.buf = v]
           y == [s.ctx EXCEPT !.frame = 0, !.due = FALSE]
           z == [s.ctx EXCEPT !.frame = 0, !.damage = {}, !.due = TRUE]
<1>1. s.ctx \in CtxType
  BY DEF OutType
<1>2. /\ [s EXCEPT !.ctx.frame = 0, !.ctx.due = FALSE, !.ctx.buf = v] = [s EXCEPT !.ctx = x]
      /\ [s EXCEPT !.ctx.frame = 0, !.ctx.due = FALSE] = [s EXCEPT !.ctx = y]
      /\ [s EXCEPT !.ctx.frame = 0, !.ctx.damage = {}, !.ctx.due = TRUE] = [s EXCEPT !.ctx = z]
  BY <1>1 DEF OutType, CtxType
<1>3. x \in CtxType /\ y \in CtxType /\ z \in CtxType
  BY <1>1, SetCtx, Constants
<1>4. \A c \in {x, y, z} : /\ c.frame = 0 /\ c.session = s.ctx.session
                           /\ c.ready = s.ctx.ready /\ c.made = s.ctx.made
  BY <1>1 DEF CtxType
<1> HIDE DEF x, y, z
<1>5. ASSUME NEW c \in {x, y, z} PROVE EndsAs(s, DestroyFrame([s EXCEPT !.ctx = c]), b)
  <2>1. /\ c \in CtxType /\ c.frame = 0 /\ c.session = s.ctx.session
        /\ c.ready = s.ctx.ready /\ c.made = s.ctx.made
    BY <1>3, <1>4
  <2> QED BY <2>1, Ended DEF EndsAs
<1> QED BY <1>2, <1>5

\* frame_failed, with image-copy.
LEMMA FailedEnds ==
  ASSUME NEW s \in OutType, NEW b, Good(s, b, TRUE), NEW why
  PROVE  EndsAs(s, FrameFailed(s, why), b)
<1> DEFINE v == IF why = "constraints" THEN 0 ELSE s.ctx.buf
<1>1. s.ctx \in CtxType
  BY DEF OutType
<1>2. v \in Numbers
  BY <1>1, Constants DEF CtxType
<1>3. FrameFailed(s, why) = DestroyFrame([s EXCEPT !.ctx.frame = 0, !.ctx.due = FALSE, !.ctx.buf = v])
  BY <1>1 DEF FrameFailed, OutType, CtxType
<1> HIDE DEF v
<1> QED BY <1>2, <1>3, FrameOver

\* frame_failed and frame_ready, with screencopy.
LEMMA CopyEnds ==
  ASSUME NEW s \in OutType, NEW b, Good(s, b, TRUE)
  PROVE  EndsAs(s, CopyFailed(s), b) /\ EndsAs(s, CopyDone(s), b)
<1>1. 0 \in Numbers
  BY Constants
<1> QED BY <1>1, FrameOver DEF CopyFailed, CopyDone

\* The session's constraints, as a queue.
LEMMA ConstraintsSent ==
  ASSUME NEW n \in Numbers
  PROVE  /\ Constraints(n) \in Seq(Event)
         /\ All(Constraints(n), Of(0)) /\ ~Has(Constraints(n), Kind({"stopped"}))
<1> DEFINE x == [kind |-> "buffer_size", frame |-> 0, rows |-> n]
           y == [kind |-> "shm_format", frame |-> 0, rows |-> 0]
           z == [kind |-> "done", frame |-> 0, rows |-> 0]
<1>1. x \in Event /\ y \in Event /\ z \in Event
  BY Events DEF SessionKinds
<1>2. /\ x \in Of(0) /\ y \in Of(0) /\ z \in Of(0)
      /\ x \notin Kind({"stopped"}) /\ y \notin Kind({"stopped"}) /\ z \notin Kind({"stopped"})
  BY <1>1 DEF Of, Kind
<1>3. Constraints(n) = <<x, y, z>>
  BY DEF Constraints
<1> HIDE DEF x, y, z
<1>4. <<x, y, z>> \in Seq(Event)
  BY <1>1
<1>5. /\ All(<<x, y, z>>, Of(0)) /\ ~Has(<<x, y, z>>, Kind({"stopped"}))
  BY <1>2 DEF All, Has
<1> QED BY <1>3, <1>4, <1>5

\* Events sent go behind the queue, and change nothing else.
LEMMA Sent ==
  ASSUME NEW u \in OutType, NEW r \in Seq(Event), NEW t, t = Send(u, r)
  PROVE  /\ t \in OutType /\ t.ctx = u.ctx /\ t.comp = u.comp /\ t.q = u.q \o r
         /\ t.news = u.news /\ t.behind = u.behind
<1>1. u.q \o r \in Seq(Event)
  BY ConcatQueue DEF OutType
<1> QED BY <1>1 DEF Send, OutType

\* More events behind a queue.
LEMMA Appended ==
  ASSUME NEW s \in OutType, NEW r \in Seq(Event)
  PROVE  LET t == Send(s, r) IN
         /\ t \in OutType /\ t.ctx = s.ctx /\ t.comp = s.comp /\ t.q = s.q \o r
         /\ t.news = s.news /\ t.behind = s.behind
         /\ \A P : /\ Has(t.q, P) <=> Has(s.q, P) \/ Has(r, P)
                   /\ All(s.q, P) /\ All(r, P) => All(t.q, P)
         /\ \A P, R : After(s.q, P, R) /\ After(r, P, R) /\ (Has(s.q, P) => All(r, R)) => After(t.q, P, R)
<1> DEFINE t == Send(s, r)
<1>1. s.q \in Seq(Event)
  BY DEF OutType
<1>2. /\ t \in OutType /\ t.ctx = s.ctx /\ t.comp = s.comp /\ t.q = s.q \o r
      /\ t.news = s.news /\ t.behind = s.behind
  BY Sent
<1> HIDE DEF t
<1> QED BY <1>1, <1>2, ConcatQueue DEF t

\* create_ext_session: the queue holds nothing of another session.
LEMMA SessionCreated ==
  ASSUME NEW s \in OutType, Shape(s), s.ctx.made, ~s.ctx.session, s.ctx.frame = 0,
         ~Has(s.q, Kind({"stopped"})), After(s.q, Kind({"done"}), Of(0))
  PROVE  LET t == CreateSession(s) IN
         t \in OutType /\ t.ctx.made /\ t.ctx.frame = 0 /\ Good(t, "imagecopy", FALSE) /\ Calm(s, t)
<1> DEFINE r == Constraints(s.comp.size)
           x == [s.ctx EXCEPT !.session = TRUE, !.ready = FALSE, !.size = 0, !.fmt = FALSE, !.due = FALSE]
           y == [s.comp EXCEPT !.session = "live", !.damage = 1 .. s.comp.size]
           u == [s EXCEPT !.ctx = x, !.comp = y]
           t == CreateSession(s)
<1>1. s.ctx \in CtxType /\ s.comp \in CompType /\ s.comp.size \in Numbers
  BY DEF OutType, CompType
<1>2. 1 .. s.comp.size \in RowSets
  <2>1. s.comp.size \in Nat /\ s.comp.size <= MaxRows
    BY <1>1, LayoutsAssumption DEF Numbers
  <2> QED BY <2>1, LayoutsAssumption DEF RowSets, Rows
<1>3. /\ x \in CtxType /\ x.session /\ ~x.ready /\ x.made = s.ctx.made /\ x.frame = s.ctx.frame
      /\ y \in CompType /\ y.session = "live" /\ y.damage = Rows(s.comp.size) /\ y.size = s.comp.size
      /\ y.frame = s.comp.frame /\ y.stage = s.comp.stage /\ y.dup = s.comp.dup
  <2>1. x \in CtxType
    BY <1>1, SetCtx, Constants
  <2>2. y \in CompType
    BY <1>1, <1>2, SetComp, Constants
  <2> QED BY <1>1, <2>1, <2>2 DEF CtxType, CompType, Rows
<1>4. t = Send(u, r)
  BY <1>1 DEF CreateSession, OutType, CtxType, CompType
<1> HIDE DEF x, y
<1>5. u \in OutType /\ u.ctx = x /\ u.comp = y /\ u.q = s.q /\ u.behind = s.behind
  BY <1>3 DEF OutType
<1> HIDE DEF u
<1>6. r \in Seq(Event) /\ All(r, Of(0)) /\ ~Has(r, Kind({"stopped"}))
  BY <1>1, ConstraintsSent
<1> HIDE DEF r
<1>7. /\ t \in OutType /\ t.ctx = x /\ t.comp = y /\ t.behind = s.behind
      /\ \A P : /\ Has(t.q, P) <=> Has(s.q, P) \/ Has(r, P)
                /\ All(s.q, P) /\ All(r, P) => All(t.q, P)
      /\ \A P, R : After(s.q, P, R) /\ After(r, P, R) /\ (Has(s.q, P) => All(r, R)) => After(t.q, P, R)
  <2> HIDE DEF t
  <2> QED BY <1>4, <1>5, <1>6, Appended
<1> HIDE DEF t
<1>8. Shape(t)
  BY <1>3, <1>7 DEF Shape
<1>9. SessionQueue(t, FALSE)
  <2>1. After(t.q, Kind({"done"}), Of(0) \cup Of(0))
    <3>1. After(r, Kind({"done"}), Of(0))
      BY <1>6, QueueSets
    <3> QED BY <1>6, <1>7, <3>1
  <2>2. ~Has(t.q, Kind({"stopped"}))
    BY <1>6, <1>7
  <2>3. After(t.q, Kind({"stopped"}), Kind({"failed"}))
    BY <2>2, QueueSets
  <2>4. t.comp.stage = "none" /\ t.ctx.frame = 0 /\ ~t.ctx.ready
    BY <1>3, <1>7 DEF Shape
  <2> QED BY <2>1, <2>2, <2>3, <2>4 DEF SessionQueue
<1>10. t.ctx.made /\ t.ctx.frame = 0 /\ Good(t, "imagecopy", FALSE)
  BY <1>3, <1>7, <1>8, <1>9 DEF Good
<1>11. Calm(s, t)
  BY <1>3, <1>7 DEF Calm, Filling
<1> QED BY <1>7, <1>10, <1>11 DEF t

\* There is a name free for a new frame.
LEMMA Fresh ==
  ASSUME NEW s \in OutType, s.comp.frame = 0, s.ctx.frame = 0, All(s.q, Of(0))
  PROVE  FreshFrame(s) \in 1 .. 3
<1> DEFINE Free(f) == /\ f # s.comp.frame /\ f # s.ctx.frame
                      /\ \A e \in ToSet(s.q) : e.frame # f
<1>1. \A e \in ToSet(s.q) : e.frame = 0
  BY DEF ToSet, All, Of
<1>2. 1 \in Frames /\ Free(1)
  BY <1>1 DEF Frames
<1>3. FreshFrame(s) = CHOOSE f \in Frames : Free(f)
  BY DEF FreshFrame
<1> HIDE DEF Free
<1> QED BY <1>2, <1>3 DEF Frames

\* create_frame, when the session is ready and nothing of a frame is left.
LEMMA FrameCreated ==
  ASSUME NEW s \in OutType, Good(s, "imagecopy", FALSE), s.ctx.made, s.ctx.frame = 0,
         s.ctx.session, s.ctx.ready
  PROVE  LET t == CreateFrame(s) IN
         t \in OutType /\ t.ctx.made /\ t.q = s.q /\ Good(t, "imagecopy", FALSE) /\ Calm(s, t)
<1> DEFINE f == FreshFrame(s)
           x == [s.ctx EXCEPT !.frame = f, !.buf = s.ctx.size, !.damage = {}]
           y == [s.comp EXCEPT !.dup = s.comp.dup \/ s.comp.frame # 0,
                               !.frame = f, !.stage = "copying", !.with = s.ctx.size]
           t == CreateFrame(s)
<1>1. s.ctx \in CtxType /\ s.comp \in CompType /\ s.ctx.size \in Numbers /\ s.comp.dup \in BOOLEAN
  BY DEF OutType, CompType, CtxType
<1>2. /\ Shape(s) /\ SessionQueue(s, FALSE) /\ s.comp.frame = 0
      /\ All(s.q, Of(0))
  BY DEF Good, SessionQueue, Shape
<1>3. f \in 1 .. 3 /\ f \in FrameNames
  BY <1>2, Fresh DEF FrameNames
<1>4. t = [s EXCEPT !.ctx = x, !.comp = y]
  BY <1>1 DEF CreateFrame, OutType, CtxType, CompType
<1> HIDE DEF f
<1>5. x \in CtxType /\ y \in CompType
  <2>1. x \in CtxType
    BY <1>1, <1>3, SetCtx, Constants
  <2>2. (s.comp.dup \/ s.comp.frame # 0) \in BOOLEAN
    BY <1>1
  <2>3. y \in CompType
    BY <1>1, <1>3, <2>2, SetComp, Constants
  <2> QED BY <2>1, <2>3
<1>6. /\ x.session = s.ctx.session /\ x.ready = s.ctx.ready /\ x.made = s.ctx.made /\ x.frame = f
      /\ x.buf = s.ctx.size
      /\ y.session = s.comp.session /\ y.damage = s.comp.damage /\ y.size = s.comp.size
      /\ y.frame = f /\ y.stage = "copying" /\ y.with = s.ctx.size
      /\ y.dup = (s.comp.dup \/ s.comp.frame # 0)
  BY <1>1 DEF CtxType, CompType
<1> HIDE DEF x, y
<1>7. /\ t \in OutType /\ t.ctx = x /\ t.comp = y /\ t.q = s.q /\ t.behind = s.behind
  BY <1>4, <1>5 DEF OutType
<1> HIDE DEF t
<1>8. Shape(t)
  <2>1. ~y.dup
    BY <1>2, <1>6, Zenon DEF Shape
  <2>2. f # 0
    BY <1>3
  <2> QED BY <1>2, <1>6, <1>7, <2>1, <2>2 DEF Shape
<1>9. ~Has(t.q, Of(f))
  BY <1>2, <1>3, <1>7 DEF Has, All, Of
<1>10. SessionQueue(t, FALSE)
  <2>1. All(t.q, Of(0) \cup Of(f)) /\ All(t.q, Event \ Of(f))
    BY <1>2, <1>3, <1>7 DEF All, Of
  <2>2. All(t.q, (Event \ Of(f)) \cup Kind({"damage", "ready", "failed"}))
    BY <2>1 DEF All
  <2>3. After(t.q, Kind({"done"}), Of(0) \cup Of(f)) /\ After(t.q, Ends(f), Event \ Of(f))
    BY <2>1, QueueSets
  <2> QED BY <1>2, <1>6, <1>7, <1>9, <2>1, <2>2, <2>3 DEF SessionQueue
<1>11. Calm(s, t)
  <2>1. ~Filling(t)
    BY <1>6, <1>7, <1>9 DEF Filling, Has, Ends, Of
  <2> QED BY <1>6, <1>7, <2>1 DEF Calm
<1> QED BY <1>6, <1>7, <1>8, <1>10, <1>11 DEF t, Good

\* The frame no longer waited on, if any, was none.
LEMMA Unframed ==
  ASSUME NEW s, s.ctx.frame = 0 PROVE ~Filling(s) /\ Calm(s, s)
BY DEF Filling, Calm

\* start_capture_ext, whatever it finds.
LEMMA CaptureStarted ==
  ASSUME NEW s \in OutType, Good(s, "imagecopy", FALSE), s.ctx.frame = 0
  PROVE  LET t == StartCapture(s) IN
         t \in OutType /\ t.ctx.made = s.ctx.made /\ Good(t, "imagecopy", FALSE) /\ Calm(s, t)
         /\ (~s.ctx.made => t = s)
<1> DEFINE t == StartCapture(s)
<1>1. CASE ~s.ctx.made
  BY <1>1, Unframed DEF StartCapture
<1>2. CASE s.ctx.made /\ ~s.ctx.session
  <2>1. t = CreateSession(s)
    BY <1>2 DEF StartCapture
  <2>2. Shape(s) /\ SessionQueue(s, FALSE) /\ s.comp.session = "none"
    BY <1>2 DEF Good, Shape
  <2>3. ~Has(s.q, Kind({"stopped"}))
    BY <2>2 DEF SessionQueue
  <2>4. After(s.q, Kind({"done"}), Of(0))
    BY <2>2 DEF SessionQueue
  <2> QED BY <1>2, <2>1, <2>2, <2>3, <2>4, SessionCreated
<1>3. CASE s.ctx.made /\ s.ctx.session /\ ~s.ctx.ready
  <2> DEFINE x == [s.ctx EXCEPT !.due = FALSE]
  <2>1. s.ctx \in CtxType
    BY DEF OutType
  <2>2. x \in CtxType
    BY <2>1, SetCtx
  <2>3. x.frame = s.ctx.frame /\ x.session = s.ctx.session /\ x.ready = s.ctx.ready /\ x.made = s.ctx.made
        /\ x.buf = s.ctx.buf
    BY <2>1 DEF CtxType
  <2>4. t = [s EXCEPT !.ctx = x]
    BY <1>3, <2>1 DEF StartCapture, OutType, CtxType
  <2> HIDE DEF x
  <2>5. t \in OutType /\ t.ctx = x /\ t.comp = s.comp /\ t.q = s.q /\ t.behind = s.behind
    BY <2>2, <2>4 DEF OutType
  <2> HIDE DEF t
  <2>6. Good(t, "imagecopy", FALSE)
    BY <2>3, <2>5 DEF Good, Shape, SessionQueue
  <2> QED BY <1>3, <2>3, <2>5, <2>6 DEF Calm, Filling, t
<1>4. CASE s.ctx.made /\ s.ctx.session /\ s.ctx.ready /\ (s.ctx.size = 0 \/ ~s.ctx.fmt)
  BY <1>4, Unframed DEF StartCapture
<1>5. CASE s.ctx.made /\ s.ctx.session /\ s.ctx.ready /\ ~(s.ctx.size = 0 \/ ~s.ctx.fmt)
  <2>1. t = CreateFrame(s)
    BY <1>5 DEF StartCapture
  <2> QED BY <1>5, <2>1, FrameCreated
<1> QED BY <1>1, <1>2, <1>3, <1>4, <1>5

\* Nothing but what a context keeps for itself differs.
LEMMA Aside ==
  ASSUME NEW s \in OutType, NEW x \in CtxType,
         x.frame = s.ctx.frame, x.session = s.ctx.session, x.ready = s.ctx.ready,
         x.made = s.ctx.made, x.buf = s.ctx.buf
  PROVE  LET t == [s EXCEPT !.ctx = x] IN
         /\ t \in OutType /\ t.ctx = x /\ t.q = s.q /\ t.comp = s.comp
         /\ t.news = s.news /\ t.behind = s.behind
         /\ \A b, under : Good(s, b, under) => Good(t, b, under)
         /\ x.damage = s.ctx.damage =>
              \A old, wiped, b, blits : Drawn(s, old, wiped, b, blits) => Drawn(t, old, wiped, b, blits)
<1> DEFINE t == [s EXCEPT !.ctx = x]
<1>1. /\ t \in OutType /\ t.ctx = x /\ t.comp = s.comp /\ t.q = s.q
      /\ t.news = s.news /\ t.behind = s.behind
  BY DEF OutType
<1> HIDE DEF t
<1>2. ASSUME NEW b, NEW under, Good(s, b, under) PROVE Good(t, b, under)
  <2>1. Shape(t)
    BY <1>1, <1>2 DEF Good, Shape
  <2>2. CopyQueue(s, under) => CopyQueue(t, under)
    BY <1>1 DEF CopyQueue
  <2>3. SessionQueue(s, under) => SessionQueue(t, under)
    BY <1>1 DEF SessionQueue
  <2> QED BY <1>1, <1>2, <2>1, <2>2, <2>3 DEF Good
<1>3. ASSUME x.damage = s.ctx.damage, NEW old, NEW wiped, NEW b, NEW blits,
             Drawn(s, old, wiped, b, blits)
      PROVE  Drawn(t, old, wiped, b, blits)
  BY <1>1, <1>3 DEF Drawn, Filling
<1> QED BY <1>1, <1>2, <1>3 DEF t

\* The oldest event leaves the pictures as they are, unless it is the frame's.
LEMMA PoppedDrawn ==
  ASSUME NEW s \in OutType, s.q # <<>>, Head(s.q) \notin Of(s.ctx.frame) \/ s.ctx.frame = 0
  PROVE  \A old, wiped, b, blits :
           Drawn(s, old, wiped, b, blits) => Drawn([s EXCEPT !.q = Tail(@)], old, wiped, b, blits)
<1> DEFINE t == [s EXCEPT !.q = Tail(@)]
<1>1. /\ t.ctx = s.ctx /\ t.comp = s.comp /\ t.q = Tail(s.q)
      /\ t.news = s.news /\ t.behind = s.behind /\ s.q \in Seq(Event)
  BY DEF OutType
<1>2. \A P : Head(s.q) \notin P => (Has(s.q, P) <=> Has(t.q, P))
  BY <1>1, TailQueue
<1> HIDE DEF t
<1>3. ASSUME s.ctx.frame # 0
      PROVE  /\ Head(s.q) \notin Ends(s.ctx.frame) \cap Kind({"ready"})
             /\ \A r : Head(s.q) \notin Damages(s.ctx.frame, r)
  BY <1>3 DEF Ends, Damages, Of
<1>4. ASSUME s.ctx.frame # 0
      PROVE  /\ Filling(s) <=> Filling(t)
             /\ \A r : Has(s.q, Damages(s.ctx.frame, r)) <=> Has(t.q, Damages(s.ctx.frame, r))
  BY <1>1, <1>2, <1>3, <1>4 DEF Filling
<1>5. ASSUME s.ctx.frame = 0 PROVE ~Filling(s) /\ ~Filling(t)
  BY <1>1, <1>5 DEF Filling
<1> QED BY <1>1, <1>4, <1>5 DEF t, Drawn

\* The session, and any frame on it, is dead.
LEMMA SessionDead ==
  ASSUME NEW s \in OutType, Good(s, "imagecopy", FALSE), s.ctx.made, All(s.q, Kind({"failed"}))
  PROVE  LET t == SessionStopped(s) IN
         t \in OutType /\ t.ctx.made /\ Good(t, "imagecopy", FALSE) /\ Calm(s, t)
         /\ t.comp.session = "none"
<1> DEFINE x == [s.ctx EXCEPT !.frame = 0, !.session = FALSE, !.ready = FALSE,
                              !.size = 0, !.fmt = FALSE, !.due = FALSE]
           u == IF s.ctx.frame = 0 THEN s ELSE DestroyFrame(s)
           y == [u.comp EXCEPT !.session = "none", !.damage = {}]
           t == SessionStopped(s)
<1>1. /\ u \in OutType /\ u.ctx = s.ctx /\ u.q = s.q /\ u.behind = s.behind
      /\ u.comp \in CompType /\ u.comp.frame = 0 /\ u.comp.stage = "none"
      /\ u.comp.size = s.comp.size /\ u.comp.dup = s.comp.dup
  <2>1. CASE s.ctx.frame = 0
    BY <2>1 DEF Good, Shape, OutType
  <2>2. CASE s.ctx.frame # 0
    BY <2>2, Destroyed
  <2> QED BY <2>1, <2>2
<1>2. t = [[u EXCEPT !.comp.session = "none", !.comp.damage = {}]
             EXCEPT !.ctx.frame = 0, !.ctx.session = FALSE, !.ctx.ready = FALSE,
                    !.ctx.size = 0, !.ctx.fmt = FALSE, !.ctx.due = FALSE]
  BY DEF SessionStopped, DestroySession
<1> HIDE DEF u, t
<1>3. t = [u EXCEPT !.ctx = x, !.comp = y]
  BY <1>1, <1>2 DEF OutType, CtxType, CompType
<1>4. s.ctx \in CtxType
  BY DEF OutType
<1>5. x \in CtxType
  BY <1>4, SetCtx, Constants
<1>6. y \in CompType
  BY <1>1, SetComp, Constants
<1>7. /\ x.frame = 0 /\ ~x.session /\ ~x.ready /\ x.made = s.ctx.made
      /\ y.session = "none" /\ y.frame = 0 /\ y.stage = "none" /\ y.size = s.comp.size
      /\ y.dup = s.comp.dup
  BY <1>1, <1>4 DEF CtxType, CompType
<1> HIDE DEF x, y
<1>8. t \in OutType /\ t.ctx = x /\ t.comp = y /\ t.q = s.q /\ t.behind = s.behind
  BY <1>1, <1>3, <1>5, <1>6 DEF OutType
<1>9. Shape(t)
  BY <1>7, <1>8 DEF Shape, Good
<1>10. SessionQueue(t, FALSE)
  <2>1. ~Has(t.q, Kind({"done"})) /\ ~Has(t.q, Kind({"stopped"}))
    BY <1>8 DEF Has, All, Kind
  <2>2. After(t.q, Kind({"done"}), Of(0) \cup Of(0)) /\ After(t.q, Kind({"stopped"}), Kind({"failed"}))
    BY <2>1 DEF After, Has
  <2> QED BY <1>7, <1>8, <2>1, <2>2 DEF SessionQueue
<1> QED BY <1>7, <1>8, <1>9, <1>10 DEF Good, Calm, Filling, t

\* The constraints are complete: whatever is on its way of frames is of this one.
LEMMA SessionReady ==
  ASSUME NEW s \in OutType, Good(s, "imagecopy", FALSE), s.ctx.made,
         All(s.q, Of(0) \cup Of(s.ctx.frame))
  PROVE  LET t == StartCapture([s EXCEPT !.ctx.ready = TRUE]) IN
         /\ t \in OutType /\ t.ctx.made /\ Good(t, "imagecopy", FALSE)
         /\ \A old, wiped : Drawn(s, old, wiped, "imagecopy", FALSE) =>
                            Drawn(t, old, wiped, "imagecopy", FALSE)
<1> DEFINE x == [s.ctx EXCEPT !.ready = TRUE]
           u == [s EXCEPT !.ctx.ready = TRUE]
<1>1. s.ctx \in CtxType
  BY DEF OutType
<1>2. x \in CtxType
  BY <1>1, SetCtx
<1>3. /\ x.frame = s.ctx.frame /\ x.session = s.ctx.session /\ x.ready /\ x.made
      /\ x.buf = s.ctx.buf /\ x.damage = s.ctx.damage
  BY <1>1 DEF CtxType
<1>4. u = [s EXCEPT !.ctx = x]
  BY <1>1 DEF OutType, CtxType
<1> HIDE DEF x, u
<1>5. u \in OutType /\ u.ctx = x /\ u.comp = s.comp /\ u.q = s.q /\ u.news = s.news /\ u.behind = s.behind
  BY <1>2, <1>4 DEF OutType
<1>6. Good(u, "imagecopy", FALSE)
  <2>1. Shape(u)
    BY <1>3, <1>5 DEF Good, Shape
  <2>2. SessionQueue(u, FALSE)
    BY <1>3, <1>5 DEF Good, SessionQueue
  <2> QED BY <1>3, <1>5, <2>1, <2>2 DEF Good
<1>7. ASSUME NEW old, NEW wiped, Drawn(s, old, wiped, "imagecopy", FALSE)
      PROVE  Drawn(u, old, wiped, "imagecopy", FALSE)
  BY <1>3, <1>5, <1>7 DEF Drawn, Filling
<1>8. CASE u.ctx.frame # 0
  <2>1. StartCapture(u) = u
    BY <1>8 DEF StartCapture
  <2> QED BY <1>3, <1>5, <1>6, <1>7, <2>1 DEF u
<1>9. CASE u.ctx.frame = 0
  <2> DEFINE t == StartCapture(u)
  <2>1. t \in OutType /\ t.ctx.made /\ Good(t, "imagecopy", FALSE) /\ Calm(u, t)
    BY <1>3, <1>5, <1>6, <1>9, CaptureStarted
  <2>2. ~Filling(u)
    BY <1>9, Unframed
  <2> HIDE DEF t
  <2>3. ASSUME NEW old, NEW wiped, Drawn(s, old, wiped, "imagecopy", FALSE)
        PROVE  Drawn(t, old, wiped, "imagecopy", FALSE)
    BY <1>7, <2>1, <2>2, <2>3, CalmDrawn
  <2> QED BY <2>1, <2>3 DEF t, u
<1> QED BY <1>8, <1>9

\* screen_session_event, whatever comes.
LEMMA SessionDispatched ==
  ASSUME NEW s \in OutType, Good(s, "imagecopy", FALSE), s.ctx.made, s.q # <<>>,
         Head(s.q).kind \in SessionKinds
  PROVE  LET t == SessionEvent([s EXCEPT !.q = Tail(@)], Head(s.q)) IN
         /\ t \in OutType /\ t.ctx.made /\ Good(t, "imagecopy", FALSE)
         /\ \A old, wiped : Drawn(s, old, wiped, "imagecopy", FALSE) =>
                            Drawn(t, old, wiped, "imagecopy", FALSE)
<1> DEFINE e == Head(s.q)
           p == [s EXCEPT !.q = Tail(@)]
           t == SessionEvent(p, e)
           Holds(v) == /\ v \in OutType /\ v.ctx.made /\ Good(v, "imagecopy", FALSE)
                       /\ \A old, wiped : Drawn(s, old, wiped, "imagecopy", FALSE) =>
                                          Drawn(v, old, wiped, "imagecopy", FALSE)
<1>1. s.q \in Seq(Event) /\ e \in Event
  BY TailQueue DEF OutType
<1>2. /\ e.frame = 0 /\ e \notin Ends(s.ctx.frame)
      /\ e \notin Of(s.ctx.frame) \/ s.ctx.frame = 0
      /\ e.kind = "buffer_size" => e.rows \in Numbers
  BY <1>1 DEF Event, Ends, Of, SessionKinds
<1>3. /\ p \in OutType /\ p.ctx = s.ctx /\ p.comp = s.comp /\ p.q = Tail(s.q)
      /\ Good(p, "imagecopy", FALSE)
  BY <1>2, Popped
<1>4. \A old, wiped, b, blits : Drawn(s, old, wiped, b, blits) => Drawn(p, old, wiped, b, blits)
  BY <1>2, PoppedDrawn
<1>5. SessionQueue(s, FALSE)
  BY DEF Good
<1>6. /\ e.kind = "done" => All(p.q, Of(0) \cup Of(s.ctx.frame))
      /\ e.kind = "stopped" => All(p.q, Kind({"failed"}))
  <2>1. /\ e \in Kind({"done"}) => All(p.q, Of(0) \cup Of(s.ctx.frame))
        /\ e \in Kind({"stopped"}) => All(p.q, Kind({"failed"}))
    BY <1>1, <1>3, <1>5, TailQueue DEF SessionQueue
  <2> QED BY <1>1, <2>1 DEF Kind
<1>7. p.ctx \in CtxType
  BY <1>3 DEF OutType
<1> HIDE DEF e, p
<1>8. CASE e.kind = "buffer_size"
  <2> DEFINE x == [p.ctx EXCEPT !.size = e.rows]
  <2>1. x \in CtxType
    BY <1>2, <1>7, <1>8, SetCtx
  <2>2. /\ x.frame = p.ctx.frame /\ x.session = p.ctx.session /\ x.ready = p.ctx.ready
        /\ x.made = p.ctx.made /\ x.buf = p.ctx.buf /\ x.damage = p.ctx.damage
    BY <1>7 DEF CtxType
  <2>3. t = [p EXCEPT !.ctx = x]
    BY <1>3, <1>8 DEF SessionEvent, OutType, CtxType
  <2> HIDE DEF x, t
  <2>4. /\ t \in OutType /\ t.ctx = x /\ Good(t, "imagecopy", FALSE)
        /\ \A old, wiped, b, blits : Drawn(p, old, wiped, b, blits) => Drawn(t, old, wiped, b, blits)
    BY <1>3, <2>1, <2>2, <2>3, Aside
  <2>5. Holds(t)
    BY <1>3, <1>4, <2>2, <2>4
  <2> QED BY <2>5 DEF t, e, p
<1>9. CASE e.kind = "shm_format"
  <2> DEFINE x == [p.ctx EXCEPT !.fmt = TRUE]
  <2>1. x \in CtxType
    BY <1>7, SetCtx
  <2>2. /\ x.frame = p.ctx.frame /\ x.session = p.ctx.session /\ x.ready = p.ctx.ready
        /\ x.made = p.ctx.made /\ x.buf = p.ctx.buf /\ x.damage = p.ctx.damage
    BY <1>7 DEF CtxType
  <2>3. t = [p EXCEPT !.ctx = x]
    BY <1>3, <1>9 DEF SessionEvent, OutType, CtxType
  <2> HIDE DEF x, t
  <2>4. /\ t \in OutType /\ t.ctx = x /\ Good(t, "imagecopy", FALSE)
        /\ \A old, wiped, b, blits : Drawn(p, old, wiped, b, blits) => Drawn(t, old, wiped, b, blits)
    BY <1>3, <2>1, <2>2, <2>3, Aside
  <2>5. Holds(t)
    BY <1>3, <1>4, <2>2, <2>4
  <2> QED BY <2>5 DEF t, e, p
<1>10. CASE e.kind = "done" /\ p.ctx.fmt
  <2> DEFINE v == StartCapture([p EXCEPT !.ctx.ready = TRUE])
  <2>1. t = v
    BY <1>10 DEF SessionEvent
  <2>2. /\ v \in OutType /\ v.ctx.made /\ Good(v, "imagecopy", FALSE)
        /\ \A old, wiped : Drawn(p, old, wiped, "imagecopy", FALSE) =>
                           Drawn(v, old, wiped, "imagecopy", FALSE)
    BY <1>3, <1>6, <1>10, SessionReady
  <2> HIDE DEF v, t
  <2>3. Holds(t)
    BY <1>4, <2>1, <2>2
  <2> QED BY <2>3 DEF t, e, p
<1>11. CASE e.kind = "done" /\ ~p.ctx.fmt
  <2>1. t = p
    BY <1>11 DEF SessionEvent
  <2> HIDE DEF t
  <2>2. Holds(t)
    BY <1>3, <1>4, <2>1
  <2> QED BY <2>2 DEF t, e, p
<1>12. CASE e.kind = "stopped"
  <2> DEFINE v == SessionStopped(p)
  <2>1. t = v
    BY <1>12 DEF SessionEvent
  <2>2. /\ v \in OutType /\ v.ctx.made /\ Good(v, "imagecopy", FALSE)
        /\ Calm(p, v) /\ v.comp.session # "live"
    BY <1>3, <1>6, <1>12, SessionDead
  <2> HIDE DEF v, t
  <2>3. \A old, wiped : Drawn(p, old, wiped, "imagecopy", FALSE) => Drawn(v, old, wiped, "imagecopy", FALSE)
    BY <2>2, CalmDrawn
  <2>4. Holds(t)
    BY <1>4, <2>1, <2>2, <2>3
  <2> QED BY <2>4 DEF t, e, p
<1>13. e.kind \in SessionKinds
  BY DEF e
<1> QED BY <1>8, <1>9, <1>10, <1>11, <1>12, <1>13 DEF SessionKinds

\* An event of another frame, or of none, changes nothing.
LEMMA Ignored ==
  ASSUME NEW s \in OutType, NEW b, Good(s, b, FALSE), s.q # <<>>,
         s.ctx.frame = 0 \/ Head(s.q).frame # s.ctx.frame
  PROVE  LET t == [s EXCEPT !.q = Tail(@)] IN
         /\ t \in OutType /\ t.ctx = s.ctx /\ t.q = Tail(s.q) /\ Good(t, b, FALSE)
         /\ \A old, wiped, c, blits : Drawn(s, old, wiped, c, blits) => Drawn(t, old, wiped, c, blits)
         /\ Head(s.q).kind \notin SessionKinds => StaleFrame(t, Head(s.q)) = t
<1> DEFINE e == Head(s.q)
           t == [s EXCEPT !.q = Tail(@)]
<1>1. s.q \in Seq(Event) /\ e \in Event
  BY TailQueue DEF OutType
<1>2. /\ e \notin Ends(s.ctx.frame)
      /\ e \notin Of(s.ctx.frame) \/ s.ctx.frame = 0
      /\ e.kind \notin SessionKinds => e.frame # 0
  BY <1>1 DEF Event, Ends, Of, SessionKinds
<1>3. /\ t \in OutType /\ t.ctx = s.ctx /\ t.comp = s.comp /\ t.q = Tail(s.q)
      /\ Good(t, b, FALSE)
  BY <1>2, Popped
<1>4. \A old, wiped, c, blits : Drawn(s, old, wiped, c, blits) => Drawn(t, old, wiped, c, blits)
  BY <1>2, PoppedDrawn
<1>5. s.comp.frame = s.ctx.frame
  BY DEF Good, Shape
<1> HIDE DEF t, e
<1>6. e.kind \notin SessionKinds => StaleFrame(t, e) = t
  BY <1>2, <1>3, <1>5 DEF StaleFrame, e
<1> QED BY <1>3, <1>4, <1>6 DEF t, e

\* Nothing of a frame follows its answer.
LEMMA Silent ==
  ASSUME NEW s, NEW b, Good(s, b, TRUE)
  PROVE  ~Has(s.q, Of(s.ctx.frame)) /\ s.ctx.frame # 0 /\ s.ctx.made
<1>1. s.comp.stage = "answered" /\ s.ctx.frame # 0 /\ s.ctx.made
  BY DEF Good, Shape
<1>2. CopyQueue(s, TRUE) => ~Has(s.q, Of(s.ctx.frame))
  BY <1>1 DEF CopyQueue, Has
<1>3. SessionQueue(s, TRUE) => ~Has(s.q, Of(s.ctx.frame))
  BY <1>1 DEF SessionQueue
<1> QED BY <1>1, <1>2, <1>3 DEF Good

\* A frame that failed was not filled, and the step that ends it leaves the pictures.
LEMMA FailedDrawn ==
  ASSUME NEW s \in OutType, NEW b, Good(s, b, FALSE), s.q # <<>>, Head(s.q) \in Ends(s.ctx.frame),
         s.ctx.frame # 0, Head(s.q).kind = "failed",
         NEW t, Calm([s EXCEPT !.q = Tail(@)], t)
  PROVE  \A old, wiped, c, blits : Drawn(s, old, wiped, c, blits) => Drawn(t, old, wiped, c, blits)
<1> DEFINE p == [s EXCEPT !.q = Tail(@)]
<1>1. /\ p.ctx = s.ctx /\ p.comp = s.comp /\ p.q = Tail(s.q)
      /\ p.behind = s.behind /\ Good(p, b, TRUE)
  BY Answered
<1>2. s.q \in Seq(Event)
  BY DEF OutType
<1>3. Calm(p, t)
  OBVIOUS
<1> HIDE DEF p
<1>4. ~Has(p.q, Ends(s.ctx.frame) \cap Kind({"ready"}))
  <2>1. ~Has(p.q, Of(s.ctx.frame))
    BY <1>1, Silent
  <2> QED BY <2>1 DEF Has, Ends, Of
<1>5. Head(s.q) \notin Ends(s.ctx.frame) \cap Kind({"ready"})
  BY DEF Kind
<1>6. ~Filling(s)
  BY <1>1, <1>2, <1>4, <1>5, TailQueue DEF Filling
<1>7. Calm(s, t)
  BY <1>1, <1>3 DEF Calm
<1> QED BY <1>6, <1>7, CalmDrawn

\* screen_frame_event, but `ready` of the frame waited for.
LEMMA FrameDispatched ==
  ASSUME NEW s \in OutType, Good(s, "imagecopy", FALSE), s.ctx.made, s.q # <<>>,
         Head(s.q).kind \notin SessionKinds, s.ctx.frame # 0, Head(s.q).frame = s.ctx.frame,
         Head(s.q).kind # "ready"
  PROVE  LET t == ScreenFrameEvent([s EXCEPT !.q = Tail(@)], Head(s.q)) IN
         /\ t \in OutType /\ t.ctx.made /\ Good(t, "imagecopy", FALSE)
         /\ \A old, wiped : Drawn(s, old, wiped, "imagecopy", FALSE) =>
                            Drawn(t, old, wiped, "imagecopy", FALSE)
<1> DEFINE e == Head(s.q)
           p == [s EXCEPT !.q = Tail(@)]
           t == ScreenFrameEvent(p, e)
<1>1. s.q \in Seq(Event) /\ e \in Event /\ s.ctx \in CtxType
  BY TailQueue DEF OutType
<1>2. e.kind \in {"damage", "failed"}
  <2>1. All(s.q, (Event \ Of(s.ctx.frame)) \cup Kind({"damage", "ready", "failed"}))
    BY DEF Good, SessionQueue
  <2>2. e \in (Event \ Of(s.ctx.frame)) \cup Kind({"damage", "ready", "failed"})
    BY <1>1, <2>1, TailQueue
  <2>3. e \in Of(s.ctx.frame)
    BY <1>1 DEF Of
  <2> QED BY <2>2, <2>3 DEF Kind
<1>3. CASE e.kind = "damage"
  <2> DEFINE x == [p.ctx EXCEPT !.damage = @ \cup e.rows]
  <2>1. e \notin Ends(s.ctx.frame) /\ e.rows \in RowSets
    BY <1>1, <1>3 DEF Ends, Event
  <2>2. /\ p \in OutType /\ p.ctx = s.ctx /\ p.comp = s.comp /\ p.q = Tail(s.q)
        /\ p.news = s.news /\ p.behind = s.behind /\ Good(p, "imagecopy", FALSE)
    BY <2>1, Popped
  <2> HIDE DEF p
  <2>3. x \in CtxType
    <3>1. p.ctx.damage \cup e.rows \in RowSets
      BY <1>1, <2>1, <2>2 DEF CtxType, RowSets
    <3> QED BY <1>1, <2>2, <3>1, SetCtx
  <2>4. /\ x.frame = p.ctx.frame /\ x.session = p.ctx.session /\ x.ready = p.ctx.ready
        /\ x.made = p.ctx.made /\ x.buf = p.ctx.buf /\ x.damage = p.ctx.damage \cup e.rows
    BY <1>1, <2>2 DEF CtxType
  <2>5. t = [p EXCEPT !.ctx = x]
    <3>1. IsCurrent(p, e)
      BY <2>2 DEF IsCurrent
    <3>2. t = [p EXCEPT !.ctx.damage = @ \cup e.rows]
      BY <1>3, <3>1 DEF ScreenFrameEvent
    <3> QED BY <1>1, <2>2, <3>2 DEF OutType, CtxType
  <2> HIDE DEF x, t
  <2>6. /\ t \in OutType /\ t.ctx = x /\ t.q = p.q /\ t.comp = p.comp
        /\ t.news = p.news /\ t.behind = p.behind /\ Good(t, "imagecopy", FALSE)
    BY <2>2, <2>3, <2>4, <2>5, Aside
  <2>7. Filling(s) <=> Filling(t)
    <3>1. e \notin Ends(s.ctx.frame) \cap Kind({"ready"})
      BY <2>1
    <3>2. Has(s.q, Ends(s.ctx.frame) \cap Kind({"ready"})) <=> Has(t.q, Ends(s.ctx.frame) \cap Kind({"ready"}))
      BY <1>1, <2>2, <2>6, <3>1, TailQueue
    <3> QED BY <2>2, <2>4, <2>6, <3>2 DEF Filling
  <2>8. ASSUME NEW r, Has(s.q, Damages(s.ctx.frame, r)) PROVE r \in x.damage \/ Has(t.q, Damages(s.ctx.frame, r))
    <3>1. e \in Damages(s.ctx.frame, r) \/ Has(t.q, Damages(s.ctx.frame, r))
      BY <1>1, <2>2, <2>6, <2>8, TailQueue
    <3> QED BY <2>4, <3>1 DEF Damages
  <2>9. ASSUME NEW old, NEW wiped, Drawn(s, old, wiped, "imagecopy", FALSE)
        PROVE  Drawn(t, old, wiped, "imagecopy", FALSE)
    BY <2>2, <2>4, <2>6, <2>7, <2>8, <2>9 DEF Drawn
  <2> QED BY <2>2, <2>4, <2>6, <2>9 DEF t, e, p
<1>4. CASE e.kind = "failed"
  <2>1. e \in Ends(s.ctx.frame)
    BY <1>1, <1>4 DEF Ends
  <2>2. /\ p \in OutType /\ p.ctx = s.ctx /\ Good(p, "imagecopy", TRUE)
    BY <2>1, Answered
  <2> HIDE DEF p
  <2> DEFINE v == FrameFailed(p, e.rows)
  <2>3. t = v
    BY <1>4, <2>2 DEF ScreenFrameEvent, IsCurrent
  <2>4. v \in OutType /\ v.ctx.made = p.ctx.made /\ Good(v, "imagecopy", FALSE) /\ Calm(p, v)
    BY <2>2, FailedEnds DEF EndsAs
  <2> HIDE DEF t, v
  <2>5. \A old, wiped, c, blits : Drawn(s, old, wiped, c, blits) => Drawn(t, old, wiped, c, blits)
    BY <1>4, <2>1, <2>3, <2>4, FailedDrawn DEF p, e
  <2> QED BY <2>2, <2>3, <2>4, <2>5 DEF t, e, p
<1> QED BY <1>2, <1>3, <1>4

\* A queue all of whose elements are of no kind is empty.
LEMMA AllNone ==
  ASSUME NEW S, NEW q \in Seq(S), All(q, {}) PROVE q = <<>>
<1>1. Len(q) \in Nat /\ DOMAIN q = 1 .. Len(q)
  BY LenProperties
<1>2. Len(q) = 0
  BY <1>1 DEF All
<1> QED BY <1>2, EmptySeq

\* With screencopy there is no session, and only what is old matters.
LEMMA CopyDrawn ==
  ASSUME NEW s, NEW t, t.comp.session # "live", t.comp.size = s.comp.size, t.behind = s.behind
  PROVE  \A old, wiped, blits : Drawn(s, old, wiped, "screencopy", blits) =>
                                Drawn(t, old, wiped, "screencopy", blits)
BY DEF Drawn

\* frame_event, but `ready` of the frame waited for.
LEMMA CopyDispatched ==
  ASSUME NEW s \in OutType, Good(s, "screencopy", FALSE), s.ctx.made, s.q # <<>>,
         s.ctx.frame # 0, Head(s.q).frame = s.ctx.frame, Head(s.q).kind # "ready"
  PROVE  LET t == CopyEvent([s EXCEPT !.q = Tail(@)], Head(s.q)) IN
         /\ t \in OutType /\ t.ctx.made /\ Good(t, "screencopy", FALSE)
         /\ \A old, wiped : Drawn(s, old, wiped, "screencopy", FALSE) =>
                            Drawn(t, old, wiped, "screencopy", FALSE)
<1> DEFINE e == Head(s.q)
           p == [s EXCEPT !.q = Tail(@)]
           t == CopyEvent(p, e)
<1>1. s.q \in Seq(Event) /\ e \in Event /\ s.ctx \in CtxType
  BY TailQueue DEF OutType
<1>2. CopyQueue(s, FALSE) /\ Shape(s) /\ s.comp.session = "none" /\ s.comp.stage \in Stages
  BY DEF Good, CopyQueue, Shape, OutType, CompType
<1>3. CASE s.comp.stage = "offered"
  <2>1. /\ All(s.q, Of(s.ctx.frame) \cap Kind(CopyKinds)) /\ After(s.q, Kind({"buffer_done"}), {})
    BY <1>2, <1>3 DEF CopyQueue
  <2>2. e \in Kind(CopyKinds) /\ (e \in Kind({"buffer_done"}) => All(Tail(s.q), {}))
    BY <1>1, <2>1, TailQueue
  <2>3. e \notin Ends(s.ctx.frame)
    BY <2>2 DEF Kind, Ends, CopyKinds
  <2>4. /\ p \in OutType /\ p.ctx = s.ctx /\ p.comp = s.comp /\ p.q = Tail(s.q)
        /\ p.news = s.news /\ p.behind = s.behind /\ Good(p, "screencopy", FALSE)
    BY <2>3, Popped
  <2>5. \A old, wiped, blits : Drawn(s, old, wiped, "screencopy", blits) => Drawn(p, old, wiped, "screencopy", blits)
    BY <1>2, <2>4, CopyDrawn
  <2> HIDE DEF p
  <2>6. IsCurrent(p, e)
    BY <2>4 DEF IsCurrent
  <2>7. CASE e.kind = "buffer"
    <3> DEFINE x == [p.ctx EXCEPT !.pend = e.rows]
    <3>1. e.rows \in Numbers
      BY <1>1, <2>7 DEF Event
    <3>2. x \in CtxType
      BY <1>1, <2>4, <3>1, SetCtx
    <3>3. /\ x.frame = p.ctx.frame /\ x.session = p.ctx.session /\ x.ready = p.ctx.ready
          /\ x.made = p.ctx.made /\ x.buf = p.ctx.buf /\ x.damage = p.ctx.damage
      BY <1>1, <2>4 DEF CtxType
    <3>4. t = [p EXCEPT !.ctx = x]
      <4>1. t = [p EXCEPT !.ctx.pend = e.rows]
        BY <2>6, <2>7 DEF CopyEvent
      <4> QED BY <1>1, <2>4, <4>1 DEF OutType, CtxType
    <3> HIDE DEF x, t
    <3>5. /\ t \in OutType /\ t.ctx = x /\ Good(t, "screencopy", FALSE)
          /\ \A old, wiped, b, blits : Drawn(p, old, wiped, b, blits) => Drawn(t, old, wiped, b, blits)
      BY <2>4, <3>2, <3>3, <3>4, Aside
    <3> QED BY <2>4, <2>5, <3>3, <3>5 DEF t, e, p
  <2>8. CASE e.kind = "buffer_done" /\ p.ctx.pend = 0
    <3>1. t = p
      BY <2>6, <2>8 DEF CopyEvent, CopyFrame
    <3> HIDE DEF t
    <3> QED BY <2>4, <2>5, <3>1 DEF t, e, p
  <2>9. CASE e.kind = "buffer_done" /\ p.ctx.pend # 0
    <3> DEFINE x == [p.ctx EXCEPT !.buf = p.ctx.pend, !.pend = 0]
               y == [p.comp EXCEPT !.stage = "copying", !.with = p.ctx.pend]
    <3>1. p.ctx \in CtxType /\ p.comp \in CompType /\ p.ctx.pend \in Numbers
      BY <2>4 DEF OutType, CtxType
    <3>2. x \in CtxType
      BY <3>1, SetCtx, Constants
    <3>3. y \in CompType
      BY <3>1, SetComp, Constants
    <3>4. /\ x.frame = p.ctx.frame /\ x.session = p.ctx.session /\ x.made = p.ctx.made
          /\ x.buf = p.ctx.pend
          /\ y.frame = p.comp.frame /\ y.session = p.comp.session /\ y.dup = p.comp.dup
          /\ y.size = p.comp.size /\ y.stage = "copying" /\ y.with = p.ctx.pend
      BY <3>1 DEF CtxType, CompType
    <3>5. t = [p EXCEPT !.ctx = x, !.comp = y]
      <4>1. t = CopyFrame(p)
        BY <2>6, <2>9 DEF CopyEvent
      <4> QED BY <2>4, <2>9, <4>1 DEF CopyFrame, OutType, CtxType, CompType
    <3> HIDE DEF x, y
    <3>6. t \in OutType /\ t.ctx = x /\ t.comp = y /\ t.q = p.q /\ t.behind = p.behind
      BY <2>4, <3>2, <3>3, <3>5 DEF OutType
    <3> HIDE DEF t
    <3>7. t.q = <<>>
      <4>1. Tail(s.q) \in Seq(Event) /\ All(Tail(s.q), {})
        BY <1>1, <2>2, <2>9, TailQueue DEF Kind
      <4> QED BY <2>4, <3>6, <4>1, AllNone
    <3>8. Shape(t)
      BY <2>4, <3>4, <3>6 DEF Good, Shape
    <3>9. CopyQueue(t, FALSE)
      BY <1>2, <2>4, <3>4, <3>6, <3>7 DEF CopyQueue
    <3>10. Good(t, "screencopy", FALSE) /\ t.ctx.made
      BY <2>4, <3>4, <3>6, <3>8, <3>9 DEF Good
    <3>11. \A old, wiped, blits : Drawn(p, old, wiped, "screencopy", blits) =>
                                  Drawn(t, old, wiped, "screencopy", blits)
      <4>1. t.comp.session # "live" /\ t.comp.size = p.comp.size /\ t.behind = p.behind
        BY <1>2, <2>4, <3>4, <3>6
      <4> QED BY <4>1, CopyDrawn, Zenon
    <3> QED BY <2>5, <3>6, <3>10, <3>11 DEF t, e, p
  <2> QED BY <2>2, <2>7, <2>8, <2>9 DEF Kind, CopyKinds
<1>4. CASE s.comp.stage = "answered"
  <2>1. PICK a \in Ends(s.ctx.frame) : s.q = <<a>>
    BY <1>2, <1>4 DEF CopyQueue
  <2>2. e = a /\ e.kind = "failed"
    BY <2>1 DEF Ends
  <2>3. e \in Ends(s.ctx.frame)
    BY <2>1, <2>2
  <2>4. /\ p \in OutType /\ p.ctx = s.ctx /\ Good(p, "screencopy", TRUE)
    BY <2>3, Answered
  <2> HIDE DEF p
  <2> DEFINE v == CopyFailed(p)
  <2>5. t = v
    BY <2>2, <2>4 DEF CopyEvent, IsCurrent
  <2>6. v \in OutType /\ v.ctx.made = p.ctx.made /\ Good(v, "screencopy", FALSE) /\ Calm(p, v)
    BY <2>4, CopyEnds DEF EndsAs
  <2> HIDE DEF t, v
  <2>7. \A old, wiped, c, blits : Drawn(s, old, wiped, c, blits) => Drawn(t, old, wiped, c, blits)
    BY <2>2, <2>3, <2>5, <2>6, FailedDrawn DEF p, e
  <2> QED BY <2>4, <2>5, <2>6, <2>7 DEF t, e, p
<1>5. s.comp.stage \in {"offered", "answered"}
  BY <1>2 DEF CopyQueue, Shape, Stages
<1> QED BY <1>3, <1>4, <1>5

\* start_capture, with screencopy.
LEMMA OutputCaptured ==
  ASSUME NEW s \in OutType, Good(s, "screencopy", FALSE), s.ctx.made, s.ctx.frame = 0
  PROVE  LET t == CaptureOutput(s) IN
         /\ t \in OutType /\ t.ctx.made /\ Good(t, "screencopy", FALSE)
         /\ \A old, wiped : Drawn(s, old, wiped, "screencopy", FALSE) =>
                            Drawn(t, old, wiped, "screencopy", FALSE)
<1> DEFINE f == FreshFrame(s)
           x == [s.ctx EXCEPT !.frame = f]
           y == [s.comp EXCEPT !.frame = f, !.stage = "asked"]
           t == CaptureOutput(s)
<1>1. /\ s.ctx \in CtxType /\ s.comp \in CompType /\ Shape(s) /\ CopyQueue(s, FALSE)
      /\ s.comp.frame = 0 /\ s.comp.stage = "none" /\ s.q = <<>> /\ s.comp.session = "none"
  BY DEF OutType, Good, Shape, CopyQueue
<1>2. f \in 1 .. 3 /\ f \in FrameNames /\ f # 0
  <2>1. All(s.q, Of(0))
    BY <1>1 DEF All
  <2>2. f \in 1 .. 3
    BY <1>1, <2>1, Fresh
  <2> QED BY <2>2 DEF FrameNames
<1>3. t = [s EXCEPT !.ctx = x, !.comp = y]
  BY <1>1 DEF CaptureOutput, OutType, CtxType, CompType
<1> HIDE DEF f
<1>4. x \in CtxType
  BY <1>1, <1>2, SetCtx
<1>5. y \in CompType
  BY <1>1, <1>2, SetComp, Constants
<1>6. /\ x.frame = f /\ x.session = s.ctx.session /\ x.made = s.ctx.made /\ x.buf = s.ctx.buf
      /\ y.frame = f /\ y.session = s.comp.session /\ y.dup = s.comp.dup /\ y.size = s.comp.size
      /\ y.stage = "asked"
  BY <1>1 DEF CtxType, CompType
<1> HIDE DEF x, y
<1>7. t \in OutType /\ t.ctx = x /\ t.comp = y /\ t.q = s.q /\ t.behind = s.behind
  BY <1>3, <1>4, <1>5 DEF OutType
<1> HIDE DEF t
<1>8. Good(t, "screencopy", FALSE)
  <2>1. Shape(t)
    BY <1>1, <1>2, <1>6, <1>7 DEF Shape
  <2>2. CopyQueue(t, FALSE)
    BY <1>1, <1>6, <1>7 DEF CopyQueue
  <2> QED BY <2>1, <2>2 DEF Good
<1>9. \A old, wiped, blits : Drawn(s, old, wiped, "screencopy", blits) =>
                             Drawn(t, old, wiped, "screencopy", blits)
  BY <1>1, <1>6, <1>7, CopyDrawn
<1> QED BY <1>6, <1>7, <1>8, <1>9 DEF t

\* frame_ready once the blit is reported, with image-copy.
LEMMA ReportEnds ==
  ASSUME NEW s \in OutType, Good(s, "imagecopy", TRUE), NEW enabled
  PROVE  LET t == FrameDone(s, enabled) IN
         /\ t \in OutType /\ t.ctx.made = s.ctx.made /\ Good(t, "imagecopy", FALSE)
         /\ Calm(s, t)
<1> DEFINE u == DestroyFrame([s EXCEPT !.ctx.frame = 0, !.ctx.damage = {}, !.ctx.due = TRUE])
           v == StartCapture(u)
<1>1. 0 \in Numbers
  BY Constants
<1>2. EndsAs(s, u, "imagecopy")
  BY <1>1, FrameOver
<1>3. FrameDone(s, enabled) = IF enabled THEN v ELSE u
  BY DEF FrameDone
<1> HIDE DEF u
<1>4. /\ u \in OutType /\ u.ctx.made = s.ctx.made /\ Good(u, "imagecopy", FALSE) /\ Calm(s, u)
      /\ u.ctx.frame = 0
  BY <1>2 DEF EndsAs
<1>5. v \in OutType /\ v.ctx.made = u.ctx.made /\ Good(v, "imagecopy", FALSE) /\ Calm(u, v)
  BY <1>4, CaptureStarted
<1> HIDE DEF v
<1>6. Calm(s, v)
  BY <1>4, <1>5 DEF Calm
<1> QED BY <1>3, <1>4, <1>5, <1>6

\* The compositor answers the frame it was given, and says nothing else of it.
LEMMA Replied ==
  ASSUME NEW s \in OutType, NEW b, Good(s, b, FALSE), s.comp.stage \in {"asked", "copying"},
         NEW r \in Seq(Event), All(r, Of(s.ctx.frame) \cap Kind({"damage", "ready", "failed"})),
         Has(r, Ends(s.ctx.frame)), After(r, Ends(s.ctx.frame), {}),
         b = "screencopy" => \E e \in Ends(s.ctx.frame) : r = <<e>>,
         s.comp.session = "stopped" => All(r, Kind({"failed"})),
         NEW t \in OutType, t.ctx = s.ctx, t.q = s.q \o r, t.comp.stage = "answered",
         t.comp.frame = s.comp.frame, t.comp.session = s.comp.session, t.comp.dup = s.comp.dup
  PROVE  Good(t, b, FALSE) /\ ~Filling(s) /\ s.ctx.frame # 0 /\ s.ctx.made
<1>1. /\ Shape(s) /\ s.ctx.frame # 0 /\ s.ctx.made /\ b \in {"screencopy", "imagecopy"}
      /\ s.q \in Seq(Event)
  BY DEF Good, Shape, OutType
<1>2. Shape(t)
  BY <1>1 DEF Shape
<1>3. ASSUME CopyQueue(s, FALSE), b = "screencopy" PROVE CopyQueue(t, FALSE) /\ ~Has(s.q, Of(s.ctx.frame))
  <2>1. s.q = <<>>
    BY <1>3 DEF CopyQueue
  <2>2. t.q = r
    BY <2>1
  <2> QED BY <1>3, <2>1, <2>2 DEF CopyQueue, Has
<1>4. ASSUME SessionQueue(s, FALSE) PROVE SessionQueue(t, FALSE) /\ ~Has(s.q, Of(s.ctx.frame))
  <2> DEFINE f == s.ctx.frame
  <2>1. /\ \A P : /\ Has(t.q, P) <=> Has(s.q, P) \/ Has(r, P)
                  /\ All(s.q, P) /\ All(r, P) => All(t.q, P)
        /\ \A P, R : After(s.q, P, R) /\ After(r, P, R) /\ (Has(s.q, P) => All(r, R)) => After(t.q, P, R)
    BY <1>1, ConcatQueue
  <2>2. ~Has(s.q, Of(f))
    BY <1>1, <1>4 DEF SessionQueue
  <2>3. /\ All(r, Of(f)) /\ All(r, Of(0) \cup Of(f)) /\ ~Has(r, Kind({"stopped"})) /\ ~Has(r, Kind({"done"}))
        /\ All(r, (Event \ Of(f)) \cup Kind({"damage", "ready", "failed"}))
    BY DEF All, Has, Kind
  <2>4. ~Has(s.q, Ends(f))
    BY <2>2 DEF Has, Ends, Of
  <2>5. /\ After(r, Ends(f), Event \ Of(f)) /\ After(r, Kind({"done"}), Of(0) \cup Of(f))
        /\ After(r, Kind({"stopped"}), Kind({"failed"}))
    BY <2>3, QueueSets
  <2>6. t.ctx.ready => All(t.q, Of(0) \cup Of(f))
    BY <1>4, <2>1, <2>3 DEF SessionQueue
  <2>7. After(t.q, Kind({"done"}), Of(0) \cup Of(f)) /\ After(t.q, Ends(f), Event \ Of(f))
    BY <1>4, <1>1, <2>1, <2>3, <2>4, <2>5 DEF SessionQueue
  <2>8. After(t.q, Kind({"stopped"}), Kind({"failed"}))
    BY <1>4, <2>1, <2>5 DEF SessionQueue
  <2>9. All(t.q, (Event \ Of(f)) \cup Kind({"damage", "ready", "failed"})) /\ Has(t.q, Ends(f))
        /\ (Has(t.q, Kind({"stopped"})) => s.comp.session = "stopped")
    BY <1>1, <1>4, <2>1, <2>3 DEF SessionQueue
  <2> QED BY <1>4, <2>2, <2>6, <2>7, <2>8, <2>9 DEF SessionQueue
<1>5. ~Has(s.q, Of(s.ctx.frame))
  BY <1>1, <1>3, <1>4 DEF Good
<1>6. ~Filling(s)
  BY <1>5 DEF Filling, Has, Ends, Of
<1> QED BY <1>1, <1>2, <1>3, <1>4, <1>6 DEF Good

\* Its failure, whatever for.
LEMMA FailureSent ==
  ASSUME NEW s \in OutType, NEW b, Good(s, b, FALSE), s.comp.stage \in {"asked", "copying"},
         NEW why \in Reasons
  PROVE  LET t == Failed(s, why) IN
         /\ t \in OutType /\ t.ctx = s.ctx /\ Good(t, b, FALSE) /\ Calm(s, t) /\ ~Filling(s)
         /\ t.comp.session = s.comp.session
         /\ Has(t.q, Kind({"stopped"})) => Has(s.q, Kind({"stopped"}))
<1> DEFINE e == FrameEvent("failed", s.comp.frame, why)
           y == [s.comp EXCEPT !.stage = "answered"]
           u == [s EXCEPT !.comp = y]
           t == Failed(s, why)
<1>1. /\ s.comp \in CompType /\ s.comp.frame = s.ctx.frame /\ s.ctx.frame \in 0 .. 3 /\ s.ctx.frame # 0
      /\ s.q \in Seq(Event)
  BY DEF OutType, CompType, CtxType, Good, Shape, FrameNames
<1>2. e \in Event /\ e \in Ends(s.ctx.frame) /\ e \in Kind({"failed"}) /\ e \in Of(s.ctx.frame)
  <2>1. s.ctx.frame \in 1 .. 3
    BY <1>1
  <2>2. e \in Event
    BY <1>1, <2>1, Events DEF FrameEvent
  <2> QED BY <1>1, <2>2 DEF FrameEvent, Ends, Kind, Of
<1>3. t = Send(u, <<e>>)
  BY <1>1 DEF Failed, Answer, OutType, CompType
<1>4. y \in CompType
  BY <1>1, SetComp, Constants
<1>5. /\ y.stage = "answered" /\ y.frame = s.comp.frame /\ y.session = s.comp.session
      /\ y.dup = s.comp.dup /\ y.size = s.comp.size /\ y.damage = s.comp.damage
  BY <1>1 DEF CompType
<1> HIDE DEF y, e
<1>6. u \in OutType /\ u.ctx = s.ctx /\ u.comp = y /\ u.q = s.q /\ u.behind = s.behind
  BY <1>4 DEF OutType
<1>7. <<e>> \in Seq(Event)
  BY <1>2
<1> HIDE DEF u, t
<1>8. /\ t \in OutType /\ t.ctx = s.ctx /\ t.comp = y /\ t.q = s.q \o <<e>> /\ t.behind = s.behind
      /\ \A P : Has(t.q, P) <=> Has(s.q, P) \/ Has(<<e>>, P)
  <2> DEFINE r == <<e>>
  <2>1. r \in Seq(Event) /\ t = Send(u, r)
    BY <1>3, <1>7
  <2> HIDE DEF r
  <2>2. t \in OutType /\ t.ctx = s.ctx /\ t.comp = y /\ t.behind = s.behind
    BY <1>6, <2>1, Sent
  <2>3. t.q = u.q \o r
    BY <1>6, <2>1, Sent
  <2>4. t.q = s.q \o r
    BY <1>6, <2>3, Zenon
  <2>5. \A P : Has(t.q, P) <=> Has(s.q, P) \/ Has(r, P)
    BY <1>1, <2>1, <2>4, ConcatQueue
  <2> QED BY <2>2, <2>4, <2>5, Zenon DEF r
<1>9. /\ All(<<e>>, Of(s.ctx.frame) \cap Kind({"damage", "ready", "failed"}))
      /\ Has(<<e>>, Ends(s.ctx.frame)) /\ After(<<e>>, Ends(s.ctx.frame), {})
      /\ All(<<e>>, Kind({"failed"}))
  BY <1>2 DEF All, Has, After, Kind
<1>10. Good(t, b, FALSE) /\ ~Filling(s)
  BY <1>2, <1>5, <1>7, <1>8, <1>9, Replied
<1>11. ~Filling(t)
  <2>1. ~Has(s.q, Ends(s.ctx.frame) \cap Kind({"ready"}))
    BY <1>1, <1>10 DEF Filling
  <2>2. ~Has(<<e>>, Ends(s.ctx.frame) \cap Kind({"ready"}))
    BY <1>2 DEF Has, Kind
  <2> QED BY <1>8, <2>1, <2>2 DEF Filling
<1>12. Has(t.q, Kind({"stopped"})) => Has(s.q, Kind({"stopped"}))
  <2>1. ~Has(<<e>>, Kind({"stopped"}))
    BY <1>2 DEF Has, Kind
  <2> QED BY <1>8, <2>1
<1> QED BY <1>5, <1>8, <1>10, <1>11, <1>12 DEF Calm, t, e

\* A frame on a session, filled.
LEMMA CopySent ==
  ASSUME NEW s \in OutType, NEW b, Good(s, b, FALSE), CanCopy(s), NEW old \in RowSets
  PROVE  LET t == Copied(s, old) IN
         /\ t \in OutType /\ t.ctx = s.ctx /\ Good(t, b, FALSE)
         /\ \A wiped : Drawn(s, old, wiped, b, FALSE) => Drawn(t, old, wiped, b, FALSE)
<1> DEFINE d == FrameEvent("damage", s.comp.frame, s.comp.damage)
           e == FrameEvent("ready", s.comp.frame, {})
           y == [s.comp EXCEPT !.stage = "answered", !.damage = {}]
           u == [s EXCEPT !.comp = y, !.news = old, !.behind = {}]
           t == Copied(s, old)
<1>1. /\ s.comp \in CompType /\ s.comp.frame = s.ctx.frame /\ s.ctx.frame \in 0 .. 3 /\ s.ctx.frame # 0
      /\ s.q \in Seq(Event) /\ s.comp.damage \in RowSets /\ s.comp.stage = "copying"
      /\ s.comp.session = "live" /\ s.ctx.session /\ s.ctx.made /\ b \in {"screencopy", "imagecopy"}
  BY DEF OutType, CompType, CtxType, Good, Shape, FrameNames, CanCopy
<1>2. b = "imagecopy"
  BY <1>1 DEF Good, CopyQueue
<1>3. /\ d \in Event /\ d \in Of(s.ctx.frame) /\ d \in Kind({"damage"}) /\ d \notin Ends(s.ctx.frame)
      /\ e \in Event /\ e \in Ends(s.ctx.frame) /\ e \in Kind({"ready"}) /\ e \in Of(s.ctx.frame)
      /\ \A r \in s.comp.damage : d \in Damages(s.ctx.frame, r)
  <2>1. s.ctx.frame \in 1 .. 3
    BY <1>1
  <2>2. d \in Event /\ e \in Event
    BY <1>1, <2>1, Events DEF FrameEvent
  <2> QED BY <1>1, <2>2 DEF FrameEvent, Ends, Kind, Of, Damages
<1>4. t = Send(u, <<d, e>>)
  BY <1>1 DEF Copied, OutType, CompType
<1>5. y \in CompType
  BY <1>1, SetComp, Constants
<1>6. /\ y.stage = "answered" /\ y.frame = s.comp.frame /\ y.session = s.comp.session
      /\ y.dup = s.comp.dup /\ y.size = s.comp.size /\ y.damage = {}
  BY <1>1 DEF CompType
<1> HIDE DEF y, d, e
<1>7. /\ u \in OutType /\ u.ctx = s.ctx /\ u.comp = y /\ u.q = s.q
      /\ u.news = old /\ u.behind = {}
  BY <1>5, Constants DEF OutType
<1>8. <<d, e>> \in Seq(Event)
  BY <1>3
<1> HIDE DEF u, t
<1>9. /\ t \in OutType /\ t.ctx = s.ctx /\ t.comp = y /\ t.q = s.q \o <<d, e>>
      /\ t.news = old /\ t.behind = {}
      /\ \A P : Has(t.q, P) <=> Has(s.q, P) \/ Has(<<d, e>>, P)
  <2> DEFINE r == <<d, e>>
  <2>1. r \in Seq(Event) /\ t = Send(u, r)
    BY <1>4, <1>8
  <2> HIDE DEF r
  <2>2. t \in OutType /\ t.ctx = s.ctx /\ t.comp = y /\ t.news = old /\ t.behind = {}
    BY <1>7, <2>1, Sent
  <2>3. t.q = u.q \o r
    BY <1>7, <2>1, Sent
  <2>4. t.q = s.q \o r
    BY <1>7, <2>3, Zenon
  <2>5. \A P : Has(t.q, P) <=> Has(s.q, P) \/ Has(r, P)
    BY <1>1, <2>1, <2>4, ConcatQueue
  <2> QED BY <2>2, <2>4, <2>5, Zenon DEF r
<1>10. /\ All(<<d, e>>, Of(s.ctx.frame) \cap Kind({"damage", "ready", "failed"}))
       /\ Has(<<d, e>>, Ends(s.ctx.frame)) /\ After(<<d, e>>, Ends(s.ctx.frame), {})
       /\ Has(<<d, e>>, Ends(s.ctx.frame) \cap Kind({"ready"}))
       /\ \A r \in s.comp.damage : Has(<<d, e>>, Damages(s.ctx.frame, r))
  BY <1>3 DEF All, Has, After, Kind
<1>11. Good(t, b, FALSE) /\ ~Filling(s)
  BY <1>1, <1>2, <1>6, <1>8, <1>9, <1>10, Replied
<1>12. /\ Filling(t)
       /\ \A r \in s.comp.damage : Has(t.q, Damages(s.ctx.frame, r))
  BY <1>1, <1>9, <1>10 DEF Filling
<1>13. ASSUME NEW wiped, Drawn(s, old, wiped, b, FALSE) PROVE Drawn(t, old, wiped, b, FALSE)
  BY <1>1, <1>6, <1>9, <1>11, <1>12, <1>13 DEF Drawn
<1> QED BY <1>9, <1>11, <1>13 DEF t

\* A screencopy frame, filled.
LEMMA FillSent ==
  ASSUME NEW s \in OutType, NEW b, Good(s, b, FALSE), CanFill(s), s.comp.session = "none", NEW old \in RowSets
  PROVE  LET t == Filled(s, old) IN
         /\ t \in OutType /\ t.ctx = s.ctx /\ Good(t, b, FALSE)
         /\ \A wiped : Drawn(s, old, wiped, b, FALSE) => Drawn(t, old, wiped, b, FALSE)
<1> DEFINE e == FrameEvent("ready", s.comp.frame, {})
           y == [s.comp EXCEPT !.stage = "answered"]
           u == [s EXCEPT !.comp = y, !.news = old, !.behind = {}]
           t == Filled(s, old)
<1>1. /\ s.comp \in CompType /\ s.comp.frame = s.ctx.frame /\ s.ctx.frame \in 0 .. 3 /\ s.ctx.frame # 0
      /\ s.q \in Seq(Event) /\ s.comp.stage = "copying"
      /\ ~s.ctx.session /\ s.ctx.made /\ b \in {"screencopy", "imagecopy"}
  BY DEF OutType, CompType, CtxType, Good, Shape, FrameNames, CanFill
<1>2. b = "screencopy"
  BY <1>1 DEF Good, SessionQueue
<1>3. e \in Event /\ e \in Ends(s.ctx.frame) /\ e \in Kind({"ready"}) /\ e \in Of(s.ctx.frame)
  <2>1. s.ctx.frame \in 1 .. 3
    BY <1>1
  <2>2. e \in Event
    BY <1>1, <2>1, Events DEF FrameEvent
  <2> QED BY <1>1, <2>2 DEF FrameEvent, Ends, Kind, Of
<1>4. t = Send(u, <<e>>)
  BY <1>1 DEF Filled, Answer, OutType, CompType
<1>5. y \in CompType
  BY <1>1, SetComp, Constants
<1>6. /\ y.stage = "answered" /\ y.frame = s.comp.frame /\ y.session = s.comp.session
      /\ y.dup = s.comp.dup /\ y.size = s.comp.size
  BY <1>1 DEF CompType
<1> HIDE DEF y, e
<1>7. u \in OutType /\ u.ctx = s.ctx /\ u.comp = y /\ u.q = s.q /\ u.news = old /\ u.behind = {}
  BY <1>5, Constants DEF OutType
<1>8. <<e>> \in Seq(Event)
  BY <1>3
<1> HIDE DEF u, t
<1>9. /\ t \in OutType /\ t.ctx = s.ctx /\ t.comp = y /\ t.q = s.q \o <<e>>
      /\ t.news = old /\ t.behind = {}
  <2> DEFINE r == <<e>>
  <2>1. r \in Seq(Event) /\ t = Send(u, r)
    BY <1>4, <1>8
  <2> HIDE DEF r
  <2>2. t \in OutType /\ t.ctx = s.ctx /\ t.comp = y /\ t.news = old /\ t.behind = {}
    BY <1>7, <2>1, Sent
  <2>3. t.q = u.q \o r
    BY <1>7, <2>1, Sent
  <2>4. t.q = s.q \o r
    BY <1>7, <2>3, Zenon
  <2> QED BY <2>2, <2>4, Zenon DEF r
<1>10. /\ All(<<e>>, Of(s.ctx.frame) \cap Kind({"damage", "ready", "failed"}))
       /\ Has(<<e>>, Ends(s.ctx.frame)) /\ After(<<e>>, Ends(s.ctx.frame), {})
  BY <1>3 DEF All, Has, After, Kind
<1>11. Good(t, b, FALSE)
  BY <1>1, <1>3, <1>6, <1>8, <1>9, <1>10, Replied
<1>12. ASSUME NEW wiped, Drawn(s, old, wiped, b, FALSE) PROVE Drawn(t, old, wiped, b, FALSE)
  BY <1>2, <1>6, <1>9, <1>12 DEF Drawn
<1> QED BY <1>9, <1>11, <1>12 DEF t

\* The parameters of a screencopy buffer.
LEMMA OfferSent ==
  ASSUME NEW s \in OutType, NEW b, Good(s, b, FALSE), CanOffer(s)
  PROVE  LET t == Offer(s) IN
         /\ t \in OutType /\ t.ctx = s.ctx /\ Good(t, b, FALSE)
         /\ \A old, wiped : Drawn(s, old, wiped, b, FALSE) => Drawn(t, old, wiped, b, FALSE)
<1> DEFINE d == FrameEvent("buffer", s.comp.frame, s.comp.size)
           e == FrameEvent("buffer_done", s.comp.frame, 0)
           y == [s.comp EXCEPT !.stage = "offered"]
           u == [s EXCEPT !.comp = y]
           t == Offer(s)
<1>1. /\ s.comp \in CompType /\ s.comp.frame = s.ctx.frame /\ s.ctx.frame \in 0 .. 3 /\ s.ctx.frame # 0
      /\ s.q \in Seq(Event) /\ s.comp.stage = "asked" /\ s.comp.size \in Numbers
      /\ s.ctx.made /\ b \in {"screencopy", "imagecopy"} /\ Shape(s)
  BY DEF OutType, CompType, CtxType, Good, Shape, FrameNames, CanOffer
<1>2. b = "screencopy" /\ CopyQueue(s, FALSE) /\ s.q = <<>> /\ s.comp.session = "none"
  BY <1>1 DEF Good, SessionQueue, CopyQueue, Shape
<1>3. /\ d \in Event /\ d \in Of(s.ctx.frame) /\ d \in Kind(CopyKinds) /\ d \notin Kind({"buffer_done"})
      /\ e \in Event /\ e \in Of(s.ctx.frame) /\ e \in Kind(CopyKinds)
  <2>1. s.ctx.frame \in 1 .. 3
    BY <1>1
  <2>2. d \in Event /\ e \in Event
    BY <1>1, <2>1, Events DEF FrameEvent
  <2> QED BY <1>1, <2>2 DEF FrameEvent, Kind, Of, CopyKinds
<1>4. t = Send(u, <<d, e>>)
  BY <1>1 DEF Offer, OutType, CompType
<1>5. y \in CompType
  BY <1>1, SetComp, Constants
<1>6. /\ y.stage = "offered" /\ y.frame = s.comp.frame /\ y.session = s.comp.session
      /\ y.dup = s.comp.dup /\ y.size = s.comp.size
  BY <1>1 DEF CompType
<1> HIDE DEF y, d, e
<1>7. u \in OutType /\ u.ctx = s.ctx /\ u.comp = y /\ u.q = s.q /\ u.behind = s.behind
  BY <1>5 DEF OutType
<1>8. <<d, e>> \in Seq(Event)
  BY <1>3
<1> HIDE DEF u, t
<1>9. t \in OutType /\ t.ctx = s.ctx /\ t.comp = y /\ t.q = s.q \o <<d, e>> /\ t.behind = s.behind
  <2> DEFINE r == <<d, e>>
  <2>1. r \in Seq(Event) /\ t = Send(u, r)
    BY <1>4, <1>8
  <2> HIDE DEF r
  <2>2. t \in OutType /\ t.ctx = s.ctx /\ t.comp = y /\ t.behind = s.behind
    BY <1>7, <2>1, Sent
  <2>3. t.q = u.q \o r
    BY <1>7, <2>1, Sent
  <2>4. t.q = s.q \o r
    BY <1>7, <2>3, Zenon
  <2> QED BY <2>2, <2>4, Zenon DEF r
<1>10. t.q = <<d, e>>
  BY <1>2, <1>8, <1>9
<1>11. /\ All(<<d, e>>, Of(s.ctx.frame) \cap Kind(CopyKinds)) /\ After(<<d, e>>, Kind({"buffer_done"}), {})
  BY <1>3 DEF All, After
<1>12. Good(t, b, FALSE)
  <2>1. Shape(t)
    BY <1>1, <1>6, <1>9 DEF Shape
  <2>2. CopyQueue(t, FALSE)
    BY <1>2, <1>6, <1>9, <1>10, <1>11 DEF CopyQueue
  <2> QED BY <1>1, <1>2, <1>9, <2>1, <2>2 DEF Good
<1>13. ASSUME NEW old, NEW wiped, Drawn(s, old, wiped, b, FALSE) PROVE Drawn(t, old, wiped, b, FALSE)
  BY <1>2, <1>6, <1>9, <1>13 DEF Drawn
<1> QED BY <1>9, <1>12, <1>13 DEF t

\* More events behind a queue that are not of the frame leave the pictures.
LEMMA SentDrawn ==
  ASSUME NEW s \in OutType, NEW r \in Seq(Event), ~Has(r, Kind({"ready"})),
         NEW t, t.ctx = s.ctx, t.q = s.q \o r, t.news = s.news, t.behind = s.behind,
         t.comp.size = s.comp.size, t.comp.session # "live"
  PROVE  \A old, wiped, b, blits : Drawn(s, old, wiped, b, blits) => Drawn(t, old, wiped, b, blits)
<1>1. s.q \in Seq(Event)
  BY DEF OutType
<1>2. \A P : Has(t.q, P) <=> Has(s.q, P) \/ Has(r, P)
  BY <1>1, ConcatQueue
<1>3. ~Has(r, Ends(s.ctx.frame) \cap Kind({"ready"}))
  BY DEF Has
<1>4. Filling(t) <=> Filling(s)
  BY <1>2, <1>3 DEF Filling
<1> QED BY <1>2, <1>4 DEF Drawn

\* The stop of a session that no frame is out on.
LEMMA StopSent ==
  ASSUME NEW s \in OutType, NEW b, NEW under \in BOOLEAN, Good(s, b, under), s.comp.session = "stopped",
         ~Has(s.q, Kind({"stopped"}))
  PROVE  LET t == Send(s, <<FrameEvent("stopped", 0, {})>>) IN
         /\ t \in OutType /\ t.ctx = s.ctx /\ t.comp = s.comp /\ Good(t, b, under)
         /\ \A old, wiped, c, blits : Drawn(s, old, wiped, c, blits) => Drawn(t, old, wiped, c, blits)
<1> DEFINE e == FrameEvent("stopped", 0, {})
           t == Send(s, <<e>>)
<1>1. s.q \in Seq(Event) /\ Shape(s) /\ s.ctx.session /\ s.ctx.made /\ b = "imagecopy" /\ SessionQueue(s, under)
  BY DEF OutType, Good, Shape, CopyQueue
<1>2. e \in Event /\ e \in Of(0) /\ e.kind = "stopped" /\ \A f : f # 0 => e \notin Of(f)
  <2>1. e \in Event
    BY Events DEF FrameEvent, SessionKinds
  <2> QED BY <2>1 DEF FrameEvent, Of
<1> HIDE DEF e
<1>3. <<e>> \in Seq(Event)
  BY <1>2
<1>4. /\ t \in OutType /\ t.ctx = s.ctx /\ t.comp = s.comp /\ t.q = s.q \o <<e>>
      /\ t.news = s.news /\ t.behind = s.behind
      /\ \A P : /\ Has(t.q, P) <=> Has(s.q, P) \/ Has(<<e>>, P)
                /\ All(s.q, P) /\ All(<<e>>, P) => All(t.q, P)
      /\ \A P, R : After(s.q, P, R) /\ After(<<e>>, P, R) /\ (Has(s.q, P) => All(<<e>>, R))
                     => After(t.q, P, R)
  BY <1>3, Appended
<1> HIDE DEF t
<1>5. \A P : (Has(<<e>>, P) <=> e \in P) /\ (All(<<e>>, P) <=> e \in P)
  BY DEF Has, All
<1>6. \A P, R : After(<<e>>, P, R)
  BY DEF After
<1>7. Shape(t)
  BY <1>1, <1>4 DEF Shape
<1>8. SessionQueue(t, under)
  <2> DEFINE f == s.ctx.frame
  <2>1. t.ctx.ready => All(t.q, Of(0) \cup Of(f))
    BY <1>1, <1>2, <1>4, <1>5 DEF SessionQueue
  <2>2. After(t.q, Kind({"done"}), Of(0) \cup Of(f)) /\ After(t.q, Kind({"stopped"}), Kind({"failed"}))
    BY <1>1, <1>2, <1>4, <1>5, <1>6 DEF SessionQueue
  <2>3. ASSUME f # 0
        PROVE  /\ All(t.q, (Event \ Of(f)) \cup Kind({"damage", "ready", "failed"}))
               /\ Has(t.q, Of(f)) <=> Has(s.q, Of(f))
               /\ After(t.q, Ends(f), Event \ Of(f))
    <3>1. e \in Event \ Of(f)
      BY <1>2, <2>3
    <3> QED BY <1>1, <1>4, <1>5, <1>6, <2>3, <3>1 DEF SessionQueue
  <2> QED BY <1>1, <1>4, <2>1, <2>2, <2>3 DEF SessionQueue
<1>9. Good(t, b, under)
  BY <1>1, <1>4, <1>7, <1>8 DEF Good
<1>10. ~Has(<<e>>, Kind({"ready"}))
  BY <1>2, <1>5 DEF Kind
<1>11. \A old, wiped, c, blits : Drawn(s, old, wiped, c, blits) => Drawn(t, old, wiped, c, blits)
  BY <1>3, <1>4, <1>10, SentDrawn
<1> QED BY <1>4, <1>9, <1>11 DEF t, e

\* The compositor stops a session, before or after it fails its frame.
LEMMA SessionStops ==
  ASSUME NEW s \in OutType, NEW b, NEW under \in BOOLEAN, Good(s, b, under), CanStop(s), NEW first \in BOOLEAN
  PROVE  LET t == Stopped(s, first) IN
         /\ t \in OutType /\ t.ctx = s.ctx /\ Good(t, b, under)
         /\ t.comp.session = "stopped" /\ t.behind = s.behind /\ t.comp.size = s.comp.size
         /\ \A old, wiped, c, blits : Drawn(s, old, wiped, c, blits) => Drawn(t, old, wiped, c, blits)
<1> DEFINE y == [s.comp EXCEPT !.session = "stopped"]
           u == [s EXCEPT !.comp.session = "stopped"]
           v == Send(u, <<FrameEvent("stopped", 0, {})>>)
           t == Stopped(s, first)
<1>1. /\ s.comp \in CompType /\ Shape(s) /\ s.comp.session = "live" /\ s.ctx.session /\ s.ctx.made
      /\ b = "imagecopy" /\ SessionQueue(s, under)
  BY DEF OutType, Good, Shape, CopyQueue, CanStop
<1>2. y \in CompType
  BY <1>1, SetComp, Constants
<1>3. /\ y.session = "stopped" /\ y.frame = s.comp.frame /\ y.stage = s.comp.stage
      /\ y.with = s.comp.with /\ y.dup = s.comp.dup /\ y.size = s.comp.size
  BY <1>1 DEF CompType
<1>4. u = [s EXCEPT !.comp = y]
  BY <1>1 DEF OutType, CompType
<1> HIDE DEF y, u
<1>5. /\ u \in OutType /\ u.ctx = s.ctx /\ u.comp = y /\ u.q = s.q /\ u.news = s.news /\ u.behind = s.behind
  BY <1>2, <1>4 DEF OutType
<1>6. Good(u, b, under) /\ ~Has(u.q, Kind({"stopped"})) /\ u.comp.session = "stopped"
  <2>1. Shape(u)
    BY <1>1, <1>3, <1>5 DEF Shape
  <2>2. SessionQueue(u, under) /\ ~Has(u.q, Kind({"stopped"}))
    BY <1>1, <1>3, <1>5 DEF SessionQueue
  <2> QED BY <1>1, <1>3, <1>5, <2>1, <2>2 DEF Good
<1>7. \A old, wiped, c, blits : Drawn(s, old, wiped, c, blits) => Drawn(u, old, wiped, c, blits)
  BY <1>3, <1>5 DEF Drawn, Filling
<1>8. /\ v \in OutType /\ v.ctx = u.ctx /\ v.comp = u.comp /\ Good(v, b, under)
      /\ v.behind = u.behind
      /\ \A old, wiped, c, blits : Drawn(u, old, wiped, c, blits) => Drawn(v, old, wiped, c, blits)
  <2>1. v.behind = u.behind
    BY <1>5 DEF Send, OutType
  <2> QED BY <1>5, <1>6, <2>1, StopSent
<1>9. t = IF s.comp.stage # "copying" THEN v
          ELSE IF first THEN Failed(v, "stopped")
          ELSE Send(Failed(u, "stopped"), <<FrameEvent("stopped", 0, {})>>)
  BY DEF Stopped, u
<1>10. "stopped" \in Reasons
  BY DEF Reasons
<1> HIDE DEF v, t
<1>11. CASE s.comp.stage # "copying"
  BY <1>3, <1>5, <1>7, <1>8, <1>9, <1>11 DEF t
<1>12. CASE s.comp.stage = "copying" /\ first
  <2> DEFINE w == Failed(v, "stopped")
  <2>1. under = FALSE /\ Good(v, b, FALSE) /\ v.comp.stage = "copying"
    <3>1. under = FALSE
      BY <1>12 DEF Good
    <3> QED BY <1>3, <1>5, <1>8, <1>12, <3>1
  <2>2. /\ w \in OutType /\ w.ctx = v.ctx /\ Good(w, b, FALSE) /\ Calm(v, w)
        /\ w.comp.session = v.comp.session
    BY <1>8, <1>10, <2>1, FailureSent
  <2>3. t = w
    BY <1>9, <1>12
  <2> HIDE DEF w
  <2>4. \A old, wiped, c, blits : Drawn(v, old, wiped, c, blits) => Drawn(w, old, wiped, c, blits)
    BY <1>3, <1>5, <1>8, <2>2, CalmDrawn
  <2> QED BY <1>3, <1>5, <1>7, <1>8, <2>1, <2>2, <2>3, <2>4 DEF Calm, t
<1>13. CASE s.comp.stage = "copying" /\ ~first
  <2> DEFINE w == Failed(u, "stopped")
             x == Send(w, <<FrameEvent("stopped", 0, {})>>)
  <2>1. under = FALSE /\ Good(u, b, FALSE) /\ u.comp.stage = "copying"
    <3>1. under = FALSE
      BY <1>13 DEF Good
    <3> QED BY <1>3, <1>5, <1>6, <1>13, <3>1
  <2>2. /\ w \in OutType /\ w.ctx = u.ctx /\ Good(w, b, FALSE) /\ Calm(u, w)
        /\ w.comp.session = u.comp.session /\ ~Has(w.q, Kind({"stopped"}))
    BY <1>5, <1>6, <1>10, <2>1, FailureSent
  <2>3. t = x
    BY <1>9, <1>13
  <2> HIDE DEF w
  <2>4. \A old, wiped, c, blits : Drawn(u, old, wiped, c, blits) => Drawn(w, old, wiped, c, blits)
    BY <1>6, <2>2, CalmDrawn
  <2>5. /\ x \in OutType /\ x.ctx = w.ctx /\ x.comp = w.comp /\ Good(x, b, FALSE) /\ x.behind = w.behind
        /\ \A old, wiped, c, blits : Drawn(w, old, wiped, c, blits) => Drawn(x, old, wiped, c, blits)
    <3>1. x.behind = w.behind
      BY <2>2 DEF Send, OutType
    <3> QED BY <1>6, <2>2, <3>1, StopSent
  <2> HIDE DEF x
  <2> QED BY <1>3, <1>5, <1>6, <1>7, <2>1, <2>2, <2>3, <2>4, <2>5 DEF Calm, t
<1> QED BY <1>11, <1>12, <1>13

\* An output's mode changes; its picture is new in every row.
LEMMA ModeSet ==
  ASSUME NEW s \in OutType, NEW b, NEW under \in BOOLEAN, Good(s, b, under), NEW n \in Rows(MaxRows)
  PROVE  LET t == Resized(s, n) IN
         /\ t \in OutType /\ t.ctx = s.ctx /\ Good(t, b, under)
         /\ t.comp.size = n /\ t.comp.session = s.comp.session
         /\ t.comp.session = "live" => t.comp.damage = Rows(n)
         /\ s.comp.session = "none" => t.q = s.q
         /\ \A old, wiped, c, blits : Drawn(s, old, wiped, c, blits) => Drawn(t, Rows(n), wiped, c, blits)
<1> DEFINE r == Constraints(n)
           x == [s.comp EXCEPT !.size = n]
           y == [s.comp EXCEPT !.size = n, !.damage = 1 .. n]
           t == Resized(s, n)
<1>1. s.comp \in CompType /\ s.q \in Seq(Event)
  BY DEF OutType
<1>2. n \in Numbers /\ 1 .. n \in RowSets
  BY LayoutsAssumption DEF Numbers, RowSets, Rows
<1>3. x \in CompType
  BY <1>1, <1>2, SetComp
<1>4. y \in CompType
  BY <1>1, <1>2, SetComp
<1>5. \A z \in {x, y} : /\ z.size = n /\ z.session = s.comp.session /\ z.frame = s.comp.frame
                        /\ z.stage = s.comp.stage /\ z.with = s.comp.with /\ z.dup = s.comp.dup
  BY <1>1 DEF CompType
<1>6. y.damage = Rows(n)
  BY <1>1 DEF CompType, Rows
<1>7. CASE s.comp.session # "live"
  <2>1. t = [s EXCEPT !.comp = x, !.behind = 1 .. n]
    BY <1>1, <1>7 DEF Resized, OutType, CompType
  <2> HIDE DEF x, y, t
  <2>2. /\ t \in OutType /\ t.ctx = s.ctx /\ t.comp = x /\ t.q = s.q
        /\ t.news = s.news /\ t.behind = Rows(n)
    BY <1>2, <1>3, <2>1 DEF OutType, Rows
  <2>3. Shape(t)
    BY <1>5, <2>2 DEF Good, Shape
  <2>4. /\ CopyQueue(s, under) => CopyQueue(t, under)
        /\ SessionQueue(s, under) => SessionQueue(t, under)
    BY <1>5, <2>2 DEF CopyQueue, SessionQueue
  <2>5. Good(t, b, under)
    BY <1>5, <2>2, <2>3, <2>4 DEF Good
  <2>6. \A old, wiped, c, blits : Drawn(s, old, wiped, c, blits) => Drawn(t, Rows(n), wiped, c, blits)
    BY <1>5, <1>7, <2>2 DEF Drawn, Filling
  <2> QED BY <1>5, <1>7, <2>2, <2>5, <2>6 DEF t
<1>8. CASE s.comp.session = "live"
  <2> DEFINE u == [s EXCEPT !.comp = y, !.behind = 1 .. n]
  <2>1. t = Send(u, r)
    BY <1>1, <1>8 DEF Resized, OutType, CompType
  <2> HIDE DEF x, y
  <2>2. /\ u \in OutType /\ u.ctx = s.ctx /\ u.comp = y /\ u.q = s.q
        /\ u.news = s.news /\ u.behind = Rows(n)
    BY <1>2, <1>4 DEF OutType, Rows
  <2>3. r \in Seq(Event) /\ All(r, Of(0)) /\ ~Has(r, Kind({"stopped"}))
    BY <1>2, ConstraintsSent
  <2> HIDE DEF u, r, t
  <2>4. /\ t \in OutType /\ t.ctx = s.ctx /\ t.comp = y
        /\ t.news = s.news /\ t.behind = Rows(n)
        /\ \A P : /\ Has(t.q, P) <=> Has(s.q, P) \/ Has(r, P)
                  /\ All(s.q, P) /\ All(r, P) => All(t.q, P)
        /\ \A P, R : After(s.q, P, R) /\ After(r, P, R) /\ (Has(s.q, P) => All(r, R)) => After(t.q, P, R)
    BY <2>1, <2>2, <2>3, Appended
  <2>5. Shape(t) /\ s.ctx.session /\ s.ctx.made /\ b = "imagecopy" /\ SessionQueue(s, under)
    BY <1>5, <1>8, <2>4 DEF Good, Shape, CopyQueue
  <2>6. SessionQueue(t, under)
    <3> DEFINE f == s.ctx.frame
    <3>1. All(r, Of(0) \cup Of(f)) /\ After(r, Kind({"stopped"}), Kind({"failed"}))
          /\ After(r, Kind({"done"}), Of(0) \cup Of(f))
      BY <2>3 DEF All, After, Has
    <3>2. ~Has(s.q, Kind({"stopped"})) /\ ~Has(t.q, Kind({"stopped"}))
      BY <1>8, <2>3, <2>4, <2>5 DEF SessionQueue
    <3>3. /\ t.ctx.ready => All(t.q, Of(0) \cup Of(f))
          /\ After(t.q, Kind({"done"}), Of(0) \cup Of(f)) /\ After(t.q, Kind({"stopped"}), Kind({"failed"}))
      BY <2>4, <2>5, <3>1, <3>2 DEF SessionQueue
    <3>4. ASSUME f # 0
          PROVE  /\ All(t.q, (Event \ Of(f)) \cup Kind({"damage", "ready", "failed"}))
                 /\ Has(t.q, Of(f)) <=> Has(s.q, Of(f))
                 /\ After(t.q, Ends(f), Event \ Of(f))
      <4>1. All(r, Event \ Of(f)) /\ ~Has(r, Of(f))
        BY <2>3, <3>4 DEF All, Has, Of
      <4>2. All(r, (Event \ Of(f)) \cup Kind({"damage", "ready", "failed"})) /\ After(r, Ends(f), Event \ Of(f))
        BY <4>1 DEF All, After
      <4> QED BY <2>4, <2>5, <3>4, <4>1, <4>2 DEF SessionQueue
    <3>5. Has(s.q, Ends(f)) => Has(t.q, Ends(f))
      BY <2>4
    <3> QED BY <1>5, <2>4, <2>5, <3>2, <3>3, <3>4, <3>5 DEF SessionQueue
  <2>7. Good(t, b, under)
    BY <1>5, <2>4, <2>5, <2>6 DEF Good
  <2>8. Filling(t) <=> Filling(s)
    <3>1. ASSUME s.ctx.frame # 0 PROVE ~Has(r, Ends(s.ctx.frame) \cap Kind({"ready"}))
      BY <2>3, <3>1 DEF All, Has, Of, Ends
    <3> QED BY <2>4, <3>1 DEF Filling
  <2>9. \A old, wiped, c, blits : Drawn(s, old, wiped, c, blits) => Drawn(t, Rows(n), wiped, c, blits)
    BY <1>5, <1>6, <2>4, <2>8 DEF Drawn
  <2> QED BY <1>5, <1>6, <1>8, <2>4, <2>7, <2>9 DEF t
<1> QED BY <1>7, <1>8

\* A row gets a new picture.
LEMMA RowChanged ==
  ASSUME NEW s \in OutType, NEW r \in Rows(MaxRows), r <= s.comp.size
  PROVE  LET t == [s EXCEPT !.behind = @ \cup {r},
                            !.comp.damage = IF s.comp.session = "live" THEN @ \cup {r} ELSE @] IN
         /\ t \in OutType /\ t.ctx = s.ctx /\ t.q = s.q
         /\ t.comp.size = s.comp.size /\ t.comp.session = s.comp.session
         /\ t.comp.session = "live" => t.comp.damage = s.comp.damage \cup {r}
         /\ \A b, under : Good(s, b, under) => Good(t, b, under)
         /\ \A old, wiped, b, blits : Drawn(s, old, wiped, b, blits) => Drawn(t, old \cup {r}, wiped, b, blits)
<1> DEFINE d == IF s.comp.session = "live" THEN s.comp.damage \cup {r} ELSE s.comp.damage
           y == [s.comp EXCEPT !.damage = d]
           t == [s EXCEPT !.behind = @ \cup {r},
                          !.comp.damage = IF s.comp.session = "live" THEN @ \cup {r} ELSE @]
<1>1. s.comp \in CompType /\ s.comp.damage \in RowSets /\ s.behind \in RowSets /\ s.comp.size \in Nat
  BY LayoutsAssumption DEF OutType, CompType, Numbers
<1>2. d \in RowSets /\ s.behind \cup {r} \in RowSets /\ r \in Rows(s.comp.size)
  BY <1>1, LayoutsAssumption DEF RowSets, Rows
<1>3. y \in CompType
  BY <1>1, <1>2, SetComp
<1>4. t = [s EXCEPT !.behind = s.behind \cup {r}, !.comp = y]
  BY <1>1 DEF OutType, CompType
<1>5. /\ y.size = s.comp.size /\ y.session = s.comp.session /\ y.frame = s.comp.frame
      /\ y.stage = s.comp.stage /\ y.with = s.comp.with /\ y.dup = s.comp.dup
      /\ y.session = "live" => y.damage = s.comp.damage \cup {r}
  BY <1>1 DEF CompType
<1> HIDE DEF d, y, t
<1>6. /\ t \in OutType /\ t.ctx = s.ctx /\ t.comp = y /\ t.q = s.q
      /\ t.news = s.news /\ t.behind = s.behind \cup {r}
  BY <1>2, <1>3, <1>4 DEF OutType
<1>7. ASSUME NEW b, NEW under, Good(s, b, under) PROVE Good(t, b, under)
  <2>1. Shape(t)
    BY <1>5, <1>6, <1>7 DEF Good, Shape
  <2>2. /\ CopyQueue(s, under) => CopyQueue(t, under)
        /\ SessionQueue(s, under) => SessionQueue(t, under)
    BY <1>5, <1>6 DEF CopyQueue, SessionQueue
  <2> QED BY <1>5, <1>6, <1>7, <2>1, <2>2 DEF Good
<1>8. ASSUME NEW old, NEW wiped, NEW b, NEW blits, Drawn(s, old, wiped, b, blits)
      PROVE  Drawn(t, old \cup {r}, wiped, b, blits)
  BY <1>2, <1>5, <1>6, <1>8 DEF Drawn, Filling
<1> QED BY <1>5, <1>6, <1>7, <1>8 DEF t

\* A context is dropped, with what the compositor holds for it.
LEMMA ContextDropped ==
  ASSUME NEW s \in OutType, Shape(s)
  PROVE  LET t == DropCtx(s) IN
         /\ t \in OutType /\ t.ctx = NoCtx /\ t.q = s.q /\ Shape(t) /\ Calm(s, t)
         /\ t.comp.size = s.comp.size /\ t.comp.session = "none" /\ t.behind = s.behind
         /\ \A b : Good(t, b, FALSE)
<1> DEFINE u == DestroyFrame(s)
           y == [u.comp EXCEPT !.session = "none", !.damage = {}]
           t == DropCtx(s)
<1>1. /\ u \in OutType /\ u.ctx = s.ctx /\ u.q = s.q /\ u.news = s.news /\ u.behind = s.behind
      /\ u.comp \in CompType /\ u.comp.frame = 0 /\ u.comp.stage = "none"
      /\ u.comp.size = s.comp.size /\ u.comp.dup = s.comp.dup
  BY Destroyed
<1>2. t = [[u EXCEPT !.comp.session = "none", !.comp.damage = {}] EXCEPT !.ctx = NoCtx]
  BY DEF DropCtx, DestroySession
<1> HIDE DEF u, t
<1>3. t = [u EXCEPT !.ctx = NoCtx, !.comp = y]
  BY <1>1, <1>2 DEF OutType, CompType
<1>4. y \in CompType
  BY <1>1, SetComp, Constants
<1>5. y.session = "none" /\ y.frame = 0 /\ y.stage = "none" /\ y.size = s.comp.size /\ y.dup = s.comp.dup
  BY <1>1 DEF CompType
<1> HIDE DEF y
<1>6. t \in OutType /\ t.ctx = NoCtx /\ t.comp = y /\ t.q = s.q /\ t.behind = s.behind
  BY <1>1, <1>3, <1>4, NewCtxs DEF OutType
<1>7. Shape(t) /\ ~t.ctx.made /\ t.ctx.frame = 0
  BY <1>5, <1>6, NewCtxs DEF Shape
<1> QED BY <1>5, <1>6, <1>7 DEF Good, Calm, Filling, t

\* An output that has no context gets one.
LEMMA ContextMade ==
  ASSUME NEW s \in OutType, Shape(s), ~s.ctx.made
  PROVE  LET t == [s EXCEPT !.ctx = NewCtx] IN
         /\ t \in OutType /\ t.ctx = NewCtx /\ t.q = s.q /\ t.comp = s.comp /\ Shape(t) /\ Calm(s, t)
         /\ ~Filling(s) /\ s.q = <<>> => Good(t, "screencopy", FALSE)
         /\ s.comp.session = "none"
<1> DEFINE t == [s EXCEPT !.ctx = NewCtx]
<1>1. /\ t \in OutType /\ t.ctx = NewCtx /\ t.comp = s.comp /\ t.q = s.q /\ t.behind = s.behind
  BY NewCtxs DEF OutType
<1>2. s.comp.frame = 0 /\ s.ctx.frame = 0 /\ s.comp.session = "none" /\ s.comp.stage = "none" /\ ~s.comp.dup
  <2>1. s.comp.session \in Sessions
    BY DEF OutType, CompType
  <2> QED BY <2>1 DEF Shape
<1> HIDE DEF t
<1>3. Shape(t) /\ Calm(s, t) /\ ~Filling(s)
  BY <1>1, <1>2, NewCtxs DEF Shape, Calm, Filling
<1>4. s.q = <<>> => Good(t, "screencopy", FALSE)
  BY <1>1, <1>2, <1>3, NewCtxs DEF Good, CopyQueue
<1> QED BY <1>1, <1>2, <1>3, <1>4 DEF t

\* sync_outputs, with image-copy.
LEMMA Synced ==
  ASSUME NEW s \in OutType, Shape(s), s.ctx.made => Good(s, "imagecopy", FALSE),
         ~s.ctx.made => ~Has(s.q, Of(0))
  PROVE  LET t == Sync(s) IN
         /\ t \in OutType /\ t.ctx.made /\ Good(t, "imagecopy", FALSE)
         /\ t = s \/ (~Filling(s) /\ Calm(s, t))
<1>1. CASE s.ctx.made /\ s.ctx.session
  BY <1>1 DEF Sync
<1>2. CASE s.ctx.made /\ ~s.ctx.session
  <2>1. Sync(s) = CreateSession(s)
    BY <1>2 DEF Sync
  <2>2. SessionQueue(s, FALSE) /\ s.comp.session = "none" /\ s.ctx.frame = 0
    BY <1>2 DEF Good, Shape, SessionQueue
  <2>3. ~Has(s.q, Kind({"stopped"})) /\ After(s.q, Kind({"done"}), Of(0))
    BY <2>2 DEF SessionQueue
  <2> QED BY <1>2, <2>1, <2>2, <2>3, SessionCreated, Unframed
<1>3. CASE ~s.ctx.made
  <2> DEFINE u == [s EXCEPT !.ctx = NewCtx]
             t == CreateSession(u)
  <2>1. u \in OutType /\ u.ctx = NewCtx /\ u.q = s.q /\ Shape(u) /\ Calm(s, u) /\ ~Filling(s)
        /\ u.comp = s.comp /\ s.comp.session = "none"
    BY <1>3, ContextMade DEF Filling, Shape
  <2> HIDE DEF u
  <2>2. Sync(s) = t
    BY <1>3, <2>1, NewCtxs DEF Sync, u
  <2>3. ~Has(u.q, Kind({"stopped"})) /\ ~Has(u.q, Kind({"done"}))
    BY <1>3, <2>1 DEF Has, Kind, Of, Event, SessionKinds
  <2>4. After(u.q, Kind({"done"}), Of(0))
    BY <2>3, QueueSets
  <2>5. t \in OutType /\ t.ctx.made /\ Good(t, "imagecopy", FALSE) /\ Calm(u, t)
    BY <2>1, <2>3, <2>4, NewCtxs, SessionCreated
  <2> HIDE DEF t
  <2>6. Calm(s, t)
    BY <2>1, <2>5 DEF Calm
  <2> QED BY <2>1, <2>2, <2>5, <2>6
<1> QED BY <1>1, <1>2, <1>3

-----------------------------------------------------------------------------
(* Step by step: the invariant of the outputs.                             *)

\* Between two frames no output is being put on the framebuffer.
LEMMA Idle ==
  ready = NoFrame => \A o : Reports(o) = FALSE /\ Blitting(o) = FALSE
BY DEF Reports, Blitting, NoFrame

\* What is under way is a blit, then a report.
LEMMA UnderWay ==
  ASSUME OutputsType
  PROVE  /\ \A o : Reports(o) \in BOOLEAN /\ Blitting(o) \in BOOLEAN /\ (Blitting(o) => Reports(o))
         /\ ready # NoFrame => ready.out \in Outputs /\ Reports(ready.out) = TRUE
         /\ ready.step = "blit" => ready \in BlitSteps
         /\ ready.step = "report" => ready \in ReportSteps
         /\ ready.step \in {"none", "blit", "report"}
         /\ ready.step = "none" <=> ready = NoFrame
BY DEF OutputsType, Reports, Blitting, NoFrame, BlitSteps, ReportSteps

\* The parts of the invariant at one output.
LEMMA At ==
  ASSUME OutInv, NEW o \in Outputs
  PROVE  /\ out[o] \in OutType /\ stale[o] \in RowSets /\ blank[o] \in RowSets
         /\ Good(out[o], backend, Reports(o)) /\ Shape(out[o])
         /\ out[o].ctx.made => o \in present /\ backend # "none"
         /\ o \in present /\ ~out[o].ctx.made => out[o].q = <<>>
         /\ Drawn(out[o], stale[o], blank[o], backend, Blitting(o))
         /\ Blitting(o) =>
              /\ ready.behind \subseteq Rows(out[o].comp.size)
              /\ out[o].comp.session = "live" => ready.behind \subseteq out[o].comp.damage
              /\ ~ready.diff => ready.news \subseteq ready.damage \cup blank[o]
              /\ ready.at.place[o] # layout.place[o] => blank[o] = Rows(MaxRows)
BY DEF OutInv, OutputsType, FramesInv, FramesOf, PicturesInv, PicturesOf, Good

\* A step of the Wayland thread between two frames.
LEMMA QuietStep ==
  ASSUME OutInv, ready = NoFrame, UNCHANGED <<fbVars, present>>,
         backend' \in {"none", "screencopy", "imagecopy"}, out' \in [Outputs -> OutType],
         \A o \in Outputs : /\ Good(out'[o], backend', FALSE)
                            /\ out'[o].ctx.made => o \in present
                            /\ o \in present /\ ~out'[o].ctx.made => out'[o].q = <<>>
                            /\ Drawn(out'[o], stale[o], blank[o], backend', FALSE)
  PROVE  OutInv'
<1>1. OutputsType'
  BY DEF OutInv, OutputsType, fbVars
<1>2. \A o \in Outputs : Reports(o)' = FALSE /\ Blitting(o)' = FALSE
  BY DEF Reports, Blitting, NoFrame, fbVars
<1>3. FramesInv'
  BY <1>2 DEF FramesInv, FramesOf, fbVars
<1>4. PicturesInv'
  BY <1>2 DEF PicturesInv, PicturesOf, fbVars
<1> QED BY <1>1, <1>3, <1>4 DEF OutInv

\* A step that touches one output, and no picture.
LEMMA OutputStep ==
  ASSUME OutInv, NEW o \in Outputs, NEW t \in OutType, out' = [out EXCEPT ![o] = t],
         UNCHANGED <<fbVars, present, backend>>,
         Good(t, backend, Reports(o)), t.ctx.made = out[o].ctx.made,
         o \in present /\ ~t.ctx.made => t.q = <<>>,
         Drawn(t, stale[o], blank[o], backend, Blitting(o)),
         Blitting(o) => /\ t.comp.size = out[o].comp.size
                        /\ t.comp.session = "live" => out[o].comp.session = "live" /\ t.comp.damage = out[o].comp.damage
  PROVE  OutInv'
<1>1. out \in [Outputs -> OutType] /\ out'[o] = t /\ \A p \in Outputs : p # o => out'[p] = out[p]
  BY DEF OutInv, OutputsType
<1>2. OutputsType'
  BY <1>1 DEF OutInv, OutputsType, fbVars
<1>3. \A p \in Outputs : Reports(p)' = Reports(p) /\ Blitting(p)' = Blitting(p)
  BY DEF Reports, Blitting, fbVars
<1>4. FramesInv'
  <2> SUFFICES ASSUME NEW p \in Outputs PROVE FramesOf(p)'
    BY DEF FramesInv
  <2>1. CASE p = o
    BY <1>1, <1>3, <2>1, At DEF FramesOf
  <2>2. CASE p # o
    BY <1>1, <1>3, <2>2 DEF OutInv, FramesInv, FramesOf
  <2> QED BY <2>1, <2>2
<1>5. PicturesInv'
  <2> SUFFICES ASSUME NEW p \in Outputs PROVE PicturesOf(p)'
    BY DEF PicturesInv
  <2>1. CASE p = o
    BY <1>1, <1>3, <2>1, At DEF PicturesOf, fbVars
  <2>2. CASE p # o
    BY <1>1, <1>3, <2>2 DEF OutInv, PicturesInv, PicturesOf, fbVars
  <2> QED BY <2>1, <2>2
<1> QED BY <1>2, <1>4, <1>5 DEF OutInv

\* maybe_start_captures, whatever calls it.
LEMMA Started ==
  ASSUME OutInv, ready = NoFrame, UNCHANGED <<fbVars, present>>, NEW g, NEW s, MaybeStart(g, s)
  PROVE  OutInv'
<1>1. /\ out \in [Outputs -> OutType] /\ backend \in {"none", "screencopy", "imagecopy"}
      /\ \A o \in Outputs : Reports(o) = FALSE /\ Blitting(o) = FALSE
  BY Idle DEF OutInv, OutputsType
<1>2. CASE ~s \/ ~(HasWlr(g) \/ HasExt(g))
  <2>1. out' = out /\ backend' = backend
    BY <1>2 DEF MaybeStart
  <2>2. \A o \in Outputs : /\ Good(out[o], backend, FALSE)
                           /\ out[o].ctx.made => o \in present
                           /\ o \in present /\ ~out[o].ctx.made => out[o].q = <<>>
                           /\ Drawn(out[o], stale[o], blank[o], backend, FALSE)
    BY <1>1, At
  <2> QED BY <1>1, <2>1, <2>2, QuietStep
<1>3. CASE ~(~s \/ ~(HasWlr(g) \/ HasExt(g)))
  <2> DEFINE b == Chosen(g)
             base == IF backend = "screencopy" /\ b # backend THEN DropAll(out) ELSE out
             t(o) == IF b = "imagecopy" THEN Sync(base[o]) ELSE SyncCopy(base[o])
  <2>1. /\ backend' = b
        /\ out' = [o \in Outputs |-> IF o \notin present THEN base[o] ELSE t(o)]
    BY <1>3 DEF MaybeStart
  <2>2. b \in {"screencopy", "imagecopy"} /\ (b = "screencopy" => backend \in {"none", "screencopy"})
    BY <1>1, <1>3 DEF Chosen
  <2> HIDE DEF b
  <2>3. ASSUME NEW o \in Outputs
        PROVE  /\ base[o] \in OutType /\ Shape(base[o])
               /\ base[o].ctx.made => Good(base[o], b, FALSE) /\ o \in present
               /\ o \in present /\ ~base[o].ctx.made => ~Has(base[o].q, Of(0)) /\ (b = "screencopy" => base[o].q = <<>>)
               /\ Drawn(base[o], stale[o], blank[o], b, FALSE)
    <3>0. /\ out[o] \in OutType /\ Good(out[o], backend, FALSE) /\ Shape(out[o])
          /\ out[o].ctx.made => o \in present /\ backend # "none"
          /\ o \in present /\ ~out[o].ctx.made => out[o].q = <<>>
          /\ Drawn(out[o], stale[o], blank[o], backend, FALSE)
      BY <1>1, At
    <3>1. CASE backend = "screencopy" /\ b # backend
      <4> DEFINE u == DropCtx(out[o])
      <4>1. base[o] = u
        BY <3>1 DEF DropAll
      <4>2. /\ u \in OutType /\ u.ctx = NoCtx /\ u.q = out[o].q /\ Shape(u) /\ Calm(out[o], u)
            /\ u.comp.session = "none"
        BY <3>0, ContextDropped
      <4>3. ~Has(out[o].q, Of(0)) \/ o \notin present
        <5>1. CASE ~out[o].ctx.made
          BY <3>0, <5>1 DEF Has
        <5>2. CASE out[o].ctx.made
          <6>1. CopyQueue(out[o], FALSE) /\ out[o].comp.stage \in Stages /\ out[o].ctx.frame = 0 <=> out[o].comp.stage = "none"
            BY <3>0, <3>1, <5>2 DEF Good, Shape, OutType, CompType
          <6>2. CASE out[o].comp.stage \in {"none", "asked", "copying"}
            BY <3>0, <3>1, <5>2, <6>2 DEF Good, CopyQueue, Has
          <6>3. CASE out[o].comp.stage = "offered"
            <7>1. All(out[o].q, Kind(CopyKinds)) /\ out[o].q \in Seq(Event)
              BY <3>0, <3>1, <5>2, <6>3 DEF Good, CopyQueue, All, OutType
            <7>2. Kind(CopyKinds) \cap Of(0) = {}
              BY DEF Kind, Of, Event, CopyKinds, SessionKinds
            <7> QED BY <7>1, <7>2, QueueSets
          <6>4. CASE out[o].comp.stage = "answered"
            <7>1. PICK e \in Ends(out[o].ctx.frame) : out[o].q = <<e>>
              BY <3>0, <3>1, <5>2, <6>4 DEF Good, CopyQueue
            <7>2. e \notin Of(0)
              BY DEF Ends, Of, Event, SessionKinds
            <7> QED BY <7>1, <7>2 DEF Has
          <6>5. out[o].comp.stage \in Stages
            BY <3>0 DEF OutType, CompType
          <6> QED BY <6>2, <6>3, <6>4, <6>5 DEF Stages
        <5> QED BY <5>1, <5>2
      <4> HIDE DEF u, base
      <4>4. Drawn(u, stale[o], blank[o], b, FALSE)
        BY <3>0, <4>2, CalmDrawn
      <4> QED BY <2>2, <3>1, <4>1, <4>2, <4>3, <4>4, NewCtxs
    <3>2. CASE ~(backend = "screencopy" /\ b # backend)
      <4>1. base[o] = out[o]
        BY <3>2
      <4> HIDE DEF base
      <4>2. out[o].ctx.made => b = backend
        BY <1>1, <2>2, <3>0, <3>2, <1>3 DEF Chosen, b
      <4>3. Drawn(out[o], stale[o], blank[o], b, FALSE)
        <5>1. ~out[o].ctx.made => ~Filling(out[o])
          BY <3>0 DEF Filling, Shape
        <5> QED BY <3>0, <4>2, <5>1 DEF Drawn
      <4>4. out[o].ctx.made => Good(out[o], b, FALSE)
        BY <3>0, <4>2
      <4>5. ~Has(<<>>, Of(0))
        BY DEF Has
      <4> QED BY <3>0, <4>1, <4>3, <4>4, <4>5
    <3> QED BY <3>1, <3>2
  <2> HIDE DEF base
  <2>4. ASSUME NEW o \in Outputs, o \in present
        PROVE  /\ t(o) \in OutType /\ t(o).ctx.made /\ Good(t(o), b, FALSE)
               /\ Drawn(t(o), stale[o], blank[o], b, FALSE)
    <3>1. CASE b = "imagecopy"
      <4> DEFINE v == Sync(base[o])
      <4>1. /\ v \in OutType /\ v.ctx.made /\ Good(v, "imagecopy", FALSE)
            /\ v = base[o] \/ (~Filling(base[o]) /\ Calm(base[o], v))
        BY <2>3, <2>4, <3>1, Synced
      <4>2. t(o) = v
        BY <3>1
      <4> HIDE DEF v, t
      <4>3. Drawn(v, stale[o], blank[o], b, FALSE)
        BY <2>3, <4>1, CalmDrawn
      <4> QED BY <3>1, <4>1, <4>2, <4>3
    <3>2. CASE b = "screencopy" /\ base[o].ctx.made
      BY <2>2, <2>3, <3>2 DEF SyncCopy
    <3>3. CASE b = "screencopy" /\ ~base[o].ctx.made
      <4> DEFINE v == [base[o] EXCEPT !.ctx = NewCtx]
      <4>1. ~Filling(base[o])
        BY <2>3, <3>3 DEF Shape, Filling
      <4>2. v \in OutType /\ v.ctx = NewCtx /\ Calm(base[o], v) /\ Good(v, "screencopy", FALSE)
        BY <2>3, <2>4, <3>3, <4>1, ContextMade
      <4>3. t(o) = v
        BY <3>3 DEF SyncCopy
      <4> HIDE DEF v, t
      <4>4. Drawn(v, stale[o], blank[o], b, FALSE)
        BY <2>3, <4>1, <4>2, CalmDrawn
      <4> QED BY <3>3, <4>2, <4>3, <4>4, NewCtxs
    <3> QED BY <2>2, <3>1, <3>2, <3>3
  <2> HIDE DEF t
  <2>5. ASSUME NEW o \in Outputs
        PROVE  /\ out'[o] \in OutType /\ Good(out'[o], b, FALSE)
               /\ out'[o].ctx.made => o \in present
               /\ o \in present /\ ~out'[o].ctx.made => out'[o].q = <<>>
               /\ Drawn(out'[o], stale[o], blank[o], b, FALSE)
    <3>1. CASE o \in present
      <4>1. out'[o] = t(o)
        BY <2>1, <3>1
      <4> QED BY <2>4, <3>1, <4>1
    <3>2. CASE o \notin present
      <4>1. out'[o] = base[o]
        BY <2>1, <3>2
      <4> QED BY <2>3, <3>2, <4>1 DEF Good
    <3> QED BY <3>1, <3>2
  <2>6. out' \in [Outputs -> OutType]
    BY <2>1, <2>5
  <2> QED BY <2>1, <2>2, <2>5, <2>6, QuietStep
<1> QED BY <1>2, <1>3

LEMMA ArriveStep ==
  ASSUME OutInv, NEW g \in Globals, Arrive(g) PROVE OutInv'
BY Started DEF Arrive

LEMMA SettleStep ==
  ASSUME OutInv, Settle PROVE OutInv'
BY Started DEF Settle

LEMMA ApplyStep ==
  ASSUME OutInv, NEW o \in Outputs, Apply(o) PROVE OutInv'
BY Started DEF Apply

LEMMA AnnounceStep ==
  ASSUME OutInv, NEW o \in Outputs, Announce(o) PROVE OutInv'
<1>1. /\ ready = NoFrame /\ ready' = ready /\ o \notin present /\ out[o].q = <<>>
      /\ present' = present \cup {o} /\ stale' = [stale EXCEPT ![o] = Rows(out[o].comp.size)]
      /\ layout' = layout /\ blank' = blank /\ out' = out /\ backend' = backend
  BY DEF Announce
<1>2. OutputsType
  BY DEF OutInv
<1>3. Rows(out[o].comp.size) \in RowSets
  BY <1>2, LayoutsAssumption DEF OutputsType, OutType, CompType, Numbers, RowSets, Rows
<1>4. OutputsType'
  BY <1>1, <1>2, <1>3 DEF OutputsType
<1>5. \A p : Reports(p)' = FALSE /\ Blitting(p)' = FALSE
  BY <1>1 DEF Reports, Blitting, NoFrame
<1>6. ASSUME NEW p \in Outputs
      PROVE  /\ Good(out[p], backend, FALSE)
             /\ out[p].ctx.made => p \in present
             /\ p \in present' /\ ~out[p].ctx.made => out[p].q = <<>>
             /\ Drawn(out[p], stale'[p], blank[p], backend, FALSE)
  <2>1. /\ Good(out[p], backend, FALSE) /\ Shape(out[p])
        /\ out[p].ctx.made => p \in present
        /\ p \in present /\ ~out[p].ctx.made => out[p].q = <<>>
        /\ Drawn(out[p], stale[p], blank[p], backend, FALSE)
    BY <1>1, Idle, At
  <2>2. CASE p = o
    <3>1. ~Filling(out[o]) /\ out[o].comp.session # "live"
      BY <1>1, <2>1, <2>2 DEF Shape, Filling
    <3>2. stale'[o] = Rows(out[o].comp.size)
      BY <1>1, <1>2 DEF OutputsType
    <3> QED BY <1>1, <2>1, <2>2, <3>1, <3>2 DEF Drawn
  <2>3. CASE p # o
    <3>1. stale'[p] = stale[p]
      BY <1>1, <1>2, <2>3 DEF OutputsType
    <3> QED BY <1>1, <2>1, <2>3, <3>1
  <2> QED BY <2>2, <2>3
<1>7. FramesInv'
  BY <1>1, <1>5, <1>6 DEF FramesInv, FramesOf
<1>8. PicturesInv'
  BY <1>1, <1>5, <1>6 DEF PicturesInv, PicturesOf
<1> QED BY <1>4, <1>7, <1>8 DEF OutInv

LEMMA RemoveStep ==
  ASSUME OutInv, NEW o \in Outputs, RemoveOutput(o) PROVE OutInv'
<1> DEFINE t == DropCtx(out[o])
<1>1. /\ ready = NoFrame /\ ready' = ready /\ present' = present \ {o}
      /\ out' = [out EXCEPT ![o] = t]
      /\ stale' = [stale EXCEPT ![o] = {}] /\ blank' = [blank EXCEPT ![o] = {}]
      /\ layout' = layout /\ backend' = backend
  BY DEF RemoveOutput
<1>2. OutputsType
  BY DEF OutInv
<1>3. /\ t \in OutType /\ t.ctx = NoCtx /\ Calm(out[o], t) /\ t.comp.session = "none"
      /\ Good(t, backend, FALSE)
  BY At, ContextDropped
<1> HIDE DEF t
<1>4. OutputsType'
  BY <1>1, <1>2, <1>3, Constants DEF OutputsType
<1>5. \A p : Reports(p)' = FALSE /\ Blitting(p)' = FALSE
  BY <1>1 DEF Reports, Blitting, NoFrame
<1>6. ASSUME NEW p \in Outputs
      PROVE  /\ Good(out'[p], backend, FALSE)
             /\ out'[p].ctx.made => p \in present'
             /\ p \in present' /\ ~out'[p].ctx.made => out'[p].q = <<>>
             /\ Drawn(out'[p], stale'[p], blank'[p], backend, FALSE)
  <2>1. /\ Good(out[p], backend, FALSE)
        /\ out[p].ctx.made => p \in present
        /\ p \in present /\ ~out[p].ctx.made => out[p].q = <<>>
        /\ Drawn(out[p], stale[p], blank[p], backend, FALSE)
    BY <1>1, Idle, At
  <2>2. CASE p = o
    <3>1. out'[o] = t /\ stale'[o] = {} /\ blank'[o] = {}
      BY <1>1, <1>2 DEF OutputsType
    <3>2. Drawn(t, {}, {}, backend, FALSE)
      BY <1>3, <2>1, <2>2 DEF Drawn, Calm
    <3> QED BY <1>1, <1>3, <2>2, <3>1, <3>2, NewCtxs
  <2>3. CASE p # o
    <3>1. out'[p] = out[p] /\ stale'[p] = stale[p] /\ blank'[p] = blank[p]
      BY <1>1, <1>2, <2>3 DEF OutputsType
    <3> QED BY <1>1, <2>1, <2>3, <3>1
  <2> QED BY <2>2, <2>3
<1>7. FramesInv'
  BY <1>1, <1>5, <1>6 DEF FramesInv, FramesOf
<1>8. PicturesInv'
  BY <1>1, <1>5, <1>6 DEF PicturesInv, PicturesOf
<1> QED BY <1>4, <1>7, <1>8 DEF OutInv

LEMMA TickStep ==
  ASSUME OutInv, Tick PROVE OutInv'
<1> DEFINE t(o) == IF o \notin Due THEN out[o]
                   ELSE IF backend = "imagecopy" THEN StartCapture(out[o]) ELSE CaptureOutput(out[o])
<1>1. /\ ready = NoFrame /\ UNCHANGED <<fbVars, present, backend>>
      /\ out' = [o \in Outputs |-> t(o)]
  BY DEF Tick
<1>2. ASSUME NEW o \in Outputs
      PROVE  /\ t(o) \in OutType /\ Good(t(o), backend, FALSE)
             /\ t(o).ctx.made => o \in present
             /\ o \in present /\ ~t(o).ctx.made => t(o).q = <<>>
             /\ Drawn(t(o), stale[o], blank[o], backend, FALSE)
  <2>1. /\ out[o] \in OutType /\ Good(out[o], backend, FALSE)
        /\ out[o].ctx.made => o \in present
        /\ o \in present /\ ~out[o].ctx.made => out[o].q = <<>>
        /\ Drawn(out[o], stale[o], blank[o], backend, FALSE)
    BY <1>1, Idle, At
  <2>2. CASE o \notin Due
    BY <2>1, <2>2
  <2>3. CASE o \in Due /\ backend = "imagecopy"
    <3> DEFINE u == StartCapture(out[o])
    <3>1. out[o].ctx.made /\ out[o].ctx.frame = 0
      BY <2>3 DEF Due
    <3>2. u \in OutType /\ u.ctx.made /\ Good(u, "imagecopy", FALSE) /\ Calm(out[o], u)
      BY <2>1, <2>3, <3>1, CaptureStarted
    <3>3. t(o) = u
      BY <2>3
    <3>4. ~Filling(out[o])
      BY <3>1 DEF Filling
    <3> HIDE DEF u, t
    <3>5. Drawn(u, stale[o], blank[o], backend, FALSE)
      BY <2>1, <3>2, <3>4, CalmDrawn
    <3> QED BY <2>1, <2>3, <3>1, <3>2, <3>3, <3>5
  <2>4. CASE o \in Due /\ backend # "imagecopy"
    <3> DEFINE u == CaptureOutput(out[o])
    <3>1. out[o].ctx.made /\ out[o].ctx.frame = 0 /\ backend = "screencopy"
      BY <2>1, <2>4 DEF Due, Good
    <3>2. /\ u \in OutType /\ u.ctx.made /\ Good(u, "screencopy", FALSE)
          /\ \A old, wiped : Drawn(out[o], old, wiped, "screencopy", FALSE) => Drawn(u, old, wiped, "screencopy", FALSE)
      BY <2>1, <3>1, OutputCaptured
    <3>3. t(o) = u
      BY <2>4
    <3> HIDE DEF u, t
    <3> QED BY <2>1, <3>1, <3>2, <3>3
  <2> QED BY <2>2, <2>3, <2>4
<1> HIDE DEF t
<1>3. /\ out' \in [Outputs -> OutType] /\ backend' \in {"none", "screencopy", "imagecopy"} /\ backend' = backend
      /\ \A o \in Outputs : out'[o] = t(o)
  BY <1>1, <1>2 DEF OutInv, OutputsType
<1>4. \A o \in Outputs : /\ Good(out'[o], backend', FALSE)
                         /\ out'[o].ctx.made => o \in present
                         /\ o \in present /\ ~out'[o].ctx.made => out'[o].q = <<>>
                         /\ Drawn(out'[o], stale[o], blank[o], backend', FALSE)
  BY <1>2, <1>3
<1> QED BY <1>1, <1>3, <1>4, QuietStep

LEMMA DispatchStep ==
  ASSUME OutInv, NEW o \in Outputs, Dispatch(o) PROVE OutInv'
<1> DEFINE e == Head(out[o].q)
           s == [out[o] EXCEPT !.q = Tail(@)]
           t == IF e.kind \in SessionKinds THEN
                  (IF backend = "imagecopy" /\ s.ctx.made THEN SessionEvent(s, e) ELSE s)
                ELSE IF e.kind \in CopyKinds \/ backend = "screencopy" THEN
                  (IF backend = "screencopy" THEN CopyEvent(s, e) ELSE s)
                ELSE ScreenFrameEvent(s, e)
<1>1. /\ ready = NoFrame /\ out[o].q # <<>> /\ ~(e.kind = "ready" /\ IsCurrent(s, e))
      /\ out' = [out EXCEPT ![o] = t] /\ UNCHANGED <<fbVars, present, backend>>
  BY DEF Dispatch
<1>2. /\ Reports(o) = FALSE /\ Blitting(o) = FALSE
      /\ out[o] \in OutType /\ Good(out[o], backend, FALSE) /\ Shape(out[o])
      /\ out[o].ctx.made => o \in present
      /\ o \in present /\ ~out[o].ctx.made => out[o].q = <<>>
      /\ Drawn(out[o], stale[o], blank[o], backend, FALSE)
  BY <1>1, Idle, At
<1>3. /\ e \in Event /\ out[o].q \in Seq(Event) /\ s.ctx = out[o].ctx
  BY <1>1, <1>2, TailQueue DEF OutType
<1>4. e.frame = 0 <=> e.kind \in SessionKinds
  BY <1>3 DEF Event
<1> DEFINE Kept(v) == /\ v \in OutType /\ v.ctx.made = out[o].ctx.made /\ Good(v, backend, FALSE)
                      /\ Drawn(v, stale[o], blank[o], backend, FALSE)
<1>5. ASSUME out[o].ctx.frame = 0 \/ e.frame # out[o].ctx.frame
      PROVE  Kept(s) /\ (e.kind \notin SessionKinds => StaleFrame(s, e) = s)
  <2> HIDE DEF s, e
  <2> QED BY <1>1, <1>2, <1>5, Ignored DEF s, e
<1> HIDE DEF s
<1>6. CASE e.kind \in SessionKinds /\ backend = "imagecopy" /\ out[o].ctx.made
  <2> DEFINE v == SessionEvent(s, e)
  <2>1. /\ v \in OutType /\ v.ctx.made /\ Good(v, "imagecopy", FALSE)
        /\ \A old, wiped : Drawn(out[o], old, wiped, "imagecopy", FALSE) => Drawn(v, old, wiped, "imagecopy", FALSE)
    BY <1>1, <1>2, <1>6, SessionDispatched DEF s
  <2>2. t = v
    BY <1>3, <1>6
  <2> HIDE DEF v
  <2>3. out[o].ctx.made = TRUE /\ v.ctx.made = TRUE
    BY <1>2, <1>6, <2>1 DEF OutType, CtxType
  <2>4. Kept(t)
    BY <1>2, <1>6, <2>1, <2>2, <2>3
  <2> HIDE DEF t
  <2> QED BY <1>1, <1>2, <2>4, OutputStep
<1>7. CASE e.kind \in SessionKinds /\ ~(backend = "imagecopy" /\ out[o].ctx.made)
  <2>1. t = s
    BY <1>3, <1>7
  <2>2. out[o].ctx.frame = 0 \/ e.frame # out[o].ctx.frame
    BY <1>4, <1>7
  <2>3. Kept(t)
    BY <1>5, <2>1, <2>2
  <2>4. o \in present /\ ~t.ctx.made => t.q = <<>>
    BY <1>1, <1>2, <2>3
  <2> HIDE DEF t
  <2> QED BY <1>1, <1>2, <2>3, <2>4, OutputStep
<1>8. CASE e.kind \notin SessionKinds /\ (out[o].ctx.frame = 0 \/ e.frame # out[o].ctx.frame)
  <2>1. ~IsCurrent(s, e) /\ StaleFrame(s, e) = s
    BY <1>3, <1>5, <1>8 DEF IsCurrent
  <2>2. t = s
    BY <1>8, <2>1 DEF CopyEvent, ScreenFrameEvent
  <2>3. Kept(t)
    BY <1>5, <1>8, <2>2
  <2>4. o \in present /\ ~t.ctx.made => t.q = <<>>
    BY <1>1, <1>2, <2>3
  <2> HIDE DEF t
  <2> QED BY <1>1, <1>2, <2>3, <2>4, OutputStep
<1>9. CASE e.kind \notin SessionKinds /\ ~(out[o].ctx.frame = 0 \/ e.frame # out[o].ctx.frame)
  <2>1. e.kind # "ready" /\ out[o].ctx.made /\ backend \in {"screencopy", "imagecopy"}
    BY <1>1, <1>2, <1>3, <1>9 DEF IsCurrent, Shape, Good
  <2>2. out[o].ctx.made = TRUE
    BY <1>2, <2>1 DEF OutType, CtxType
  <2>3. CASE backend = "screencopy"
    <3> DEFINE v == CopyEvent(s, e)
    <3>1. /\ v \in OutType /\ v.ctx.made /\ Good(v, "screencopy", FALSE)
          /\ \A old, wiped : Drawn(out[o], old, wiped, "screencopy", FALSE) => Drawn(v, old, wiped, "screencopy", FALSE)
      BY <1>1, <1>2, <1>9, <2>1, <2>3, CopyDispatched DEF s
    <3>2. t = v
      BY <1>9, <2>3
    <3> HIDE DEF v
    <3>3. v.ctx.made = TRUE
      BY <3>1 DEF OutType, CtxType
    <3>4. Kept(t)
      BY <1>2, <2>2, <2>3, <3>1, <3>2, <3>3
    <3> HIDE DEF t
    <3> QED BY <1>1, <1>2, <2>1, <3>4, OutputStep
  <2>4. CASE backend = "imagecopy" /\ e.kind \notin CopyKinds
    <3> DEFINE v == ScreenFrameEvent(s, e)
    <3>1. /\ v \in OutType /\ v.ctx.made /\ Good(v, "imagecopy", FALSE)
          /\ \A old, wiped : Drawn(out[o], old, wiped, "imagecopy", FALSE) => Drawn(v, old, wiped, "imagecopy", FALSE)
      BY <1>1, <1>2, <1>9, <2>1, <2>4, FrameDispatched DEF s
    <3>2. t = v
      BY <1>9, <2>4
    <3> HIDE DEF v
    <3>3. v.ctx.made = TRUE
      BY <3>1 DEF OutType, CtxType
    <3>4. Kept(t)
      BY <1>2, <2>2, <2>4, <3>1, <3>2, <3>3
    <3> HIDE DEF t
    <3> QED BY <1>1, <1>2, <2>1, <3>4, OutputStep
  <2>5. CASE backend = "imagecopy" /\ e.kind \in CopyKinds
    <3>1. All(out[o].q, (Event \ Of(out[o].ctx.frame)) \cup Kind({"damage", "ready", "failed"}))
      BY <1>2, <1>9, <2>1, <2>5 DEF Good, SessionQueue
    <3>2. e \in (Event \ Of(out[o].ctx.frame)) \cup Kind({"damage", "ready", "failed"})
      BY <1>1, <1>3, <3>1, TailQueue
    <3> QED BY <1>3, <1>9, <2>5, <3>2 DEF Of, Kind, CopyKinds
  <2> QED BY <2>1, <2>3, <2>4, <2>5
<1> QED BY <1>6, <1>7, <1>8, <1>9

LEMMA FrameReadyStep ==
  ASSUME OutInv, NEW o \in Outputs, FrameReady(o) PROVE OutInv'
<1> DEFINE e == Head(out[o].q)
           s == [out[o] EXCEPT !.q = Tail(@)]
           b == [step |-> "blit", out |-> o, active |-> Active, at |-> layout,
                 rows |-> Rows(out[o].ctx.buf), news |-> out[o].news, behind |-> out[o].behind,
                 diff |-> backend = "screencopy", damage |-> out[o].ctx.damage]
<1>1. /\ ready = NoFrame /\ out[o].q # <<>> /\ e.kind = "ready" /\ IsCurrent(out[o], e)
      /\ out' = [out EXCEPT ![o] = s] /\ ready' = b
      /\ UNCHANGED <<layout, stale, blank, present, backend>>
  <2>1. out' = [out EXCEPT ![o].q = Tail(@)]
    BY DEF FrameReady
  <2> QED BY <2>1 DEF FrameReady, Begin
<1>2. OutputsType
  BY DEF OutInv
<1>3. /\ Reports(o) = FALSE /\ Blitting(o) = FALSE
      /\ out[o] \in OutType /\ Good(out[o], backend, FALSE)
      /\ out[o].ctx.made => o \in present
      /\ Drawn(out[o], stale[o], blank[o], backend, FALSE)
  BY <1>1, Idle, At
<1>4. e \in Event /\ out[o].q \in Seq(Event) /\ out[o].ctx.frame # 0 /\ e \in Ends(out[o].ctx.frame)
  <2>1. e \in Event /\ out[o].q \in Seq(Event)
    BY <1>1, <1>3, TailQueue DEF OutType
  <2> QED BY <1>1, <2>1 DEF IsCurrent, Ends
<1>5. /\ s \in OutType /\ s.ctx = out[o].ctx /\ s.comp = out[o].comp /\ s.q = Tail(out[o].q)
      /\ s.news = out[o].news /\ s.behind = out[o].behind /\ Good(s, backend, TRUE)
  BY <1>1, <1>3, <1>4, Answered
<1>6. ~Has(s.q, Of(s.ctx.frame)) /\ s.ctx.made
  BY <1>5, Silent
<1>7. b \in BlitSteps
  <2>1. /\ out[o].ctx.buf \in Numbers /\ out[o].news \in RowSets /\ out[o].behind \in RowSets
        /\ out[o].ctx.damage \in RowSets
    BY <1>3 DEF OutType, CtxType
  <2>2. Rows(out[o].ctx.buf) \in RowSets
    BY <2>1, LayoutsAssumption DEF Numbers, RowSets, Rows
  <2>3. Active \in BOOLEAN /\ layout \in Layouts
    BY <1>2 DEF Active, OutputsType
  <2> QED BY <2>1, <2>2, <2>3 DEF BlitSteps
<1> HIDE DEF s
<1>8. /\ out'[o] = s /\ \A p \in Outputs : p # o => out'[p] = out[p]
  BY <1>1, <1>2 DEF OutputsType
<1>9. OutputsType'
  BY <1>1, <1>2, <1>5, <1>7 DEF OutputsType
<1>10. /\ Reports(o)' = TRUE /\ Blitting(o)' = TRUE
       /\ \A p : p # o => Reports(p)' = FALSE /\ Blitting(p)' = FALSE
       /\ \A p : Reports(p) = FALSE /\ Blitting(p) = FALSE
  BY <1>1 DEF Reports, Blitting, NoFrame
<1>11. FramesInv'
  <2> SUFFICES ASSUME NEW p \in Outputs PROVE FramesOf(p)'
    BY DEF FramesInv
  <2>1. CASE p = o
    BY <1>1, <1>3, <1>5, <1>6, <1>8, <1>10, <2>1 DEF FramesOf
  <2>2. CASE p # o
    BY <1>1, <1>8, <1>10, <2>2 DEF OutInv, FramesInv, FramesOf
  <2> QED BY <2>1, <2>2
<1>12. ~Filling(s) /\ Filling(out[o])
  <2>1. Has(out[o].q, Ends(out[o].ctx.frame) \cap Kind({"ready"}))
    <3>1. e \in Ends(out[o].ctx.frame) \cap Kind({"ready"})
      BY <1>1, <1>4 DEF Kind
    <3> QED BY <1>1, <1>4, <3>1, TailQueue
  <2>2. ~Has(s.q, Ends(s.ctx.frame) \cap Kind({"ready"}))
    BY <1>6 DEF Has, Ends, Of
  <2> QED BY <1>4, <2>1, <2>2 DEF Filling
<1>13. \A r : ~Has(out[o].q, Damages(out[o].ctx.frame, r))
  <2> SUFFICES ASSUME NEW r PROVE ~Has(out[o].q, Damages(out[o].ctx.frame, r))
    OBVIOUS
  <2>1. ~Has(s.q, Damages(out[o].ctx.frame, r))
    BY <1>5, <1>6 DEF Has, Damages, Of
  <2>2. e \notin Damages(out[o].ctx.frame, r)
    BY <1>1 DEF Damages
  <2> QED BY <1>1, <1>4, <1>5, <2>1, <2>2, TailQueue
<1>14. PicturesInv'
  <2> SUFFICES ASSUME NEW p \in Outputs PROVE PicturesOf(p)'
    BY DEF PicturesInv
  <2>1. CASE p = o
    <3>1. Drawn(s, stale[o], blank[o], backend, TRUE)
      BY <1>3, <1>5, <1>12 DEF Drawn
    <3>2. /\ out[o].behind \subseteq Rows(out[o].comp.size)
          /\ out[o].comp.session = "live" => out[o].behind \subseteq out[o].comp.damage
          /\ backend = "imagecopy" => out[o].news \subseteq out[o].ctx.damage \cup blank[o]
      BY <1>3, <1>12, <1>13 DEF Drawn
    <3>3. backend \in {"imagecopy", "screencopy"}
      BY <1>5, <1>6 DEF Good
    <3>4. /\ ready'.behind = out[o].behind /\ ready'.diff = (backend = "screencopy")
          /\ ready'.news = out[o].news /\ ready'.damage = out[o].ctx.damage /\ ready'.at = layout
      BY <1>1
    <3> QED BY <1>1, <1>5, <1>8, <1>10, <2>1, <3>1, <3>2, <3>3, <3>4, ZenonT(30) DEF PicturesOf
  <2>2. CASE p # o
    BY <1>1, <1>8, <1>10, <2>2 DEF OutInv, PicturesInv, PicturesOf
  <2> QED BY <2>1, <2>2
<1> QED BY <1>9, <1>11, <1>14 DEF OutInv

LEMMA TimeStep ==
  ASSUME OutInv, NEW o \in Outputs, TimePasses(o) PROVE OutInv'
<1> DEFINE s == out[o]
           x == [s.ctx EXCEPT !.due = TRUE]
           t == [s EXCEPT !.ctx = x]
<1>1. /\ s \in OutType /\ s.ctx \in CtxType /\ s.ctx.made /\ out \in [Outputs -> OutType]
      /\ Good(s, backend, Reports(o)) /\ Drawn(s, stale[o], blank[o], backend, Blitting(o))
  BY At DEF TimePasses, OutType, OutInv, OutputsType
<1>2. x \in CtxType
  BY <1>1, SetCtx
<1>3. /\ x.frame = s.ctx.frame /\ x.session = s.ctx.session /\ x.ready = s.ctx.ready
      /\ x.made = s.ctx.made /\ x.buf = s.ctx.buf /\ x.damage = s.ctx.damage
  BY <1>1 DEF CtxType
<1>4. out' = [out EXCEPT ![o] = t] /\ UNCHANGED <<fbVars, present, backend>>
  BY <1>1 DEF TimePasses, OutType, CtxType
<1> HIDE DEF x, s
<1>5. /\ t \in OutType /\ t.ctx = x /\ t.q = s.q /\ t.comp = s.comp
      /\ \A b, under : Good(s, b, under) => Good(t, b, under)
      /\ \A old, wiped, b, blits : Drawn(s, old, wiped, b, blits) => Drawn(t, old, wiped, b, blits)
  BY <1>1, <1>2, <1>3, Aside
<1> HIDE DEF t
<1> QED BY <1>1, <1>3, <1>4, <1>5, OutputStep DEF s

LEMMA AnswersStep ==
  ASSUME OutInv, NEW o \in Outputs, Answers(o) PROVE OutInv'
<1> DEFINE s == out[o]
           Kept(t) == /\ t \in OutType /\ t.ctx = s.ctx /\ Good(t, backend, FALSE)
                      /\ Drawn(t, stale[o], blank[o], backend, FALSE)
<1>1. /\ s \in OutType /\ Good(s, backend, Reports(o)) /\ Drawn(s, stale[o], blank[o], backend, Blitting(o))
      /\ s.comp.frame = s.ctx.frame
      /\ s.ctx.frame = 0 <=> s.comp.stage = "none"
      /\ s.ctx.frame # 0 => s.ctx.made
      /\ Reports(o) => s.comp.stage = "answered"
      /\ stale[o] \in RowSets
  BY At DEF Shape, Good
<1>2. UNCHANGED <<fbVars, present, backend>>
  BY DEF Answers
<1>3. ASSUME s.comp.stage \in {"asked", "copying"}
      PROVE  Reports(o) = FALSE /\ Blitting(o) = FALSE /\ s.ctx.made
  <2>1. ~Reports(o) /\ s.ctx.made
    BY <1>1, <1>3
  <2>2. Reports(o) \in BOOLEAN /\ Blitting(o) \in BOOLEAN /\ (Blitting(o) => Reports(o))
    BY UnderWay DEF OutInv
  <2> QED BY <2>1, <2>2
<1>4. ASSUME NEW t, out' = [out EXCEPT ![o] = t], s.comp.stage \in {"asked", "copying"}, Kept(t)
      PROVE  OutInv'
  <2> HIDE DEF s
  <2> QED BY <1>2, <1>3, <1>4, OutputStep DEF s
<1>5. CASE CanCopy(s) /\ out' = [out EXCEPT ![o] = Copied(s, stale[o])]
  <2>1. s.comp.stage = "copying"
    BY <1>5 DEF CanCopy
  <2>2. Kept(Copied(s, stale[o]))
    BY <1>1, <1>3, <1>5, <2>1, CopySent
  <2> QED BY <1>4, <1>5, <2>1, <2>2
<1>6. ASSUME NEW why \in Reasons, s.comp.stage \in {"asked", "copying"} PROVE Kept(Failed(s, why))
  <2> DEFINE t == Failed(s, why)
  <2>1. /\ t \in OutType /\ t.ctx = s.ctx /\ Good(t, backend, FALSE) /\ Calm(s, t) /\ ~Filling(s)
    BY <1>1, <1>3, <1>6, FailureSent
  <2> HIDE DEF t
  <2>2. Drawn(t, stale[o], blank[o], backend, FALSE)
    BY <1>1, <1>3, <1>6, <2>1, CalmDrawn
  <2> QED BY <2>1, <2>2 DEF t
<1>7. Reasons = {"constraints", "stopped", "unknown"}
  BY DEF Reasons
<1>8. CASE Misfits(s) /\ out' = [out EXCEPT ![o] = Failed(s, "constraints")]
  BY <1>4, <1>6, <1>7, <1>8 DEF Misfits
<1>9. CASE s.comp.stage = "copying" /\ out' = [out EXCEPT ![o] = Failed(s, "stopped")]
  BY <1>4, <1>6, <1>7, <1>9
<1>10. CASE CanOffer(s) /\ out' = [out EXCEPT ![o] = Offer(s)]
  <2>1. s.comp.stage = "asked"
    BY <1>10 DEF CanOffer
  <2>2. Kept(Offer(s))
    BY <1>1, <1>3, <1>10, <2>1, OfferSent
  <2> QED BY <1>4, <1>10, <2>1, <2>2
<1>11. CASE s.comp.session = "none" /\ CanFill(s) /\ out' = [out EXCEPT ![o] = Filled(s, stale[o])]
  <2>1. s.comp.stage = "copying"
    BY <1>11 DEF CanFill
  <2>2. Kept(Filled(s, stale[o]))
    BY <1>1, <1>3, <1>11, <2>1, FillSent
  <2> QED BY <1>4, <1>11, <2>1, <2>2
<1>12. CASE Misfits(s) /\ out' = [out EXCEPT ![o] = Failed(s, "unknown")]
  BY <1>4, <1>6, <1>7, <1>12 DEF Misfits
<1> QED BY <1>5, <1>8, <1>9, <1>10, <1>11, <1>12 DEF Answers

LEMMA FailsStep ==
  ASSUME OutInv, NEW o \in Outputs, Fails(o) PROVE OutInv'
<1> DEFINE s == out[o]
           t == Failed(s, "unknown")
<1>1. /\ s \in OutType /\ Good(s, backend, Reports(o)) /\ Drawn(s, stale[o], blank[o], backend, Blitting(o))
      /\ s.comp.stage \in {"asked", "copying"} /\ out \in [Outputs -> OutType]
      /\ s.ctx.frame = 0 <=> s.comp.stage = "none"
      /\ s.ctx.frame # 0 => s.ctx.made
      /\ Reports(o) => s.comp.stage = "answered"
  BY At DEF Shape, Good, Fails, OutInv, OutputsType
<1>2. Reports(o) = FALSE /\ Blitting(o) = FALSE /\ s.ctx.made
  BY <1>1, UnderWay DEF OutInv
<1>3. "unknown" \in Reasons
  BY DEF Reasons
<1>4. out' = [out EXCEPT ![o] = t] /\ UNCHANGED <<fbVars, present, backend>>
  BY DEF Fails
<1>5. /\ t \in OutType /\ t.ctx = s.ctx /\ Good(t, backend, FALSE) /\ Calm(s, t) /\ ~Filling(s)
  BY <1>1, <1>2, <1>3, FailureSent
<1> HIDE DEF t, s
<1>6. Drawn(t, stale[o], blank[o], backend, FALSE)
  BY <1>1, <1>2, <1>5, CalmDrawn
<1> QED BY <1>1, <1>2, <1>4, <1>5, <1>6, OutputStep DEF s

LEMMA StopsStep ==
  ASSUME OutInv, NEW o \in Outputs, Stops(o) PROVE OutInv'
<1> DEFINE s == out[o]
<1>1. PICK first \in BOOLEAN : out' = [out EXCEPT ![o] = Stopped(s, first)]
  BY DEF Stops
<1> DEFINE t == Stopped(s, first)
<1>2. /\ s \in OutType /\ Good(s, backend, Reports(o)) /\ Drawn(s, stale[o], blank[o], backend, Blitting(o))
      /\ CanStop(s) /\ UNCHANGED <<fbVars, present, backend>> /\ Reports(o) \in BOOLEAN
      /\ s.ctx.session /\ s.ctx.made
  BY At, UnderWay DEF Shape, Good, Stops, CanStop, OutInv
<1>3. /\ t \in OutType /\ t.ctx = s.ctx /\ Good(t, backend, Reports(o))
      /\ t.comp.session = "stopped" /\ t.comp.size = s.comp.size
      /\ \A old, wiped, c, blits : Drawn(s, old, wiped, c, blits) => Drawn(t, old, wiped, c, blits)
  BY <1>2, SessionStops
<1>4. out' = [out EXCEPT ![o] = t]
  BY <1>1
<1> HIDE DEF t, s
<1> QED BY <1>2, <1>3, <1>4, OutputStep DEF s

\* A row, or every row, of an output gets a new picture: what a blit under way will
\* leave behind grows with what the output's damage does.
LEMMA PictureStep ==
  ASSUME OutInv, NEW o \in Outputs, NEW t \in OutType, NEW old \in RowSets, NEW b,
         out' = [out EXCEPT ![o] = t], stale' = [stale EXCEPT ![o] = old],
         ready' = IF Blitting(o) THEN [ready EXCEPT !.behind = b] ELSE ready,
         UNCHANGED <<layout, blank, present, backend>>,
         Good(t, backend, Reports(o)), t.ctx = out[o].ctx,
         o \in present /\ ~t.ctx.made => t.q = <<>>,
         Drawn(t, old, blank[o], backend, Blitting(o)),
         Blitting(o) => /\ b \in RowSets /\ b \subseteq Rows(t.comp.size)
                        /\ t.comp.session = "live" => b \subseteq t.comp.damage
  PROVE  OutInv'
<1>1. OutputsType
  BY DEF OutInv
<1>2. /\ out'[o] = t /\ \A p \in Outputs : p # o => out'[p] = out[p]
      /\ stale'[o] = old /\ \A p \in Outputs : p # o => stale'[p] = stale[p]
  BY <1>1 DEF OutputsType
<1>3. Blitting(o) => /\ ready \in BlitSteps /\ ready' \in BlitSteps /\ ready'.behind = b
                     /\ ready'.step = ready.step /\ ready'.out = ready.out
                     /\ ready'.diff = ready.diff /\ ready'.news = ready.news
                     /\ ready'.damage = ready.damage /\ ready'.at = ready.at
  <2> SUFFICES ASSUME Blitting(o) PROVE /\ ready \in BlitSteps /\ ready' \in BlitSteps /\ ready'.behind = b
                     /\ ready'.step = ready.step /\ ready'.out = ready.out
                     /\ ready'.diff = ready.diff /\ ready'.news = ready.news
                     /\ ready'.damage = ready.damage /\ ready'.at = ready.at
    OBVIOUS
  <2>1. ready \in BlitSteps
    BY <1>1, UnderWay DEF Blitting
  <2>2. b \in RowSets /\ ready' = [ready EXCEPT !.behind = b]
    OBVIOUS
  <2> QED BY <2>1, <2>2 DEF BlitSteps
<1>4. OutputsType'
  <2>1. ready' \in {NoFrame} \cup BlitSteps \cup ReportSteps
    BY <1>1, <1>3 DEF OutputsType
  <2> QED BY <1>1, <2>1 DEF OutputsType
<1>5. \A p : Reports(p)' = Reports(p) /\ Blitting(p)' = Blitting(p)
  <2>1. CASE Blitting(o)
    <3>1. ready # NoFrame /\ ready' # NoFrame
      BY <1>3, <2>1 DEF Blitting, NoFrame
    <3> QED BY <1>3, <2>1, <3>1 DEF Reports, Blitting
  <2>2. CASE ~Blitting(o)
    <3>1. ready' = ready
      BY <2>2
    <3> QED BY <3>1 DEF Reports, Blitting
  <2> QED BY <2>1, <2>2
<1>6. FramesInv'
  <2> SUFFICES ASSUME NEW p \in Outputs PROVE FramesOf(p)'
    BY DEF FramesInv
  <2>1. CASE p = o
    BY <1>2, <1>5, <2>1, At DEF FramesOf
  <2>2. CASE p # o
    BY <1>2, <1>5, <2>2 DEF OutInv, FramesInv, FramesOf
  <2> QED BY <2>1, <2>2
<1>7. PicturesInv'
  <2> SUFFICES ASSUME NEW p \in Outputs PROVE PicturesOf(p)'
    BY DEF PicturesInv
  <2>1. CASE p = o
    BY <1>2, <1>3, <1>5, <2>1, At DEF PicturesOf
  <2>2. CASE p # o /\ Blitting(o)
    <3>1. ~Blitting(p)
      BY <2>2 DEF Blitting
    <3> QED BY <1>2, <1>5, <2>2, <3>1 DEF OutInv, PicturesInv, PicturesOf
  <2>3. CASE p # o /\ ~Blitting(o)
    <3>1. ready' = ready
      BY <2>3
    <3> QED BY <1>2, <1>5, <2>3, <3>1 DEF OutInv, PicturesInv, PicturesOf
  <2> QED BY <2>1, <2>2, <2>3
<1> QED BY <1>4, <1>6, <1>7 DEF OutInv

\* A row changes: what is out of date and what is damaged grow by it alike.
LEMMA ChangeStep ==
  ASSUME OutInv, NEW o \in Outputs, NEW r \in Rows(MaxRows), Change(o, r) PROVE OutInv'
<1> DEFINE s == out[o]
           t == [s EXCEPT !.behind = @ \cup {r},
                          !.comp.damage = IF s.comp.session = "live" THEN @ \cup {r} ELSE @]
           old == stale[o] \cup {r}
           b == ready.behind \cup {r}
<1>1. /\ o \in present /\ r <= s.comp.size
      /\ stale' = [stale EXCEPT ![o] = old]
      /\ UNCHANGED <<layout, blank, present, backend>>
  BY DEF Change
<1>2. out' = [out EXCEPT ![o] = t]
  BY DEF Change
<1>3. ready' = IF Blitting(o) THEN [ready EXCEPT !.behind = b] ELSE ready
  BY DEF Change, Blitting
<1>4. /\ s \in OutType /\ Good(s, backend, Reports(o)) /\ Drawn(s, stale[o], blank[o], backend, Blitting(o))
      /\ stale[o] \in RowSets
      /\ o \in present /\ ~s.ctx.made => s.q = <<>>
      /\ Blitting(o) => /\ ready.behind \subseteq Rows(s.comp.size)
                        /\ s.comp.session = "live" => ready.behind \subseteq s.comp.damage
  BY At
<1>5. /\ t \in OutType /\ t.ctx = s.ctx /\ t.q = s.q
      /\ t.comp.size = s.comp.size /\ t.comp.session = s.comp.session
      /\ t.comp.session = "live" => t.comp.damage = s.comp.damage \cup {r}
      /\ Good(t, backend, Reports(o)) /\ Drawn(t, old, blank[o], backend, Blitting(o))
  BY <1>1, <1>4, RowChanged
<1>6. old \in RowSets
  BY <1>4 DEF RowSets
<1>7. ASSUME Blitting(o)
      PROVE  /\ b \in RowSets /\ b \subseteq Rows(t.comp.size)
             /\ t.comp.session = "live" => b \subseteq t.comp.damage
  <2>1. ready.behind \in RowSets
    BY <1>7, UnderWay DEF Blitting, BlitSteps, OutInv
  <2>2. r \in Rows(s.comp.size)
    BY <1>1, <1>4 DEF Rows, OutType, CompType, Numbers
  <2> HIDE DEF t
  <2> QED BY <1>4, <1>5, <1>7, <2>1, <2>2 DEF RowSets
<1> HIDE DEF t, old, b
<1> QED BY <1>1, <1>2, <1>3, <1>4, <1>5, <1>6, <1>7, PictureStep

\* A mode is set: all of the output is out of date and damaged.
LEMMA ResizesStep ==
  ASSUME OutInv, NEW o \in Outputs, Resizes(o) PROVE OutInv'
<1>1. PICK n \in Rows(MaxRows) \ {out[o].comp.size} :
        /\ out' = [out EXCEPT ![o] = Resized(@, n)]
        /\ stale' = [stale EXCEPT ![o] = Rows(n)]
        /\ ready' = IF ready.step = "blit" /\ ready.out = o
                    THEN [ready EXCEPT !.behind = Rows(n)] ELSE ready
  BY DEF Resizes
<1> DEFINE t == Resized(out[o], n)
           old == Rows(n)
<1>2. /\ out' = [out EXCEPT ![o] = t] /\ stale' = [stale EXCEPT ![o] = old]
      /\ ready' = IF Blitting(o) THEN [ready EXCEPT !.behind = old] ELSE ready
      /\ UNCHANGED <<layout, blank, present, backend>>
  BY <1>1 DEF Resizes, Blitting
<1>3. /\ out[o] \in OutType /\ Good(out[o], backend, Reports(o)) /\ Shape(out[o])
      /\ Drawn(out[o], stale[o], blank[o], backend, Blitting(o))
      /\ o \in present /\ ~out[o].ctx.made => out[o].q = <<>>
  BY At
<1>4. Reports(o) \in BOOLEAN
  BY UnderWay DEF OutInv
<1>5. /\ t \in OutType /\ t.ctx = out[o].ctx /\ Good(t, backend, Reports(o))
      /\ t.comp.size = n /\ t.comp.session = out[o].comp.session
      /\ t.comp.session = "live" => t.comp.damage = old
      /\ out[o].comp.session = "none" => t.q = out[o].q
      /\ Drawn(t, old, blank[o], backend, Blitting(o))
  BY <1>3, <1>4, ModeSet
<1>6. old \in RowSets
  BY LayoutsAssumption DEF RowSets, Rows
<1> HIDE DEF t, old
<1>7. ~t.ctx.made => out[o].comp.session = "none"
  BY <1>3, <1>5 DEF Shape
<1>8. o \in present /\ ~t.ctx.made => t.q = <<>>
  BY <1>3, <1>5, <1>7
<1>9. old = Rows(t.comp.size)
  BY <1>5 DEF old
<1> QED BY <1>2, <1>5, <1>6, <1>8, <1>9, PictureStep

\* frame_ready ends: its frame is destroyed, and the next may be asked for.
LEMMA EndStep ==
  ASSUME OutInv, EndFrame PROVE OutInv'
<1> DEFINE o == ready.out
           s == out[o]
           t == IF backend = "imagecopy" THEN FrameDone(s, CaptureEnabled) ELSE CopyDone(s)
<1>1. /\ ready.step = "report" /\ ready' = NoFrame /\ out' = [out EXCEPT ![o] = t]
      /\ UNCHANGED <<layout, stale, blank, present, backend>>
  BY DEF EndFrame, AddDamage
<1>2. OutputsType
  BY DEF OutInv
<1>3. /\ ready # NoFrame /\ o \in Outputs /\ Reports(o) = TRUE
      /\ \A p \in Outputs : Blitting(p) = FALSE
  <2>1. /\ ready.step = "none" <=> ready = NoFrame
        /\ ready # NoFrame => ready.out \in Outputs /\ Reports(ready.out) = TRUE
    BY <1>2, UnderWay
  <2>2. ready # NoFrame
    BY <1>1, <2>1
  <2> QED BY <1>1, <2>1, <2>2 DEF Blitting
<1> HIDE DEF o
<1>4. /\ s \in OutType /\ Good(s, backend, TRUE)
      /\ s.ctx.made => o \in present
      /\ Drawn(s, stale[o], blank[o], backend, FALSE)
  BY <1>3, At
<1>5. ~Has(s.q, Of(s.ctx.frame)) /\ s.ctx.made /\ backend \in {"screencopy", "imagecopy"}
  BY <1>4, Silent DEF Good
<1>6. ~Filling(s)
  BY <1>5 DEF Filling, Has, Ends, Of
<1>7. t \in OutType /\ t.ctx.made /\ Good(t, backend, FALSE) /\ Calm(s, t)
  <2>1. CASE backend = "imagecopy"
    BY <1>4, <1>5, <2>1, ReportEnds
  <2>2. CASE backend = "screencopy"
    BY <1>4, <1>5, <2>2, CopyEnds DEF EndsAs
  <2> QED BY <1>5, <2>1, <2>2
<1> HIDE DEF t, s
<1>8. Drawn(t, stale[o], blank[o], backend, FALSE)
  BY <1>4, <1>6, <1>7, CalmDrawn
<1>9. /\ out'[o] = t /\ \A p \in Outputs : p # o => out'[p] = out[p]
  BY <1>1, <1>2, <1>3 DEF OutputsType
<1>10. OutputsType'
  BY <1>1, <1>2, <1>7 DEF OutputsType
<1>11. /\ \A p : Reports(p)' = FALSE /\ Blitting(p)' = FALSE
       /\ \A p : p # o => Reports(p) = FALSE
  BY <1>1 DEF Reports, Blitting, NoFrame, o
<1>12. o \in present
  BY <1>4, <1>5
<1>13. FramesInv'
  <2> SUFFICES ASSUME NEW p \in Outputs PROVE FramesOf(p)'
    BY DEF FramesInv
  <2>1. CASE p = o
    BY <1>1, <1>7, <1>9, <1>11, <1>12, <2>1 DEF FramesOf
  <2>2. CASE p # o
    BY <1>1, <1>9, <1>11, <2>2 DEF OutInv, FramesInv, FramesOf
  <2> QED BY <2>1, <2>2
<1>14. PicturesInv'
  <2> SUFFICES ASSUME NEW p \in Outputs PROVE PicturesOf(p)'
    BY DEF PicturesInv
  <2>1. CASE p = o
    BY <1>1, <1>8, <1>9, <1>11, <2>1 DEF PicturesOf
  <2>2. CASE p # o
    BY <1>1, <1>3, <1>9, <1>11, <2>2 DEF OutInv, PicturesInv, PicturesOf
  <2> QED BY <2>1, <2>2
<1> QED BY <1>10, <1>13, <1>14 DEF OutInv

\* Everything a blit writes of the framebuffer is rows of the screen.
LEMMA BlitRows ==
  ASSUME OutInv, ready.step = "blit"
  PROVE  Report \in Regions /\ Changed \in Regions /\ Written \in Regions
<1>1. /\ ready \in BlitSteps /\ layout \in Layouts /\ ready.out \in Outputs
      /\ ready.at \in Layouts /\ ready.damage \in RowSets /\ ready.active \in BOOLEAN
  BY UnderWay DEF OutInv, OutputsType, BlitSteps
<1>2. ASSUME NEW l \in Layouts, NEW o, NEW rows PROVE On(l, o, rows) \in Regions
  <2>1. l.height \in Int
    BY LayoutsAssumption
  <2> QED BY <2>1, RegionSets DEF On, ScreenRows, Rows
<1>3. Written \in Regions
  BY <1>1, <1>2, RegionSets DEF Written
<1>4. Changed \in Regions
  BY <1>1, <1>2, <1>3 DEF Changed
<1>5. {ready.at.place[ready.out] + r : r \in ready.damage} \in Regions
  <2>1. ready.at.place[ready.out] \in Nat /\ MaxRows \in Nat
    BY <1>1, LayoutsAssumption
  <2>2. \A r \in ready.damage : r \in Nat /\ r <= MaxRows
    BY <1>1, <2>1 DEF RowSets, Rows
  <2> DEFINE k == ready.at.place[ready.out]
             moved == {k + r : r \in ready.damage}
  <2>3. k + MaxRows \in Nat
    BY <2>1
  <2>4. moved \in SUBSET Nat /\ \A m \in moved : m <= k + MaxRows
    BY <2>1, <2>2
  <2> QED BY <2>3, <2>4 DEF Regions
<1>6. Report \in Regions
  BY <1>4, <1>5, HullCovers, RegionSets DEF Report
<1> QED BY <1>3, <1>4, <1>6

\* The blit shows what the frame was filled with: what is out of date is what changed
\* since, unless the output has moved, and then it is wiped.
LEMMA BlitStep ==
  ASSUME OutInv, BlitFrame PROVE OutInv'
<1> DEFINE o == ready.out
           home == ready.at.place[o] = layout.place[o]
<1>1. /\ ready.step = "blit" /\ UNCHANGED <<layout, out, present, backend>>
      /\ stale' = [stale EXCEPT ![o] = IF home THEN ready.behind ELSE @]
      /\ blank' = [p \in Outputs |->
            IF p = o THEN (IF home THEN blank[p] \ ready.rows ELSE blank[p])
            ELSE IF home THEN blank[p] ELSE blank[p] \cup Under(layout, p, Written)]
      /\ ready' = [step |-> "report", out |-> o, rows |-> Report]
  BY DEF BlitFrame, Blit, ours
<1>2. OutputsType /\ ready \in BlitSteps /\ o \in Outputs /\ ready.behind \in RowSets
  BY <1>1, UnderWay DEF OutInv, BlitSteps
<1>3. Reports(o) = TRUE /\ Blitting(o) = TRUE
  BY <1>1, <1>2, UnderWay DEF Blitting, NoFrame
<1>4. ready' \in ReportSteps
  BY <1>1, <1>2, BlitRows DEF ReportSteps
<1>5. \A p : Reports(p)' = Reports(p) /\ Blitting(p)' = FALSE
  BY <1>1, <1>2 DEF Reports, Blitting, NoFrame
<1>6. \A p \in Outputs : p # o => Reports(p) = FALSE /\ Blitting(p) = FALSE /\ blank[p] \subseteq blank'[p] /\ stale'[p] = stale[p]
  BY <1>1, <1>2 DEF Reports, Blitting, OutputsType
<1>7. OutputsType'
  <2>1. stale' \in [Outputs -> RowSets]
    BY <1>1, <1>2 DEF OutputsType
  <2>2. \A p : Under(layout, p, Written) \in RowSets
    BY DEF Under, RowSets
  <2>3. blank' \in [Outputs -> RowSets]
    <3>1. ASSUME NEW p \in Outputs PROVE blank'[p] \in RowSets
      <4>1. blank[p] \in RowSets
        BY <1>2 DEF OutputsType
      <4>2. blank[p] \ ready.rows \in RowSets /\ blank[p] \cup Under(layout, p, Written) \in RowSets
        BY <2>2, <4>1 DEF RowSets
      <4> QED BY <1>1, <4>1, <4>2
    <3> QED BY <1>1, <3>1
  <2> QED BY <1>1, <1>2, <1>4, <2>1, <2>3 DEF OutputsType
<1>8. FramesInv'
  BY <1>1, <1>5 DEF OutInv, FramesInv, FramesOf
<1>9. PicturesInv'
  <2> SUFFICES ASSUME NEW p \in Outputs PROVE Drawn(out[p], stale'[p], blank'[p], backend, FALSE)
    BY <1>1, <1>5 DEF PicturesInv, PicturesOf
  <2>1. CASE p = o
    <3>1. /\ Good(out[o], backend, TRUE) /\ Drawn(out[o], stale[o], blank[o], backend, TRUE)
          /\ ready.behind \subseteq Rows(out[o].comp.size)
          /\ out[o].comp.session = "live" => ready.behind \subseteq out[o].comp.damage
          /\ ready.at.place[o] # layout.place[o] => blank[o] = Rows(MaxRows)
      BY <1>2, <1>3, At
    <3>2. ~Filling(out[o])
      <4>1. ~Has(out[o].q, Of(out[o].ctx.frame))
        BY <3>1, Silent
      <4> QED BY <4>1 DEF Filling, Has, Ends, Of
    <3>3. CASE home
      <4>1. stale'[o] = ready.behind
        BY <1>1, <1>2, <3>3 DEF OutputsType
      <4> HIDE DEF o
      <4> QED BY <2>1, <3>1, <3>2, <4>1 DEF Drawn
    <3>4. CASE ~home
      <4>1. stale'[o] = stale[o] /\ blank'[o] = Rows(MaxRows) /\ stale[o] \in RowSets
        BY <1>1, <1>2, <3>1, <3>4 DEF OutputsType
      <4> HIDE DEF o
      <4> QED BY <2>1, <3>1, <3>2, <4>1 DEF Drawn, RowSets
    <3> QED BY <3>3, <3>4
  <2>2. CASE p # o
    <3>1. Drawn(out[p], stale[p], blank[p], backend, FALSE)
      BY <1>6, <2>2, At
    <3>2. blank[p] \subseteq blank'[p] /\ stale'[p] = stale[p]
      BY <1>6, <2>2
    <3> HIDE DEF o
    <3> QED BY <3>1, <3>2 DEF Drawn
  <2> QED BY <2>1, <2>2
<1> QED BY <1>7, <1>8, <1>9 DEF OutInv

\* X clients touch no output.
LEMMA ClientOutStep ==
  ASSUME OutInv, ClientStep PROVE OutInv'
<1>1. UNCHANGED <<layout, stale, blank, ready, out, present, backend>>
  BY DEF ClientStep, ours, Create, Destroy, Subtract, Read, Poll, GateCloses
<1>2. \A p : Reports(p)' = Reports(p) /\ Blitting(p)' = Blitting(p)
  BY <1>1 DEF Reports, Blitting
<1> QED BY <1>1, <1>2 DEF OutInv, OutputsType, FramesInv, FramesOf, PicturesInv, PicturesOf

\* A relayout wipes, and what is said of the pictures excepts what is wiped.
LEMMA RelaidStep ==
  ASSUME OutInv, Relaid PROVE OutInv'
<1>1. PICK l \in Layouts : Relayout(l)
  BY DEF Relaid
<1>2. /\ layout' = l /\ UNCHANGED <<stale, ready, out, present, backend>>
      /\ blank' = [o \in Outputs |-> IF Wiped(o, l) THEN Rows(MaxRows) ELSE blank[o]]
  BY <1>1 DEF Relaid, Relayout
<1>3. OutputsType
  BY DEF OutInv
<1>4. \A p : Reports(p)' = Reports(p) /\ Blitting(p)' = Blitting(p)
  BY <1>2 DEF Reports, Blitting
<1>5. /\ OutputsType'
      /\ \A o \in Outputs : /\ blank[o] \subseteq blank'[o] /\ blank'[o] \in RowSets
                            /\ l.place[o] # layout.place[o] => blank'[o] = Rows(MaxRows)
  <2>1. Rows(MaxRows) \in RowSets
    BY DEF RowSets
  <2>2. ASSUME NEW o \in Outputs
        PROVE  /\ blank[o] \subseteq blank'[o] /\ blank'[o] \in RowSets
               /\ l.place[o] # layout.place[o] => blank'[o] = Rows(MaxRows)
    <3>1. blank[o] \in RowSets
      BY <1>3 DEF OutputsType
    <3> QED BY <1>2, <2>1, <3>1 DEF Wiped, RowSets
  <2>3. blank' \in [Outputs -> RowSets]
    BY <1>2, <2>2
  <2> QED BY <1>2, <1>3, <2>2, <2>3 DEF OutputsType
<1>6. FramesInv'
  BY <1>2, <1>4 DEF OutInv, FramesInv, FramesOf
<1>7. PicturesInv'
  <2> SUFFICES ASSUME NEW o \in Outputs PROVE PicturesOf(o)'
    BY DEF PicturesInv
  <2>1. /\ Drawn(out[o], stale[o], blank[o], backend, Blitting(o)) /\ blank[o] \in RowSets
        /\ Blitting(o) =>
             /\ ready.behind \subseteq Rows(out[o].comp.size)
             /\ out[o].comp.session = "live" => ready.behind \subseteq out[o].comp.damage
             /\ ~ready.diff => ready.news \subseteq ready.damage \cup blank[o]
             /\ ready.at.place[o] # layout.place[o] => blank[o] = Rows(MaxRows)
    BY At
  <2>2. Drawn(out[o], stale[o], blank'[o], backend, Blitting(o))
    BY <1>5, <2>1 DEF Drawn
  <2>3. Blitting(o) /\ ready.at.place[o] # l.place[o] => blank'[o] = Rows(MaxRows)
    BY <1>5, <2>1 DEF RowSets
  <2> QED BY <1>2, <1>4, <1>5, <2>1, <2>2, <2>3 DEF PicturesOf
<1> QED BY <1>5, <1>6, <1>7 DEF OutInv

\* No output has a context or a picture to show at first.
LEMMA OutInit ==
  Init => OutInv
<1> SUFFICES ASSUME Init PROVE OutInv
  OBVIOUS
<1> DEFINE n == NewOut(MaxRows)
<1>1. /\ layout \in Layouts /\ ready = NoFrame /\ present = {} /\ backend = "none"
      /\ stale = [o \in Outputs |-> {}] /\ blank = [o \in Outputs |-> {}]
      /\ out = [o \in Outputs |-> n]
  BY DEF Init, FbInit
<1>2. MaxRows \in Numbers
  BY LayoutsAssumption DEF Numbers
<1>3. /\ n.ctx = NoCtx /\ n.comp = IdleComp(MaxRows) /\ n.q = <<>> /\ n.behind = {}
      /\ n \in OutType
  BY <1>2, NewCtxs, Constants DEF NewOut, OutType
<1> HIDE DEF n
<1>4. OutputsType
  BY <1>1, <1>3, Constants DEF OutputsType
<1>5. \A o : Reports(o) = FALSE /\ Blitting(o) = FALSE
  BY <1>1, Idle
<1>6. Good(n, backend, FALSE)
  BY <1>2, <1>3, NewCtxs DEF Good, Shape
<1>7. FramesInv
  BY <1>1, <1>3, <1>5, <1>6, NewCtxs DEF FramesInv, FramesOf
<1>8. Drawn(n, {}, {}, backend, FALSE)
  BY <1>2, <1>3, NewCtxs DEF Drawn, Filling
<1>9. PicturesInv
  BY <1>1, <1>5, <1>8 DEF PicturesInv, PicturesOf
<1> QED BY <1>4, <1>7, <1>9 DEF OutInv

\* Every step keeps the invariant of the outputs.
LEMMA OutNext ==
  OutInv /\ [Next]_vars => OutInv'
<1> SUFFICES ASSUME OutInv, [Next]_vars PROVE OutInv'
  OBVIOUS
<1>1. CASE WaylandThread
  BY <1>1, ArriveStep, SettleStep, ApplyStep, AnnounceStep, RemoveStep, DispatchStep,
     FrameReadyStep, TickStep, BlitStep, EndStep DEF WaylandThread
<1>2. CASE Compositor
  BY <1>2, ChangeStep, AnswersStep, FailsStep, StopsStep, ResizesStep DEF Compositor
<1>3. CASE ClientStep
  BY <1>3, ClientOutStep
<1>4. CASE Relaid
  BY <1>4, RelaidStep
<1>5. CASE \E o \in Outputs : TimePasses(o)
  BY <1>5, TimeStep
<1>6. CASE UNCHANGED vars
  <2>1. UNCHANGED <<layout, stale, blank, ready, out, present, backend>>
    BY <1>6 DEF vars, fbVars
  <2>2. \A p : Reports(p)' = Reports(p) /\ Blitting(p)' = Blitting(p)
    BY <2>1 DEF Reports, Blitting
  <2> QED BY <2>1, <2>2 DEF OutInv, OutputsType, FramesInv, FramesOf, PicturesInv, PicturesOf
<1> QED BY <1>1, <1>2, <1>3, <1>4, <1>5, <1>6 DEF Next

\* The invariant of the outputs holds throughout, for any outputs and layouts and
\* whichever backend serves them (sync_outputs, tick_captures and the handlers of
\* sessions and frames).
THEOREM OutInvAlways ==
  Spec => []OutInv
BY OutInit, OutNext, PTL DEF Spec

\* What the invariant says of each output's frame.
LEMMA FramesFollow ==
  OutInv => FramesAccounted
<1> SUFFICES ASSUME OutInv, NEW o \in Outputs
             PROVE  LET s == out[o] IN
                    /\ s.comp.frame = s.ctx.frame
                    /\ ~s.comp.dup
                    /\ s.comp.stage = "copying" => s.comp.with = s.ctx.buf
                    /\ s.comp.stage = "answered" =>
                          \/ ready # NoFrame /\ ready.out = o
                          \/ \E e \in ToSet(s.q) : e.frame = s.ctx.frame /\ e.kind \in {"ready", "failed"}
                    /\ s.comp.session # "none" => s.ctx.session
  BY DEF FramesAccounted
<1> DEFINE s == out[o]
<1>1. Shape(s) /\ Good(s, backend, Reports(o)) /\ Reports(o) \in BOOLEAN
  BY At, UnderWay DEF OutInv
<1>2. ASSUME s.comp.stage = "answered", ~Reports(o)
      PROVE  \E e \in ToSet(s.q) : e.frame = s.ctx.frame /\ e.kind \in {"ready", "failed"}
  <2> HIDE DEF s
  <2>1. s.ctx.made /\ Reports(o) = FALSE
    BY <1>1, <1>2 DEF Shape
  <2>2. CopyQueue(s, FALSE) \/ SessionQueue(s, FALSE)
    BY <1>1, <2>1 DEF Good
  <2>3. Has(s.q, Ends(s.ctx.frame))
    <3>1. CopyQueue(s, FALSE) => \E e \in Ends(s.ctx.frame) : s.q = <<e>>
      BY <1>2 DEF CopyQueue
    <3>2. SessionQueue(s, FALSE) => Has(s.q, Ends(s.ctx.frame))
      BY <1>2 DEF SessionQueue
    <3>3. ASSUME NEW e \in Ends(s.ctx.frame), s.q = <<e>> PROVE Has(s.q, Ends(s.ctx.frame))
      BY <3>3 DEF Has
    <3> QED BY <2>2, <3>1, <3>2, <3>3
  <2> QED BY <2>3 DEF Has, Ends, ToSet
<1> QED BY <1>1, <1>2 DEF Shape, Reports

\* The frame a context waits on is the compositor's and the only one on its session,
\* its buffer is kept, and once answered its answer is on its way or being put on the
\* framebuffer (screen_frame_event, frame_event): whatever fails, stops, is resized or
\* unplugged, and across the upgrade from one backend to the other.
THEOREM FramesAlwaysAccounted ==
  Spec => []FramesAccounted
BY OutInvAlways, FramesFollow, PTL

-----------------------------------------------------------------------------
(* What is on its way to the clients.                                      *)

\* What an object lets its client learn of once it was told of `heard`.
Learnt(obj, heard) ==
  CASE obj.level = RAW -> heard
    [] obj.level = NON_EMPTY /\ heard # {} -> obj.region
    [] OTHER -> heard \cap obj.region

\* An object has told of what it has accumulated.
Owns(obj, heard) ==
  /\ obj.level = DELTA => obj.region \subseteq heard
  /\ obj.level = BBOX => Hull(obj.region) \subseteq heard
  /\ obj.level = NON_EMPTY /\ obj.region # {} => heard # {}

Objects == [level : Levels, region : Regions]

\* What each level learns, and owns.
LEMMA ByLevel ==
  ASSUME NEW obj, NEW heard
  PROVE  /\ obj.level = RAW => Learnt(obj, heard) = heard /\ Owns(obj, heard)
         /\ obj.level \in {DELTA, BBOX} => Learnt(obj, heard) = heard \cap obj.region
         /\ obj.level = DELTA => (Owns(obj, heard) <=> obj.region \subseteq heard)
         /\ obj.level = BBOX => (Owns(obj, heard) <=> Hull(obj.region) \subseteq heard)
         /\ obj.level = NON_EMPTY =>
              /\ Owns(obj, heard) <=> (obj.region # {} => heard # {})
              /\ heard # {} => Learnt(obj, heard) = obj.region
              /\ heard = {} => Learnt(obj, heard) = {}
<1>1. RAW # DELTA /\ RAW # BBOX /\ RAW # NON_EMPTY /\ DELTA # BBOX /\ DELTA # NON_EMPTY
      /\ BBOX # NON_EMPTY
  BY DEF RAW, DELTA, BBOX, NON_EMPTY
<1>2. obj.level = RAW => Learnt(obj, heard) = heard /\ Owns(obj, heard)
  BY <1>1 DEF Learnt, Owns
<1>3. obj.level \in {DELTA, BBOX} => Learnt(obj, heard) = heard \cap obj.region
  BY <1>1 DEF Learnt
<1>4. obj.level = NON_EMPTY /\ heard # {} => Learnt(obj, heard) = obj.region
  BY <1>1 DEF Learnt
<1>5. obj.level = NON_EMPTY /\ heard = {} => Learnt(obj, heard) = {}
  BY <1>1 DEF Learnt
<1>6. /\ obj.level = DELTA => (Owns(obj, heard) <=> obj.region \subseteq heard)
      /\ obj.level = BBOX => (Owns(obj, heard) <=> Hull(obj.region) \subseteq heard)
      /\ obj.level = NON_EMPTY => (Owns(obj, heard) <=> (obj.region # {} => heard # {}))
  BY <1>1 DEF Owns
<1> QED BY <1>2, <1>3, <1>4, <1>5, <1>6

\* add_damage: the client learns of all that is reported, whatever the level.
LEMMA Reported ==
  ASSUME NEW obj \in Objects, NEW heard, NEW rows \in Regions, rows # {}, NEW screen, screen # {},
         Owns(obj, heard)
  PROVE  LET new == Accumulated(obj, rows)
             now == heard \cup Notified(obj, rows, screen) IN
         /\ new \in Objects /\ new.level = obj.level /\ Owns(new, now)
         /\ Learnt(obj, heard) \cup rows \subseteq Learnt(new, now)
<1> DEFINE new == Accumulated(obj, rows)
           now == heard \cup Notified(obj, rows, screen)
           hull == Hull(obj.region \cup rows)
<1>1. obj.level \in Levels /\ obj.region \in Regions /\ obj.region \cup rows \in Regions
  BY RegionSets DEF Objects
<1>2. Levels = {RAW, DELTA, BBOX, NON_EMPTY}
  BY DEF Levels
<1>3. CASE obj.level = RAW
  <2>1. new = obj
    BY <1>3 DEF Accumulated, Objects
  <2>2. now = heard \cup rows
    BY <1>3 DEF Notified, RAW, DELTA, BBOX, NON_EMPTY
  <2> HIDE DEF new, now
  <2>3. Learnt(new, now) = now /\ Learnt(obj, heard) = heard /\ Owns(new, now)
    BY <1>3, <2>1, ByLevel
  <2> QED BY <2>1, <2>2, <2>3 DEF new, now
<1>4. CASE obj.level # RAW
  <2>1. /\ new \in Objects /\ new.level = obj.level /\ new.region = obj.region \cup rows
    BY <1>1, <1>2, <1>4 DEF Accumulated, Objects, RAW, DELTA, BBOX, NON_EMPTY
  <2> HIDE DEF new
  <2>2. CASE obj.level = DELTA
    <3>1. now = heard \cup rows
      BY <2>2 DEF Notified, RAW, DELTA, BBOX, NON_EMPTY
    <3> HIDE DEF new, now
    <3>2. /\ Learnt(new, now) = now \cap new.region /\ Learnt(obj, heard) = heard \cap obj.region
          /\ Owns(new, now) <=> new.region \subseteq now
          /\ obj.region \subseteq heard
      BY <2>1, <2>2, ByLevel
    <3> QED BY <2>1, <3>1, <3>2 DEF new, now
  <2>3. CASE obj.level = BBOX
    <3>1. now = heard \cup (IF hull = Hull(obj.region) THEN {} ELSE hull)
      BY <2>3 DEF Notified, RAW, DELTA, BBOX, NON_EMPTY
    <3>2. obj.region \cup rows \subseteq hull
      BY <1>1, HullCovers
    <3>3. Hull(obj.region) \subseteq heard
      BY <2>3, ByLevel
    <3> HIDE DEF now, hull
    <3>4. hull \subseteq now
      BY <3>1, <3>3
    <3>5. heard \subseteq now
      BY <3>1
    <3>6. /\ Learnt(new, now) = now \cap new.region /\ Learnt(obj, heard) = heard \cap obj.region
          /\ Owns(new, now)
      BY <2>1, <2>3, <3>4, ByLevel DEF hull
    <3> QED BY <2>1, <3>2, <3>4, <3>5, <3>6 DEF new, now
  <2>4. CASE obj.level = NON_EMPTY
    <3>1. now = heard \cup (IF obj.region = {} THEN screen ELSE {})
      BY <2>4 DEF Notified, RAW, DELTA, BBOX, NON_EMPTY
    <3>2. now # {}
      <4>1. obj.region # {} => heard # {}
        BY <2>4, ByLevel
      <4> QED BY <3>1, <4>1
    <3> HIDE DEF new, now
    <3>3. /\ Learnt(new, now) = new.region /\ Owns(new, now)
          /\ Learnt(obj, heard) \subseteq obj.region
      BY <2>1, <2>4, <3>2, ByLevel
    <3> QED BY <2>1, <3>3 DEF new, now
  <2> QED BY <1>1, <1>2, <1>4, <2>2, <2>3, <2>4 DEF new
<1> QED BY <1>3, <1>4

ClientsType ==
  /\ objs \in [Watchers -> {NoObj} \cup Objects]
  /\ unread \in [Watchers -> SUBSET Nat] /\ told \in [Watchers -> SUBSET Nat]
  /\ toread \in [Watchers -> SUBSET Nat]
  /\ unseen \in [Watchers -> SUBSET Nat] /\ repainted \in [Watchers -> SUBSET Nat]

\* What holds of one client.
ClientOf(w) ==
  /\ objs[w] = NoObj => unread[w] = {}
  /\ Owns(objs[w], told[w])
  /\ unread[w] \subseteq
       toread[w] \cup Learnt(objs[w], told[w]) \cup Reporting \cup unseen[w] \cup repainted[w]

ClientInv == ClientsType /\ \A w \in Watchers : ClientOf(w)

\* A step that touches no client and nothing that is about to be reported.
LEMMA ClientsAside ==
  ASSUME ClientInv, UNCHANGED <<objs, unread, told, toread, unseen, repainted>>,
         Reporting' = Reporting
  PROVE  ClientInv'
BY DEF ClientInv, ClientsType, ClientOf

\* No one watches at first.
LEMMA ClientInit ==
  Init => ClientInv
<1> SUFFICES ASSUME Init PROVE ClientInv
  OBVIOUS
<1>1. /\ objs = [w \in Watchers |-> NoObj]
      /\ unread = [w \in Watchers |-> {}] /\ told = [w \in Watchers |-> {}]
      /\ toread = [w \in Watchers |-> {}]
      /\ unseen = [w \in Watchers |-> {}] /\ repainted = [w \in Watchers |-> {}]
  BY DEF Init, FbInit
<1>2. ClientsType
  BY <1>1 DEF ClientsType
<1>3. Owns(NoObj, {})
  BY DEF Owns, NoObj, DELTA, BBOX, NON_EMPTY
<1> QED BY <1>1, <1>2, <1>3 DEF ClientInv, ClientOf

\* The screen is rows, at every time.
LEMMA ScreenIsRows ==
  /\ AllRows \in SUBSET Nat
  /\ \A l \in Layouts : ScreenRows(l) \in SUBSET Nat /\ ScreenRows(l) # {}
<1>1. ASSUME NEW l \in Layouts PROVE ScreenRows(l) \in SUBSET Nat /\ ScreenRows(l) # {}
  <2>1. l.height \in Nat \ {0}
    BY LayoutsAssumption
  <2>2. 1 \in 1 .. l.height
    BY <2>1
  <2> QED BY <2>1, <2>2 DEF ScreenRows, Rows
<1> QED BY <1>1 DEF AllRows

\* A blit changes no row that is neither about to be reported nor one of the two
\* kinds the code cannot report.
LEMMA BlitReports ==
  ASSUME OutInv, ready.step = "blit"
  PROVE  ready.active => Changed \subseteq Report \cup Repaint
<1> DEFINE o == ready.out
           home == ready.at.place[o] = layout.place[o]
<1>1. /\ ready \in BlitSteps /\ o \in Outputs /\ Blitting(o)
  BY UnderWay DEF OutInv, BlitSteps, Blitting
<1>2. ~ready.diff => ready.news \subseteq ready.damage \cup blank[o]
  BY <1>1, At
<1>3. ASSUME ready.active PROVE Changed \subseteq Report \cup Repaint
  <2>1. CASE ready.diff
    <3>1. Changed \subseteq Hull(Changed) /\ Report = Hull(Changed)
      BY <1>3, <2>1, BlitRows, HullCovers DEF Report
    <3> QED BY <3>1
  <2>2. CASE ~ready.diff /\ home
    <3>1. Report = {layout.place[o] + r : r \in ready.damage}
      BY <1>3, <2>2 DEF Report
    <3>2. /\ Changed = On(layout, o, (ready.news \cup blank[o]) \cap ready.rows)
          /\ Repaint = On(layout, o, blank[o] \cap ready.rows)
      BY <2>2 DEF Changed, Repaint
    <3> HIDE DEF o
    <3> QED BY <1>2, <2>2, <3>1, <3>2 DEF On
  <2>3. CASE ~home
    BY <2>3 DEF Changed, Repaint
  <2> QED BY <2>1, <2>2, <2>3
<1> QED BY <1>3

\* The blit: what it changes is reported, or counted as what cannot be.
LEMMA BlitClients ==
  ASSUME OutInv, ClientInv, BlitFrame PROVE ClientInv'
<1>1. /\ ready.step = "blit" /\ UNCHANGED <<objs, told, toread>>
      /\ unread' = [w \in Watchers |-> IF objs[w] = NoObj THEN {} ELSE unread[w] \cup Changed]
      /\ unseen' = [w \in Watchers |->
            IF objs[w] = NoObj \/ ready.active THEN unseen[w] ELSE unseen[w] \cup Changed]
      /\ repainted' = [w \in Watchers |->
            IF objs[w] = NoObj \/ ~ready.active THEN repainted[w]
            ELSE repainted[w] \cup (Repaint \ Report)]
      /\ ready' = [step |-> "report", out |-> ready.out, rows |-> Report]
  BY DEF BlitFrame, Blit
<1>2. Reporting = {} /\ Reporting' = Report
  BY <1>1 DEF Reporting
<1>3. Changed \in SUBSET Nat /\ Repaint \in SUBSET Nat
  <2>1. Changed \in Regions /\ Written \in Regions /\ layout \in Layouts
    BY <1>1, BlitRows DEF OutInv, OutputsType
  <2>2. On(layout, ready.out, blank[ready.out] \cap ready.rows) \in SUBSET Nat
    BY <2>1, ScreenIsRows DEF On
  <2> QED BY <2>1, <2>2 DEF Repaint, Regions
<1>4. ready.active => Changed \subseteq Report \cup Repaint
  BY <1>1, BlitReports
<1> DEFINE c == Changed
           p == Repaint
           q == Report
<1> HIDE DEF c, p, q
<1>5. ClientsType'
  <2>1. ClientsType
    BY DEF ClientInv
  <2>2. \A w \in Watchers : unread[w] \in SUBSET Nat /\ unseen[w] \in SUBSET Nat /\ repainted[w] \in SUBSET Nat
    BY <2>1 DEF ClientsType
  <2>3. unread' \in [Watchers -> SUBSET Nat]
    BY <1>1, <1>3, <2>2
  <2>4. unseen' \in [Watchers -> SUBSET Nat]
    BY <1>1, <1>3, <2>2
  <2>5. repainted' \in [Watchers -> SUBSET Nat]
    BY <1>1, <1>3, <2>2
  <2> QED BY <1>1, <2>1, <2>3, <2>4, <2>5 DEF ClientsType
<1>6. ASSUME NEW w \in Watchers PROVE ClientOf(w)'
  <2>1. ClientOf(w)
    BY DEF ClientInv
  <2>2. CASE objs[w] = NoObj
    BY <1>1, <2>1, <2>2 DEF ClientOf
  <2>3. CASE objs[w] # NoObj
    <3>1. /\ unread'[w] = unread[w] \cup Changed
          /\ unseen[w] \subseteq unseen'[w] /\ repainted[w] \subseteq repainted'[w]
          /\ ~ready.active => Changed \subseteq unseen'[w]
          /\ ready.active => Repaint \ Report \subseteq repainted'[w]
      BY <1>1, <2>3
    <3>2. Changed \subseteq Report \cup unseen'[w] \cup repainted'[w]
      BY <1>4, <3>1
    <3> QED BY <1>1, <1>2, <2>1, <2>3, <3>1, <3>2 DEF ClientOf
  <2> QED BY <2>2, <2>3
<1> QED BY <1>5, <1>6 DEF ClientInv

\* add_damage: what was about to be reported is now learnt of.
LEMMA EndClients ==
  ASSUME OutInv, ClientInv, EndFrame PROVE ClientInv'
<1> DEFINE rows == ready.rows
           screen == ScreenRows(layout)
           hears(w) == objs[w] # NoObj /\ rows # {}
<1>1. /\ ready.step = "report" /\ ready' = NoFrame /\ UNCHANGED <<unread, toread>>
      /\ objs' = [w \in Watchers |-> IF hears(w) THEN Accumulated(objs[w], rows) ELSE objs[w]]
      /\ told' = [w \in Watchers |->
            IF hears(w) THEN told[w] \cup Notified(objs[w], rows, screen) ELSE told[w]]
      /\ unseen' = [w \in Watchers |-> IF hears(w) THEN unseen[w] \ rows ELSE unseen[w]]
      /\ repainted' = [w \in Watchers |-> IF hears(w) THEN repainted[w] \ rows ELSE repainted[w]]
  BY DEF EndFrame, AddDamage
<1>2. /\ rows \in Regions /\ screen \in SUBSET Nat /\ screen # {}
      /\ Reporting = rows /\ Reporting' = {}
  <2>1. ready \in ReportSteps /\ layout \in Layouts
    BY <1>1, UnderWay DEF OutInv, OutputsType
  <2> QED BY <1>1, <2>1, ScreenIsRows DEF Reporting, ReportSteps, NoFrame
<1> HIDE DEF rows, screen
<1>3. ASSUME NEW w \in Watchers
      PROVE  /\ objs'[w] \in {NoObj} \cup Objects /\ told'[w] \in SUBSET Nat
             /\ unseen'[w] \in SUBSET Nat /\ repainted'[w] \in SUBSET Nat
             /\ ClientOf(w)'
  <2>1. /\ ClientOf(w) /\ objs[w] \in {NoObj} \cup Objects /\ told[w] \in SUBSET Nat
        /\ unseen[w] \in SUBSET Nat /\ repainted[w] \in SUBSET Nat
    BY DEF ClientInv, ClientsType
  <2>2. CASE ~hears(w)
    <3>1. /\ objs'[w] = objs[w] /\ told'[w] = told[w] /\ unseen'[w] = unseen[w]
          /\ repainted'[w] = repainted[w] /\ unread' = unread /\ toread' = toread
      BY <1>1, <2>2
    <3>2. objs[w] # NoObj => Reporting = {}
      BY <1>2, <2>2
    <3> QED BY <1>2, <2>1, <3>1, <3>2 DEF ClientOf
  <2>3. CASE hears(w)
    <3> DEFINE new == Accumulated(objs[w], rows)
               now == told[w] \cup Notified(objs[w], rows, screen)
    <3>1. /\ objs'[w] = new /\ told'[w] = now /\ unseen'[w] = unseen[w] \ rows
          /\ repainted'[w] = repainted[w] \ rows /\ unread' = unread /\ toread' = toread
      BY <1>1, <2>3
    <3>2. objs[w] \in Objects /\ rows # {} /\ Owns(objs[w], told[w])
      BY <2>1, <2>3 DEF ClientOf
    <3>3. /\ new \in Objects /\ Owns(new, now)
          /\ Learnt(objs[w], told[w]) \cup rows \subseteq Learnt(new, now)
      BY <1>2, <3>2, Reported
    <3>4. new # NoObj
      BY <3>3 DEF Objects, NoObj, Levels, RAW, DELTA, BBOX, NON_EMPTY
    <3>5. now \in SUBSET Nat
      <4>1. Notified(objs[w], rows, screen) \in SUBSET Nat
        <5>1. objs[w].region \cup rows \in Regions
          BY <1>2, <3>2, RegionSets DEF Objects
        <5>2. Hull(objs[w].region \cup rows) \in SUBSET Nat
          BY <5>1, HullCovers DEF Regions
        <5> QED BY <1>2, <5>2 DEF Notified, Regions
      <4> QED BY <2>1, <4>1
    <3> HIDE DEF new, now
    <3> QED BY <1>2, <2>1, <3>1, <3>3, <3>4, <3>5 DEF ClientOf
  <2> QED BY <2>2, <2>3
<1>4. ClientsType'
  <2>1. objs' \in [Watchers -> {NoObj} \cup Objects]
    BY <1>1, <1>3
  <2>2. told' \in [Watchers -> SUBSET Nat]
    BY <1>1, <1>3
  <2>3. unseen' \in [Watchers -> SUBSET Nat]
    BY <1>1, <1>3
  <2>4. repainted' \in [Watchers -> SUBSET Nat]
    BY <1>1, <1>3
  <2> QED BY <1>1, <2>1, <2>2, <2>3, <2>4 DEF ClientInv, ClientsType
<1> QED BY <1>3, <1>4 DEF ClientInv

\* What an X client does touches its own account only.
LEMMA OneClientSteps ==
  ASSUME ClientInv, NEW w \in Watchers, ready' = ready,
         NEW obj \in {NoObj} \cup Objects, NEW a \in SUBSET Nat, NEW b \in SUBSET Nat,
         NEW c \in SUBSET Nat, NEW d \in SUBSET Nat, NEW e \in SUBSET Nat,
         objs' = [objs EXCEPT ![w] = obj], unread' = [unread EXCEPT ![w] = a],
         told' = [told EXCEPT ![w] = b], toread' = [toread EXCEPT ![w] = c],
         unseen' = [unseen EXCEPT ![w] = d], repainted' = [repainted EXCEPT ![w] = e],
         obj = NoObj => a = {}, Owns(obj, b), a \subseteq c \cup Learnt(obj, b) \cup Reporting \cup d \cup e
  PROVE  ClientInv'
<1>1. ClientsType /\ Reporting' = Reporting
  BY DEF ClientInv, Reporting
<1>2. ClientsType'
  BY <1>1 DEF ClientsType
<1>3. ASSUME NEW v \in Watchers PROVE ClientOf(v)'
  <2>1. CASE v = w
    <3>1. /\ objs'[v] = obj /\ unread'[v] = a /\ told'[v] = b /\ toread'[v] = c
          /\ unseen'[v] = d /\ repainted'[v] = e
      BY <1>1, <2>1 DEF ClientsType
    <3> QED BY <1>1, <3>1 DEF ClientOf
  <2>2. CASE v # w
    <3>1. /\ objs'[v] = objs[v] /\ unread'[v] = unread[v] /\ told'[v] = told[v]
          /\ toread'[v] = toread[v] /\ unseen'[v] = unseen[v] /\ repainted'[v] = repainted[v]
      BY <1>1, <2>2 DEF ClientsType
    <3> QED BY <1>1, <3>1 DEF ClientInv, ClientOf
  <2> QED BY <2>1, <2>2
<1> QED BY <1>2, <1>3 DEF ClientInv

\* What X clients do: a read takes from what is unread all that it takes from the rest.
LEMMA ClientSteps ==
  ASSUME ClientInv, ClientStep PROVE ClientInv'
<1>0. ClientsType
  BY DEF ClientInv
<1>1. ASSUME NEW w \in Watchers
      PROVE  /\ ClientOf(w) /\ objs[w] \in {NoObj} \cup Objects
             /\ unread[w] \in SUBSET Nat /\ told[w] \in SUBSET Nat /\ toread[w] \in SUBSET Nat
             /\ unseen[w] \in SUBSET Nat /\ repainted[w] \in SUBSET Nat
  BY DEF ClientInv, ClientsType
<1>2. ASSUME NEW w \in Watchers, NEW level \in MayUse, Create(w, level) PROVE ClientInv'
  <2> DEFINE obj == Created(level)
  <2>1. level \in Levels
    BY LayoutsAssumption
  <2>2. /\ obj \in Objects /\ obj.region = {} /\ obj # NoObj
    BY <2>1, RegionSets DEF Created, Objects, NoObj, Levels, RAW, DELTA, BBOX, NON_EMPTY
  <2>3. Owns(obj, told[w])
    BY <2>2 DEF Owns, Hull
  <2>4. /\ ready' = ready /\ objs' = [objs EXCEPT ![w] = obj]
        /\ unread' = [unread EXCEPT ![w] = AllRows] /\ toread' = [toread EXCEPT ![w] = AllRows]
        /\ told' = [told EXCEPT ![w] = told[w]] /\ unseen' = [unseen EXCEPT ![w] = unseen[w]]
        /\ repainted' = [repainted EXCEPT ![w] = repainted[w]]
    BY <1>0, <1>2 DEF Create, ClientsType
  <2> HIDE DEF obj
  <2> QED BY <1>1, <2>2, <2>3, <2>4, ScreenIsRows, OneClientSteps
<1>3. ASSUME NEW w \in Watchers, Destroy(w) PROVE ClientInv'
  <2>1. Owns(NoObj, {})
    BY DEF Owns, NoObj, DELTA, BBOX, NON_EMPTY
  <2>2. /\ ready' = ready /\ objs' = [objs EXCEPT ![w] = NoObj]
        /\ unread' = [unread EXCEPT ![w] = {}] /\ toread' = [toread EXCEPT ![w] = {}]
        /\ told' = [told EXCEPT ![w] = {}] /\ unseen' = [unseen EXCEPT ![w] = {}]
        /\ repainted' = [repainted EXCEPT ![w] = {}]
    BY <1>3 DEF Destroy
  <2> QED BY <2>1, <2>2, OneClientSteps
<1>4. ASSUME NEW w \in Watchers, Subtract(w) PROVE ClientInv'
  <2> DEFINE obj == Subtracted(objs[w])
             c == toread[w] \cup objs[w].region
  <2>1. objs[w] \in Objects /\ objs[w].level # RAW
    BY <1>1, <1>4 DEF Subtract
  <2>2. obj \in Objects /\ obj.region = {} /\ obj # NoObj
    BY <2>1, RegionSets DEF Subtracted, Objects, NoObj, Levels, RAW, DELTA, BBOX, NON_EMPTY
  <2>3. Owns(obj, {})
    BY <2>2 DEF Owns, Hull
  <2>4. Learnt(objs[w], told[w]) \subseteq objs[w].region
    BY <2>1, ByLevel DEF Objects, Levels
  <2>5. unread[w] \subseteq c \cup Reporting \cup unseen[w] \cup repainted[w]
    BY <1>1, <2>4 DEF ClientOf
  <2>6. /\ ready' = ready /\ objs' = [objs EXCEPT ![w] = obj]
        /\ unread' = [unread EXCEPT ![w] = unread[w]] /\ toread' = [toread EXCEPT ![w] = c]
        /\ told' = [told EXCEPT ![w] = {}] /\ unseen' = [unseen EXCEPT ![w] = unseen[w]]
        /\ repainted' = [repainted EXCEPT ![w] = repainted[w]]
    BY <1>0, <1>4 DEF Subtract, ClientsType, Parts
  <2>7. c \in SUBSET Nat
    BY <1>1, <2>1 DEF Objects, Regions
  <2> HIDE DEF obj, c
  <2> QED BY <1>1, <2>2, <2>3, <2>5, <2>6, <2>7, OneClientSteps
<1>5. ASSUME NEW w \in Watchers, Read(w) PROVE ClientInv'
  <2> DEFINE rows == toread[w] \cup IF objs[w].level = RAW THEN told[w] ELSE {}
             a == unread[w] \ rows
             b == IF objs[w].level = RAW THEN {} ELSE told[w]
             d == unseen[w] \ rows
             e == repainted[w] \ rows
  <2>1. objs[w] \in Objects /\ objs[w] # NoObj
    BY <1>1, <1>5 DEF Read
  <2>2. Owns(objs[w], b)
    BY <1>1, ByLevel DEF ClientOf
  <2>3. Learnt(objs[w], told[w]) \ rows \subseteq Learnt(objs[w], b)
    BY ByLevel
  <2>4. a \subseteq {} \cup Learnt(objs[w], b) \cup Reporting \cup d \cup e
    BY <1>1, <2>3 DEF ClientOf
  <2>5. /\ ready' = ready /\ objs' = [objs EXCEPT ![w] = objs[w]]
        /\ unread' = [unread EXCEPT ![w] = a] /\ toread' = [toread EXCEPT ![w] = {}]
        /\ told' = [told EXCEPT ![w] = b] /\ unseen' = [unseen EXCEPT ![w] = d]
        /\ repainted' = [repainted EXCEPT ![w] = e]
    <3>1. /\ ready' = ready /\ objs' = objs
          /\ unread' = [unread EXCEPT ![w] = @ \ rows]
          /\ toread' = [toread EXCEPT ![w] = {}]
          /\ told' = [told EXCEPT ![w] = IF objs[w].level = RAW THEN {} ELSE @]
          /\ unseen' = [unseen EXCEPT ![w] = @ \ rows]
          /\ repainted' = [repainted EXCEPT ![w] = @ \ rows]
      BY <1>5 DEF Read
    <3> QED BY <1>0, <3>1 DEF ClientsType
  <2>6. a \in SUBSET Nat /\ b \in SUBSET Nat /\ d \in SUBSET Nat /\ e \in SUBSET Nat
    BY <1>1
  <2> HIDE DEF a, b, d, e
  <2> QED BY <1>1, <2>1, <2>2, <2>4, <2>5, <2>6, OneClientSteps
<1>6. ASSUME Poll \/ GateCloses PROVE ClientInv'
  <2>1. UNCHANGED <<objs, unread, told, toread, unseen, repainted, ready>>
    BY <1>6 DEF Poll, GateCloses
  <2> QED BY <2>1, ClientsAside DEF Reporting
<1> QED BY <1>2, <1>3, <1>4, <1>5, <1>6 DEF ClientStep

\* A relayout has every client read the screen again.
LEMMA RelaidClients ==
  ASSUME ClientInv, Relaid PROVE ClientInv'
<1>1. PICK l \in Layouts : Relayout(l)
  BY DEF Relaid
<1>2. /\ unread' = [w \in Watchers |-> IF objs[w] = NoObj THEN {} ELSE AllRows]
      /\ toread' = [w \in Watchers |-> IF objs[w] = NoObj THEN {} ELSE AllRows]
      /\ UNCHANGED <<objs, told, unseen, repainted, ready>>
  BY <1>1 DEF Relayout
<1>3. ClientsType'
  BY <1>2, ScreenIsRows DEF ClientInv, ClientsType
<1>4. ASSUME NEW w \in Watchers PROVE ClientOf(w)'
  <2>1. Owns(objs[w], told[w])
    BY DEF ClientInv, ClientOf
  <2> QED BY <1>2, <2>1 DEF ClientOf
<1> QED BY <1>3, <1>4 DEF ClientInv

\* Every step keeps the invariant of the clients, given the outputs'.
LEMMA ClientNext ==
  OutInv /\ ClientInv /\ [Next]_vars => ClientInv'
<1> SUFFICES ASSUME OutInv, ClientInv, [Next]_vars PROVE ClientInv'
  OBVIOUS
<1> DEFINE Clients == <<objs, unread, told, toread, unseen, repainted>>
<1>1. ASSUME UNCHANGED <<Clients, ready>> PROVE ClientInv'
  BY <1>1, ClientsAside DEF Reporting
<1>2. ASSUME NEW o \in Outputs, FrameReady(o) PROVE ClientInv'
  <2>1. UNCHANGED Clients /\ ready = NoFrame /\ ready'.step = "blit"
    BY <1>2 DEF FrameReady, Begin
  <2>2. Reporting' = Reporting
    BY <2>1 DEF Reporting, NoFrame
  <2> QED BY <2>1, <2>2, ClientsAside
<1>3. ASSUME NEW o \in Outputs, NEW b,
             UNCHANGED Clients,
             ready' = IF ready.step = "blit" /\ ready.out = o THEN [ready EXCEPT !.behind = b] ELSE ready
      PROVE  ClientInv'
  <2>1. Reporting' = Reporting
    <3>1. CASE ready.step = "blit" /\ ready.out = o
      <4>1. ready \in BlitSteps
        BY <3>1, UnderWay DEF OutInv
      <4>2. ready'.step = "blit"
        BY <1>3, <3>1, <4>1 DEF BlitSteps
      <4> QED BY <3>1, <4>2 DEF Reporting
    <3>2. CASE ~(ready.step = "blit" /\ ready.out = o)
      <4>1. ready' = ready
        BY <1>3, <3>2
      <4> QED BY <4>1 DEF Reporting
    <3> QED BY <3>1, <3>2
  <2> QED BY <1>3, <2>1, ClientsAside
<1>4. CASE WaylandThread
  <2>1. ASSUME NEW g \in Globals, Arrive(g) PROVE ClientInv'
    BY <1>1, <2>1 DEF Arrive, fbVars
  <2>2. CASE Settle
    BY <1>1, <2>2 DEF Settle, fbVars
  <2>3. ASSUME NEW o \in Outputs, Apply(o) \/ Announce(o) \/ RemoveOutput(o) PROVE ClientInv'
    BY <1>1, <2>3 DEF Apply, Announce, RemoveOutput, fbVars
  <2>4. ASSUME NEW o \in Outputs, Dispatch(o) PROVE ClientInv'
    BY <1>1, <2>4 DEF Dispatch, fbVars
  <2>5. CASE Tick
    BY <1>1, <2>5 DEF Tick, fbVars
  <2> QED BY <1>2, <1>4, <2>1, <2>2, <2>3, <2>4, <2>5, BlitClients, EndClients DEF WaylandThread
<1>5. CASE Compositor
  <2>1. ASSUME NEW o \in Outputs, Answers(o) \/ Fails(o) \/ Stops(o) PROVE ClientInv'
    BY <1>1, <2>1 DEF Answers, Fails, Stops, fbVars
  <2>2. ASSUME NEW o \in Outputs, NEW r \in Rows(MaxRows), Change(o, r) PROVE ClientInv'
    BY <1>3, <2>2 DEF Change
  <2>3. ASSUME NEW o \in Outputs, Resizes(o) PROVE ClientInv'
    BY <1>3, <2>3 DEF Resizes
  <2> QED BY <1>5, <2>1, <2>2, <2>3 DEF Compositor
<1>6. CASE ClientStep
  BY <1>6, ClientSteps
<1>7. CASE Relaid
  BY <1>7, RelaidClients
<1>8. ASSUME NEW o \in Outputs, TimePasses(o) PROVE ClientInv'
  BY <1>1, <1>8 DEF TimePasses, fbVars
<1>9. CASE UNCHANGED vars
  BY <1>1, <1>9 DEF vars, fbVars
<1> QED BY <1>4, <1>5, <1>6, <1>7, <1>8, <1>9 DEF Next

\* The invariant has the property in it.
LEMMA ClientsFollow ==
  ClientInv => NothingUnreported
<1> SUFFICES ASSUME ClientInv, NEW w \in Watchers
             PROVE  unread[w] \subseteq WillLearn(w) \cup Reporting \cup unseen[w] \cup repainted[w]
  BY DEF NothingUnreported
<1>1. WillLearn(w) = toread[w] \cup Learnt(objs[w], told[w])
  BY DEF WillLearn, Learnt
<1> QED BY <1>1 DEF ClientInv, ClientOf

\* Every row that changed since a client read it is one it will read, or will learn of
\* at its DAMAGE level, or one about to be reported, but for the two kinds of change the
\* code cannot report (frame_ready, add_damage, DamageSubtract): for any outputs,
\* layouts and clients, which may come, subtract, read and go between any two steps.
THEOREM EveryChangeReported ==
  Spec => []NothingUnreported
<1>1. Init => ClientInv
  BY ClientInit
<1>2. OutInv /\ ClientInv /\ [Next]_vars => ClientInv'
  BY ClientNext
<1>3. ClientInv => NothingUnreported
  BY ClientsFollow
<1> QED BY <1>1, <1>2, <1>3, OutInvAlways, PTL DEF Spec
=============================================================================

------------------------------ MODULE PointerMap ------------------------------
(***************************************************************************)
(* From a pixel of the compositor's buffer to the X screen, and from a     *)
(* point of the X screen to the compositor's logical space: the output     *)
(* transforms (src/src/util/transform.rs) and the pointer's way back       *)
(* through the layout (src/src/util/layout.rs, bridge/input.rs).           *)
(*                                                                         *)
(* A point is a pair; a rectangle pair of an output is the record          *)
(* RandrScreen's Rect gives: pos and size on the X screen, at and log in   *)
(* the logical space.                                                      *)
(***************************************************************************)
EXTENDS Integers, Sequences, FiniteSetsExt

Transforms == {"normal", "90", "180", "270",
               "flipped", "flipped-90", "flipped-180", "flipped-270"}

Swaps(t) == t \in {"90", "270", "flipped-90", "flipped-270"}

\* Transform::size.
Size(t, size) == IF Swaps(t) THEN <<size[2], size[1]>> ELSE size

\* Transform::point: where a pixel of a buffer of that size lands (rect, of a
\* rectangle of one pixel).
Point(t, p, size) ==
    LET x == p[1]  y == p[2]
        right == size[1] - 1 - x
        below == size[2] - 1 - y
    IN  CASE t = "normal" -> <<x, y>>           [] t = "90" -> <<below, x>>
          [] t = "180" -> <<right, below>>      [] t = "270" -> <<y, right>>
          [] t = "flipped" -> <<right, y>>      [] t = "flipped-90" -> <<y, x>>
          [] t = "flipped-180" -> <<x, below>>  [] t = "flipped-270" -> <<below, right>>

Within(p, base, size) == \A a \in {1, 2} : p[a] >= base[a] /\ p[a] < base[a] + size[a]

Plus(p, q) == <<p[1] + q[1], p[2] + q[2]>>

-----------------------------------------------------------------------------
(* Layout: the origin and the size of the logical space. *)

Origin(rects) ==
    LET low(a) == Min({rects[n].at[a] : n \in DOMAIN rects})
    IN  <<low(1), low(2)>>

Span(rects) ==
    LET high(a) == Max({rects[n].at[a] + rects[n].log[a] : n \in DOMAIN rects})
        span(a) == Max({1, high(a) - Origin(rects)[a]})
    IN  <<span(1), span(2)>>

Confine(n, low, high) == IF n < low THEN low ELSE IF n > high THEN high ELSE n

\* The squared distance from a point to a tile.
Distance(r, p) ==
    LET d(a) == p[a] - Confine(p[a], r.pos[a], r.pos[a] + r.size[a] - 1)
    IN  d(1) * d(1) + d(2) * d(2)

\* The output a point belongs to: the first whose tile it is in, else the nearest.
OutputAt(rects, p) ==
    LET inside == {n \in DOMAIN rects : Within(p, rects[n].pos, rects[n].size)}
        near == {n \in DOMAIN rects :
                    \A m \in DOMAIN rects : Distance(rects[n], p) <= Distance(rects[m], p)}
    IN  Min(IF inside = {} THEN near ELSE inside)

\* Mutant: the logical space is taken to begin at 0.
ToLogicalUnshifted(rects, p) ==
    LET r == rects[OutputAt(rects, p)]
        off(a) == (Confine(p[a] - r.pos[a], 0, r.size[a] - 1) * r.log[a]) \div r.size[a]
        value(a) == Confine(r.at[a] + off(a), 0, Span(rects)[a])
    IN  <<value(1), value(2)>>

\* to_logical: the point in that output, at its scale, from the space's origin.
ToLogical(rects, p) ==
    LET r == rects[OutputAt(rects, p)]
        off(a) == (Confine(p[a] - r.pos[a], 0, r.size[a] - 1) * r.log[a]) \div r.size[a]
        value(a) == Confine(r.at[a] + off(a) - Origin(rects)[a], 0, Span(rects)[a])
    IN  <<value(1), value(2)>>

\* motion_abs: where the virtual pointer is told to go, and out of what extent.
Motion(rects, geometry, p) ==
    IF rects = <<>>
    THEN [value |-> <<Confine(p[1], 0, geometry[1]), Confine(p[2], 0, geometry[2])>>,
          extent |-> geometry]
    ELSE [value |-> ToLogical(rects, p), extent |-> Span(rects)]
=============================================================================

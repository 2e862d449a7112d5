------------------------------- MODULE Damage -------------------------------
(***************************************************************************)
(* The DAMAGE extension's objects (src/src/bridge/damage.rs) as operators  *)
(* on one object.                                                          *)
(*                                                                         *)
(* Regions are sets of screen rows.  The blit reports whole rows of an     *)
(* output (its x range is always the full overlap), so rows are all that   *)
(* tells two reports apart; a list of rectangles is the set of rows it     *)
(* covers, and a bounding box is the hull of that set.                     *)
(***************************************************************************)
EXTENDS Integers, FiniteSetsExt

RAW == "raw"
DELTA == "delta"
BBOX == "bbox"
NON_EMPTY == "nonempty"

Levels == {RAW, DELTA, BBOX, NON_EMPTY}

\* A client that holds no DAMAGE object (or whose connection is dead).
NoObj == [level |-> "none", region |-> {}]

\* DamageSink::create.
Created(level) == [level |-> level, region |-> {}]

\* util::bbox of a region.
Hull(rows) == IF rows = {} THEN {} ELSE Min(rows) .. Max(rows)

\* Mutant: new damage replaces what the client has not subtracted yet.
AccumulatedAnew(obj, rows) ==
    [obj EXCEPT !.region = IF obj.level \in {RAW, "none"} THEN @ ELSE rows]

\* The object after add_damage of `rows`: nothing accumulates at the raw level.
Accumulated(obj, rows) ==
    [obj EXCEPT !.region = IF obj.level \in {RAW, "none"} THEN @ ELSE @ \cup rows]

\* The rows the DamageNotify events sent by add_damage cover: every rectangle at
\* the raw and delta levels, the extents when they grow, the whole drawable when
\* the region stops being empty.
Notified(obj, rows, screen) ==
    LET now == Hull(obj.region \cup rows) IN
    CASE obj.level \in {RAW, DELTA} -> rows
      [] obj.level = BBOX -> IF now = Hull(obj.region) THEN {} ELSE now
      [] obj.level = NON_EMPTY -> IF obj.region = {} THEN screen ELSE {}
      [] OTHER -> {}

\* DamageSubtract: the region is cleared, whatever the repair; a no-op at the
\* raw level.
Subtracted(obj) == [obj EXCEPT !.region = {}]

\* What DamageSubtract hands back as the `parts` region.
Parts(obj) == obj.region
=============================================================================

----------------------------- MODULE RandrScreen -----------------------------
(***************************************************************************)
(* The RandR screen model (src/src/bridge/x11/randr.rs), as operators on   *)
(* the record behind the screen lock: the screen's size, the modes, and    *)
(* the outputs in order.  Points and sizes are pairs, one number an axis.  *)
(*                                                                         *)
(* Names, refresh rates, millimetres and the two timestamps are left out;  *)
(* an output has one id, for its output and its CRTC.                      *)
(***************************************************************************)
EXTENDS Integers, FiniteSets, TLC, SequencesExt, FiniteSetsExt

CONSTANT MaxScreen   \* MAX_SCREEN

ASSUME RandrScreenAssumption == MaxScreen \in Nat \ {0}

\* No mode: the CRTC is disabled.  Also the Wayland name of the stand-in output.
Off == 0

Axes == {1, 2}

Clamp(n, low, high) == IF n < low THEN low ELSE IF n > high THEN high ELSE n

\* set_size's and recompute_bounds's limits.
Clamped(size) == <<Clamp(size[1], 1, MaxScreen), Clamp(size[2], 1, MaxScreen)>>

-----------------------------------------------------------------------------
(* Modes. *)

\* mode_size(id) = Some(size).
HasSize(s, id, size) == \E m \in s.modes : m.id = id /\ m.size = size

NewMode(s, size, ours) ==
    [s EXCEPT !.next = @ + 1, !.modes = @ \cup {[id |-> s.next, size |-> size, ours |-> ours]}]

\* create_mode.
CreateMode(s, size) == NewMode(s, size, FALSE)

ListedBy(s, id) == {n \in DOMAIN s.outputs : Contains(s.outputs[n].listed, id)}

\* prune_modes.
Prune(s) == [s EXCEPT !.modes = {m \in @ : m.ours => ListedBy(s, m.id) # {}}]

With(list, id) == IF Contains(list, id) THEN list ELSE Append(list, id)

\* What of a list is in a set, in the order of the list.
Kept(list, S) ==
    LET kept[n \in 0 .. Len(list)] ==
            IF n = 0 THEN <<>>
            ELSE IF list[n] \in S THEN Append(kept[n - 1], list[n]) ELSE kept[n - 1]
    IN  kept[Len(list)]

Without(list, ids) == Kept(list, ToSet(list) \ ids)

\* The index of the output a test singles out, or 0.
Where(s, Test(_)) == SelectInSeq(s.outputs, Test)

AddOutputMode(s, n, id) == [s EXCEPT !.outputs[n].listed = With(@, id)]

DeleteOutputMode(s, n, id) == [s EXCEPT !.outputs[n].listed = Without(@, {id})]

DestroyMode(s, id) ==
    [s EXCEPT !.modes = {m \in s.modes : m.id # id},
              !.outputs = [n \in DOMAIN s.outputs |->
                  [s.outputs[n] EXCEPT !.listed = Without(s.outputs[n].listed, {id})]]]

\* How a size is shown: at the output's mode, one it lists, or a native one.
ModeFor(s, n, size) ==
    LET o == s.outputs[n]
        k == SelectInSeq(o.listed, LAMBDA id : HasSize(s, id, size))
    IN  CASE HasSize(s, o.mode, size) -> o.mode
          [] OTHER -> IF k = 0 THEN s.next ELSE o.listed[k]

Show(s, n, size) ==
    LET id == ModeFor(s, n, size)
        t == IF id = s.next THEN NewMode(s, size, TRUE) ELSE s
        o == t.outputs[n]
    IN  [t EXCEPT !.outputs[n] = [o EXCEPT !.mode = id, !.listed = With(o.listed, id)]]

-----------------------------------------------------------------------------
(* Where the outputs go. *)

\* The nearest edge at or below a coordinate.
Nearest(edges, start) ==
    CHOOSE e \in DOMAIN edges : e <= start /\ \A f \in DOMAIN edges : f <= start => f <= e

\* An entry of a map, made or overwritten.
Put(f, x, v) == [y \in DOMAIN f \cup {x} |-> IF y = x THEN v ELSE f[y]]

\* Mutant: the first edge to claim a coordinate keeps it.
PlacedFirst(items, acc, n) ==
    LET i == items[n]
        edge == Nearest(acc.edges, i.start)
        at == acc.edges[edge] + i.start - edge
    IN  [starts |-> acc.starts @@ (n :> at),
         edges |-> acc.edges @@ (i.start :> at) @@ (i.start + i.len :> at + i.phys)]

\* One output's turn in pack_axis: it starts at the physical place of the nearest
\* logical edge, plus the gap (none, from an edge at its own start), and its own
\* far edge is the farthest one there.
Placed(items, acc, n) ==
    LET i == items[n]
        edge == Nearest(acc.edges, i.start)
        at == acc.edges[edge] + i.start - edge
        edges == Put(acc.edges, i.start, at)
        far == i.start + i.len
        end == at + i.phys
    IN  [starts |-> Put(acc.starts, n, at),
         edges |-> Put(edges, far, IF far \in DOMAIN edges THEN Max({edges[far], end}) ELSE end)]

\* Of some of the items, the one whose turn it is: they are sorted by their logical
\* starts, and otherwise stay in order.
Foremost(items, S) ==
    CHOOSE n \in S : \A m \in S \ {n} :
        items[n].start < items[m].start \/ (items[n].start = items[m].start /\ n < m)

\* pack_axis.
PackAxis(items) ==
    LET turn(done) == Foremost(items, DOMAIN items \ done)
        first == [starts |-> <<>>, edges |-> Put(<<>>, items[turn({})].start, 0)]
        placed[k \in 0 .. Len(items)] ==
            IF k = 0 THEN first
            ELSE Placed(items, placed[k - 1], turn(DOMAIN placed[k - 1].starts))
    IN  IF items = <<>> THEN <<>> ELSE placed[Len(items)].starts

\* relayout_physical.
Packed(outputs, a) ==
    PackAxis([n \in DOMAIN outputs |->
        [start |-> outputs[n].at[a], len |-> outputs[n].log[a], phys |-> outputs[n].size[a]]])

\* An output where it is put.
PlacedAt(o, pos) ==
    [wl |-> o.wl, crtc |-> o.crtc, pos |-> pos, size |-> o.size, at |-> o.at, log |-> o.log,
     mode |-> o.mode, listed |-> o.listed]

Relayout(s) ==
    LET xs == Packed(s.outputs, 1)
        ys == Packed(s.outputs, 2)
    IN  [size |-> s.size, next |-> s.next, modes |-> s.modes,
         outputs |-> [n \in DOMAIN s.outputs |-> PlacedAt(s.outputs[n], <<xs[n], ys[n]>>)]]

Enabled(s) == {n \in DOMAIN s.outputs : s.outputs[n].mode # Off}

\* The far corner of the enabled outputs.
Extent(s) ==
    LET far(a) == Max({0} \cup {s.outputs[n].pos[a] + s.outputs[n].size[a] : n \in Enabled(s)})
    IN  Clamped(<<far(1), far(2)>>)

\* recompute_bounds.
Bounded(s) == [s EXCEPT !.size = Extent(s)]

\* layout_rects.
Rect(o) == [pos |-> o.pos, size |-> o.size, at |-> o.at, log |-> o.log]

LayoutRects(s) == [n \in Enabled(s) |-> Rect(s.outputs[n])]

-----------------------------------------------------------------------------
(* What the clients do. *)

SetSize(s, size) == [s EXCEPT !.size = Clamped(size)]

\* set_crtc: the size of the screen is left alone.
SetCrtc(s, n, pos, id) ==
    LET o == s.outputs[n]
        size == IF id = Off THEN o.size ELSE (CHOOSE m \in s.modes : m.id = id).size
    IN  [s EXCEPT !.outputs[n] = [o EXCEPT !.mode = id, !.pos = pos, !.size = size]]

\* adopt_mode, the output and the mode being there.
AdoptMode(s, n, id) ==
    LET o == s.outputs[n]
        native == {m.id : m \in {m \in s.modes : m.ours /\ m.id # id /\ m.size = o.size}}
    IN  IF o.mode = id \/ ~HasSize(s, id, o.size) THEN s
        ELSE Prune([s EXCEPT !.outputs[n] =
                       [o EXCEPT !.mode = id, !.listed = Without(With(o.listed, id), native)]])

\* Whether an output is at a mode of its own size.
Showing(s, n) == HasSize(s, s.outputs[n].mode, s.outputs[n].size)

\* One output put back.
Back(s, n) ==
    IF s.outputs[n].wl = Off \/ Showing(s, n) THEN s ELSE Show(s, n, s.outputs[n].size)

AllBack(s) ==
    LET back[n \in 0 .. Len(s.outputs)] == IF n = 0 THEN s ELSE Back(back[n - 1], n)
    IN  back[Len(s.outputs)]

\* Mutant: the outputs are put back, and the screen keeps the client's size.
RestoreUnbounded(s) == Relayout(AllBack(s))

\* restore_outputs.
RestoreOutputs(s) == Bounded(Relayout(AllBack(s)))

\* Its result: a move of the CRTCs alone is no change to it.
RestoreChanges(s) ==
    \/ \E n \in DOMAIN s.outputs : s.outputs[n].wl # Off /\ ~Showing(s, n)
    \/ RestoreOutputs(s).size # s.size

-----------------------------------------------------------------------------
(* What the compositor does: r is the rectangle it gives the output.       *)

Same(s, n, r) ==
    LET o == s.outputs[n]
    IN  o.at = r.at /\ o.log = r.log /\ o.size = r.size /\ Showing(s, n)

\* The output with the rectangle's numbers.
Resized(s, n, r) ==
    LET o == s.outputs[n]
    IN  [s EXCEPT !.outputs[n] = [o EXCEPT !.at = r.at, !.log = r.log, !.size = r.size]]

\* Mutant: the native modes of its earlier sizes stay.
UpdatedOnly(s, n, r) == Resized(Show(s, n, r.size), n, r)

\* sync_wayland_output, of an output there is.
Updated(s, n, r) ==
    LET u == Resized(Show(s, n, r.size), n, r)
        o == u.outputs[n]
        stale == {m.id : m \in {m \in u.modes : m.ours /\ m.id # o.mode /\ Contains(o.listed, m.id)}}
    IN  IF stale = {} THEN u
        ELSE Prune([u EXCEPT !.outputs[n].listed = Without(@, stale)])

\* And of a new one, which drops the stand-in.
Added(s, wl, r) ==
    LET t == NewMode(s, r.size, TRUE)
        o == [wl |-> wl, crtc |-> t.next, pos |-> <<0, 0>>, size |-> r.size, at |-> r.at,
              log |-> r.log, mode |-> s.next, listed |-> <<s.next>>]
        real == Kept(t.outputs, {p \in ToSet(t.outputs) : p.wl # Off})
    IN  Prune([t EXCEPT !.next = @ + 1, !.outputs = Append(real, o)])

SyncOutput(s, wl, r) ==
    LET n == Where(s, LAMBDA o : o.wl = wl)
    IN  IF n = 0 THEN Bounded(Relayout(Added(s, wl, r)))
        ELSE IF Same(s, n, r) THEN s
        ELSE Bounded(Relayout(Updated(s, n, r)))

SyncChanges(s, wl, r) ==
    LET n == Where(s, LAMBDA o : o.wl = wl)
    IN  n = 0 \/ ~Same(s, n, r)

\* remove_wayland_output, of an output there is.
RemoveWaylandOutput(s, wl) ==
    LET kept == Kept(s.outputs, {o \in ToSet(s.outputs) : o.wl # wl})
    IN  Bounded(Relayout(Prune([s EXCEPT !.outputs = kept])))

\* Screen::new.
NewScreen(size) ==
    [size |-> size, next |-> 3, modes |-> {[id |-> 1, size |-> size, ours |-> TRUE]},
     outputs |-> <<[wl |-> Off, crtc |-> 2, pos |-> <<0, 0>>, size |-> size, at |-> <<0, 0>>,
                    log |-> size, mode |-> 1, listed |-> <<1>>]>>]
=============================================================================

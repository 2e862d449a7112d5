-------------------------------- MODULE Layout --------------------------------
(***************************************************************************)
(* The screen model between the compositor and the X clients: the Wayland  *)
(* thread rebuilds it from the outputs (src/src/bridge/wayland/output.rs), *)
(* the X threads carry out RandR requests on it (bridge/x11/conn.rs), and  *)
(* each, after a change, pushes what follows from it to the framebuffer,   *)
(* the input mapping and the clients (bridge/server.rs).                   *)
(*                                                                         *)
(* A section under the screen lock is one step, and so is each push.  How  *)
(* a resolution change is carried out is OutputConfig's; here it ends, at  *)
(* some point, in success if the output has the size, or in failure.       *)
(***************************************************************************)
EXTENDS RandrScreen, PointerMap

CONSTANTS
    XThreads,      \* the X connection threads
    Outs,          \* the Wayland names the outputs get
    Configs,       \* what the compositor may make of an output
    Sizes,         \* the sizes of clients' modes and screens
    Places,        \* where clients put a CRTC
    FirstSize,     \* the size of the stand-in
    Made,          \* the sizes of the modes clients have made before, in order
    Xdg,           \* how far xdg-output goes: "none", "v2" and "v3"
    MaxChanges,    \* bound: what the compositor does
    MaxRequests    \* bound: what clients ask for

ASSUME LayoutAssumption ==
    /\ Off \notin Outs /\ IsFiniteSet(Outs)
    /\ "wayland" \notin XThreads
    /\ Configs \subseteq [mode : (Nat \ {0}) \X (Nat \ {0}), turn : Transforms,
                          scale : Nat \ {0}, at : Int \X Int]
    /\ Sizes \subseteq Nat \X Nat /\ Places \subseteq Int \X Int
    /\ FirstSize \in Nat \X Nat /\ Made \in Seq(Nat \X Nat)
    /\ Xdg \subseteq {"none", "v2", "v3"}
    /\ MaxChanges \in Nat /\ MaxRequests \in Nat

VARIABLES
    comp,       \* the compositor's outputs
    wire,       \* its events on their way
    xdg,        \* its xdg-output
    changes,    \* how often it has changed something
    acc,        \* State::outputs: what the events have said of each
    screen,     \* Server::screen
    xs,         \* where each X thread is in a RandR request
    requests,   \* how many there were
    todo,       \* what each thread has yet to push
    snap,       \* and its copy of the screen
    fb,         \* the framebuffer's size
    rects,      \* Input::layout
    geometry,   \* Input's width and height
    told,       \* the size clients last heard of
    behind,     \* whether a push may be missing: none was made yet, two threads pushed
                \* at once, or a change made none
    moved,      \* whether a client's placement stands, or a first size past the limits
    off,        \* the outputs a client left without their mode
    raced,      \* the outputs a client's late set_crtc gave another size
    theirs      \* the modes clients put on a list or took off one

compositor == <<comp, wire, xdg, changes>>
followers == <<fb, rects, geometry, told>>
history == <<moved, off, raced, theirs>>
vars == <<compositor, acc, screen, xs, requests, todo, snap, followers, behind, history>>

Threads == XThreads \cup {"wayland"}
Gone == [gone |-> TRUE]
NoAcc == [known |-> FALSE]
Idle == [at |-> "idle"]
NoSnap == [size |-> <<0, 0>>, rects |-> <<>>]

\* OutputAcc before any event: no mode yet, and a scale of 1 (0, at least 1).
NewAcc == [known |-> TRUE, mode |-> <<0, 0>>, turn |-> "normal", scale |-> 1, at |-> <<0, 0>>,
           logical |-> FALSE, lat |-> <<0, 0>>, log |-> <<0, 0>>]

Init ==
    /\ comp = [o \in Outs |-> Gone] /\ wire = <<>> /\ xdg \in Xdg /\ changes = 0
    /\ acc = [o \in Outs |-> NoAcc]
    /\ screen = [NewScreen(FirstSize) EXCEPT
                    !.next = @ + Len(Made),
                    !.modes = @ \cup {[id |-> 2 + k, size |-> Made[k], ours |-> FALSE] :
                                          k \in DOMAIN Made}]
    /\ xs = [t \in XThreads |-> Idle] /\ requests = 0
    /\ todo = [t \in Threads |-> <<>>] /\ snap = [t \in Threads |-> NoSnap]
    /\ fb = FirstSize /\ rects = <<>> /\ geometry = FirstSize /\ told = FirstSize
    /\ behind = TRUE /\ moved = (Clamped(FirstSize) # FirstSize)
    /\ off = {} /\ raced = {} /\ theirs = {}

-----------------------------------------------------------------------------
(* sync_screen. *)

Pushes(notify) ==
    <<"snapshot", "framebuffer", "input">> \o (IF notify THEN <<"clients">> ELSE <<>>)

Pushing(t) == todo[t] # <<>>

OthersPush(t) == \E u \in Threads \ {t} : Pushing(u)

\* A thread that has changed the screen goes on to push it.
Sync(t, notify) ==
    /\ todo' = [todo EXCEPT ![t] = Pushes(notify)]
    /\ behind' = (behind \/ OthersPush(t))

\* One that has changed it, or not, does not.
NoSync ==
    /\ behind' = (behind \/ LayoutRects(screen') # LayoutRects(screen))
    /\ UNCHANGED todo

Push(t) ==
    /\ Pushing(t)
    /\ todo' = [todo EXCEPT ![t] = Tail(@)]
    /\ LET what == Head(todo[t]) IN
       /\ snap' = IF what = "snapshot"
                  THEN [snap EXCEPT ![t] = [size |-> screen.size, rects |-> LayoutRects(screen)]]
                  ELSE IF Len(todo[t]) = 1 THEN [snap EXCEPT ![t] = NoSnap] ELSE snap
       /\ behind' = (behind /\ ~(what = "snapshot" /\ Contains(todo[t], "clients")
                                  /\ ~OthersPush(t)))
       /\ fb' = IF what = "framebuffer" THEN snap[t].size ELSE fb
       /\ rects' = IF what = "input" THEN snap[t].rects ELSE rects
       /\ geometry' = IF what = "input" THEN snap[t].size ELSE geometry
       /\ told' = IF what = "clients" THEN snap[t].size ELSE told
    /\ UNCHANGED <<compositor, acc, screen, xs, requests, history>>

-----------------------------------------------------------------------------
(* The compositor. *)

TrueSize(c) == Size(c.turn, c.mode)

TrueLog(c) == <<TrueSize(c)[1] \div c.scale, TrueSize(c)[2] \div c.scale>>

\* What it says of an output, one entry for each done: its own events, and
\* xdg-output's, whose v3 waits for the output's done.
Says(o, c) ==
    LET message(parts) == [about |-> o, parts |-> parts, what |-> c]
    IN  CASE xdg = "none" -> <<message({"output"})>>
          [] xdg = "v2" -> <<message({"output"}), message({"logical"})>>
          [] xdg = "v3" -> <<message({"output", "logical"})>>

\* It goes on once it has been heard and what it said is carried out: nothing here
\* sees how far it is ahead.
Change(o, c, events) ==
    /\ changes < MaxChanges /\ changes' = changes + 1
    /\ comp' = [comp EXCEPT ![o] = c]
    /\ wire = <<>> /\ ~Pushing("wayland") /\ wire' = events
    /\ UNCHANGED <<xdg, acc, screen, xs, requests, todo, snap, followers, behind, history>>

PlugIn(o, c) == comp[o] = Gone /\ Change(o, c, Says(o, c))

Reconfigure(o, c) == comp[o] \notin {Gone, c} /\ Change(o, c, Says(o, c))

Unplug(o) ==
    comp[o] # Gone /\ Change(o, Gone, <<[about |-> o, parts |-> {}, what |-> Gone]>>)

-----------------------------------------------------------------------------
(* The Wayland thread. *)

\* wl_output's geometry, mode and scale events, and xdg_output's two, which only
\* fill OutputAcc: the output's entry is made for the first of them.
Accumulated(old, e) ==
    LET c == e.what
        a == IF old = NoAcc THEN NewAcc ELSE old
        b == IF "output" \notin e.parts THEN a
             ELSE [a EXCEPT !.mode = c.mode, !.turn = c.turn, !.scale = c.scale, !.at = c.at]
    IN  IF "logical" \notin e.parts THEN b
        ELSE [b EXCEPT !.logical = TRUE, !.lat = c.at, !.log = TrueLog(c)]

\* The rectangle apply_output makes of it.
RectOf(a) ==
    LET size == Size(a.turn, a.mode)
    IN  [size |-> size,
         at |-> IF a.logical THEN a.lat ELSE a.at,
         log |-> IF a.logical THEN a.log ELSE <<size[1] \div a.scale, size[2] \div a.scale>>]

\* The events up to a done, and apply_output.
Apply(e) ==
    /\ e.what # Gone
    /\ LET o == e.about
           a == Accumulated(acc[o], e)
           changed == SyncChanges(screen, o, RectOf(a))
       IN  /\ acc' = [acc EXCEPT ![o] = a]
           /\ screen' = SyncOutput(screen, o, RectOf(a))
           /\ Sync("wayland", changed)
           /\ moved' = (moved /\ ~changed)
           /\ off' = IF changed THEN off \ {o} ELSE off
           /\ raced' = IF changed THEN raced \ {o} ELSE raced
    /\ UNCHANGED <<xs, theirs>>

\* Mutant: nothing is pushed.
TakeAwayUnpushed(e) ==
    /\ e.what = Gone
    /\ LET o == e.about
           there == Where(screen, LAMBDA p : p.wl = o) # 0
       IN  /\ acc' = [acc EXCEPT ![o] = NoAcc]
           /\ xs' = [t \in XThreads |-> IF xs[t].at = "waiting" /\ xs[t].wl = o
                                        THEN [xs[t] EXCEPT !.at = "refused"] ELSE xs[t]]
           /\ screen' = IF there THEN RemoveWaylandOutput(screen, o) ELSE screen
           /\ moved' = (moved /\ ~there)
           /\ off' = off \ {o}
           /\ raced' = raced \ {o}
    /\ UNCHANGED <<todo, behind, theirs>>

\* remove_output, and with it the failure of a change of that output.
TakeAway(e) ==
    /\ e.what = Gone
    /\ LET o == e.about
           there == Where(screen, LAMBDA p : p.wl = o) # 0
       IN  /\ acc' = [acc EXCEPT ![o] = NoAcc]
           /\ xs' = [t \in XThreads |-> IF xs[t].at = "waiting" /\ xs[t].wl = o
                                        THEN [xs[t] EXCEPT !.at = "refused"] ELSE xs[t]]
           /\ screen' = IF there THEN RemoveWaylandOutput(screen, o) ELSE screen
           /\ Sync("wayland", there)
           /\ moved' = (moved /\ ~there)
           /\ off' = off \ {o}
           /\ raced' = raced \ {o}
    /\ UNCHANGED theirs

Receive ==
    /\ wire # <<>> /\ ~Pushing("wayland")
    /\ wire' = Tail(wire)
    /\ Apply(Head(wire)) \/ TakeAway(Head(wire))
    /\ UNCHANGED <<comp, xdg, changes, requests, snap, followers>>

\* The end of change_mode: dynres_output_changed or dynres_settled saw the size,
\* or nothing was left to try, or no answer came in time.
Answer(t, how) ==
    /\ xs[t].at = "waiting"
    /\ how = "changed" =>
         /\ ~Pushing("wayland")
         /\ LET n == Where(screen, LAMBDA p : p.wl = xs[t].wl)
            IN  n # 0 /\ screen.outputs[n].size = xs[t].size
    /\ xs' = [xs EXCEPT ![t].at = how]
    /\ UNCHANGED <<compositor, acc, screen, requests, todo, snap, followers, behind, history>>

-----------------------------------------------------------------------------
(* The X threads: one RandR request after another. *)

Ask(t) ==
    /\ xs[t] = Idle /\ ~Pushing(t)
    /\ requests < MaxRequests /\ requests' = requests + 1
    /\ UNCHANGED <<compositor, acc, snap, followers>>

\* RandrCreateMode.
AskCreateMode(t, size) ==
    /\ Ask(t)
    /\ screen' = CreateMode(screen, size)
    /\ UNCHANGED <<xs, todo, behind, history>>

\* RandrAddOutputMode.
AskAddMode(t, n, id) ==
    /\ Ask(t)
    /\ screen' = AddOutputMode(screen, n, id)
    /\ theirs' = theirs \cup {id}
    /\ UNCHANGED <<xs, todo, behind, moved, off, raced>>

\* RandrDeleteOutputMode.
AskDeleteMode(t, n, id) ==
    /\ Ask(t)
    /\ screen' = DeleteOutputMode(screen, n, id)
    /\ theirs' = theirs \cup {id}
    /\ UNCHANGED <<xs, todo, behind, moved, off, raced>>

\* RandrDestroyMode.
AskDestroyMode(t, id) ==
    /\ Ask(t)
    /\ screen' = DestroyMode(screen, id)
    /\ off' = off \cup {o.wl : o \in {o \in ToSet(screen.outputs) : o.mode = id}}
    /\ UNCHANGED <<xs, todo, behind, moved, raced, theirs>>

\* RandrSetScreenSize.
AskSetSize(t, size) ==
    /\ Ask(t)
    /\ screen' = SetSize(screen, size)
    /\ Sync(t, TRUE)
    /\ moved' = TRUE
    /\ UNCHANGED <<xs, off, raced, theirs>>

\* RandrSetCrtcConfig: the plan, made under one lock of the screen.  A CRTC the
\* compositor drives at another size is the compositor's to change, if it can.
AskCrtc(t, n, pos, id) ==
    /\ Ask(t)
    /\ LET o == screen.outputs[n]
       IN  IF id = Off \/ o.wl = Off \/ HasSize(screen, id, o.size)
           THEN xs' = [xs EXCEPT ![t] =
                         [at |-> "local", crtc |-> o.crtc, pos |-> pos, mode |-> id]]
           ELSE \/ \E m \in screen.modes :
                       /\ m.id = id
                       /\ xs' = [xs EXCEPT ![t] =
                                   [at |-> "waiting", wl |-> o.wl, size |-> m.size,
                                    crtc |-> o.crtc, pos |-> pos, mode |-> id]]
                \/ UNCHANGED xs
    /\ UNCHANGED <<screen, todo, behind, history>>

CrtcOf(t) == Where(screen, LAMBDA o : o.crtc = xs[t].crtc)

ModeIsThere(id) == id = Off \/ \E m \in screen.modes : m.id = id

\* The plan carried out under another: set_crtc, and the push.
SetLocal(t) ==
    /\ xs[t].at = "local"
    /\ xs' = [xs EXCEPT ![t] = Idle]
    /\ LET n == CrtcOf(t)
           id == xs[t].mode
       IN  IF n = 0 \/ ~ModeIsThere(id)
           THEN UNCHANGED <<screen, todo, behind, history>>
           ELSE LET wl == screen.outputs[n].wl IN
                /\ screen' = SetCrtc(screen, n, xs[t].pos, id)
                /\ Sync(t, TRUE)
                /\ moved' = TRUE
                /\ off' = IF id = Off THEN off \cup {wl} ELSE off \ {wl}
                /\ raced' = IF id = Off \/ HasSize(screen, id, screen.outputs[n].size)
                            THEN raced ELSE raced \cup {wl}
                /\ UNCHANGED theirs
    /\ UNCHANGED <<compositor, acc, requests, snap, followers>>

\* The compositor made the change: the CRTC gets the client's own mode, which enables
\* it again if another client has disabled it since.
Adopt(t) ==
    /\ xs[t].at = "changed"
    /\ xs' = [xs EXCEPT ![t] = Idle]
    /\ LET n == CrtcOf(t)
           id == xs[t].mode
           adopts == n # 0 /\ HasSize(screen, id, screen.outputs[n].size)
       IN  /\ screen' = IF adopts THEN AdoptMode(screen, n, id) ELSE screen
           /\ moved' = (moved \/ (adopts /\ screen.outputs[n].mode = Off))
           /\ off' = IF adopts THEN off \ {screen.outputs[n].wl} ELSE off
           /\ NoSync
    /\ UNCHANGED <<compositor, acc, requests, snap, followers, raced, theirs>>

\* It did not: the outputs are put back, and the push only made if that was a
\* change by restore_outputs's account.
Restore(t) ==
    /\ xs[t].at = "refused"
    /\ xs' = [xs EXCEPT ![t] = Idle]
    /\ screen' = RestoreOutputs(screen)
    /\ IF RestoreChanges(screen) THEN Sync(t, TRUE) ELSE NoSync
    /\ moved' = FALSE
    /\ off' = {}
    /\ UNCHANGED <<compositor, acc, requests, snap, followers, raced, theirs>>

\* A client uses the modes it made, or those an output lists.
Usable(n) == {m.id : m \in {m \in screen.modes :
                              ~m.ours \/ Contains(screen.outputs[n].listed, m.id)}}

Client(t) ==
    \/ \E size \in Sizes : AskCreateMode(t, size) \/ AskSetSize(t, size)
    \/ \E m \in screen.modes : AskDestroyMode(t, m.id)
    \/ \E n \in DOMAIN screen.outputs :
          \/ \E m \in screen.modes : AskAddMode(t, n, m.id) \/ AskDeleteMode(t, n, m.id)
          \/ \E pos \in Places, id \in Usable(n) \cup {Off} : AskCrtc(t, n, pos, id)
    \/ SetLocal(t)
    \/ \E how \in {"changed", "refused"} : Answer(t, how)
    \/ Adopt(t)
    \/ Restore(t)

Next ==
    \/ \E o \in Outs : Unplug(o) \/ \E c \in Configs : PlugIn(o, c) \/ Reconfigure(o, c)
    \/ Receive
    \/ \E t \in Threads : Push(t)
    \/ \E t \in XThreads : Client(t)

Spec == Init /\ [][Next]_vars

-----------------------------------------------------------------------------
(* Properties. *)

Quiet == \A t \in Threads : ~Pushing(t)

\* Whatever is derived from the screen agrees with it whenever nobody is on the
\* way to push a change: the framebuffer's size, the rectangles and the size the
\* pointer is mapped through, and the size X clients were told of.  (Not after
\* two threads pushed at once, or after a change that makes no push, until the
\* next push that stands alone.)
FollowersAgree ==
    Quiet /\ ~behind =>
        /\ fb = screen.size /\ geometry = screen.size /\ told = screen.size
        /\ rects = LayoutRects(screen)

About(o) == \E k \in DOMAIN wire : wire[k].about = o

Shown(o) == Where(screen, LAMBDA p : p.wl = o)

\* The screen is what the compositor drives.  Once its events are in, an output is
\* there if the compositor's is, with its size and its logical rectangle; each
\* is enabled, at a mode of its own size, unless a client switched it off, or took
\* the mode off its list or away; and the CRTCs are where relayout_physical puts them and the
\* screen their bounding box, unless a client placed them: and after a change of
\* mode that came to nothing, not even then.
AsTheCompositorHasIt ==
    /\ \A o \in Outs : ~About(o) =>
        /\ comp[o] = Gone <=> Shown(o) = 0
        /\ comp[o] # Gone =>
            LET p == screen.outputs[Shown(o)]
            IN  /\ p.at = comp[o].at /\ p.log = TrueLog(comp[o])
                /\ p.size = TrueSize(comp[o]) \/ o \in raced
    /\ \A n \in DOMAIN screen.outputs :
        LET p == screen.outputs[n] IN Showing(screen, n) \/ p.wl \in off \/ p.mode \in theirs
    /\ moved \/ (Relayout(screen) = screen /\ Extent(screen) = screen.size)

\* A native mode stands for what some output shows now, and none is left behind
\* by an output that changed or went away: unless a client put it on a list or
\* took it off one, or its late set_crtc gave the output another size.
NativeModesStand ==
    \A m \in screen.modes : m.ours /\ m.id \notin theirs =>
        /\ ListedBy(screen, m.id) # {}
        /\ \A n \in ListedBy(screen, m.id) :
             LET o == screen.outputs[n] IN o.size = m.size \/ o.wl \in raced

\* What is drawn of a buffer put somewhere, and the tile of a size there.
Drawn(t, m, pos) == {Plus(pos, Point(t, <<x, y>>, m)) : x \in 0 .. m[1] - 1, y \in 0 .. m[2] - 1}

Tile(z, pos) == {Plus(pos, <<x, y>>) : x \in 0 .. z[1] - 1, y \in 0 .. z[2] - 1}

\* The pointer goes where the picture is.  The pixels of an output's buffer, under
\* its transform and at the CRTC's position, fill its tile; and where one is drawn
\* the pointer is sent into that output's logical rectangle, if no other output is
\* drawn there and there is such a rectangle (not of an output of fewer pixels than
\* its scale).
PointerMeetsPicture ==
    Quiet /\ ~behind =>
        \A n \in Enabled(screen) :
            LET o == screen.outputs[n]
                a == acc[o.wl]
                drawn == Drawn(a.turn, a.mode, o.pos)
                alone(p) == \A k \in Enabled(screen) \ {n} :
                                ~Within(p, screen.outputs[k].pos, screen.outputs[k].size)
                base == <<o.at[1] - Origin(rects)[1], o.at[2] - Origin(rects)[2]>>
            IN  o.wl # Off /\ Size(a.turn, a.mode) = o.size =>
                    /\ drawn = Tile(o.size, o.pos)
                    /\ o.log[1] > 0 /\ o.log[2] > 0 =>
                         \A p \in {p \in drawn : alone(p)} :
                           Within(Motion(rects, geometry, p).value, base, o.log)

\* Reference for pack_axis: of any three outputs, those that begin together are
\* placed together, one that begins where another ends is placed at or past its
\* end, and three in a row, in whatever order they are listed, one after another.
\* (A fact of no state: it is looked at in the first.)
EdgesMeet ==
    changes = 0 /\ requests = 0 =>
    LET item == [start : -1 .. 1, len : 1 .. 2, phys : 1 .. 3]
    IN  \A i, j, k \in item :
            LET items == <<i, j, k>>
                at == PackAxis(items)
                end(n) == items[n].start + items[n].len
                meet(m, n) == items[n].start = end(m)
            IN  \A m, n \in 1 .. 3 :
                    /\ items[m].start = items[n].start => at[m] = at[n]
                    /\ meet(m, n) => at[n] >= at[m] + items[m].phys
                    /\ \A l \in 1 .. 3 : meet(m, n) /\ meet(n, l) =>
                         at[m] = 0 /\ at[n] = items[m].phys
                                   /\ at[l] = items[m].phys + items[n].phys
=============================================================================

-------------------------------- MODULE Seats --------------------------------
(***************************************************************************)
(* How the Wayland thread settles on its seats as globals and seats arrive *)
(* (src/src/bridge/wayland/registry.rs, mod.rs, transient_seat.rs), and    *)
(* what follows from it: the clipboard's data-control device, the virtual  *)
(* devices, the passive keyboard and pointer, and the keymap that is taken *)
(* from the one keyboard and given to the other (input/mod.rs).            *)
(*                                                                         *)
(* An X client types a modifier meanwhile, which the virtual keyboard has  *)
(* to be told of in that keymap (Input).                                   *)
(*                                                                         *)
(* c is this side, k the compositor; out holds the requests on their way   *)
(* to it and wire the events on their way back, each in order.             *)
(***************************************************************************)
EXTENDS Input, Sequences, SequencesExt, FiniteSets

CONSTANTS
    Real,           \* the compositor's own seats: positive numbers
    Ours,           \* the number a transient seat gets
    Managers,       \* the managers it may have, of AllManagers
    Modes,          \* the -seat choices
    MayBeLate,      \* bound: the globals that may come only later, or never
    MaxPlugs,       \* bound: keyboards plugged in and unplugged, together
    MaxStrokes,     \* bound: presses and releases injected
    Hasty           \* whether one may be unplugged while a keymap is on its way to it

Globals == {<<"seat", n>> : n \in Real} \cup {<<"manager", m>> : m \in Managers}
AllManagers == {"transient", "ext", "wlr", "vptr", "vkbd"}

ASSUME SeatsAssumption ==
    /\ Real \subseteq Nat \ {0} /\ IsFiniteSet(Real)
    /\ Ours \in Nat \ ({0} \cup Real)
    /\ Managers \subseteq AllManagers
    /\ Modes \subseteq {"first", "named", "transient"}
    /\ MayBeLate \subseteq Globals /\ MaxPlugs \in Nat /\ MaxStrokes \in Nat
    /\ Hasty \in BOOLEAN

Seats == Real \cup {Ours}
None == 0
Caps == {"keyboard", "pointer"}
Keymaps == 1 .. 2

VARIABLES
    unknown,    \* the initial globals this side has not been told of
    late,       \* the globals that only appear later, or never
    settled,    \* registry_settled
    c,          \* this side
    k,          \* the compositor
    out,        \* the requests on their way
    wire,       \* the events on their way
    plugs,      \* keyboards plugged in and unplugged so far
    i,          \* the modifier key: the record Input describes
    strokes,    \* presses and releases injected so far
    known       \* the real seats announced when `ready` was dispatched

keys == <<i, strokes>>
vars == <<unknown, late, settled, c, k, out, wire, plugs, keys, known>>

\* This side: how the seat is chosen, the seats chosen, the transient seat asked
\* for and its global, pending_seats, seat_caps, the passive devices, the
\* managers bound, the data-control device, whether the virtual devices exist,
\* the pointer handed to capture, the keymap last loaded; and the requests of
\* the step being taken.
Here(mode) ==
    [mode |-> mode, seat |-> None, clip |-> None, asked |-> FALSE, global |-> None,
     pending |-> {}, caps |-> [n \in Seats |-> {}], keyboard |-> FALSE, pointer |-> FALSE,
     managers |-> {}, device |-> "none", virtual |-> FALSE, keymap |-> None, req |-> <<>>]

\* The compositor: which seats have the wanted name, the capabilities each has
\* had, the seats bound, the data-control devices, the seats our keyboard,
\* pointer and virtual devices are on, the virtual keyboard's keymap and another
\* keyboard's, and whether a request was an error.
There(named, had, other) ==
    [named |-> named, had |-> had, devices |-> {}, kbd |-> None, ptr |-> None,
     virtual |-> None, vmap |-> None, other |-> other, error |-> FALSE]

Req(s, r) == [s EXCEPT !.req = Append(@, r)]

Lowest(S) == CHOOSE n \in S : \A m \in S : n <= m

-----------------------------------------------------------------------------
(* What this side does, as operators on c. *)

\* try_init_device: ext is preferred, and replaces a wlr device.
InitDevice(s) ==
    IF s.device = "ext" \/ s.clip = None THEN s
    ELSE IF "ext" \in s.managers
    THEN LET t == Req([s EXCEPT !.device = "ext"], <<"device", "ext", s.clip>>)
         IN  IF s.device = "wlr" THEN Req(t, <<"destroy", "wlr", s.clip>>) ELSE t
    ELSE IF s.device = "none" /\ "wlr" \in s.managers
    THEN Req([s EXCEPT !.device = "wlr"], <<"device", "wlr", s.clip>>)
    ELSE s

\* Input::set_keymap: nothing before the devices exist.
SetKeymap(s) ==
    IF s.virtual /\ s.keymap # None THEN Req(s, <<"keymap", s.keymap>>) ELSE s

\* Mutant: a keymap that came first is not forwarded.
InitVirtualInputBare(s) ==
    IF s.virtual \/ s.seat = None \/ ~{"vptr", "vkbd"} \subseteq s.managers THEN s
    ELSE Req([s EXCEPT !.virtual = TRUE], <<"virtual", s.seat>>)

\* try_init_virtual_input: both devices, once the seat and both backends exist,
\* and the keymap already seen.
InitVirtualInput(s) ==
    IF s.virtual \/ s.seat = None \/ ~{"vptr", "vkbd"} \subseteq s.managers THEN s
    ELSE SetKeymap(Req([s EXCEPT !.virtual = TRUE], <<"virtual", s.seat>>))

\* Mutant: the passive devices are asked for whatever the seat can do.
SyncSeatDevicesEarly(s) ==
    LET t == IF s.keyboard THEN s ELSE Req([s EXCEPT !.keyboard = TRUE], <<"get_keyboard", s.seat>>)
    IN  IF t.pointer THEN t ELSE Req([t EXCEPT !.pointer = TRUE], <<"get_pointer", s.seat>>)

\* sync_seat_devices: the passive keyboard and pointer, once each, when the seat
\* has the capability; the pointer goes to the capture backend too.
SyncSeatDevices(s) ==
    LET has(cap) == cap \in s.caps[s.seat]
        t == IF has("keyboard") /\ ~s.keyboard
             THEN Req([s EXCEPT !.keyboard = TRUE], <<"get_keyboard", s.seat>>) ELSE s
    IN  IF has("pointer") /\ ~t.pointer
        THEN Req([t EXCEPT !.pointer = TRUE], <<"get_pointer", s.seat>>) ELSE t

\* select_seat.
SelectSeat(s, n) ==
    LET t == [s EXCEPT !.clip = IF @ = None THEN n ELSE @, !.seat = n, !.pending = {}]
    IN  SyncSeatDevices(InitVirtualInput(InitDevice(t)))

\* adopt_transient_seat: once both its global and `ready` are in.
Adopt(s) ==
    IF s.global \in s.pending THEN SelectSeat(s, s.global) ELSE s

\* seat_announced, the seat having been bound.
SeatAnnounced(s, n) ==
    LET t == Req(s, <<"bind", n>>)
        pending == [t EXCEPT !.pending = @ \cup {n}]
    IN  CASE s.mode = "first" -> IF s.seat = None THEN SelectSeat(t, n) ELSE t
          [] s.mode = "named" -> pending
          [] s.mode = "transient" -> IF s.global = n THEN Adopt(pending) ELSE pending

\* transient_fallback: as if -seat was not given.
Fallback(s) ==
    LET t == [s EXCEPT !.mode = "first", !.asked = FALSE, !.global = None]
    IN  IF s.seat = None /\ s.pending # {} THEN SelectSeat(t, Lowest(s.pending)) ELSE t

\* Mutant: the seat is adopted first, and claims the clipboard.
ReadyAdoptsFirst(s, n) ==
    IF ~s.asked THEN s
    ELSE Adopt([s EXCEPT !.global = n])

\* transient_ready: the clipboard goes to the first of the real seats, before
\* ours is selected.
Ready(s, n) ==
    LET real == s.pending \ {n}
        t == [s EXCEPT !.global = n]
    IN  IF ~s.asked THEN s
        ELSE Adopt(IF s.clip = None /\ real # {} THEN [t EXCEPT !.clip = Lowest(real)] ELSE t)

\* The registry's arms for the managers: bind, and try again what waited for it.
ManagerBound(s, m) ==
    LET t == [s EXCEPT !.managers = @ \cup {m}] IN
    CASE m = "transient" ->
            IF s.mode = "transient" THEN Req([t EXCEPT !.asked = TRUE], <<"transient">>) ELSE s
      [] m \in {"ext", "wlr"} -> InitDevice(t)
      [] m \in {"vptr", "vkbd"} -> InitVirtualInput(t)

\* A global is announced; seats are numbers and managers names.
Announce(s, g) == IF g[1] = "seat" THEN SeatAnnounced(s, g[2]) ELSE ManagerBound(s, g[2])

\* wl_seat `capabilities`.
Capabilities(s, n, caps) ==
    LET t == [s EXCEPT !.caps[n] = caps]
    IN  IF s.seat = n THEN SyncSeatDevices(t) ELSE t

\* wl_seat `name`, being the one -seat names.
SeatNamed(s, n) ==
    IF s.mode = "named" /\ s.seat = None /\ n \in s.pending THEN SelectSeat(s, n) ELSE s

\* Mutant: every keymap is forwarded.
KeymapAlways(s, m) == SetKeymap([s EXCEPT !.keymap = m])

\* wl_keyboard `keymap`: forwarded, unless it is the one loaded last.
Keymap(s, m) == IF s.keymap = m THEN s ELSE SetKeymap([s EXCEPT !.keymap = m])

-----------------------------------------------------------------------------
(* Init *)

\* The compositor has the globals it has, and the seats their names and
\* capabilities; a transient seat's come later.
Init ==
    /\ late \in SUBSET MayBeLate /\ unknown = Globals \ late
    /\ settled = FALSE
    /\ \E mode \in Modes, bare \in {{Ours}, Seats}, other \in {None, 1} :
          /\ c = Here(mode)
          /\ \E named \in IF mode = "named" THEN SUBSET Real ELSE {{}} :
                k = There(named, [n \in Seats |-> IF n \in bare THEN {} ELSE Caps], other)
    /\ out = <<>> /\ wire = <<>> /\ plugs = 0 /\ known = {}
    /\ i = NewInput /\ strokes = 0

-----------------------------------------------------------------------------
(* The Wayland thread. *)

\* This side becomes s, and its requests are on their way.
Take(s) == c' = [s EXCEPT !.req = <<>>] /\ out' = out \o s.req

\* The first roundtrip delivers every initial global, in any order...
InitialGlobal(g) ==
    /\ g \in unknown /\ unknown' = unknown \ {g}
    /\ Take(Announce(c, g))
    /\ UNCHANGED <<late, settled, k, wire, plugs, keys, known>>

\* ...and then they are known to be all: transient_seat_settled.
Settle ==
    /\ unknown = {} /\ ~settled /\ settled' = TRUE
    /\ Take(IF c.mode = "transient" /\ ~c.asked THEN Fallback(c) ELSE c)
    /\ UNCHANGED <<unknown, late, k, wire, plugs, keys, known>>

\* The events that follow, in the order they come.  A new keymap is loaded too.
Dispatch ==
    LET e == Head(wire)
    IN  /\ i.w = "idle" /\ settled /\ wire # <<>> /\ wire' = Tail(wire)
        /\ Take(CASE e[1] = "global" -> Announce(c, e[2])
                  [] e[1] = "capabilities" -> Capabilities(c, e[2], e[3])
                  [] e[1] = "name" -> SeatNamed(c, e[2])
                  [] e[1] = "ready" -> Ready(c, e[2])
                  [] e[1] = "denied" -> IF c.asked THEN Fallback(c) ELSE c
                  [] e[1] = "keymap" -> Keymap(c, e[2]))
        /\ known' = IF e[1] = "ready" THEN c.pending \cap Real ELSE known
        /\ i' = IF c'.keymap # c.keymap THEN KeymapLoads(i) ELSE i
        /\ UNCHANGED <<unknown, late, settled, k, plugs, strokes>>

LoadKeymap ==
    /\ \/ i.w = "read" /\ i' = ReadPressed(i)
       \/ i.w = "install" /\ i' = InstallState(i)
    /\ UNCHANGED <<unknown, late, settled, c, k, out, wire, plugs, strokes, known>>

-----------------------------------------------------------------------------
(* The X thread. *)

\* A client presses or releases the key.  Until the virtual keyboard has a keymap
\* (keymap_set) that does nothing.
Stroke(press) ==
    /\ i.x = "idle" /\ c.virtual /\ c.keymap # None /\ TrackKey(i, press)
    /\ strokes < MaxStrokes /\ strokes' = strokes + 1
    /\ i' = FakeKey(i, press)
    /\ UNCHANGED <<unknown, late, settled, c, k, out, wire, plugs, known>>

SendStroke ==
    /\ \/ i.x = "key" /\ i' = SendKey(i)
       \/ i.x = "modifiers" /\ i' = UpdateModifiers(i)
    /\ UNCHANGED <<unknown, late, settled, c, k, out, wire, plugs, strokes, known>>

-----------------------------------------------------------------------------
(* The compositor, which handles requests once the globals are out. *)

Sends(events) == wire' = wire \o events

\* The keymap of a seat: another keyboard's, or our virtual one's.
SeatKeymap(s) == IF s.other # None THEN s.other ELSE s.vmap

\* Our keyboard is told of its seat's keymap, if it is on one and there is one.
TellKeymap(s) ==
    IF s.kbd = None \/ SeatKeymap(s) = None THEN <<>> ELSE <<<<"keymap", SeatKeymap(s)>>>>

\* A passive device: an error on a seat that never had the capability.
Passive(s, n, cap) == IF cap \in s.had[n] THEN s ELSE [s EXCEPT !.error = TRUE]

Handle ==
    LET r == Head(out)
        n == r[2] IN
    /\ settled /\ out # <<>> /\ out' = Tail(out)
    /\ CASE r[1] = "bind" ->
              /\ Sends(<<<<"capabilities", n, k.had[n]>>>>
                       \o IF n \in k.named THEN <<<<"name", n>>>> ELSE <<>>)
              /\ UNCHANGED k
         [] r[1] = "transient" ->
              \/ \E first \in BOOLEAN :
                    LET global == <<"global", <<"seat", Ours>>>>
                        ready == <<"ready", Ours>>
                    IN  Sends(IF first THEN <<global, ready>> ELSE <<ready, global>>)
                 /\ UNCHANGED k
              \/ Sends(<<<<"denied">>>>) /\ UNCHANGED k
         [] r[1] = "device" ->
              k' = [k EXCEPT !.devices = @ \cup {<<r[2], r[3]>>}] /\ UNCHANGED wire
         [] r[1] = "destroy" ->
              k' = [k EXCEPT !.devices = @ \ {<<r[2], r[3]>>}] /\ UNCHANGED wire
         [] r[1] = "virtual" ->
              /\ k' = [k EXCEPT !.virtual = n, !.had[n] = Caps]
              /\ Sends(<<<<"capabilities", n, Caps>>>>)
         [] r[1] = "get_keyboard" ->
              /\ k' = Passive([k EXCEPT !.kbd = n], n, "keyboard")
              /\ Sends(TellKeymap(k'))
         [] r[1] = "get_pointer" ->
              k' = Passive([k EXCEPT !.ptr = n], n, "pointer") /\ UNCHANGED wire
         [] r[1] = "keymap" ->
              /\ k' = [k EXCEPT !.vmap = n]
              /\ Sends(IF k.other = None THEN TellKeymap(k') ELSE <<>>)
    /\ UNCHANGED <<unknown, late, settled, c, plugs, keys, known>>

\* A global that was not there at first appears.
Appear(g) ==
    /\ settled /\ g \in late /\ late' = late \ {g}
    /\ Sends(<<<<"global", g>>>>)
    /\ UNCHANGED <<unknown, settled, c, k, out, plugs, keys, known>>

\* Another keyboard, with a keymap of its own, is plugged into our seat or
\* unplugged from it.
Plug ==
    /\ k.kbd # None /\ plugs < MaxPlugs /\ plugs' = plugs + 1
    /\ \/ k.other = None /\ \E m \in Keymaps : k' = [k EXCEPT !.other = m]
       \/ /\ k.other # None /\ k' = [k EXCEPT !.other = None]
          /\ Hasty \/ (out = <<>> /\ wire = <<>>)
    /\ Sends(TellKeymap(k'))
    /\ UNCHANGED <<unknown, late, settled, c, out, keys, known>>

-----------------------------------------------------------------------------
Next ==
    \/ \E g \in Globals : InitialGlobal(g) \/ Appear(g)
    \/ Settle \/ Dispatch \/ LoadKeymap \/ Handle \/ Plug
    \/ SendStroke \/ \E press \in BOOLEAN : Stroke(press)

Spec == Init /\ [][Next]_vars

\* The thread dispatches and the compositor answers.
FairSpec ==
    /\ Spec
    /\ WF_vars(Settle) /\ WF_vars(Dispatch) /\ WF_vars(LoadKeymap) /\ WF_vars(Handle)
    /\ \A g \in Globals : WF_vars(InitialGlobal(g))

-----------------------------------------------------------------------------
(* Properties. *)

AtRest == settled /\ out = <<>> /\ wire = <<>>

\* The seats the compositor has told us of.
Announced == {n \in Real : <<"seat", n>> \notin late} \cup IF c.global = Ours THEN {Ours} ELSE {}

\* The seat each -seat choice should come to: the transient one if it was
\* granted, one of the name asked for, or else any; none if there is none.
Usable ==
    CASE c.mode = "transient" -> {Ours}
      [] c.mode = "named" -> Announced \cap k.named
      [] c.mode = "first" -> Announced

\* Once things are at rest, a seat is chosen whenever there is one to choose, in
\* whatever order globals, names and answers came, and what follows from it is
\* all there: the passive devices the seat can have, the virtual devices on it,
\* with the keymap that was seen, and one data-control device, of the better
\* protocol, on the clipboard's seat.
SeatFound ==
    IF Usable = {} THEN c.seat = None ELSE c.seat \in Usable
DevicesFollow ==
    c.seat # None =>
        /\ (c.keyboard <=> k.had[c.seat] = Caps) /\ (c.pointer <=> k.had[c.seat] = Caps)
        /\ k.virtual = IF {"vptr", "vkbd"} \subseteq c.managers THEN c.seat ELSE None
        /\ k.virtual # None => k.vmap = c.keymap
ClipboardFollows ==
    LET best == IF "ext" \in c.managers THEN "ext" ELSE "wlr"
    IN  k.devices = IF c.clip = None \/ {"ext", "wlr"} \cap c.managers = {} THEN {}
                    ELSE {<<best, c.clip>>}
WiredUp == AtRest => SeatFound /\ DevicesFollow /\ ClipboardFollows

\* No device is asked of a seat that never had the capability, which would end
\* the connection.
NoMissingCapability == ~k.error

\* The clipboard follows the seat, except that with a transient one it stays on
\* a real seat, where one was known when ours was ready.
ClipboardStaysReal ==
    /\ c.clip \in {None, c.seat} \/ (c.global = Ours /\ c.clip \in Real)
    /\ known # {} => c.clip \in known

\* The exchange of keymaps between the compositor and our keyboards ends, and
\* then the keymap loaded is the seat's.
KeymapSettles == <>[](AtRest /\ (k.kbd # None /\ SeatKeymap(k) # None => c.keymap = SeatKeymap(k)))

\* Between keystrokes and keymaps, the key is down for the compositor, and in the
\* state the modifiers are computed from, if and only if the client last pressed
\* it: over repeated presses, and keymaps loaded while it is held.  A keymap that
\* is loaded while the key goes down or up is excepted.
KeysAgree ==
    i.x = "idle" /\ i.w = "idle" /\ ~i.overlap =>
        /\ i.held = i.pressed
        /\ i.xkb # NoState => i.xkb = IF i.pressed THEN 1 ELSE 0

=============================================================================

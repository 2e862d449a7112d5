----------------------------- MODULE Framebuffer -----------------------------
(***************************************************************************)
(* The shared framebuffer (src/src/bridge/capture.rs), the DAMAGE objects  *)
(* of the X clients that watch it (damage.rs), and the three steps in      *)
(* which the Wayland thread puts a captured frame on it (frame_ready of    *)
(* both backends): whether anybody watches and where the output is are     *)
(* read first, the frame is blitted under the framebuffer's lock, and what *)
(* changed is reported under the objects' lock.  X threads come between.   *)
(*                                                                         *)
(* Pictures are told apart by what differs: `stale` are the rows of an     *)
(* output whose picture on the framebuffer is not the compositor's,        *)
(* `blank` the rows a relayout cleared or moved away.                      *)
(***************************************************************************)
EXTENDS Damage, Sequences

CONSTANTS
    Outputs,        \* the compositor's outputs
    MaxRows,        \* the largest number of rows an output has
    Layouts,        \* the layouts of the screen: [height, place]
    Watchers,       \* X clients that may watch the screen
    MayUse          \* the DAMAGE levels they may use

Rows(n) == 1 .. n

\* A screen has a row at least (recompute_bounds clamps its height).
ASSUME LayoutsAssumption ==
    /\ \A l \in Layouts : l.height \in Nat \ {0} /\ l.place \in [Outputs -> Nat]
    /\ MaxRows \in Nat /\ MayUse \subseteq Levels

VARIABLES
    layout,     \* the layout of the screen in force
    stale,      \* per output: rows whose picture is older than the compositor's
    blank,      \* per output: rows a relayout wiped from the framebuffer
    objs,       \* per client: its DAMAGE object
    unread,     \* per client: screen rows that changed since it read them
    told,       \* per client: screen rows it was notified of and has not fetched
    toread,     \* per client: screen rows it has decided to read
    unseen,     \* per client: rows blitted by a frame begun when nobody watched
    repainted,  \* per client: rows changed by a frame that did not damage them
    recent,     \* read_within: a client has read pixels within the gate
    clock,      \* now_ms has been called: its first call returns 0
    ready       \* the frame_ready under way, or NoFrame

fbVars == <<layout, stale, blank, objs, unread, told, toread, unseen, repainted,
            recent, clock, ready>>

NoFrame == [step |-> "none"]

ScreenRows(l) == Rows(l.height)
AllRows == UNION {ScreenRows(l) : l \in Layouts}

\* The rows of the screen that rows of an output land on, clipped to it.
On(l, o, rows) == {l.place[o] + r : r \in rows} \cap ScreenRows(l)

\* The rows of output p that land on the given rows of the screen.
Under(l, p, rows) == {r \in Rows(MaxRows) : l.place[p] + r \in rows}

\* DamageSink::active.
Active == \E w \in Watchers : objs[w] # NoObj

\* capture_enabled.
CaptureEnabled == Active \/ recent

FbInit ==
    /\ layout \in Layouts
    /\ stale = [o \in Outputs |-> {}] /\ blank = [o \in Outputs |-> {}]
    /\ objs = [w \in Watchers |-> NoObj]
    /\ unread = [w \in Watchers |-> {}] /\ told = [w \in Watchers |-> {}]
    /\ toread = [w \in Watchers |-> {}]
    /\ unseen = [w \in Watchers |-> {}] /\ repainted = [w \in Watchers |-> {}]
    /\ recent = FALSE /\ clock = FALSE
    /\ ready = NoFrame

-----------------------------------------------------------------------------
(* X clients. *)

\* DamageCreate.  The client reads the screen as it finds it, then what it is
\* told of.
Create(w, level) ==
    /\ objs[w] = NoObj
    /\ objs' = [objs EXCEPT ![w] = Created(level)]
    /\ toread' = [toread EXCEPT ![w] = AllRows]
    /\ unread' = [unread EXCEPT ![w] = AllRows]
    /\ UNCHANGED <<layout, stale, blank, told, unseen, repainted, recent, clock, ready>>

\* DamageDestroy, or the client's connection dies.
Destroy(w) ==
    /\ objs[w] # NoObj
    /\ objs' = [objs EXCEPT ![w] = NoObj]
    /\ unread' = [unread EXCEPT ![w] = {}] /\ told' = [told EXCEPT ![w] = {}]
    /\ toread' = [toread EXCEPT ![w] = {}]
    /\ unseen' = [unseen EXCEPT ![w] = {}] /\ repainted' = [repainted EXCEPT ![w] = {}]
    /\ UNCHANGED <<layout, stale, blank, recent, clock, ready>>

\* DamageSubtract(damage, None, parts): the notified client fetches the region.
Subtract(w) ==
    /\ objs[w] # NoObj /\ objs[w].level # RAW /\ told[w] # {}
    /\ toread' = [toread EXCEPT ![w] = @ \cup Parts(objs[w])]
    /\ objs' = [objs EXCEPT ![w] = Subtracted(@)]
    /\ told' = [told EXCEPT ![w] = {}]
    /\ UNCHANGED <<layout, stale, blank, unread, unseen, repainted, recent, clock, ready>>

\* A read opens the read gate, except that the first call of now_ms starts the
\* clock and stores 0, which is "never read".
OpensGate == recent' = clock /\ clock' = TRUE

\* GetImage or ShmGetImage of the rows a client has decided to read: a raw
\* client reads what it was notified of, the others what they subtracted.
Read(w) ==
    LET rows == toread[w] \cup IF objs[w].level = RAW THEN told[w] ELSE {} IN
    /\ objs[w] # NoObj /\ rows # {}
    /\ unread' = [unread EXCEPT ![w] = @ \ rows]
    /\ toread' = [toread EXCEPT ![w] = {}]
    /\ told' = [told EXCEPT ![w] = IF objs[w].level = RAW THEN {} ELSE @]
    /\ unseen' = [unseen EXCEPT ![w] = @ \ rows]
    /\ repainted' = [repainted EXCEPT ![w] = @ \ rows]
    /\ OpensGate
    /\ UNCHANGED <<layout, stale, blank, objs, ready>>

\* A client that polls the screen without a DAMAGE object.
Poll == (~recent \/ ~clock) /\ OpensGate
    /\ UNCHANGED <<layout, stale, blank, objs, unread, told, toread, unseen, repainted, ready>>

\* READ_GATE_MS pass without a read.
GateCloses == recent /\ recent' = FALSE
    /\ UNCHANGED <<layout, stale, blank, objs, unread, told, toread, unseen, repainted,
                   clock, ready>>

-----------------------------------------------------------------------------
(* The screen model. *)

\* The rows of output o that the framebuffer still shows under layout l: none if
\* the size changed (ensure clears) or the output moved.
Wiped(o, l) == l.height # layout.height \/ l.place[o] # layout.place[o]

\* sync_screen after a change of the screen model: the framebuffer takes the new
\* size, and the clients that watch are told by RandR and read everything again.
Relayout(l) ==
    /\ l # layout /\ layout' = l
    /\ blank' = [o \in Outputs |-> IF Wiped(o, l) THEN Rows(MaxRows) ELSE blank[o]]
    /\ unread' = [w \in Watchers |-> IF objs[w] = NoObj THEN {} ELSE AllRows]
    /\ toread' = [w \in Watchers |-> IF objs[w] = NoObj THEN {} ELSE AllRows]
    /\ UNCHANGED <<stale, objs, told, unseen, repainted, recent, clock, ready>>

-----------------------------------------------------------------------------
(* A captured frame. *)

\* frame_ready begins: `active` and the output's place are read.  `news` are the
\* rows whose picture in the buffer is not the framebuffer's, `behind` those the
\* compositor has changed since, `damage` the compositor's damage, and `diff`
\* says that the blit is to find the change instead.
Begin(o, rows, news, behind, diff, damage) ==
    /\ ready = NoFrame
    /\ ready' = [step |-> "blit", out |-> o, active |-> Active, at |-> layout,
                 rows |-> rows, news |-> news, behind |-> behind, diff |-> diff, damage |-> damage]

\* The rows of the screen the blit writes, and those whose picture it changes.
Written == On(ready.at, ready.out, ready.rows) \cap ScreenRows(layout)
Changed ==
    IF ready.at.place[ready.out] = layout.place[ready.out]
    THEN On(layout, ready.out, (ready.news \cup blank[ready.out]) \cap ready.rows)
    ELSE Written

\* The part of the change no content explains: a wiped output repainted, or a
\* frame that landed where the output no longer is.
Repaint ==
    IF ready.at.place[ready.out] = layout.place[ready.out]
    THEN On(layout, ready.out, blank[ready.out] \cap ready.rows)
    ELSE Written

\* What frame_ready will report: the hull of what the diff found, or the
\* compositor's damage moved to where the output was; nothing if nobody watched.
Report ==
    IF ~ready.active THEN {}
    ELSE IF ready.diff THEN Hull(Changed)
    ELSE {ready.at.place[ready.out] + r : r \in ready.damage}

\* blit_diff, under the framebuffer's lock.
Blit ==
    LET home == ready.at.place[ready.out] = layout.place[ready.out] IN
    /\ ready.step = "blit"
    /\ stale' = [stale EXCEPT ![ready.out] = IF home THEN ready.behind ELSE @]
    /\ blank' = [o \in Outputs |->
          IF o = ready.out THEN (IF home THEN blank[o] \ ready.rows ELSE blank[o])
          ELSE IF home THEN blank[o] ELSE blank[o] \cup Under(layout, o, Written)]
    /\ unread' = [w \in Watchers |-> IF objs[w] = NoObj THEN {} ELSE unread[w] \cup Changed]
    /\ unseen' = [w \in Watchers |->
          IF objs[w] = NoObj \/ ready.active THEN unseen[w] ELSE unseen[w] \cup Changed]
    /\ repainted' = [w \in Watchers |->
          IF objs[w] = NoObj \/ ~ready.active THEN repainted[w]
          ELSE repainted[w] \cup (Repaint \ Report)]
    /\ ready' = [step |-> "report", out |-> ready.out, rows |-> Report]
    /\ UNCHANGED <<layout, objs, told, toread, recent, clock>>

\* add_damage, under the objects' lock: nothing for an empty list.
AddDamage ==
    LET rows == ready.rows
        screen == ScreenRows(layout)
        hears == {w \in Watchers : objs[w] # NoObj /\ rows # {}} IN
    /\ ready.step = "report"
    /\ objs' = [w \in Watchers |->
          IF w \in hears THEN Accumulated(objs[w], rows) ELSE objs[w]]
    /\ told' = [w \in Watchers |->
          IF w \in hears THEN told[w] \cup Notified(objs[w], rows, screen) ELSE told[w]]
    /\ unseen' = [w \in Watchers |-> IF w \in hears THEN unseen[w] \ rows ELSE unseen[w]]
    /\ repainted' = [w \in Watchers |->
          IF w \in hears THEN repainted[w] \ rows ELSE repainted[w]]
    /\ ready' = NoFrame
    /\ UNCHANGED <<layout, stale, blank, unread, toread, recent, clock>>

=============================================================================

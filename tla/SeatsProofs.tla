----------------------------- MODULE SeatsProofs -----------------------------
(***************************************************************************)
(* What is proved of the seats and of the modifier key, for any seats,     *)
(* managers and -seat choices, globals that come in any order, and any     *)
(* number of keystrokes, keymaps and keyboards plugged.                    *)
(*                                                                         *)
(* KeyInv says, of each point of the two threads' ways through the         *)
(* tracking of a key, what the three records of it have to do with one     *)
(* another.  SeatsInv has four parts: types; that what this side believes  *)
(* a seat can do, and every request and event on its way, is within what   *)
(* the seat has had (CapsInv); that a transient seat is asked for at most  *)
(* once, and the asking and its answer are never on their way together     *)
(* (AskInv), since its manager is told of once; and how the seat and the   *)
(* clipboard's seat go together in each -seat choice (ClipInv).            *)
(*                                                                         *)
(* The operators on this side all build on Req, so what they keep is       *)
(* proved bottom up: Proper, then Follows and Plain.                       *)
(*                                                                         *)
(* RestInv says of each thing that is there once nothing is on its way     *)
(* (WiredUp) that it is there, or which request or event on its way will   *)
(* bring it.  It has four parts, of the clipboard's device, the virtual    *)
(* devices, the passive devices, and the seat itself; Longer and Dropped   *)
(* say what a step does to the queues, and each operator is shown to keep  *)
(* the parts it has nothing to do with and to complete its own.            *)
(***************************************************************************)
EXTENDS Seats, SequenceTheorems, WellFoundedInduction, TLAPS

-----------------------------------------------------------------------------
(* The modifier key.                                                       *)

KeyType ==
  [pressed : BOOLEAN, held : BOOLEAN, xkb : Nat \cup {NoState}, x : {"idle", "key", "modifiers"},
   w : {"idle", "read", "install"}, saw : BOOLEAN, overlap : BOOLEAN]

\* What the xkb state has of a key that is down, or up.
XkbOf(down) == IF down THEN 1 ELSE 0

\* Unless a keymap is loaded while the key goes down or up: the compositor has it
\* as it was last sent, and the xkb state as it was before, until it is told; the
\* state to come has it as it is.
KeyInv ==
  /\ i \in KeyType
  /\ ~i.overlap =>
       /\ i.x # "key" => i.held = i.pressed
       /\ i.w = "install" => i.x = "idle" /\ i.saw = i.pressed
       /\ i.w # "install" /\ i.xkb # NoState =>
            i.xkb = XkbOf(IF i.x = "idle" THEN i.pressed ELSE ~i.pressed)

LEMMA KeyStep == KeyInv /\ [Next]_vars => KeyInv'
<1> SUFFICES ASSUME KeyInv, [Next]_vars PROVE KeyInv'
  OBVIOUS
<1> DEFINE Facts == /\ i.pressed \in BOOLEAN /\ i.held \in BOOLEAN /\ i.saw \in BOOLEAN /\ i.overlap \in BOOLEAN
                    /\ i.xkb \in Nat \cup {NoState} /\ i.x \in {"idle", "key", "modifiers"}
                    /\ i.w \in {"idle", "read", "install"}
<1>1. i \in KeyType /\ Facts
  BY DEF KeyInv, KeyType
<1>2. CASE UNCHANGED i
  BY <1>2 DEF KeyInv
<1>3. CASE i' = KeymapLoads(i) /\ i.w = "idle"
  <2>1. i' = [i EXCEPT !.w = "read"]
    BY <1>3 DEF KeymapLoads
  <2> QED BY <1>1, <1>3, <2>1 DEF KeyInv, KeyType
<1>4. CASE i' = ReadPressed(i) /\ i.w = "read"
  <2>1. i' = [i EXCEPT !.w = "install", !.saw = i.pressed, !.overlap = i.overlap \/ i.x # "idle"]
    BY <1>4 DEF ReadPressed
  <2> QED BY <1>1, <1>4, <2>1 DEF KeyInv, KeyType
<1>5. CASE i' = InstallState(i) /\ i.w = "install"
  <2>1. i' = [i EXCEPT !.w = "idle", !.xkb = XkbOf(i.saw)]
    BY <1>5 DEF InstallState, XkbOf
  <2>2. XkbOf(i.saw) \in Nat
    BY DEF XkbOf
  <2>3. /\ i'.xkb = XkbOf(i.saw) /\ i'.w = "idle" /\ i'.x = i.x /\ i'.overlap = i.overlap
        /\ i'.pressed = i.pressed /\ i'.held = i.held
    BY <1>1, <2>1 DEF KeyType
  <2>4. i' \in KeyType
    BY <1>1, <2>1, <2>2 DEF KeyType
  <2>5. ~i.overlap => i.x = "idle" /\ i.saw = i.pressed /\ i.held = i.pressed
    BY <1>5 DEF KeyInv
  <2>6. ~i.overlap => XkbOf(i.saw) = XkbOf(IF i.x = "idle" THEN i.pressed ELSE ~i.pressed)
    BY <2>5
  <2> QED BY <2>3, <2>4, <2>5, <2>6 DEF KeyInv
<1>6. ASSUME NEW press \in BOOLEAN, i.x = "idle", TrackKey(i, press), i' = FakeKey(i, press) PROVE KeyInv'
  <2>1. i' = [i EXCEPT !.pressed = press, !.x = "key", !.overlap = i.overlap \/ i.w # "idle"]
    BY <1>6 DEF FakeKey
  <2>2. i.pressed = ~press
    BY <1>1, <1>6 DEF TrackKey
  <2> QED BY <1>1, <1>6, <2>1, <2>2 DEF KeyInv, KeyType
<1>7. CASE i' = SendKey(i) /\ i.x = "key"
  <2>1. i' = [i EXCEPT !.held = i.pressed, !.x = "modifiers"]
    BY <1>7 DEF SendKey
  <2> QED BY <1>1, <1>7, <2>1 DEF KeyInv, KeyType
<1>8. CASE i' = UpdateModifiers(i) /\ i.x = "modifiers"
  <2> DEFINE n == IF i.xkb = NoState THEN i.xkb
                  ELSE IF i.pressed THEN i.xkb + 1 ELSE IF i.xkb = 0 THEN 0 ELSE i.xkb - 1
  <2>1. i' = [i EXCEPT !.x = "idle", !.overlap = i.overlap \/ i.w # "idle", !.xkb = n]
    BY <1>8 DEF UpdateModifiers
  <2>2. n \in Nat \cup {NoState}
    BY <1>1 DEF NoState
  <2>3. i.xkb = XkbOf(~i.pressed) => n = XkbOf(i.pressed)
    BY <1>1 DEF XkbOf, NoState
  <2>4. n = NoState <=> i.xkb = NoState
    BY <1>1 DEF NoState
  <2> HIDE DEF n
  <2> QED BY <1>1, <1>8, <2>1, <2>2, <2>3, <2>4 DEF KeyInv, KeyType
<1> QED
  <2>1. \/ UNCHANGED i
        \/ i' = KeymapLoads(i) /\ i.w = "idle"
        \/ i' = ReadPressed(i) /\ i.w = "read"
        \/ i' = InstallState(i) /\ i.w = "install"
        \/ \E press \in BOOLEAN : i.x = "idle" /\ TrackKey(i, press) /\ i' = FakeKey(i, press)
        \/ i' = SendKey(i) /\ i.x = "key"
        \/ i' = UpdateModifiers(i) /\ i.x = "modifiers"
    BY DEF Next, vars, keys, InitialGlobal, Appear, Settle, Dispatch, LoadKeymap, Handle, Plug,
           SendStroke, Stroke
  <2> QED BY <1>2, <1>3, <1>4, <1>5, <1>6, <1>7, <1>8, <2>1

\* Over any number of keystrokes and keymaps, the key is down for the compositor
\* and in the xkb state if and only if the client last pressed it, with no more
\* than the exception of a keymap that is loaded meanwhile (fake_input,
\* set_modifier_keymap, update_modifiers).
THEOREM KeysAlwaysAgree == Spec => []KeysAgree
<1>1. Init => KeyInv
  BY DEF Init, NewInput, KeyInv, KeyType
<1>2. KeyInv => KeysAgree
  BY DEF KeyInv, KeysAgree, XkbOf
<1> QED BY <1>1, <1>2, KeyStep, PTL DEF Spec

-----------------------------------------------------------------------------
(* Queues.                                                                 *)

\* Some element of q is one of P, and no more than one is.
Has(q, P) == \E j \in DOMAIN q : q[j] \in P
Once(q, P) == \A j, l \in DOMAIN q : q[j] \in P /\ q[l] \in P => j = l
All(q, P) == \A j \in DOMAIN q : q[j] \in P

LEMMA ConcatHas ==
  ASSUME NEW S, NEW q \in Seq(S), NEW r \in Seq(S), NEW P
  PROVE  /\ Has(q \o r, P) <=> Has(q, P) \/ Has(r, P)
         /\ Once(q, P) /\ Once(r, P) /\ ~(Has(q, P) /\ Has(r, P)) => Once(q \o r, P)
         /\ All(q, P) /\ All(r, P) => All(q \o r, P)
<1> DEFINE b == q \o r
<1>1. /\ b \in Seq(S) /\ Len(b) = Len(q) + Len(r) /\ Len(q) \in Nat /\ Len(r) \in Nat
      /\ DOMAIN q = 1 .. Len(q) /\ DOMAIN r = 1 .. Len(r) /\ DOMAIN b = 1 .. Len(b)
  BY LenProperties, ConcatProperties
<1>2. /\ \A j \in 1 .. Len(q) : b[j] = q[j]
      /\ \A j \in 1 .. Len(r) : b[Len(q) + j] = r[j]
  BY <1>1, ConcatProperties
<1> HIDE DEF b
<1>3. /\ \A j \in DOMAIN q : j \in DOMAIN b /\ b[j] = q[j]
      /\ \A j \in DOMAIN r : Len(q) + j \in DOMAIN b /\ b[Len(q) + j] = r[j]
  BY <1>1, <1>2
<1>4. \A j \in DOMAIN b : \/ j \in DOMAIN q /\ b[j] = q[j]
                          \/ /\ j - Len(q) \in DOMAIN r /\ b[j] = r[j - Len(q)]
                             /\ Len(q) + (j - Len(q)) = j
  <2> SUFFICES ASSUME NEW j \in DOMAIN b, j \notin DOMAIN q
               PROVE  /\ j - Len(q) \in DOMAIN r /\ b[j] = r[j - Len(q)]
                      /\ Len(q) + (j - Len(q)) = j
    BY <1>3
  <2>1. j - Len(q) \in DOMAIN r /\ Len(q) + (j - Len(q)) = j
    BY <1>1
  <2> QED BY <1>2, <1>1, <2>1
<1>5. Has(b, P) <=> Has(q, P) \/ Has(r, P)
  BY <1>3, <1>4 DEF Has
<1>6. All(q, P) /\ All(r, P) => All(b, P)
  BY <1>4 DEF All
<1>7. ASSUME Once(q, P), Once(r, P), ~(Has(q, P) /\ Has(r, P)) PROVE Once(b, P)
  <2> SUFFICES ASSUME NEW j \in DOMAIN b, NEW l \in DOMAIN b, b[j] \in P, b[l] \in P PROVE j = l
    BY DEF Once
  <2>1. CASE Has(q, P)
    <3>1. j \in DOMAIN q /\ b[j] = q[j] /\ l \in DOMAIN q /\ b[l] = q[l]
      BY <1>4, <1>7, <2>1 DEF Has
    <3> QED BY <1>7, <3>1 DEF Once
  <2>2. CASE ~Has(q, P)
    <3>1. /\ j - Len(q) \in DOMAIN r /\ b[j] = r[j - Len(q)] /\ Len(q) + (j - Len(q)) = j
          /\ l - Len(q) \in DOMAIN r /\ b[l] = r[l - Len(q)] /\ Len(q) + (l - Len(q)) = l
      BY <1>4, <2>2 DEF Has
    <3>2. j - Len(q) = l - Len(q)
      BY <1>7, <3>1 DEF Once
    <3> QED BY <3>1, <3>2
  <2> QED BY <2>1, <2>2
<1> QED BY <1>5, <1>6, <1>7 DEF b

LEMMA TailHas ==
  ASSUME NEW S, NEW q \in Seq(S), q # <<>>, NEW P
  PROVE  /\ Has(Tail(q), P) => Has(q, P)
         /\ Has(q, P) => Head(q) \in P \/ Has(Tail(q), P)
         /\ Head(q) \in P => Has(q, P)
         /\ Once(q, P) => Once(Tail(q), P) /\ (Head(q) \in P => ~Has(Tail(q), P))
         /\ All(q, P) => All(Tail(q), P) /\ Head(q) \in P
<1> DEFINE t == Tail(q)
<1>1. /\ t \in Seq(S) /\ Len(t) = Len(q) - 1 /\ Len(q) \in Nat \ {0}
      /\ \A j \in 1 .. Len(t) : t[j] = q[j + 1]
  BY HeadTailProperties, EmptySeq
<1>2. DOMAIN q = 1 .. Len(q) /\ DOMAIN t = 1 .. Len(t) /\ Head(q) = q[1]
  BY <1>1
<1> HIDE DEF t
<1>3. \A j \in DOMAIN t : j + 1 \in DOMAIN q /\ t[j] = q[j + 1] /\ j \in Nat /\ j + 1 # 1
  BY <1>1, <1>2
<1>4. \A j \in DOMAIN q : j = 1 \/ (j - 1 \in DOMAIN t /\ t[j - 1] = q[j])
  <2> SUFFICES ASSUME NEW j \in DOMAIN q, j # 1 PROVE j - 1 \in DOMAIN t /\ t[j - 1] = q[j]
    OBVIOUS
  <2>1. j - 1 \in DOMAIN t /\ j - 1 + 1 = j
    BY <1>1, <1>2
  <2> QED BY <1>3, <2>1
<1>5. 1 \in DOMAIN q
  BY <1>1, <1>2
<1>6. Has(t, P) => Has(q, P)
  BY <1>3 DEF Has
<1>7. Has(q, P) => Head(q) \in P \/ Has(t, P)
  BY <1>2, <1>4 DEF Has
<1>8. Head(q) \in P => Has(q, P)
  BY <1>2, <1>5 DEF Has
<1>9. ASSUME Once(q, P) PROVE Once(t, P) /\ (Head(q) \in P => ~Has(t, P))
  <2>1. ASSUME NEW j \in DOMAIN t, NEW l \in DOMAIN t, t[j] \in P, t[l] \in P PROVE j = l
    <3>1. j + 1 = l + 1
      BY <1>3, <1>9, <2>1 DEF Once
    <3> QED BY <1>3, <3>1
  <2>2. ASSUME Head(q) \in P, NEW j \in DOMAIN t, t[j] \in P PROVE FALSE
    BY <1>2, <1>3, <1>5, <1>9, <2>2 DEF Once
  <2> QED BY <2>1, <2>2 DEF Once, Has
<1>10. All(q, P) => All(t, P) /\ Head(q) \in P
  BY <1>2, <1>3, <1>5 DEF All
<1> QED BY <1>6, <1>7, <1>8, <1>9, <1>10 DEF t

-----------------------------------------------------------------------------
(* What the operators on this side do.                                     *)

Requests ==
  ({"bind", "virtual", "get_keyboard", "get_pointer"} \X Seats) \cup {<<"transient">>}
    \cup ({"device", "destroy"} \X {"ext", "wlr"} \X Seats) \cup ({"keymap"} \X Keymaps)

Side ==
  [mode : {"first", "named", "transient"}, seat : Seats \cup {None}, clip : Seats \cup {None},
   asked : BOOLEAN, global : Seats \cup {None}, pending : SUBSET Seats,
   caps : [Seats -> SUBSET Caps], keyboard : BOOLEAN, pointer : BOOLEAN,
   managers : SUBSET AllManagers, device : {"none", "wlr", "ext"}, virtual : BOOLEAN,
   keymap : Keymaps \cup {None}, req : Seq(Requests)]

\* A request that has no seat do what it could not, going by caps.
Able(caps) ==
  {r \in Requests : /\ r[1] = "get_keyboard" => "keyboard" \in caps[r[2]]
                    /\ r[1] = "get_pointer" => "pointer" \in caps[r[2]]}

Asks == {<<"transient">>}

\* Its requests so far are able, and ask for no transient seat.
Proper(s) == s \in Side /\ All(s.req, Able(s.caps)) /\ ~Has(s.req, Asks)

\* t is s as far as the choice of seats goes.
SameSeats(s, t) ==
  /\ t.mode = s.mode /\ t.seat = s.seat /\ t.clip = s.clip /\ t.asked = s.asked
  /\ t.global = s.global /\ t.pending = s.pending /\ t.caps = s.caps
  /\ t.managers = s.managers /\ t.keymap = s.keymap

LEMMA ReqProper ==
  ASSUME NEW s, Proper(s), NEW r \in Requests
  PROVE  /\ Req(s, r) \in Side /\ SameSeats(s, Req(s, r)) /\ Req(s, r).virtual = s.virtual
         /\ Req(s, r).device = s.device
         /\ Req(s, r).keyboard = s.keyboard /\ Req(s, r).pointer = s.pointer
         /\ r \in Able(s.caps) /\ r \notin Asks => Proper(Req(s, r))
<1>1. s \in Side /\ s.req \in Seq(Requests)
  BY DEF Proper, Side
<1>2. Append(s.req, r) \in Seq(Requests)
  BY <1>1, AppendProperties
<1>3. Req(s, r) = [s EXCEPT !.req = Append(s.req, r)]
  BY DEF Req
<1>4. /\ Req(s, r) \in Side /\ Req(s, r).req = Append(s.req, r)
      /\ SameSeats(s, Req(s, r)) /\ Req(s, r).virtual = s.virtual /\ Req(s, r).device = s.device
      /\ Req(s, r).keyboard = s.keyboard /\ Req(s, r).pointer = s.pointer
  BY <1>1, <1>2, <1>3 DEF Side, SameSeats
<1>5. ASSUME r \in Able(s.caps), r \notin Asks PROVE Proper(Req(s, r))
  <2>1. Append(s.req, r) = s.req \o <<r>> /\ <<r>> \in Seq(Requests)
    BY <1>1, AppendIsConcat
  <2>2. All(<<r>>, Able(s.caps)) /\ ~Has(<<r>>, Asks)
    BY <1>5 DEF All, Has
  <2>3. All(s.req, Able(s.caps)) /\ ~Has(s.req, Asks)
    BY DEF Proper
  <2>4. All(s.req \o <<r>>, Able(s.caps)) /\ ~Has(s.req \o <<r>>, Asks)
    BY <1>1, <2>1, <2>2, <2>3, ConcatHas
  <2>5. Req(s, r).caps = s.caps
    BY <1>4 DEF SameSeats
  <2> QED BY <1>4, <2>1, <2>4, <2>5 DEF Proper
<1> QED BY <1>4, <1>5

LEMMA SameSeatsTwice ==
  \A s, t, u : SameSeats(s, t) /\ SameSeats(t, u) => SameSeats(s, u)
BY DEF SameSeats

LEMMA InitDeviceProper ==
  ASSUME NEW s, Proper(s)
  PROVE  Proper(InitDevice(s)) /\ SameSeats(s, InitDevice(s))
<1>1. s \in Side /\ SameSeats(s, s)
  BY DEF Proper, SameSeats
<1>2. CASE s.device = "ext" \/ s.clip = None
  BY <1>1, <1>2 DEF InitDevice
<1>3. ASSUME NEW d \in {"ext", "wlr"} PROVE LET t == [s EXCEPT !.device = d] IN Proper(t) /\ SameSeats(s, t)
  <2>1. [s EXCEPT !.device = d] \in Side
    BY <1>1, <1>3 DEF Side
  <2> QED BY <1>1, <2>1 DEF Proper, SameSeats, Side
<1>4. CASE s.device # "ext" /\ s.clip # None
  <2>1. s.clip \in Seats
    BY <1>1, <1>4 DEF Side
  <2>2. \A d \in {"ext", "wlr"} : /\ <<"device", d, s.clip>> \in Requests /\ <<"destroy", d, s.clip>> \in Requests
                                  /\ <<"device", d, s.clip>> \notin Asks /\ <<"destroy", d, s.clip>> \notin Asks
                                  /\ <<"device", d, s.clip>> \in Able(s.caps)
                                  /\ <<"destroy", d, s.clip>> \in Able(s.caps)
    BY <2>1 DEF Requests, Able, Asks
  <2>3. \A d \in {"ext", "wlr"} :
           LET t == Req([s EXCEPT !.device = d], <<"device", d, s.clip>>)
           IN  Proper(t) /\ SameSeats(s, t)
    <3> SUFFICES ASSUME NEW d \in {"ext", "wlr"}
                 PROVE  LET t == Req([s EXCEPT !.device = d], <<"device", d, s.clip>>)
                        IN  Proper(t) /\ SameSeats(s, t)
      OBVIOUS
    <3> DEFINE t == [s EXCEPT !.device = d]
    <3>1. Proper(t) /\ SameSeats(s, t) /\ t.caps = s.caps
      BY <1>3 DEF SameSeats
    <3> HIDE DEF t
    <3>2. Proper(Req(t, <<"device", d, s.clip>>)) /\ SameSeats(t, Req(t, <<"device", d, s.clip>>))
      BY <2>2, <3>1, ReqProper
    <3> QED BY <3>1, <3>2, SameSeatsTwice DEF t
  <2> DEFINE t == Req([s EXCEPT !.device = "ext"], <<"device", "ext", s.clip>>)
             u == Req([s EXCEPT !.device = "wlr"], <<"device", "wlr", s.clip>>)
  <2>4. Proper(t) /\ SameSeats(s, t) /\ t.caps = s.caps /\ Proper(u) /\ SameSeats(s, u)
    BY <2>3 DEF SameSeats
  <2>5. InitDevice(s) \in {s, t, u, Req(t, <<"destroy", "wlr", s.clip>>)}
    BY <1>4 DEF InitDevice
  <2> HIDE DEF t, u
  <2>6. LET v == Req(t, <<"destroy", "wlr", s.clip>>) IN Proper(v) /\ SameSeats(s, v)
    BY <2>2, <2>4, ReqProper, SameSeatsTwice
  <2> QED BY <1>1, <2>4, <2>5, <2>6
<1> QED BY <1>2, <1>4

LEMMA SetKeymapProper ==
  ASSUME NEW s, Proper(s)
  PROVE  Proper(SetKeymap(s)) /\ SameSeats(s, SetKeymap(s))
<1>1. s \in Side /\ SameSeats(s, s) /\ s.keymap \in Keymaps \cup {None}
  BY DEF Proper, SameSeats, Side
<1>2. s.keymap # None => LET r == <<"keymap", s.keymap>> IN r \in Requests /\ r \in Able(s.caps) /\ r \notin Asks
  BY <1>1 DEF Requests, Able, Asks
<1> QED BY <1>1, <1>2, ReqProper DEF SetKeymap

LEMMA InitVirtualInputProper ==
  ASSUME NEW s, Proper(s)
  PROVE  Proper(InitVirtualInput(s)) /\ SameSeats(s, InitVirtualInput(s))
<1>1. s \in Side /\ SameSeats(s, s) /\ s.seat \in Seats \cup {None}
  BY DEF Proper, SameSeats, Side
<1> DEFINE t == [s EXCEPT !.virtual = TRUE]
           u == Req(t, <<"virtual", s.seat>>)
<1>2. Proper(t) /\ SameSeats(s, t) /\ t.caps = s.caps
  <2>1. t \in Side
    BY <1>1 DEF Side
  <2> QED BY <1>1, <2>1 DEF Proper, SameSeats, Side
<1>3. s.seat # None => LET r == <<"virtual", s.seat>> IN r \in Requests /\ r \in Able(s.caps) /\ r \notin Asks
  BY <1>1 DEF Requests, Able, Asks
<1> HIDE DEF t
<1>4. s.seat # None => Proper(u) /\ SameSeats(s, u)
  BY <1>2, <1>3, ReqProper, SameSeatsTwice
<1>5. InitVirtualInput(s) = s \/ (s.seat # None /\ InitVirtualInput(s) = SetKeymap(u))
  BY DEF InitVirtualInput, t
<1> HIDE DEF u
<1> QED BY <1>1, <1>4, <1>5, SetKeymapProper, SameSeatsTwice

LEMMA SyncSeatDevicesProper ==
  ASSUME NEW s, Proper(s), s.seat \in Seats
  PROVE  Proper(SyncSeatDevices(s)) /\ SameSeats(s, SyncSeatDevices(s))
<1>1. s \in Side /\ SameSeats(s, s)
  BY DEF Proper, SameSeats
<1> DEFINE a == [s EXCEPT !.keyboard = TRUE]
           t == IF "keyboard" \in s.caps[s.seat] /\ ~s.keyboard
                THEN Req(a, <<"get_keyboard", s.seat>>) ELSE s
           b == [t EXCEPT !.pointer = TRUE]
<1>2. Proper(a) /\ SameSeats(s, a) /\ a.caps = s.caps
  <2>1. a \in Side
    BY <1>1 DEF Side
  <2> QED BY <1>1, <2>1 DEF Proper, SameSeats, Side
<1>3. /\ "keyboard" \in s.caps[s.seat] => <<"get_keyboard", s.seat>> \in Able(s.caps)
      /\ "pointer" \in s.caps[s.seat] => <<"get_pointer", s.seat>> \in Able(s.caps)
      /\ <<"get_keyboard", s.seat>> \in Requests \ Asks /\ <<"get_pointer", s.seat>> \in Requests \ Asks
  BY DEF Requests, Able, Asks
<1> HIDE DEF a
<1>4. Proper(t) /\ SameSeats(s, t)
  BY <1>1, <1>2, <1>3, ReqProper, SameSeatsTwice
<1> HIDE DEF t
<1>5. Proper(b) /\ SameSeats(s, b) /\ b.caps = s.caps /\ t.seat = s.seat /\ t.caps = s.caps
  <2>1. t \in Side
    BY <1>4 DEF Proper
  <2>2. b \in Side /\ SameSeats(t, b) /\ b.req = t.req
    BY <2>1 DEF Side, SameSeats
  <2>3. SameSeats(s, b)
    BY <1>4, <2>2, SameSeatsTwice
  <2>4. Proper(b)
    BY <1>4, <2>2 DEF Proper, SameSeats
  <2> QED BY <1>4, <2>3, <2>4 DEF SameSeats
<1> HIDE DEF b
<1>6. "pointer" \in s.caps[s.seat] =>
         Proper(Req(b, <<"get_pointer", s.seat>>)) /\ SameSeats(s, Req(b, <<"get_pointer", s.seat>>))
  BY <1>3, <1>5, ReqProper, SameSeatsTwice
<1>7. \/ SyncSeatDevices(s) = t
      \/ "pointer" \in s.caps[s.seat] /\ SyncSeatDevices(s) = Req(b, <<"get_pointer", s.seat>>)
  BY <1>5 DEF SyncSeatDevices, t, a, b
<1> QED BY <1>4, <1>6, <1>7

\* Selecting seat n: the first one selected is the clipboard's as well.
LEMMA SelectSeatProper ==
  ASSUME NEW s, Proper(s), NEW n \in Seats
  PROVE  LET t == SelectSeat(s, n) IN
         /\ Proper(t) /\ t.seat = n /\ t.clip = (IF s.clip = None THEN n ELSE s.clip)
         /\ t.pending = {} /\ t.mode = s.mode /\ t.asked = s.asked /\ t.global = s.global
         /\ t.caps = s.caps /\ t.managers = s.managers /\ t.keymap = s.keymap
<1> DEFINE p == IF s.clip = None THEN n ELSE s.clip
           t == [s EXCEPT !.clip = p, !.seat = n, !.pending = {}]
<1>1. s \in Side
  BY DEF Proper
<1>2. p \in Seats \cup {None}
  BY <1>1 DEF Side
<1>3. t \in Side /\ t.seat = n /\ t.clip = p /\ t.pending = {} /\ t.mode = s.mode /\ t.asked = s.asked
      /\ t.global = s.global /\ t.caps = s.caps /\ t.managers = s.managers /\ t.keymap = s.keymap
      /\ t.req = s.req
  <2> HIDE DEF p
  <2> QED BY <1>1, <1>2 DEF Side
<1>4. SelectSeat(s, n) = SyncSeatDevices(InitVirtualInput(InitDevice(t)))
  BY DEF SelectSeat
<1> HIDE DEF t, p
<1>5. Proper(t)
  BY <1>3 DEF Proper
<1>6. Proper(InitDevice(t)) /\ SameSeats(t, InitDevice(t))
  BY <1>5, InitDeviceProper
<1>7. LET u == InitVirtualInput(InitDevice(t)) IN Proper(u) /\ SameSeats(t, u) /\ u.seat \in Seats
  BY <1>3, <1>6, InitVirtualInputProper, SameSeatsTwice DEF SameSeats
<1>8. Proper(SelectSeat(s, n)) /\ SameSeats(t, SelectSeat(s, n))
  BY <1>4, <1>7, SyncSeatDevicesProper, SameSeatsTwice
<1> QED BY <1>3, <1>8 DEF SameSeats, p

LEMMA NatOrder ==
  \E R : IsWellFoundedOn(R, Nat) /\ \A x, y \in Nat : <<y, x>> \in R <=> y < x
<1>1. IsWellFoundedOn({p \in Nat \X Nat : p[1] < p[2]}, Nat)
  BY NatLessThanWellFounded DEF OpToRel
<1>2. \A x, y \in Nat : <<y, x>> \in {p \in Nat \X Nat : p[1] < p[2]} <=> y < x
  OBVIOUS
<1> QED BY <1>1, <1>2, Zenon

\* The lowest of some seats is one of them.
LEMMA LowestIsIn ==
  ASSUME NEW S \in SUBSET Seats, S # {}
  PROVE  Lowest(S) \in S
<1>1. S \subseteq Nat
  BY SeatsAssumption DEF Seats
<1>2. PICK R : IsWellFoundedOn(R, Nat) /\ \A x, y \in Nat : <<y, x>> \in R <=> y < x
  BY NatOrder
<1>3. PICK n \in S : \A m \in S : ~(<<m, n>> \in R)
  BY <1>1, <1>2, WFMin
<1>4. ASSUME NEW m \in S PROVE n <= m
  <2>1. n \in Nat /\ m \in Nat
    BY <1>1
  <2>2. ~(m < n)
    BY <1>2, <1>3, <2>1, Zenon
  <2> QED BY <2>1, <2>2
<1>5. \E l \in S : \A m \in S : l <= m
  BY <1>4
<1> QED BY <1>5 DEF Lowest

-----------------------------------------------------------------------------
(* How the seat and the clipboard's are chosen.                            *)

\* They are one until ours is ready, and with a transient seat asked for none is
\* chosen till then; after that the clipboard has a real one or, with the seat,
\* ours.
Choice(s) ==
  /\ s.global \in {None, Ours}
  /\ s.global # None => s.asked
  /\ s.asked => s.mode = "transient"
  /\ s.global = None => s.clip = s.seat /\ (s.mode = "transient" => s.seat = None)
  /\ s.global = Ours => s.seat \in {None, Ours} /\ s.clip \in Real \cup {None, s.seat}

\* What the operators on this side do: once there is a clipboard seat it stays.
Follows(s, t) ==
  Proper(t) /\ Choice(t) /\ t.caps = s.caps /\ (s.clip # None => t.clip = s.clip)

\* And most say nothing of a transient seat.
Plain(s, t) == Follows(s, t) /\ t.asked = s.asked /\ t.global = s.global

LEMMA SeatsAreNone ==
  None \notin Seats /\ Ours \in Seats /\ Ours \notin Real /\ Real \subseteq Seats
BY SeatsAssumption DEF None, Seats

LEMMA SameFollows ==
  ASSUME NEW s, NEW t, Proper(t), Choice(s), SameSeats(s, t)
  PROVE  Plain(s, t)
BY DEF SameSeats, Choice, Plain, Follows

\* Ours once it is ready, if its global is known.
LEMMA AdoptFollows ==
  ASSUME NEW s, Proper(s), Choice(s)
  PROVE  Plain(s, Adopt(s))
<1>1. s \in Side /\ s.pending \in SUBSET Seats
  BY DEF Proper, Side
<1>2. CASE s.global \in s.pending
  <2>1. s.global = Ours /\ Ours \in Seats /\ Ours # None
    BY <1>1, <1>2, SeatsAreNone DEF Choice
  <2> DEFINE t == SelectSeat(s, Ours)
  <2>2. /\ Proper(t) /\ t.seat = Ours /\ t.clip = (IF s.clip = None THEN Ours ELSE s.clip)
        /\ t.mode = s.mode /\ t.asked = s.asked /\ t.global = s.global /\ t.caps = s.caps
    BY <2>1, SelectSeatProper
  <2>3. Adopt(s) = t
    BY <1>2, <2>1 DEF Adopt
  <2> HIDE DEF t
  <2>4. s.clip \in Real \cup {None, s.seat} /\ s.seat \in {None, Ours}
    BY <2>1 DEF Choice
  <2>5. t.clip \in Real \cup {None, t.seat}
    BY <2>2, <2>4
  <2>6. Choice(t)
    BY <2>1, <2>2, <2>5 DEF Choice
  <2> QED BY <2>2, <2>3, <2>6 DEF Plain, Follows
<1>3. CASE s.global \notin s.pending
  BY <1>3 DEF Adopt, Plain, Follows
<1> QED BY <1>2, <1>3

\* A seat that is selected while there is none, and not because ours is ready.
LEMMA SelectFollows ==
  ASSUME NEW s, Proper(s), Choice(s), NEW n \in Seats, s.mode # "transient", s.seat = None
  PROVE  Plain(s, SelectSeat(s, n))
<1> DEFINE t == SelectSeat(s, n)
<1>1. /\ Proper(t) /\ t.seat = n /\ t.clip = (IF s.clip = None THEN n ELSE s.clip)
      /\ t.mode = s.mode /\ t.asked = s.asked /\ t.global = s.global /\ t.caps = s.caps
  BY SelectSeatProper
<1> HIDE DEF t
<1>2. s.global = None /\ ~s.asked /\ s.clip = None /\ None # Ours
  BY SeatsAreNone DEF Choice
<1>3. Choice(t)
  BY <1>1, <1>2 DEF Choice
<1> QED BY <1>1, <1>2, <1>3 DEF Plain, Follows, t

LEMMA SeatAnnouncedFollows ==
  ASSUME NEW s, Proper(s), Choice(s), NEW n \in Seats
  PROVE  Plain(s, SeatAnnounced(s, n))
<1> DEFINE r == <<"bind", n>>
           t == Req(s, r)
           p == [t EXCEPT !.pending = t.pending \cup {n}]
<1>1. r \in Requests /\ r \in Able(s.caps) /\ r \notin Asks
  BY DEF Requests, Able, Asks
<1>2. Proper(t) /\ SameSeats(s, t) /\ t \in Side
  BY <1>1, ReqProper
<1>3. Plain(s, t) /\ t.seat = s.seat /\ t.mode = s.mode /\ t.clip = s.clip /\ t.global = s.global
  BY <1>2, SameFollows DEF SameSeats
<1>4. SeatAnnounced(s, n) =
        CASE s.mode = "first" -> IF s.seat = None THEN SelectSeat(t, n) ELSE t
          [] s.mode = "named" -> p
          [] s.mode = "transient" -> IF s.global = n THEN Adopt(p) ELSE p
  BY DEF SeatAnnounced
<1> HIDE DEF t
<1>5. Plain(s, p) /\ Proper(p) /\ Choice(p) /\ p.clip = s.clip /\ p.asked = s.asked /\ p.global = s.global
  <2>1. /\ p \in Side /\ p.req = t.req /\ p.caps = t.caps /\ p.seat = t.seat /\ p.mode = t.mode
        /\ p.clip = t.clip /\ p.global = t.global /\ p.asked = t.asked
    BY <1>2 DEF Side
  <2>2. Proper(p)
    BY <1>2, <2>1 DEF Proper
  <2>3. Choice(p)
    BY <1>3, <2>1 DEF Plain, Follows, Choice
  <2> QED BY <1>3, <2>1, <2>2, <2>3 DEF Plain, Follows
<1> HIDE DEF p
<1>6. CASE s.mode = "first"
  <2>1. s.seat = None => Plain(t, SelectSeat(t, n))
    BY <1>2, <1>3, <1>6, SelectFollows DEF Plain, Follows
  <2> QED BY <1>3, <1>4, <1>6, <2>1 DEF Plain, Follows
<1>7. CASE s.mode = "named"
  BY <1>4, <1>5, <1>7
<1>8. CASE s.mode = "transient"
  <2>1. Plain(p, Adopt(p))
    BY <1>5, AdoptFollows
  <2> QED BY <1>4, <1>5, <1>8, <2>1 DEF Plain, Follows
<1>9. s.mode \in {"first", "named", "transient"}
  BY DEF Proper, Side
<1> QED BY <1>6, <1>7, <1>8, <1>9

\* No transient seat: as if -seat was not given.
LEMMA FallbackFollows ==
  ASSUME NEW s, Proper(s), Choice(s), s.global = None
  PROVE  Follows(s, Fallback(s)) /\ Fallback(s).global = None /\ Fallback(s).asked = FALSE
<1> DEFINE t == [s EXCEPT !.mode = "first", !.asked = FALSE, !.global = None]
<1>1. s \in Side /\ s.pending \in SUBSET Seats
  BY DEF Proper, Side
<1>2. /\ t \in Side /\ t.req = s.req /\ t.caps = s.caps /\ t.seat = s.seat /\ t.clip = s.clip
      /\ t.mode = "first" /\ t.asked = FALSE /\ t.global = None
  BY <1>1 DEF Side
<1>3. Fallback(s) = IF s.seat = None /\ s.pending # {} THEN SelectSeat(t, Lowest(s.pending)) ELSE t
  BY DEF Fallback
<1> HIDE DEF t
<1>4. Proper(t) /\ Choice(t)
  BY <1>2, SeatsAreNone DEF Proper, Choice
<1>5. s.seat = None /\ s.pending # {} => Plain(t, SelectSeat(t, Lowest(s.pending)))
  <2>1. s.pending # {} => Lowest(s.pending) \in Seats
    BY <1>1, LowestIsIn
  <2> QED BY <1>2, <1>4, <2>1, SelectFollows
<1> QED BY <1>2, <1>3, <1>4, <1>5 DEF Plain, Follows

\* Ours is ready: the clipboard has one of the real seats there are.
LEMMA ReadyFollows ==
  ASSUME NEW s, Proper(s), Choice(s), s.asked, s.global = None
  PROVE  LET t == Ready(s, Ours) IN
         /\ Follows(s, t) /\ t.asked /\ t.global = Ours
         /\ s.pending \cap Real # {} => t.clip \in s.pending \cap Real
<1> DEFINE real == s.pending \ {Ours}
           p == IF real # {} THEN Lowest(real) ELSE None
           t == [s EXCEPT !.global = Ours, !.clip = p]
<1>1. s \in Side /\ s.pending \in SUBSET Seats /\ s.mode = "transient" /\ s.seat = None /\ s.clip = None
  BY DEF Proper, Side, Choice
<1>2. real = s.pending \cap Real /\ real \in SUBSET Seats
  BY <1>1, SeatsAreNone DEF Seats
<1>3. p \in Real \cup {None} /\ (real # {} => p \in real)
  BY <1>2, LowestIsIn
<1>4. Ready(s, Ours) = Adopt(t)
  <2> DEFINE g == [s EXCEPT !.global = Ours]
  <2>1. Ready(s, Ours) = Adopt(IF s.clip = None /\ real # {} THEN [g EXCEPT !.clip = Lowest(real)] ELSE g)
    BY DEF Ready
  <2>2. t = IF s.clip = None /\ real # {} THEN [g EXCEPT !.clip = Lowest(real)] ELSE g
    BY <1>1 DEF Side
  <2> QED BY <2>1, <2>2
<1> HIDE DEF p
<1>5. /\ t \in Side /\ t.req = s.req /\ t.caps = s.caps /\ t.seat = None /\ t.clip = p
      /\ t.mode = "transient" /\ t.asked = s.asked /\ t.global = Ours
  <2>1. p \in Seats \cup {None}
    BY <1>3, SeatsAreNone
  <2> QED BY <1>1, <2>1, SeatsAreNone DEF Side
<1> HIDE DEF t, real
<1>6. Proper(t) /\ Choice(t)
  BY <1>3, <1>5, SeatsAreNone DEF Proper, Choice
<1>7. Plain(t, Adopt(t))
  BY <1>6, AdoptFollows
<1>8. real # {} => p # None
  BY <1>2, <1>3, SeatsAreNone
<1> QED BY <1>1, <1>2, <1>3, <1>4, <1>5, <1>7, <1>8 DEF Plain, Follows

\* The transient seats' manager, which asks for one; the others.
LEMMA AskFollows ==
  ASSUME NEW s, Proper(s), Choice(s), s.mode = "transient"
  PROVE  LET t == [s EXCEPT !.managers = @ \cup {"transient"}, !.asked = TRUE] IN
         /\ ManagerBound(s, "transient") = Req(t, <<"transient">>)
         /\ Follows(s, t) /\ t.asked /\ t.global = s.global
<1> DEFINE t == [s EXCEPT !.managers = @ \cup {"transient"}, !.asked = TRUE]
<1>1. s \in Side
  BY DEF Proper
<1>2. /\ t \in Side /\ t.req = s.req /\ t.caps = s.caps /\ t.seat = s.seat /\ t.clip = s.clip
      /\ t.mode = s.mode /\ t.asked /\ t.global = s.global
  BY <1>1 DEF Side, AllManagers
<1>3. ManagerBound(s, "transient") = Req(t, <<"transient">>)
  BY <1>1 DEF ManagerBound, Side
<1> HIDE DEF t
<1>4. Proper(t) /\ Choice(t)
  BY <1>2 DEF Proper, Choice
<1> QED BY <1>2, <1>3, <1>4 DEF Follows, t

LEMMA ManagerFollows ==
  ASSUME NEW s, Proper(s), Choice(s), NEW m \in AllManagers, m = "transient" => s.mode # "transient"
  PROVE  Plain(s, ManagerBound(s, m))
<1> DEFINE t == [s EXCEPT !.managers = s.managers \cup {m}]
<1>1. s \in Side
  BY DEF Proper
<1>2. /\ t \in Side /\ t.req = s.req /\ t.caps = s.caps /\ t.seat = s.seat /\ t.clip = s.clip
      /\ t.mode = s.mode /\ t.asked = s.asked /\ t.global = s.global
  BY <1>1 DEF Side
<1>3. ManagerBound(s, m) \in {s, InitDevice(t), InitVirtualInput(t)}
  BY DEF ManagerBound, AllManagers
<1> HIDE DEF t
<1>4. Proper(t) /\ Choice(t)
  BY <1>2 DEF Proper, Choice
<1>5. Plain(t, InitDevice(t)) /\ Plain(t, InitVirtualInput(t))
  BY <1>4, InitDeviceProper, InitVirtualInputProper, SameFollows
<1>6. Plain(s, s)
  BY DEF Plain, Follows
<1> QED BY <1>2, <1>3, <1>5, <1>6 DEF Plain, Follows

LEMMA CapabilitiesFollows ==
  ASSUME NEW s, Proper(s), s.req = <<>>, Choice(s), NEW n \in Seats, NEW caps \in SUBSET Caps
  PROVE  LET t == Capabilities(s, n, caps) IN
         /\ Proper(t) /\ Choice(t) /\ t.clip = s.clip /\ t.asked = s.asked /\ t.global = s.global
         /\ t.caps = [s.caps EXCEPT ![n] = caps]
<1> DEFINE t == [s EXCEPT !.caps[n] = caps]
           a == [s.caps EXCEPT ![n] = caps]
<1>1. s \in Side /\ s.caps \in [Seats -> SUBSET Caps]
  BY DEF Proper, Side
<1>2. a \in [Seats -> SUBSET Caps]
  BY <1>1
<1>3. t = [s EXCEPT !.caps = a]
  BY <1>1 DEF Side
<1> HIDE DEF a
<1>4. /\ t \in Side /\ t.req = s.req /\ t.caps = a /\ t.seat = s.seat /\ t.clip = s.clip
      /\ t.mode = s.mode /\ t.asked = s.asked /\ t.global = s.global
  BY <1>1, <1>2, <1>3 DEF Side
<1> HIDE DEF t
<1>5. Proper(t) /\ Choice(t)
  <2>1. All(t.req, Able(t.caps)) /\ ~Has(t.req, Asks)
    BY <1>4 DEF All, Has
  <2> QED BY <1>4, <2>1 DEF Proper, Choice
<1>6. t.seat \in Seats => Plain(t, SyncSeatDevices(t)) /\ SyncSeatDevices(t).clip = t.clip
  BY <1>4, <1>5, SyncSeatDevicesProper, SameFollows DEF SameSeats
<1>7. Capabilities(s, n, caps) = IF s.seat = n THEN SyncSeatDevices(t) ELSE t
  BY DEF Capabilities, t
<1> QED BY <1>4, <1>5, <1>6, <1>7 DEF Plain, Follows, a

LEMMA SeatNamedFollows ==
  ASSUME NEW s, Proper(s), Choice(s), NEW n \in Seats
  PROVE  Plain(s, SeatNamed(s, n))
BY SelectFollows DEF SeatNamed, Plain, Follows

LEMMA KeymapFollows ==
  ASSUME NEW s, Proper(s), Choice(s), NEW m \in Keymaps
  PROVE  Plain(s, Keymap(s, m))
<1> DEFINE t == [s EXCEPT !.keymap = m]
<1>1. s \in Side
  BY DEF Proper
<1>2. /\ t \in Side /\ t.req = s.req /\ t.caps = s.caps /\ t.seat = s.seat /\ t.clip = s.clip
      /\ t.mode = s.mode /\ t.asked = s.asked /\ t.global = s.global
  BY <1>1 DEF Side
<1>3. Keymap(s, m) \in {s, SetKeymap(t)}
  BY DEF Keymap
<1> HIDE DEF t
<1>4. Proper(t) /\ Choice(t)
  BY <1>2 DEF Proper, Choice
<1>5. Plain(t, SetKeymap(t))
  BY <1>4, SetKeymapProper, SameFollows
<1> QED BY <1>2, <1>3, <1>5 DEF Plain, Follows

-----------------------------------------------------------------------------
(* The state.                                                              *)

Transient == <<"manager", "transient">>

Events ==
  ({"global"} \X (Globals \cup {<<"seat", Ours>>})) \cup ({"capabilities"} \X Seats \X SUBSET Caps)
    \cup ({"name"} \X Seats) \cup {<<"ready", Ours>>, <<"denied">>} \cup ({"keymap"} \X Keymaps)

\* The answers to the asking, and the manager that brings it about.
Answers == {<<"ready", Ours>>, <<"denied">>}
Coming == {<<"global", Transient>>}

\* An event that tells of no capability a seat never had.
Told(had) == {e \in Events : e[1] = "capabilities" => e[3] \subseteq had[e[2]]}

Within(caps, had) == \A n \in Seats : caps[n] \subseteq had[n]

CompositorType ==
  [named : SUBSET Real, had : [Seats -> SUBSET Caps], devices : SUBSET ({"ext", "wlr"} \X Seats),
   kbd : Seats \cup {None}, ptr : Seats \cup {None}, virtual : Seats \cup {None},
   vmap : Keymaps \cup {None}, other : Keymaps \cup {None}, error : BOOLEAN]

StateType ==
  /\ unknown \in SUBSET Globals /\ late \in SUBSET Globals /\ known \in SUBSET Real
  /\ c \in Side /\ c.req = <<>>
  /\ k \in CompositorType
  /\ out \in Seq(Requests) /\ wire \in Seq(Events)

\* What this side believes, and what is on its way either way, is within what the
\* seats have had.
CapsInv ==
  /\ ~k.error
  /\ Within(c.caps, k.had)
  /\ All(out, Able(k.had)) /\ All(wire, Told(k.had))

\* A transient seat is asked for once at most, and the asking and its answer are
\* not on their way together; while either is this side waits.
AskInv ==
  /\ Once(out, Asks) /\ Once(wire, Answers)
  /\ Has(out, Asks) => c.asked /\ c.global = None /\ ~Has(wire, Answers)
  /\ Has(wire, Answers) => c.asked /\ c.global = None
  /\ Transient \notin unknown \cap late /\ Once(wire, Coming)
  /\ Has(wire, Coming) => Transient \notin unknown \cup late
  /\ c.asked => Transient \notin unknown \cup late /\ ~Has(wire, Coming)

ClipInv ==
  /\ Choice(c)
  /\ known # {} => c.clip \in known

SeatsInv == StateType /\ CapsInv /\ AskInv /\ ClipInv

LEMMA AllMore ==
  \A q, P, Q : All(q, P) /\ P \subseteq Q => All(q, Q)
BY DEF All

LEMMA WithinMore ==
  \A caps, had : Within(caps, had) => Able(caps) \subseteq Able(had) /\ Told(caps) \subseteq Told(had)
<1> SUFFICES ASSUME NEW caps, NEW had, Within(caps, had)
             PROVE  Able(caps) \subseteq Able(had) /\ Told(caps) \subseteq Told(had)
  OBVIOUS
<1>1. ASSUME NEW r \in Able(caps) PROVE r \in Able(had)
  <2>1. r[1] \in {"get_keyboard", "get_pointer"} => r[2] \in Seats
    BY DEF Able, Requests
  <2> QED BY <2>1 DEF Able, Within
<1>2. ASSUME NEW e \in Told(caps) PROVE e \in Told(had)
  <2>1. e[1] = "capabilities" => e[2] \in Seats
    BY DEF Told, Events
  <2> QED BY <2>1 DEF Told, Within
<1> QED BY <1>1, <1>2

\* Taking a step of this side.
LEMMA Taken ==
  ASSUME StateType, NEW t, Proper(t), Take(t)
  PROVE  /\ c' \in Side /\ c'.req = <<>> /\ c'.caps = t.caps /\ c'.clip = t.clip
         /\ c'.asked = t.asked /\ c'.global = t.global
         /\ Choice(t) => Choice(c)'
         /\ out' \in Seq(Requests)
         /\ Has(out', Asks) <=> Has(out, Asks)
         /\ Once(out, Asks) => Once(out', Asks)
         /\ \A had : All(out, Able(had)) /\ Within(t.caps, had) => All(out', Able(had))
<1>1. t \in Side /\ t.req \in Seq(Requests) /\ out \in Seq(Requests) /\ out' = out \o t.req
  BY DEF Proper, Side, StateType, Take
<1>2. <<>> \in Seq(Requests)
  BY EmptySeq
<1>3. c' = [t EXCEPT !.req = <<>>]
  BY DEF Take
<1>4. /\ c' \in Side /\ c'.req = <<>> /\ c'.caps = t.caps /\ c'.clip = t.clip /\ c'.mode = t.mode
      /\ c'.asked = t.asked /\ c'.global = t.global /\ c'.seat = t.seat
  BY <1>1, <1>2, <1>3 DEF Side
<1>5. Choice(t) => Choice(c)'
  BY <1>4 DEF Choice
<1>6. out' \in Seq(Requests)
  BY <1>1, ConcatProperties
<1>7. /\ Has(out', Asks) <=> Has(out, Asks)
      /\ Once(out, Asks) => Once(out', Asks)
  <2>1. ~Has(t.req, Asks) /\ Once(t.req, Asks)
    BY DEF Proper, Has, Once
  <2> QED BY <1>1, <2>1, ConcatHas
<1>8. ASSUME NEW had, All(out, Able(had)), Within(t.caps, had) PROVE All(out', Able(had))
  <2>1. All(t.req, Able(had))
    BY <1>8, WithinMore, AllMore DEF Proper
  <2> QED BY <1>1, <1>8, <2>1, ConcatHas
<1> QED BY <1>4, <1>5, <1>6, <1>7, <1>8

LEMMA AskTaken ==
  ASSUME StateType, NEW t, Proper(t), t.req = <<>>, Take(Req(t, <<"transient">>))
  PROVE  /\ c' \in Side /\ c'.req = <<>> /\ c'.caps = t.caps /\ c'.clip = t.clip
         /\ c'.asked = t.asked /\ c'.global = t.global
         /\ Choice(t) => Choice(c)'
         /\ out' \in Seq(Requests)
         /\ ~Has(out, Asks) => Once(out', Asks)
         /\ \A had : All(out, Able(had)) => All(out', Able(had))
<1> DEFINE r == <<"transient">>
           u == Req(t, r)
<1>1. r \in Requests
  BY DEF Requests
<1>2. u = [t EXCEPT !.req = <<r>>]
  <2>1. Append(t.req, r) = <<r>>
    OBVIOUS
  <2> QED BY <2>1 DEF Req
<1>3. t \in Side /\ <<r>> \in Seq(Requests) /\ <<>> \in Seq(Requests)
  BY <1>1, EmptySeq DEF Proper
<1>4. /\ u.req = <<r>>
      /\ [u EXCEPT !.req = <<>>] = [t EXCEPT !.req = <<>>]
  BY <1>2, <1>3 DEF Side
<1>5. c' = [t EXCEPT !.req = <<>>] /\ out' = out \o <<r>>
  BY <1>4 DEF Take
<1>6. /\ c' \in Side /\ c'.req = <<>> /\ c'.caps = t.caps /\ c'.clip = t.clip /\ c'.mode = t.mode
      /\ c'.asked = t.asked /\ c'.global = t.global /\ c'.seat = t.seat
  BY <1>3, <1>5 DEF Side
<1>7. Choice(t) => Choice(c)'
  BY <1>6 DEF Choice
<1>8. out \in Seq(Requests)
  BY DEF StateType
<1>9. out' \in Seq(Requests)
  BY <1>3, <1>5, <1>8, ConcatProperties
<1>10. ~Has(out, Asks) => Once(out', Asks)
  <2>1. Once(<<r>>, Asks)
    BY DEF Once
  <2>2. ~Has(out, Asks) => Once(out, Asks)
    BY DEF Has, Once
  <2> QED BY <1>3, <1>5, <1>8, <2>1, <2>2, ConcatHas
<1>11. ASSUME NEW had, All(out, Able(had)) PROVE All(out', Able(had))
  <2>1. r \in Able(had)
    BY <1>1 DEF Able
  <2>2. All(<<r>>, Able(had))
    BY <2>1 DEF All
  <2> QED BY <1>3, <1>5, <1>8, <1>11, <2>2, ConcatHas
<1> QED BY <1>6, <1>7, <1>9, <1>10, <1>11

\* The events left when none or the first is dispatched.
LEMMA EventsLeft ==
  ASSUME StateType, wire' = wire \/ (wire # <<>> /\ wire' = Tail(wire))
  PROVE  /\ wire' \in Seq(Events)
         /\ \A P : /\ Has(wire', P) => Has(wire, P)
                   /\ Once(wire, P) => Once(wire', P)
                   /\ All(wire, P) => All(wire', P)
<1>1. wire \in Seq(Events)
  BY DEF StateType
<1>2. CASE wire' = wire
  BY <1>1, <1>2
<1>3. CASE wire # <<>> /\ wire' = Tail(wire)
  BY <1>1, <1>3, TailHas, HeadTailProperties
<1> QED BY <1>2, <1>3

\* A step of this side that has nothing to do with a transient seat.
LEMMA PlainStep ==
  ASSUME SeatsInv, NEW t, Proper(t), Choice(t), Within(t.caps, k.had), Take(t),
         t.asked = c.asked, t.global = c.global, c.clip # None => t.clip = c.clip,
         UNCHANGED <<k, late, known>>, unknown' \in SUBSET unknown,
         wire' = wire \/ (wire # <<>> /\ wire' = Tail(wire))
  PROVE  SeatsInv'
<1>1. StateType /\ CapsInv /\ AskInv /\ ClipInv
  BY DEF SeatsInv
<1>2. /\ c' \in Side /\ c'.req = <<>> /\ c'.caps = t.caps /\ c'.clip = t.clip
      /\ c'.asked = t.asked /\ c'.global = t.global /\ Choice(c)'
      /\ out' \in Seq(Requests)
      /\ Has(out', Asks) <=> Has(out, Asks)
      /\ Once(out, Asks) => Once(out', Asks)
      /\ \A had : All(out, Able(had)) /\ Within(t.caps, had) => All(out', Able(had))
  BY <1>1, Taken
<1>3. /\ wire' \in Seq(Events)
      /\ \A P : /\ Has(wire', P) => Has(wire, P)
                /\ Once(wire, P) => Once(wire', P)
                /\ All(wire, P) => All(wire', P)
  BY <1>1, EventsLeft
<1>4. StateType'
  BY <1>1, <1>2, <1>3 DEF StateType
<1>5. CapsInv'
  BY <1>1, <1>2, <1>3 DEF CapsInv
<1>6. AskInv'
  BY <1>1, <1>2, <1>3 DEF AskInv
<1>7. ClipInv'
  <2>1. c.clip \in known => c.clip # None
    BY <1>1, SeatsAreNone DEF StateType
  <2> QED BY <1>1, <1>2, <2>1 DEF ClipInv
<1> QED BY <1>4, <1>5, <1>6, <1>7 DEF SeatsInv

\* A global is announced, by the first roundtrip or an event.
LEMMA AnnounceStep ==
  ASSUME SeatsInv, NEW g \in Globals \cup {<<"seat", Ours>>}, Take(Announce(c, g)),
         UNCHANGED <<k, late, known>>,
         \/ g \in unknown /\ unknown' = unknown \ {g} /\ wire' = wire
         \/ /\ unknown' = unknown /\ wire # <<>> /\ wire' = Tail(wire)
            /\ Head(wire) = <<"global", g>>
  PROVE  SeatsInv'
<1>1. StateType /\ CapsInv /\ AskInv /\ ClipInv
  BY DEF SeatsInv
<1>2. Proper(c) /\ Choice(c)
  BY <1>1 DEF StateType, ClipInv, Proper, All, Has
<1>3. \/ g[1] = "seat" /\ g[2] \in Seats
      \/ g[1] = "manager" /\ g[1] # "seat" /\ g[2] \in AllManagers /\ g = <<"manager", g[2]>>
  BY SeatsAssumption DEF Globals, Seats
<1>4. CASE Plain(c, Announce(c, g))
  <2>1. UNCHANGED <<k, late, known>> /\ unknown' \in SUBSET unknown
    BY <1>1 DEF StateType
  <2>2. Within(Announce(c, g).caps, k.had)
    BY <1>1, <1>4 DEF CapsInv, Plain, Follows
  <2>3. wire' = wire \/ (wire # <<>> /\ wire' = Tail(wire))
    OBVIOUS
  <2> QED BY <1>4, <2>1, <2>2, <2>3, PlainStep DEF Plain, Follows
<1>5. CASE g = Transient /\ c.mode = "transient"
  <2> DEFINE t == [c EXCEPT !.managers = @ \cup {"transient"}, !.asked = TRUE]
  <2>1. Announce(c, g) = Req(t, <<"transient">>) /\ Follows(c, t) /\ t.asked /\ t.global = c.global
    <3>1. ManagerBound(c, "transient") = Req(t, <<"transient">>) /\ Follows(c, t) /\ t.asked
          /\ t.global = c.global
      BY <1>2, <1>5, AskFollows
    <3>2. Announce(c, g) = ManagerBound(c, "transient")
      BY <1>5 DEF Announce, Transient
    <3> QED BY <3>1, <3>2
  <2>2. t.req = <<>>
    BY <1>1 DEF StateType, Side
  <2> HIDE DEF t
  <2>3. Proper(t) /\ Choice(t) /\ t.caps = c.caps /\ (c.clip # None => t.clip = c.clip)
    BY <2>1 DEF Follows
  <2>4. /\ c' \in Side /\ c'.req = <<>> /\ c'.caps = t.caps /\ c'.clip = t.clip
        /\ c'.asked = t.asked /\ c'.global = t.global /\ Choice(c)'
        /\ out' \in Seq(Requests)
        /\ ~Has(out, Asks) => Once(out', Asks)
        /\ \A had : All(out, Able(had)) => All(out', Able(had))
    BY <1>1, <2>1, <2>2, <2>3, AskTaken
  <2>5. /\ wire' \in Seq(Events)
        /\ \A P : /\ Has(wire', P) => Has(wire, P)
                  /\ Once(wire, P) => Once(wire', P)
                  /\ All(wire, P) => All(wire', P)
    BY <1>1, EventsLeft
  <2>6. /\ ~c.asked /\ ~Has(wire', Coming)
        /\ Transient \notin unknown' \cup late'
    <3>1. CASE g \in unknown /\ unknown' = unknown \ {g} /\ wire' = wire
      BY <1>1, <1>5, <3>1 DEF AskInv
    <3>2. CASE unknown' = unknown /\ wire # <<>> /\ wire' = Tail(wire) /\ Head(wire) = <<"global", g>>
      <4>1. wire \in Seq(Events) /\ Head(wire) \in Coming /\ Once(wire, Coming)
        BY <1>1, <1>5, <3>2 DEF StateType, Coming, AskInv
      <4>2. Has(wire, Coming) /\ ~Has(Tail(wire), Coming)
        BY <3>2, <4>1, TailHas
      <4> QED BY <1>1, <3>2, <4>2 DEF AskInv
    <3> QED BY <3>1, <3>2
  <2>7. ~Has(out, Asks) /\ ~Has(wire, Answers) /\ c.global = None
    BY <1>1, <2>6 DEF AskInv, ClipInv, Choice
  <2>8. StateType'
    BY <1>1, <2>4, <2>5 DEF StateType
  <2>9. CapsInv'
    BY <1>1, <2>3, <2>4, <2>5 DEF CapsInv
  <2>10. AskInv'
    BY <1>1, <2>1, <2>4, <2>5, <2>6, <2>7 DEF AskInv
  <2>11. ClipInv'
    <3>1. c.clip \in known => c.clip # None
      BY <1>1, SeatsAreNone DEF StateType
    <3> QED BY <1>1, <2>3, <2>4, <3>1 DEF ClipInv
  <2> QED BY <2>8, <2>9, <2>10, <2>11 DEF SeatsInv
<1>6. CASE g[1] = "seat" /\ g[2] \in Seats
  BY <1>2, <1>4, <1>6, SeatAnnouncedFollows DEF Announce
<1>7. CASE /\ g[1] = "manager" /\ g[1] # "seat" /\ g[2] \in AllManagers
           /\ g[2] = "transient" => c.mode # "transient"
  BY <1>2, <1>4, <1>7, ManagerFollows DEF Announce
<1> QED BY <1>3, <1>5, <1>6, <1>7 DEF Transient

\* An answer to the asking is dispatched.
LEMMA AnswerStep ==
  ASSUME SeatsInv, NEW t, Follows(c, t), Take(t), UNCHANGED <<k, late, unknown>>,
         wire # <<>>, wire' = Tail(wire), Head(wire) \in Answers,
         t.global # None => t.asked, t.asked => c.asked,
         known' \in SUBSET Real, known' # {} => t.clip \in known'
  PROVE  SeatsInv'
<1>1. StateType /\ CapsInv /\ AskInv /\ ClipInv
  BY DEF SeatsInv
<1>2. Proper(t) /\ Choice(t) /\ t.caps = c.caps
  BY DEF Follows
<1>3. /\ c' \in Side /\ c'.req = <<>> /\ c'.caps = t.caps /\ c'.clip = t.clip
      /\ c'.asked = t.asked /\ c'.global = t.global /\ Choice(c)'
      /\ out' \in Seq(Requests)
      /\ Has(out', Asks) <=> Has(out, Asks)
      /\ Once(out, Asks) => Once(out', Asks)
      /\ \A had : All(out, Able(had)) /\ Within(t.caps, had) => All(out', Able(had))
  BY <1>1, <1>2, Taken
<1>4. /\ wire' \in Seq(Events)
      /\ \A P : /\ Has(wire', P) => Has(wire, P)
                /\ Once(wire, P) => Once(wire', P)
                /\ All(wire, P) => All(wire', P)
  BY <1>1, EventsLeft
<1>5. Has(wire, Answers) /\ ~Has(wire', Answers) /\ ~Has(out, Asks)
  <2>1. wire \in Seq(Events) /\ Once(wire, Answers)
    BY <1>1 DEF StateType, AskInv
  <2>2. Has(wire, Answers) /\ ~Has(wire', Answers)
    BY <2>1, TailHas
  <2> QED BY <1>1, <2>2 DEF AskInv
<1>6. StateType'
  BY <1>1, <1>3, <1>4 DEF StateType
<1>7. CapsInv'
  BY <1>1, <1>2, <1>3, <1>4 DEF CapsInv
<1>8. AskInv'
  BY <1>1, <1>3, <1>4, <1>5 DEF AskInv
<1>9. ClipInv'
  BY <1>3 DEF ClipInv
<1> QED BY <1>6, <1>7, <1>8, <1>9 DEF SeatsInv

LEMMA DispatchStep ==
  ASSUME SeatsInv, Dispatch
  PROVE  SeatsInv'
<1>1. StateType /\ CapsInv /\ AskInv /\ ClipInv
  BY DEF SeatsInv
<1>2. Proper(c) /\ Choice(c)
  BY <1>1 DEF StateType, ClipInv, Proper, All, Has
<1> DEFINE e == Head(wire)
<1>3. wire # <<>> /\ wire' = Tail(wire) /\ UNCHANGED <<unknown, late, k>>
      /\ Take(CASE e[1] = "global" -> Announce(c, e[2])
                [] e[1] = "capabilities" -> Capabilities(c, e[2], e[3])
                [] e[1] = "name" -> SeatNamed(c, e[2])
                [] e[1] = "ready" -> Ready(c, e[2])
                [] e[1] = "denied" -> IF c.asked THEN Fallback(c) ELSE c
                [] e[1] = "keymap" -> Keymap(c, e[2]))
      /\ known' = IF e[1] = "ready" THEN c.pending \cap Real ELSE known
  BY DEF Dispatch
<1>4. e \in Events /\ e \in Told(k.had) /\ wire \in Seq(Events)
  <2>1. wire \in Seq(Events) /\ All(wire, Told(k.had))
    BY <1>1 DEF StateType, CapsInv
  <2> QED BY <1>3, <2>1, HeadTailProperties, TailHas
<1>5. e \in Answers => Has(wire, Answers)
  BY <1>3, <1>4, TailHas
<1> HIDE DEF e
<1>6. \A t : Plain(c, t) =>
        /\ Proper(t) /\ Choice(t) /\ Within(t.caps, k.had) /\ t.asked = c.asked
        /\ t.global = c.global /\ (c.clip # None => t.clip = c.clip)
  BY <1>1 DEF Plain, Follows, CapsInv
<1>7. unknown' \in SUBSET unknown
  BY <1>3
<1>8. ASSUME NEW t, Plain(c, t), Take(t), known' = known PROVE SeatsInv'
  BY <1>3, <1>6, <1>7, <1>8, PlainStep
<1>9. CASE e \in {"global"} \X (Globals \cup {<<"seat", Ours>>})
  <2>1. e[1] = "global" /\ e[2] \in Globals \cup {<<"seat", Ours>>} /\ e = <<"global", e[2]>>
    BY <1>9
  <2>2. Take(Announce(c, e[2])) /\ known' = known
    BY <1>3, <2>1
  <2> QED BY <1>3, <2>1, <2>2, AnnounceStep DEF e
<1>10. CASE e \in {"capabilities"} \X Seats \X SUBSET Caps
  <2>1. e[1] = "capabilities" /\ e[2] \in Seats /\ e[3] \in SUBSET Caps /\ e[3] \subseteq k.had[e[2]]
    BY <1>4, <1>10 DEF Told
  <2> DEFINE t == Capabilities(c, e[2], e[3])
  <2>2. Take(t) /\ known' = known
    BY <1>3, <2>1
  <2>3. c.req = <<>> /\ c.caps \in [Seats -> SUBSET Caps]
    BY <1>1 DEF StateType, Side
  <2>4. /\ Proper(t) /\ Choice(t) /\ t.clip = c.clip /\ t.asked = c.asked /\ t.global = c.global
        /\ t.caps = [c.caps EXCEPT ![e[2]] = e[3]]
    BY <1>2, <2>1, <2>3, CapabilitiesFollows
  <2> HIDE DEF t
  <2>5. Within(t.caps, k.had)
    BY <1>1, <2>1, <2>3, <2>4 DEF CapsInv, Within
  <2> QED BY <1>3, <1>7, <2>2, <2>4, <2>5, PlainStep
<1>11. CASE e \in {"name"} \X Seats
  <2>1. e[1] = "name" /\ e[2] \in Seats
    BY <1>11
  <2>2. Take(SeatNamed(c, e[2])) /\ known' = known
    BY <1>3, <2>1
  <2> QED BY <1>2, <1>8, <2>1, <2>2, SeatNamedFollows
<1>12. CASE e \in {"keymap"} \X Keymaps
  <2>1. e[1] = "keymap" /\ e[2] \in Keymaps
    BY <1>12
  <2>2. Take(Keymap(c, e[2])) /\ known' = known
    BY <1>3, <2>1
  <2> QED BY <1>2, <1>8, <2>1, <2>2, KeymapFollows
<1>13. CASE e = <<"ready", Ours>>
  <2>1. e[1] = "ready" /\ e[2] = Ours /\ e \in Answers
    BY <1>13 DEF Answers
  <2>2. Take(Ready(c, Ours)) /\ known' = c.pending \cap Real
    BY <1>3, <2>1
  <2>3. c.asked /\ c.global = None
    BY <1>1, <1>5, <2>1 DEF AskInv
  <2> DEFINE t == Ready(c, Ours)
  <2>4. /\ Follows(c, t) /\ t.asked /\ t.global = Ours
        /\ c.pending \cap Real # {} => t.clip \in c.pending \cap Real
    BY <1>2, <2>3, ReadyFollows
  <2> HIDE DEF t
  <2>5. Take(t)
    BY <2>2 DEF t
  <2>6. known' \in SUBSET Real
    BY <2>2
  <2>7. Head(wire) \in Answers
    BY <2>1 DEF e
  <2> QED BY <1>3, <2>2, <2>3, <2>4, <2>5, <2>6, <2>7, AnswerStep
<1>14. CASE e = <<"denied">>
  <2>1. e[1] = "denied" /\ e \in Answers
    BY <1>14 DEF Answers
  <2>2. c.asked /\ c.global = None
    BY <1>1, <1>5, <2>1 DEF AskInv
  <2> DEFINE t == Fallback(c)
  <2>3. Follows(c, t) /\ t.global = None /\ t.asked = FALSE
    BY <1>2, <2>2, FallbackFollows
  <2> HIDE DEF t
  <2>4. Take(t) /\ known' = known
    BY <1>3, <2>1, <2>2 DEF t
  <2>5. known' \in SUBSET Real /\ (known' # {} => t.clip \in known')
    <3>1. c.clip \in known => c.clip # None
      BY <1>1, SeatsAreNone DEF StateType
    <3> QED BY <1>1, <2>3, <2>4, <3>1 DEF StateType, ClipInv, Follows
  <2>6. Head(wire) \in Answers
    BY <2>1 DEF e
  <2> QED BY <1>3, <2>3, <2>4, <2>5, <2>6, AnswerStep
<1> QED BY <1>4, <1>9, <1>10, <1>11, <1>12, <1>13, <1>14 DEF Events

\* The events on their way when the compositor sends w.
LEMMA Sent ==
  ASSUME StateType, NEW w \in Seq(Events), wire' = wire \o w
  PROVE  /\ wire' \in Seq(Events)
         /\ \A P : /\ Has(wire', P) <=> Has(wire, P) \/ Has(w, P)
                   /\ Once(wire, P) /\ Once(w, P) /\ ~(Has(wire, P) /\ Has(w, P)) => Once(wire', P)
                   /\ All(wire, P) /\ All(w, P) => All(wire', P)
<1>1. wire \in Seq(Events)
  BY DEF StateType
<1> QED BY <1>1, ConcatProperties, ConcatHas

\* The requests left when none or the first is handled.
LEMMA RequestsLeft ==
  ASSUME StateType, out' = out \/ (out # <<>> /\ out' = Tail(out))
  PROVE  /\ out' \in Seq(Requests)
         /\ \A P : /\ Has(out', P) => Has(out, P)
                   /\ Once(out, P) => Once(out', P)
                   /\ All(out, P) => All(out', P)
<1>1. out \in Seq(Requests)
  BY DEF StateType
<1>2. CASE out' = out
  BY <1>1, <1>2
<1>3. CASE out # <<>> /\ out' = Tail(out)
  BY <1>1, <1>3, TailHas, HeadTailProperties
<1> QED BY <1>2, <1>3

\* A step of the compositor that has nothing to do with the transient seat: the
\* seats gain capabilities only.
LEMMA QuietStep ==
  ASSUME SeatsInv, NEW w \in Seq(Events), wire' = wire \o w, All(w, Told(k'.had)),
         ~Has(w, Answers), ~Has(w, Coming),
         k' \in CompositorType, ~k'.error, Within(k.had, k'.had),
         UNCHANGED <<c, unknown, late, known>>,
         out' = out \/ (out # <<>> /\ out' = Tail(out))
  PROVE  SeatsInv'
<1>1. StateType /\ CapsInv /\ AskInv /\ ClipInv
  BY DEF SeatsInv
<1>2. /\ wire' \in Seq(Events)
      /\ \A P : /\ Has(wire', P) <=> Has(wire, P) \/ Has(w, P)
                /\ Once(wire, P) /\ Once(w, P) /\ ~(Has(wire, P) /\ Has(w, P)) => Once(wire', P)
                /\ All(wire, P) /\ All(w, P) => All(wire', P)
  BY <1>1, Sent
<1>3. /\ out' \in Seq(Requests)
      /\ \A P : /\ Has(out', P) => Has(out, P)
                /\ Once(out, P) => Once(out', P)
                /\ All(out, P) => All(out', P)
  BY <1>1, RequestsLeft
<1>4. Once(w, Answers) /\ Once(w, Coming)
  BY DEF Has, Once
<1>5. StateType'
  BY <1>1, <1>2, <1>3 DEF StateType
<1>6. CapsInv'
  <2>1. Able(k.had) \subseteq Able(k'.had) /\ Told(k.had) \subseteq Told(k'.had)
    BY WithinMore
  <2>2. All(out', Able(k'.had)) /\ All(wire', Told(k'.had))
    BY <1>1, <1>2, <1>3, <2>1, AllMore DEF CapsInv
  <2>3. Within(c'.caps, k'.had)
    BY <1>1 DEF CapsInv, Within
  <2> QED BY <2>2, <2>3 DEF CapsInv
<1>7. AskInv'
  BY <1>1, <1>2, <1>3, <1>4 DEF AskInv
<1>8. ClipInv'
  BY <1>1 DEF ClipInv, Choice
<1> QED BY <1>5, <1>6, <1>7, <1>8 DEF SeatsInv

\* A keymap told of is no answer, and tells of no capability.
LEMMA TellKeymapQuiet ==
  ASSUME NEW s \in CompositorType, NEW had
  PROVE  LET w == TellKeymap(s) IN
         /\ w \in Seq(Events) /\ ~Has(w, Answers) /\ ~Has(w, Coming) /\ All(w, Told(had))
<1>1. SeatKeymap(s) \in Keymaps \cup {None}
  BY DEF SeatKeymap, CompositorType
<1>2. CASE s.kbd = None \/ SeatKeymap(s) = None
  BY <1>2, EmptySeq DEF TellKeymap, Has, All
<1>3. CASE ~(s.kbd = None \/ SeatKeymap(s) = None)
  <2> DEFINE e == <<"keymap", SeatKeymap(s)>>
  <2>1. e \in Events /\ e \in Told(had) /\ e \notin Answers /\ e \notin Coming
    BY <1>1, <1>3 DEF Events, Told, Answers, Coming
  <2>2. TellKeymap(s) = <<e>>
    BY <1>3 DEF TellKeymap
  <2> HIDE DEF e
  <2> QED BY <2>1, <2>2 DEF Has, All
<1> QED BY <1>2, <1>3

LEMMA HandleStep ==
  ASSUME SeatsInv, Handle
  PROVE  SeatsInv'
<1>1. StateType /\ CapsInv /\ AskInv /\ ClipInv
  BY DEF SeatsInv
<1> DEFINE r == Head(out)
           n == r[2]
<1>2. out # <<>> /\ out' = Tail(out) /\ UNCHANGED <<unknown, late, c, known>>
  BY DEF Handle
<1>3. r \in Requests /\ r \in Able(k.had) /\ out \in Seq(Requests)
  <2>1. out \in Seq(Requests) /\ All(out, Able(k.had))
    BY <1>1 DEF StateType, CapsInv
  <2> QED BY <1>2, <2>1, HeadTailProperties, TailHas
<1>4. k \in CompositorType /\ ~k.error /\ k.had \in [Seats -> SUBSET Caps] /\ wire \in Seq(Events)
  BY <1>1 DEF StateType, CapsInv, CompositorType
<1>5. wire \o <<>> = wire /\ <<>> \in Seq(Events)
  BY <1>4, EmptySeq
<1>6. ASSUME wire' = wire, k' \in CompositorType, ~k'.error, k'.had = k.had PROVE SeatsInv'
  <2>1. ~Has(<<>>, Answers) /\ ~Has(<<>>, Coming) /\ All(<<>>, Told(k'.had)) /\ Within(k.had, k'.had)
    BY <1>6 DEF Has, All, Within
  <2> QED BY <1>2, <1>5, <1>6, <2>1, QuietStep
<1>7. CASE r[1] = "bind"
  <2>1. n \in Seats
    BY <1>3, <1>7 DEF Requests
  <2> DEFINE e == <<"capabilities", n, k.had[n]>>
             f == <<"name", n>>
             rest == IF n \in k.named THEN <<f>> ELSE <<>>
             w == <<e>> \o rest
  <2>2. wire' = wire \o w /\ k' = k
    BY <1>7 DEF Handle, Sends
  <2>3. e \in Told(k.had) \ (Answers \cup Coming) /\ f \in Told(k.had) \ (Answers \cup Coming)
    BY <1>4, <2>1 DEF Events, Told, Answers, Coming
  <2> HIDE DEF e, f
  <2>4. \A q \in {<<e>>, rest} :
          q \in Seq(Events) /\ ~Has(q, Answers) /\ ~Has(q, Coming) /\ All(q, Told(k.had))
    <3>1. e \in Events /\ f \in Events
      BY <2>3 DEF Told
    <3>2. ASSUME NEW x \in Events, x \in Told(k.had) \ (Answers \cup Coming)
          PROVE  /\ <<x>> \in Seq(Events)
                 /\ ~Has(<<x>>, Answers) /\ ~Has(<<x>>, Coming) /\ All(<<x>>, Told(k.had))
      BY <3>2 DEF Has, All
    <3>3. ~Has(<<>>, Answers) /\ ~Has(<<>>, Coming) /\ All(<<>>, Told(k.had))
      BY DEF Has, All
    <3>4. rest \in {<<>>, <<f>>}
      OBVIOUS
    <3> HIDE DEF rest
    <3> QED BY <1>5, <2>3, <3>1, <3>2, <3>3, <3>4
  <2> HIDE DEF rest
  <2>5. w \in Seq(Events) /\ ~Has(w, Answers) /\ ~Has(w, Coming) /\ All(w, Told(k.had))
    BY <2>4, ConcatProperties, ConcatHas
  <2> HIDE DEF w
  <2>6. Within(k.had, k.had)
    BY DEF Within
  <2> QED BY <1>2, <1>4, <2>2, <2>5, <2>6, QuietStep
<1>8. CASE r[1] = "transient"
  <2>1. r \in Asks
    BY <1>3, <1>8 DEF Requests, Asks
  <2>2. Has(out, Asks) /\ Once(out, Asks)
    BY <1>1, <1>2, <1>3, <2>1, TailHas DEF AskInv
  <2>3. ~Has(out', Asks) /\ c.asked /\ c.global = None /\ ~Has(wire, Answers) /\ ~Has(wire, Coming)
    BY <1>1, <1>2, <1>3, <2>1, <2>2, TailHas DEF AskInv
  <2> DEFINE g == <<"global", <<"seat", Ours>>>>
             y == <<"ready", Ours>>
             d == <<"denied">>
  <2>4. PICK w \in {<<g, y>>, <<y, g>>, <<d>>} : wire' = wire \o w
    BY <1>8 DEF Handle, Sends
  <2>5. k' = k
    BY <1>8 DEF Handle
  <2>6. /\ {g, y, d} \subseteq Told(k.had) /\ {y, d} \subseteq Answers
        /\ g \notin Answers /\ {g, y, d} \cap Coming = {}
    BY DEF Events, Told, Answers, Coming, Transient
  <2> HIDE DEF g, y, d
  <2>7. w \in Seq(Events) /\ Once(w, Answers) /\ ~Has(w, Coming) /\ Once(w, Coming) /\ All(w, Told(k.had))
    <3>1. CASE w = <<g, y>>
      BY <2>6, <3>1 DEF Told, Once, Has, All
    <3>2. CASE w = <<y, g>>
      BY <2>6, <3>2 DEF Told, Once, Has, All
    <3>3. CASE w = <<d>>
      BY <2>6, <3>3 DEF Told, Once, Has, All
    <3> QED BY <2>4, <3>1, <3>2, <3>3
  <2>8. /\ wire' \in Seq(Events) /\ Once(wire', Answers) /\ ~Has(wire', Coming) /\ Once(wire', Coming)
        /\ All(wire', Told(k.had))
    BY <1>1, <2>3, <2>4, <2>7, Sent DEF AskInv, CapsInv
  <2>9. out' \in Seq(Requests) /\ All(out', Able(k.had)) /\ Once(out', Asks)
    BY <1>1, <1>2, RequestsLeft DEF AskInv, CapsInv
  <2>10. StateType'
    BY <1>1, <1>2, <2>5, <2>8, <2>9 DEF StateType
  <2>11. CapsInv'
    BY <1>1, <1>2, <2>5, <2>8, <2>9 DEF CapsInv
  <2>12. AskInv'
    BY <1>1, <1>2, <2>3, <2>8, <2>9 DEF AskInv
  <2>13. ClipInv'
    BY <1>1, <1>2 DEF ClipInv, Choice
  <2> QED BY <2>10, <2>11, <2>12, <2>13 DEF SeatsInv
<1>9. CASE r[1] = "device"
  <2>1. k' = [k EXCEPT !.devices = k.devices \cup {<<r[2], r[3]>>}] /\ wire' = wire
    BY <1>9 DEF Handle
  <2>2. r[2] \in {"ext", "wlr"} /\ r[3] \in Seats
    BY <1>3, <1>9 DEF Requests
  <2>3. k' \in CompositorType /\ k'.error = k.error /\ k'.had = k.had
    BY <1>4, <2>1, <2>2 DEF CompositorType
  <2> QED BY <1>4, <1>6, <2>1, <2>3
<1>10. CASE r[1] = "destroy"
  <2>1. k' = [k EXCEPT !.devices = k.devices \ {<<r[2], r[3]>>}] /\ wire' = wire
    BY <1>10 DEF Handle
  <2>2. k' \in CompositorType /\ k'.error = k.error /\ k'.had = k.had
    BY <1>4, <2>1 DEF CompositorType
  <2> QED BY <1>4, <1>6, <2>1, <2>2
<1>11. CASE r[1] = "virtual"
  <2>1. n \in Seats
    BY <1>3, <1>11 DEF Requests
  <2> DEFINE e == <<"capabilities", n, Caps>>
             h == [k.had EXCEPT ![n] = Caps]
  <2>2. wire' = wire \o <<e>> /\ k' = [k EXCEPT !.virtual = n, !.had[n] = Caps]
    BY <1>11 DEF Handle, Sends
  <2>3. h \in [Seats -> SUBSET Caps] /\ h[n] = Caps /\ Within(k.had, h)
    BY <1>4, <2>1 DEF Within
  <2>4. k' = [k EXCEPT !.virtual = n, !.had = h]
    BY <1>4, <2>2 DEF CompositorType
  <2>5. e \in Told(h) /\ e \notin Answers /\ e \notin Coming
    BY <2>1, <2>3 DEF Events, Told, Answers, Coming
  <2> HIDE DEF e, h
  <2>6. k' \in CompositorType /\ k'.error = k.error /\ k'.had = h
    BY <1>4, <2>1, <2>3, <2>4 DEF CompositorType
  <2>7. <<e>> \in Seq(Events) /\ ~Has(<<e>>, Answers) /\ ~Has(<<e>>, Coming) /\ All(<<e>>, Told(h))
    BY <2>5 DEF Told, Has, All
  <2> QED BY <1>2, <1>4, <2>2, <2>3, <2>6, <2>7, QuietStep
<1>12. CASE r[1] = "get_keyboard"
  <2>1. n \in Seats /\ "keyboard" \in k.had[n]
    BY <1>3, <1>12 DEF Requests, Able
  <2> DEFINE p == [k EXCEPT !.kbd = n]
             w == TellKeymap(k')
  <2>2. p \in CompositorType /\ p.had = k.had /\ p.error = k.error
    BY <1>4, <2>1 DEF CompositorType
  <2>3. k' = p /\ wire' = wire \o w
    <3>1. k' = Passive(p, n, "keyboard") /\ wire' = wire \o w
      BY <1>12 DEF Handle, Sends
    <3> HIDE DEF p, w
    <3> QED BY <2>1, <2>2, <3>1 DEF Passive
  <2> HIDE DEF p
  <2>4. w \in Seq(Events) /\ ~Has(w, Answers) /\ ~Has(w, Coming) /\ All(w, Told(k'.had))
    BY <2>2, <2>3, TellKeymapQuiet
  <2>5. Within(k.had, k'.had)
    BY <2>2, <2>3 DEF Within
  <2> HIDE DEF w
  <2> QED BY <1>2, <1>4, <2>2, <2>3, <2>4, <2>5, QuietStep
<1>13. CASE r[1] = "get_pointer"
  <2>1. n \in Seats /\ "pointer" \in k.had[n]
    BY <1>3, <1>13 DEF Requests, Able
  <2> DEFINE p == [k EXCEPT !.ptr = n]
  <2>2. p \in CompositorType /\ p.had = k.had /\ p.error = k.error
    BY <1>4, <2>1 DEF CompositorType
  <2>3. k' = p /\ wire' = wire
    <3>1. k' = Passive(p, n, "pointer") /\ wire' = wire
      BY <1>13 DEF Handle
    <3> HIDE DEF p
    <3> QED BY <2>1, <2>2, <3>1 DEF Passive
  <2> HIDE DEF p
  <2> QED BY <1>4, <1>6, <2>2, <2>3
<1>14. CASE r[1] = "keymap"
  <2>1. n \in Keymaps
    BY <1>3, <1>14 DEF Requests
  <2> DEFINE w == IF k.other = None THEN TellKeymap(k') ELSE <<>>
  <2>2. k' = [k EXCEPT !.vmap = n] /\ wire' = wire \o w
    BY <1>14 DEF Handle, Sends
  <2>3. k' \in CompositorType /\ k'.had = k.had /\ k'.error = k.error
    BY <1>4, <2>1, <2>2 DEF CompositorType
  <2>4. w \in Seq(Events) /\ ~Has(w, Answers) /\ ~Has(w, Coming) /\ All(w, Told(k'.had))
    BY <1>5, <2>3, TellKeymapQuiet DEF Has, All
  <2>5. Within(k.had, k'.had)
    BY <2>3 DEF Within
  <2> HIDE DEF w
  <2> QED BY <1>2, <1>4, <2>2, <2>3, <2>4, <2>5, QuietStep
<1> HIDE DEF r
<1> QED
  <2>1. r[1] \in {"bind", "transient", "device", "destroy", "virtual", "get_keyboard", "get_pointer", "keymap"}
    BY <1>3 DEF Requests
  <2> QED BY <2>1, <1>7, <1>8, <1>9, <1>10, <1>11, <1>12, <1>13, <1>14

LEMMA AppearStep ==
  ASSUME SeatsInv, NEW g \in Globals, Appear(g)
  PROVE  SeatsInv'
<1>1. StateType /\ CapsInv /\ AskInv /\ ClipInv
  BY DEF SeatsInv
<1> DEFINE e == <<"global", g>>
<1>2. /\ g \in late /\ late' = late \ {g} /\ wire' = wire \o <<e>>
      /\ UNCHANGED <<unknown, c, k, out, known>>
  BY DEF Appear, Sends
<1>3. e \in Told(k.had) /\ e \notin Answers /\ (e \in Coming <=> g = Transient)
  BY DEF Events, Told, Answers, Coming
<1> HIDE DEF e
<1>4. <<e>> \in Seq(Events) /\ ~Has(<<e>>, Answers) /\ All(<<e>>, Told(k.had))
      /\ Once(<<e>>, Coming) /\ Once(<<e>>, Answers) /\ (Has(<<e>>, Coming) <=> g = Transient)
  BY <1>3 DEF Told, Has, All, Once
<1>5. /\ wire' \in Seq(Events)
      /\ \A P : /\ Has(wire', P) <=> Has(wire, P) \/ Has(<<e>>, P)
                /\ Once(wire, P) /\ Once(<<e>>, P) /\ ~(Has(wire, P) /\ Has(<<e>>, P)) => Once(wire', P)
                /\ All(wire, P) /\ All(<<e>>, P) => All(wire', P)
  BY <1>1, <1>2, <1>4, Sent
<1>6. StateType'
  BY <1>1, <1>2, <1>5 DEF StateType
<1>7. CapsInv'
  BY <1>1, <1>2, <1>4, <1>5 DEF CapsInv
<1>8. AskInv'
  BY <1>1, <1>2, <1>4, <1>5 DEF AskInv
<1>9. ClipInv'
  BY <1>1, <1>2 DEF ClipInv, Choice
<1> QED BY <1>6, <1>7, <1>8, <1>9 DEF SeatsInv

LEMMA PlugStep ==
  ASSUME SeatsInv, Plug
  PROVE  SeatsInv'
<1>1. StateType /\ CapsInv
  BY DEF SeatsInv
<1>2. k \in CompositorType /\ ~k.error
  BY <1>1 DEF StateType, CapsInv
<1>3. PICK m \in Keymaps \cup {None} : k' = [k EXCEPT !.other = m]
  BY DEF Plug
<1> DEFINE w == TellKeymap(k')
<1>4. wire' = wire \o w /\ UNCHANGED <<c, unknown, late, known, out>>
  BY DEF Plug, Sends
<1>5. k' \in CompositorType /\ k'.had = k.had /\ k'.error = k.error
  BY <1>2, <1>3 DEF CompositorType
<1>6. w \in Seq(Events) /\ ~Has(w, Answers) /\ ~Has(w, Coming) /\ All(w, Told(k'.had))
  BY <1>5, TellKeymapQuiet
<1>7. Within(k.had, k'.had)
  BY <1>5 DEF Within
<1> HIDE DEF w
<1> QED BY <1>2, <1>4, <1>5, <1>6, <1>7, QuietStep

LEMMA SettleStep ==
  ASSUME SeatsInv, Settle
  PROVE  SeatsInv'
<1>1. StateType /\ CapsInv /\ AskInv /\ ClipInv
  BY DEF SeatsInv
<1>2. Proper(c) /\ Choice(c)
  BY <1>1 DEF StateType, ClipInv, Proper, All, Has
<1> DEFINE t == IF c.mode = "transient" /\ ~c.asked THEN Fallback(c) ELSE c
<1>3. Take(t) /\ UNCHANGED <<k, late, known, unknown, wire>>
  BY DEF Settle
<1>4. Follows(c, t) /\ t.asked = c.asked /\ t.global = c.global
  <2>1. CASE c.mode = "transient" /\ ~c.asked
    <3>1. c.global = None /\ c.asked \in BOOLEAN
      BY <1>1, <1>2, <2>1 DEF Choice, StateType, Side
    <3> QED BY <1>2, <2>1, <3>1, FallbackFollows
  <2>2. CASE ~(c.mode = "transient" /\ ~c.asked)
    BY <1>2, <2>2 DEF Follows
  <2> QED BY <2>1, <2>2
<1> HIDE DEF t
<1>5. Within(t.caps, k.had)
  BY <1>1, <1>4 DEF Follows, CapsInv
<1>6. unknown' \in SUBSET unknown
  BY <1>3
<1> QED BY <1>3, <1>4, <1>5, <1>6, PlainStep DEF Follows

LEMMA SeatsInvInit == Init => SeatsInv
<1> SUFFICES ASSUME Init PROVE SeatsInv
  OBVIOUS
<1>1. PICK mode \in Modes, bare \in {{Ours}, Seats}, other \in {None, 1}, named \in SUBSET Real :
         c = Here(mode) /\ k = There(named, [n \in Seats |-> IF n \in bare THEN {} ELSE Caps], other)
  BY DEF Init
<1>2. /\ late \in SUBSET Globals /\ unknown = Globals \ late /\ known = {}
      /\ out = <<>> /\ wire = <<>>
  BY SeatsAssumption DEF Init
<1>3. <<>> \in Seq(Requests) /\ <<>> \in Seq(Events)
  BY EmptySeq
<1>4. c \in Side /\ c.req = <<>> /\ c.caps = [n \in Seats |-> {}] /\ Choice(c) /\ ~c.asked /\ c.global = None
  <2>1. mode \in {"first", "named", "transient"} /\ [n \in Seats |-> {}] \in [Seats -> SUBSET Caps]
    BY SeatsAssumption
  <2>2. c \in Side
    BY <1>1, <1>3, <2>1 DEF Here, Side, AllManagers
  <2> QED BY <1>1, <2>2, SeatsAreNone DEF Here, Choice
<1>5. k \in CompositorType /\ ~k.error
  <2> DEFINE had == [n \in Seats |-> IF n \in bare THEN {} ELSE Caps]
  <2>1. had \in [Seats -> SUBSET Caps] /\ other \in Keymaps \cup {None}
    BY DEF Keymaps
  <2> HIDE DEF had
  <2>2. k = There(named, had, other)
    BY <1>1 DEF had
  <2> QED BY <2>1, <2>2 DEF There, CompositorType
<1>6. \A P : ~Has(<<>>, P) /\ Once(<<>>, P) /\ All(<<>>, P)
  BY DEF Has, Once, All
<1>7. Within(c.caps, k.had)
  BY <1>4 DEF Within
<1> QED BY <1>2, <1>3, <1>4, <1>5, <1>6, <1>7 DEF SeatsInv, StateType, CapsInv, AskInv, ClipInv

LEMMA SeatsInvStep == SeatsInv /\ [Next]_vars => SeatsInv'
<1> SUFFICES ASSUME SeatsInv, [Next]_vars PROVE SeatsInv'
  OBVIOUS
<1>1. ASSUME UNCHANGED <<unknown, late, known, c, k, out, wire>> PROVE SeatsInv'
  <2>1. StateType' /\ CapsInv' /\ AskInv' /\ ClipInv'
    BY <1>1 DEF SeatsInv, StateType, CapsInv, AskInv, ClipInv, Choice
  <2> QED BY <2>1 DEF SeatsInv
<1>2. ASSUME NEW g \in Globals, InitialGlobal(g) PROVE SeatsInv'
  <2>1. /\ g \in unknown /\ unknown' = unknown \ {g} /\ wire' = wire
        /\ Take(Announce(c, g)) /\ UNCHANGED <<k, late, known>>
    BY <1>2 DEF InitialGlobal
  <2> QED BY <2>1, AnnounceStep
<1>3. ASSUME NEW g \in Globals, Appear(g) PROVE SeatsInv'
  BY <1>3, AppearStep
<1>4. CASE Settle
  BY <1>4, SettleStep
<1>5. CASE Dispatch
  BY <1>5, DispatchStep
<1>6. CASE LoadKeymap
  BY <1>1, <1>6 DEF LoadKeymap
<1>7. CASE Handle
  BY <1>7, HandleStep
<1>8. CASE Plug
  BY <1>8, PlugStep
<1>9. CASE SendStroke \/ \E press \in BOOLEAN : Stroke(press)
  BY <1>1, <1>9 DEF SendStroke, Stroke
<1>10. CASE UNCHANGED vars
  BY <1>1, <1>10 DEF vars
<1> QED BY <1>2, <1>3, <1>4, <1>5, <1>6, <1>7, <1>8, <1>9, <1>10 DEF Next

\* The invariant behind the two theorems that follow holds, for any seats, managers and
\* keymaps, in whatever order globals, names and answers come.
THEOREM SeatsInvAlways == Spec => []SeatsInv
BY SeatsInvInit, SeatsInvStep, PTL DEF Spec

\* No device is asked of a seat that never had the capability, though what a seat
\* can do is only known from events and may have been asked on the way
\* (sync_seat_devices).
THEOREM NoneEverMissing == Spec => []NoMissingCapability
<1>1. SeatsInv => NoMissingCapability
  BY DEF SeatsInv, CapsInv, NoMissingCapability
<1> QED BY <1>1, SeatsInvAlways, PTL

\* The clipboard is on the seat chosen, and where ours is the one, on a real seat
\* that was known when ours was ready, if there was one (transient_ready).
THEOREM ClipboardAlwaysReal == Spec => []ClipboardStaysReal
<1>1. SeatsInv => ClipboardStaysReal
  BY DEF SeatsInv, ClipInv, Choice, ClipboardStaysReal
<1> QED BY <1>1, SeatsInvAlways, PTL

-----------------------------------------------------------------------------
(* Once things are at rest.                                                *)

\* The elements of P in q all come before those of R; the last one of P is e.
Before(q, P, R) == \A j, l \in DOMAIN q : q[j] \in P /\ q[l] \in R => j < l
LastIs(q, P, e) == \E j \in DOMAIN q : q[j] = e /\ \A l \in DOMAIN q : q[l] \in P => l <= j

LEMMA AppendFacts ==
  ASSUME NEW S, NEW q \in Seq(S), NEW r \in S
  PROVE  LET b == Append(q, r) IN
         /\ b \in Seq(S)
         /\ \A P : Has(b, P) <=> Has(q, P) \/ r \in P
         /\ \A P, R : Before(q, P, R) /\ (r \in P => r \notin R /\ ~Has(q, R)) => Before(b, P, R)
         /\ \A P : r \in P => LastIs(b, P, r)
         /\ \A P, e : r \notin P /\ LastIs(q, P, e) => LastIs(b, P, e)
<1> DEFINE b == Append(q, r)
<1>1. /\ b \in Seq(S) /\ Len(q) \in Nat /\ Len(b) = Len(q) + 1
      /\ DOMAIN q = 1 .. Len(q) /\ DOMAIN b = 1 .. Len(b)
      /\ \A j \in 1 .. Len(q) : b[j] = q[j]
      /\ b[Len(q) + 1] = r
  BY AppendProperties, LenProperties
<1> DEFINE z == Len(q) + 1
<1>2. /\ z \in DOMAIN b /\ b[z] = r /\ DOMAIN q \subseteq Nat /\ z \in Nat
      /\ \A j \in DOMAIN q : j \in DOMAIN b /\ b[j] = q[j] /\ j < z
      /\ \A j \in DOMAIN b : j = z \/ j \in DOMAIN q
  BY <1>1
<1> HIDE DEF b, z
<1>3. \A P : Has(b, P) <=> Has(q, P) \/ r \in P
  BY <1>2 DEF Has
<1>4. ASSUME NEW P, NEW R, Before(q, P, R), r \in P => r \notin R /\ ~Has(q, R) PROVE Before(b, P, R)
  <2> SUFFICES ASSUME NEW j \in DOMAIN b, NEW l \in DOMAIN b, b[j] \in P, b[l] \in R PROVE j < l
    BY DEF Before
  <2>1. CASE j = z
    BY <1>2, <1>4, <2>1 DEF Has
  <2>2. CASE j \in DOMAIN q
    BY <1>2, <1>4, <2>2 DEF Before
  <2> QED BY <1>2, <2>1, <2>2
<1>5. ASSUME NEW P, r \in P PROVE LastIs(b, P, r)
  <2>1. \A l \in DOMAIN b : l <= z
    BY <1>2
  <2> QED BY <1>2, <2>1 DEF LastIs
<1>6. ASSUME NEW P, NEW e, r \notin P, LastIs(q, P, e) PROVE LastIs(b, P, e)
  BY <1>2, <1>6 DEF LastIs
<1> QED BY <1>1, <1>3, <1>4, <1>5, <1>6 DEF b

LEMMA TailFacts ==
  ASSUME NEW S, NEW q \in Seq(S), q # <<>>
  PROVE  /\ \A P, R : Before(q, P, R) =>
              Before(Tail(q), P, R) /\ (Head(q) \in R => ~Has(Tail(q), P))
         /\ \A P, e : LastIs(q, P, e) /\ e \in P =>
              IF Has(Tail(q), P) THEN LastIs(Tail(q), P, e) ELSE Head(q) = e
<1> DEFINE t == Tail(q)
<1>1. /\ t \in Seq(S) /\ Len(t) = Len(q) - 1 /\ Len(q) \in Nat \ {0}
      /\ \A j \in 1 .. Len(t) : t[j] = q[j + 1]
  BY HeadTailProperties, EmptySeq
<1>2. DOMAIN q = 1 .. Len(q) /\ DOMAIN t = 1 .. Len(t) /\ Head(q) = q[1]
  BY <1>1
<1> HIDE DEF t
<1>3. /\ \A j \in DOMAIN t : j \in Nat /\ j + 1 \in DOMAIN q /\ t[j] = q[j + 1] /\ j + 1 > 1
      /\ \A j \in DOMAIN q : j \in Nat /\ (j = 1 \/ (j - 1 \in DOMAIN t /\ t[j - 1] = q[j]))
      /\ 1 \in DOMAIN q
  <2>1. \A j \in DOMAIN t : j \in Nat /\ j + 1 \in DOMAIN q /\ t[j] = q[j + 1] /\ j + 1 > 1
    BY <1>1, <1>2
  <2>2. ASSUME NEW j \in DOMAIN q, j # 1 PROVE j - 1 \in DOMAIN t /\ t[j - 1] = q[j]
    <3>1. j - 1 \in DOMAIN t /\ j - 1 + 1 = j
      BY <1>1, <1>2, <2>2
    <3> QED BY <2>1, <3>1
  <2> QED BY <1>1, <1>2, <2>1, <2>2
<1>4. ASSUME NEW P, NEW R, Before(q, P, R)
      PROVE  Before(t, P, R) /\ (Head(q) \in R => ~Has(t, P))
  <2>1. ASSUME NEW j \in DOMAIN t, NEW l \in DOMAIN t, t[j] \in P, t[l] \in R PROVE j < l
    <3>1. j + 1 < l + 1
      BY <1>3, <1>4, <2>1 DEF Before
    <3> QED BY <1>3, <3>1
  <2>2. ASSUME Head(q) \in R, NEW j \in DOMAIN t, t[j] \in P PROVE FALSE
    <3>1. j + 1 < 1
      BY <1>2, <1>3, <1>4, <2>2 DEF Before
    <3> QED BY <1>3, <3>1
  <2> QED BY <2>1, <2>2 DEF Before, Has
<1>5. ASSUME NEW P, NEW e, LastIs(q, P, e), e \in P
      PROVE  IF Has(t, P) THEN LastIs(t, P, e) ELSE Head(q) = e
  <2>1. PICK j \in DOMAIN q : q[j] = e /\ \A l \in DOMAIN q : q[l] \in P => l <= j
    BY <1>5 DEF LastIs
  <2>2. CASE j = 1
    <3>1. ~Has(t, P)
      <4> SUFFICES ASSUME NEW l \in DOMAIN t, t[l] \in P PROVE FALSE
        BY DEF Has
      <4>1. l + 1 <= j
        BY <1>3, <2>1
      <4> QED BY <1>3, <2>2, <4>1
    <3> QED BY <1>2, <2>1, <2>2, <3>1
  <2>3. CASE j # 1
    <3>1. j - 1 \in DOMAIN t /\ t[j - 1] = e
      BY <1>3, <2>1, <2>3
    <3>2. ASSUME NEW l \in DOMAIN t, t[l] \in P PROVE l <= j - 1
      <4>1. l + 1 <= j
        BY <1>3, <2>1, <3>2
      <4> QED BY <1>3, <4>1
    <3> QED BY <1>5, <3>1, <3>2 DEF Has, LastIs
  <2> QED BY <2>2, <2>3
<1> QED BY <1>4, <1>5 DEF t

-----------------------------------------------------------------------------
(* The parts of it.                                                        *)

\* The requests that make a data-control device, destroy the wlr one, or are for
\* a device on another seat than n.
Creates(d, n) == {<<"device", d, n>>}
Destroys(n) == {<<"destroy", "wlr", n>>}
StrayDevices(n) ==
  ({"device", "destroy"} \X {"ext", "wlr"} \X Seats)
    \ (Creates("ext", n) \cup Creates("wlr", n) \cup Destroys(n))

\* There is one data-control device on the clipboard's seat, or being made, or a
\* wlr device yet to be destroyed, the ext device having been asked for.
DevicePart(s, q, devices) ==
  LET made(d) == <<d, s.clip>> \in devices \/ Has(q, Creates(d, s.clip)) IN
  /\ s.device # "none" => s.clip # None /\ s.device \in s.managers
  /\ devices \subseteq {"ext", "wlr"} \X {s.clip}
  /\ ~Has(q, StrayDevices(s.clip))
  /\ (s.device = "ext") <=> made("ext")
  /\ s.device = "wlr" => made("wlr")
  /\ made("wlr") => Has(q, Destroys(s.clip)) \/ s.device = "wlr"
  /\ Has(q, Destroys(s.clip)) => s.device = "ext"
  /\ Before(q, Creates("wlr", s.clip), Destroys(s.clip))

\* It is of the better protocol there is a manager for.
DeviceDone(s) ==
  /\ s.device = "none" => s.clip = None \/ s.seat = None \/ {"ext", "wlr"} \cap s.managers = {}
  /\ s.device = "wlr" => "ext" \notin s.managers

\* The requests that make the virtual devices on seat n, and those that give the
\* virtual keyboard its keymap.
Devises(n) == {<<"virtual", n>>}
StrayVirtuals(n) == ({"virtual"} \X Seats) \ Devises(n)
KeymapRequests == {"keymap"} \X Keymaps

\* The virtual devices are on our seat, or being made; and the keymap loaded is
\* theirs, or the last one on its way to them.
VirtualPart(s, q, virtual, vmap) ==
  /\ s.virtual => s.seat # None /\ {"vptr", "vkbd"} \subseteq s.managers
  /\ s.virtual => virtual = s.seat \/ Has(q, Devises(s.seat))
  /\ virtual # None => s.virtual /\ virtual = s.seat
  /\ ~Has(q, StrayVirtuals(s.seat))
  /\ Has(q, Devises(s.seat)) \/ Has(q, KeymapRequests) => s.virtual
  /\ Has(q, KeymapRequests) => LastIs(q, KeymapRequests, <<"keymap", s.keymap>>)
  /\ ~Has(q, KeymapRequests) => vmap = IF s.virtual THEN s.keymap ELSE None

VirtualDone(s) == s.seat # None /\ {"vptr", "vkbd"} \subseteq s.managers => s.virtual

\* The binding of seat n, the news that it can do all, and news of it that is old.
Binds(n) == {<<"bind", n>>}
News(n) == {<<"capabilities", n, Caps>>}
OldNews(n, had) == {<<"capabilities", n, caps>> : caps \in (SUBSET Caps) \ {had[n]}}

\* The passive devices are only there if the seat can have them; and of a seat
\* that can, this side knows, or it will be told.
KeysPart(s, q, w, had) ==
  /\ \A n \in Seats : had[n] \in {{}, Caps}
  /\ s.keyboard \/ s.pointer => s.seat # None /\ had[s.seat] = Caps
  /\ \A n \in Seats : n # s.seat => ~Has(w, OldNews(n, had))
  /\ \A n \in Seats : (n \in s.pending \/ n = s.seat) /\ had[n] = Caps =>
        \/ n = s.seat /\ s.keyboard /\ s.pointer
        \/ s.caps[n] = Caps \/ Has(q, Binds(n)) \/ Has(w, News(n))

KeysDone(s) == s.seat # None /\ s.caps[s.seat] = Caps => s.keyboard /\ s.pointer

\* The seat's global, and its name.
Global(n) == {<<"global", <<"seat", n>>>>}
Names(S) == {"name"} \X S
Granted == {<<"ready", Ours>>}
Refused == {<<"denied">>}

\* While no seat is chosen, each real one is yet to come, or pending its name;
\* the one chosen is as -seat says; and a transient seat asked for is answered,
\* its global and its `ready` coming in either order.
FoundPart(s, q, w, u, named) ==
  /\ s.seat = None => \A n \in Real : <<"seat", n>> \in u \/ Has(w, Global(n)) \/ n \in s.pending
  /\ s.mode = "first" /\ s.seat = None => s.pending = {}
  /\ \A n \in Real : Has(w, Global(n)) \/ n \in s.pending \/ n = s.seat => <<"seat", n>> \notin u
  /\ Ours \in s.pending \/ Has(w, Global(Ours)) => s.asked
  /\ s.seat = Ours => s.global = Ours
  /\ Has(w, Refused) \/ Has(q, Asks) => Ours \notin s.pending /\ ~Has(w, Global(Ours))
  /\ s.mode = "named" /\ s.seat # None => s.seat \in named
  /\ ~Has(w, Names(Seats \ named))
  /\ s.mode = "named" /\ s.seat = None =>
        \A n \in s.pending \cap named : Has(q, Binds(n)) \/ Has(w, Names({n}))
  /\ s.asked /\ s.global = None => Has(q, Asks) \/ Has(w, Answers)
  /\ s.global = Ours /\ s.seat = None => Has(w, Global(Ours))
  /\ Has(w, Granted) => Ours \in s.pending \/ Has(w, Global(Ours))

RestInv ==
  /\ unknown \cap late = {}
  /\ settled => unknown = {} /\ (c.mode = "transient" => c.asked)
  /\ DevicePart(c, out, k.devices) /\ DeviceDone(c)
  /\ VirtualPart(c, out, k.virtual, k.vmap) /\ VirtualDone(c)
  /\ KeysPart(c, out, wire, k.had) /\ KeysDone(c)
  /\ FoundPart(c, out, wire, unknown \cup late, k.named)

-----------------------------------------------------------------------------
(* What this side's operators do to the parts: p are the requests sent     *)
(* before the step.                                                        *)

Queue(p, s) == p \o s.req

\* b is q and more, of the kinds in K only.
Clear(P, K) == \A r \in P : r[1] \notin K
Longer(q, b, K) ==
  /\ \A P : Clear(P, K) => (Has(b, P) <=> Has(q, P))
  /\ \A P, R : Clear(P, K) /\ Clear(R, K) /\ Before(q, P, R) => Before(b, P, R)
  /\ \A P, e : Clear(P, K) /\ LastIs(q, P, e) => LastIs(b, P, e)

LEMMA LongerFacts ==
  /\ \A q, K : Longer(q, q, K)
  /\ \A q, a, b, K : Longer(q, a, K) /\ Longer(a, b, K) => Longer(q, b, K)
  /\ \A q, b, K, L : Longer(q, b, K) /\ K \subseteq L => Longer(q, b, L)
<1>1. \A q, K : Longer(q, q, K)
  BY DEF Longer
<1>2. \A q, a, b, K : Longer(q, a, K) /\ Longer(a, b, K) => Longer(q, b, K)
  BY DEF Longer
<1>3. ASSUME NEW q, NEW b, NEW K, NEW L, Longer(q, b, K), K \subseteq L PROVE Longer(q, b, L)
  <2>1. \A P : Clear(P, L) => Clear(P, K)
    BY <1>3 DEF Clear
  <2> QED BY <1>3, <2>1 DEF Longer
<1> QED BY <1>1, <1>2, <1>3

LEMMA ReqQueue ==
  ASSUME NEW s \in Side, NEW p \in Seq(Requests), NEW r \in Requests
  PROVE  LET q == Queue(p, s)
             b == Queue(p, Req(s, r)) IN
         /\ q \in Seq(Requests) /\ b \in Seq(Requests)
         /\ \A P : Has(b, P) <=> Has(q, P) \/ r \in P
         /\ \A P, R : Before(q, P, R) /\ (r \in P => r \notin R /\ ~Has(q, R)) => Before(b, P, R)
         /\ \A P : r \in P => LastIs(b, P, r)
         /\ Longer(q, b, {r[1]})
<1> DEFINE q == Queue(p, s)
           b == Queue(p, Req(s, r))
<1>1. s.req \in Seq(Requests) /\ Req(s, r).req = Append(s.req, r)
  BY DEF Side, Req
<1>2. q \in Seq(Requests) /\ b = Append(q, r)
  <2>1. q \in Seq(Requests)
    BY <1>1 DEF Queue
  <2>2. p \o Append(s.req, r) = Append(p \o s.req, r)
    BY <1>1
  <2> QED BY <1>1, <2>1, <2>2 DEF Queue
<1> HIDE DEF q, b
<1>3. /\ b \in Seq(Requests)
      /\ \A P : Has(b, P) <=> Has(q, P) \/ r \in P
      /\ \A P, R : Before(q, P, R) /\ (r \in P => r \notin R /\ ~Has(q, R)) => Before(b, P, R)
      /\ \A P : r \in P => LastIs(b, P, r)
      /\ \A P, e : r \notin P /\ LastIs(q, P, e) => LastIs(b, P, e)
  BY <1>2, AppendFacts
<1>4. \A P : Clear(P, {r[1]}) => r \notin P
  BY DEF Clear
<1>5. Longer(q, b, {r[1]})
  BY <1>3, <1>4 DEF Longer
<1> QED BY <1>2, <1>3, <1>5 DEF q, b

\* A step that keeps what a part is about keeps the part.
LEMMA DeviceKept ==
  ASSUME NEW s, NEW t, NEW q, NEW b, NEW K, NEW devices, DevicePart(s, q, devices),
         Longer(q, b, K), K \cap {"device", "destroy"} = {},
         t.device = s.device, t.clip = s.clip, s.managers \subseteq t.managers
  PROVE  DevicePart(t, b, devices)
<1>1. /\ \A d : Clear(Creates(d, s.clip), K)
      /\ Clear(Destroys(s.clip), K) /\ Clear(StrayDevices(s.clip), K)
  BY DEF Clear, Creates, Destroys, StrayDevices
<1>2. /\ \A d : Has(b, Creates(d, s.clip)) <=> Has(q, Creates(d, s.clip))
      /\ Has(b, Destroys(s.clip)) <=> Has(q, Destroys(s.clip))
      /\ Has(b, StrayDevices(s.clip)) <=> Has(q, StrayDevices(s.clip))
      /\ Before(q, Creates("wlr", s.clip), Destroys(s.clip)) => Before(b, Creates("wlr", s.clip), Destroys(s.clip))
  BY <1>1 DEF Longer
<1> QED BY <1>2 DEF DevicePart

LEMMA VirtualKept ==
  ASSUME NEW s, NEW t, NEW q, NEW b, NEW K, NEW virtual, NEW vmap, VirtualPart(s, q, virtual, vmap),
         Longer(q, b, K), K \cap {"virtual", "keymap"} = {},
         t.virtual = s.virtual, t.seat = s.seat, s.managers \subseteq t.managers, t.keymap = s.keymap
  PROVE  VirtualPart(t, b, virtual, vmap)
<1>1. Clear(Devises(s.seat), K) /\ Clear(StrayVirtuals(s.seat), K) /\ Clear(KeymapRequests, K)
  BY DEF Clear, Devises, StrayVirtuals, KeymapRequests
<1>2. /\ Has(b, Devises(s.seat)) <=> Has(q, Devises(s.seat))
      /\ Has(b, StrayVirtuals(s.seat)) <=> Has(q, StrayVirtuals(s.seat))
      /\ Has(b, KeymapRequests) <=> Has(q, KeymapRequests)
      /\ LastIs(q, KeymapRequests, <<"keymap", s.keymap>>) => LastIs(b, KeymapRequests, <<"keymap", s.keymap>>)
  BY <1>1 DEF Longer
<1>3. {"vptr", "vkbd"} \subseteq s.managers => {"vptr", "vkbd"} \subseteq t.managers
  OBVIOUS
<1> QED BY <1>2, <1>3 DEF VirtualPart

LEMMA KeysKept ==
  ASSUME NEW s, NEW t, NEW q, NEW b, NEW K, NEW w, NEW had, KeysPart(s, q, w, had),
         Longer(q, b, K), "bind" \notin K,
         t.keyboard = s.keyboard, t.pointer = s.pointer, t.seat = s.seat,
         t.pending \subseteq s.pending, t.caps = s.caps
  PROVE  KeysPart(t, b, w, had)
<1>1. \A n : Has(b, Binds(n)) <=> Has(q, Binds(n))
  BY DEF Longer, Clear, Binds
<1> QED BY <1>1 DEF KeysPart

\* What each operator settles, and what it adds to the queue; of the parts it has
\* nothing to do with, SameSeats says the rest.
LEMMA InitDeviceWires ==
  ASSUME NEW s, Proper(s), NEW p \in Seq(Requests), NEW devices, DevicePart(s, Queue(p, s), devices)
  PROVE  LET t == InitDevice(s) IN
         /\ DevicePart(t, Queue(p, t), devices) /\ DeviceDone(t)
         /\ Longer(Queue(p, s), Queue(p, t), {"device", "destroy"})
         /\ t.virtual = s.virtual /\ t.keyboard = s.keyboard /\ t.pointer = s.pointer
<1> DEFINE t == InitDevice(s)
           q == Queue(p, s)
<1>1. s \in Side /\ s.device \in {"none", "wlr", "ext"} /\ s.clip \in Seats \cup {None}
  BY DEF Proper, Side
<1>2. CASE t = s
  <2>1. DeviceDone(s)
    <3>1. s.device = "ext" \/ s.clip = None \/ ("ext" \notin s.managers /\ ~(s.device = "none" /\ "wlr" \in s.managers))
      <4>1. ASSUME s.device # "ext", s.clip # None, "ext" \in s.managers PROVE FALSE
        <5> DEFINE a == Req([s EXCEPT !.device = "ext"], <<"device", "ext", s.clip>>)
        <5>1. t = IF s.device = "wlr" THEN Req(a, <<"destroy", "wlr", s.clip>>) ELSE a
          BY <4>1 DEF InitDevice
        <5>2. t.device = "ext"
          BY <1>1, <5>1 DEF Req, Side
        <5> QED BY <1>2, <4>1, <5>2
      <4>2. ASSUME s.clip # None, "ext" \notin s.managers, s.device = "none", "wlr" \in s.managers PROVE FALSE
        <5>1. t = Req([s EXCEPT !.device = "wlr"], <<"device", "wlr", s.clip>>)
          BY <4>2 DEF InitDevice
        <5>2. t.device = "wlr"
          BY <1>1, <5>1 DEF Req, Side
        <5> QED BY <1>2, <4>2, <5>2
      <4> QED BY <4>1, <4>2
    <3> QED BY <1>1, <3>1 DEF DevicePart, DeviceDone
  <2> QED BY <1>2, <2>1, LongerFacts
<1>3. CASE /\ s.device # "ext" /\ s.clip # None /\ "ext" \in s.managers
  <2> DEFINE a == [s EXCEPT !.device = "ext"]
             r == <<"device", "ext", s.clip>>
             x == <<"destroy", "wlr", s.clip>>
             b == Req(a, r)
             d == Req(b, x)
  <2>1. r \in Requests /\ x \in Requests /\ r[1] = "device" /\ x[1] = "destroy"
    BY <1>1, <1>3 DEF Requests
  <2>2. /\ a \in Side /\ a.req = s.req /\ a.clip = s.clip /\ a.managers = s.managers /\ a.device = "ext"
        /\ a.virtual = s.virtual /\ a.keyboard = s.keyboard /\ a.pointer = s.pointer
    BY <1>1 DEF Side
  <2>3. t = IF s.device = "wlr" THEN d ELSE b
    BY <1>3 DEF InitDevice
  <2>4. /\ r \in Creates("ext", s.clip) /\ r \notin Creates("wlr", s.clip) /\ r \notin Destroys(s.clip)
        /\ r \notin StrayDevices(s.clip)
        /\ x \notin Creates("ext", s.clip) /\ x \notin Creates("wlr", s.clip) /\ x \in Destroys(s.clip)
        /\ x \notin StrayDevices(s.clip)
    BY DEF Creates, Destroys, StrayDevices
  <2> HIDE DEF a, r, x
  <2>5. Queue(p, a) = q
    BY <2>2 DEF Queue
  <2>6. /\ b \in Side /\ b.clip = s.clip /\ b.managers = s.managers /\ b.device = "ext"
        /\ b.virtual = s.virtual /\ b.keyboard = s.keyboard /\ b.pointer = s.pointer
    <3>1. Append(a.req, r) \in Seq(Requests)
      BY <2>1, <2>2, AppendProperties DEF Side
    <3> QED BY <2>2, <3>1 DEF Req, Side
  <2>7. /\ \A P : Has(Queue(p, b), P) <=> Has(q, P) \/ r \in P
        /\ \A P, R : Before(q, P, R) /\ (r \in P => r \notin R /\ ~Has(q, R)) => Before(Queue(p, b), P, R)
        /\ Longer(q, Queue(p, b), {"device"})
    BY <2>1, <2>2, <2>5, ReqQueue
  <2>8. CASE s.device # "wlr"
    <3>1. t = b
      BY <2>3, <2>8
    <3>2. s.device = "none"
      BY <1>1, <1>3, <2>8
    <3>3. DevicePart(b, Queue(p, b), devices)
      BY <1>3, <2>4, <2>6, <2>7, <3>2 DEF DevicePart
    <3>4. DeviceDone(b)
      BY <2>6 DEF DeviceDone
    <3>5. Longer(q, Queue(p, b), {"device", "destroy"})
      BY <2>7, LongerFacts
    <3> QED BY <2>6, <3>1, <3>3, <3>4, <3>5
  <2>9. CASE s.device = "wlr"
    <3>1. t = d
      BY <2>3, <2>9
    <3>2. /\ d.clip = s.clip /\ d.managers = s.managers /\ d.device = "ext"
          /\ d.virtual = s.virtual /\ d.keyboard = s.keyboard /\ d.pointer = s.pointer
      BY <2>6 DEF Req, Side
    <3>3. /\ \A P : Has(Queue(p, d), P) <=> Has(q, P) \/ r \in P \/ x \in P
          /\ \A P, R : Before(Queue(p, b), P, R) /\ (x \in P => x \notin R /\ ~Has(Queue(p, b), R)) => Before(Queue(p, d), P, R)
          /\ Longer(Queue(p, b), Queue(p, d), {"destroy"})
      BY <2>1, <2>6, <2>7, ReqQueue
    <3> HIDE DEF b, d
    <3>4. Before(Queue(p, d), Creates("wlr", s.clip), Destroys(s.clip))
      BY <2>4, <2>7, <3>3 DEF DevicePart
    <3>5. DevicePart(d, Queue(p, d), devices)
      BY <1>3, <2>4, <2>9, <3>2, <3>3, <3>4 DEF DevicePart
    <3>6. DeviceDone(d)
      BY <3>2 DEF DeviceDone
    <3>7. Longer(q, Queue(p, d), {"device", "destroy"})
      <4>1. /\ Longer(q, Queue(p, b), {"device", "destroy"})
            /\ Longer(Queue(p, b), Queue(p, d), {"device", "destroy"})
        BY <2>7, <3>3, LongerFacts
      <4> QED BY <4>1, LongerFacts
    <3> QED BY <3>1, <3>2, <3>5, <3>6, <3>7
  <2> QED BY <2>8, <2>9
<1>4. CASE s.device = "none" /\ s.clip # None /\ "ext" \notin s.managers /\ "wlr" \in s.managers
  <2> DEFINE a == [s EXCEPT !.device = "wlr"]
             r == <<"device", "wlr", s.clip>>
             b == Req(a, r)
  <2>1. r \in Requests /\ r[1] = "device"
    BY <1>1, <1>4 DEF Requests
  <2>2. /\ a \in Side /\ a.req = s.req /\ a.clip = s.clip /\ a.managers = s.managers /\ a.device = "wlr"
        /\ a.virtual = s.virtual /\ a.keyboard = s.keyboard /\ a.pointer = s.pointer
    BY <1>1 DEF Side
  <2>3. t = b
    BY <1>4 DEF InitDevice
  <2>4. /\ r \notin Creates("ext", s.clip) /\ r \in Creates("wlr", s.clip) /\ r \notin Destroys(s.clip)
        /\ r \notin StrayDevices(s.clip)
    BY DEF Creates, Destroys, StrayDevices
  <2> HIDE DEF a, r
  <2>5. Queue(p, a) = q
    BY <2>2 DEF Queue
  <2>6. /\ b.clip = s.clip /\ b.managers = s.managers /\ b.device = "wlr"
        /\ b.virtual = s.virtual /\ b.keyboard = s.keyboard /\ b.pointer = s.pointer
    BY <2>2 DEF Req, Side
  <2>7. /\ \A P : Has(Queue(p, b), P) <=> Has(q, P) \/ r \in P
        /\ \A P, R : Before(q, P, R) /\ (r \in P => r \notin R /\ ~Has(q, R)) => Before(Queue(p, b), P, R)
        /\ Longer(q, Queue(p, b), {"device"})
    BY <2>1, <2>2, <2>5, ReqQueue
  <2> HIDE DEF b
  <2>8. Before(Queue(p, b), Creates("wlr", s.clip), Destroys(s.clip))
    BY <1>4, <2>4, <2>7 DEF DevicePart
  <2>9. DevicePart(b, Queue(p, b), devices)
    BY <1>4, <2>4, <2>6, <2>7, <2>8 DEF DevicePart
  <2>10. DeviceDone(b)
    BY <1>4, <2>6 DEF DeviceDone
  <2>11. Longer(q, Queue(p, b), {"device", "destroy"})
    BY <2>7, LongerFacts
  <2> QED BY <2>3, <2>6, <2>9, <2>10, <2>11
<1>5. t = s \/ (s.device # "ext" /\ s.clip # None /\ "ext" \in s.managers)
            \/ (s.device = "none" /\ s.clip # None /\ "ext" \notin s.managers /\ "wlr" \in s.managers)
  BY DEF InitDevice
<1> QED BY <1>2, <1>3, <1>4, <1>5

LEMMA SetKeymapWires ==
  ASSUME NEW s, Proper(s), NEW p \in Seq(Requests), NEW virtual, NEW vmap,
         s.virtual => s.seat # None /\ {"vptr", "vkbd"} \subseteq s.managers,
         s.virtual => virtual = s.seat \/ Has(Queue(p, s), Devises(s.seat)),
         virtual # None => s.virtual /\ virtual = s.seat,
         ~Has(Queue(p, s), StrayVirtuals(s.seat)),
         Has(Queue(p, s), Devises(s.seat)) \/ Has(Queue(p, s), KeymapRequests) => s.virtual,
         ~s.virtual \/ s.keymap = None => ~Has(Queue(p, s), KeymapRequests) /\ vmap = None
  PROVE  LET t == SetKeymap(s) IN
         /\ VirtualPart(t, Queue(p, t), virtual, vmap)
         /\ Longer(Queue(p, s), Queue(p, t), {"keymap"})
         /\ t.device = s.device /\ t.virtual = s.virtual
         /\ t.keyboard = s.keyboard /\ t.pointer = s.pointer
<1> DEFINE t == SetKeymap(s)
           r == <<"keymap", s.keymap>>
           q == Queue(p, s)
<1>1. s \in Side /\ s.keymap \in Keymaps \cup {None} /\ SameSeats(s, t)
  BY SetKeymapProper DEF Proper, Side
<1>2. CASE s.virtual /\ s.keymap # None
  <2>1. t = Req(s, r) /\ r \in Requests /\ r[1] = "keymap"
    BY <1>1, <1>2 DEF SetKeymap, Requests
  <2>2. /\ t.device = s.device /\ t.virtual = s.virtual /\ t.keyboard = s.keyboard /\ t.pointer = s.pointer
    BY <1>1, <2>1 DEF Req, Side
  <2>3. r \in KeymapRequests /\ r \notin Devises(s.seat) /\ r \notin StrayVirtuals(s.seat)
    BY <1>1, <1>2 DEF KeymapRequests, Devises, StrayVirtuals
  <2>4. /\ \A P : Has(Queue(p, t), P) <=> Has(q, P) \/ r \in P
        /\ \A P : r \in P => LastIs(Queue(p, t), P, r)
        /\ Longer(q, Queue(p, t), {"keymap"})
    <3> HIDE DEF r
    <3> QED BY <1>1, <2>1, ReqQueue
  <2>5. t.seat = s.seat /\ t.managers = s.managers /\ t.keymap = s.keymap
    BY <1>1 DEF SameSeats
  <2>6. VirtualPart(t, Queue(p, t), virtual, vmap)
    BY <1>2, <2>2, <2>3, <2>4, <2>5 DEF VirtualPart
  <2> QED BY <2>2, <2>4, <2>6
<1>3. CASE ~(s.virtual /\ s.keymap # None)
  <2>1. t = s
    BY <1>3 DEF SetKeymap
  <2>2. VirtualPart(s, q, virtual, vmap)
    BY <1>3 DEF VirtualPart
  <2> QED BY <2>1, <2>2, LongerFacts
<1> QED BY <1>2, <1>3

LEMMA InitVirtualInputWires ==
  ASSUME NEW s, Proper(s), NEW p \in Seq(Requests), NEW virtual, NEW vmap,
         VirtualPart(s, Queue(p, s), virtual, vmap)
  PROVE  LET t == InitVirtualInput(s) IN
         /\ VirtualPart(t, Queue(p, t), virtual, vmap) /\ VirtualDone(t)
         /\ Longer(Queue(p, s), Queue(p, t), {"virtual", "keymap"})
         /\ t.device = s.device /\ t.keyboard = s.keyboard /\ t.pointer = s.pointer
<1> DEFINE t == InitVirtualInput(s)
           q == Queue(p, s)
<1>1. s \in Side /\ s.seat \in Seats \cup {None}
  BY DEF Proper, Side
<1>2. CASE s.virtual \/ s.seat = None \/ ~{"vptr", "vkbd"} \subseteq s.managers
  <2>1. t = s
    BY <1>2 DEF InitVirtualInput
  <2>2. VirtualDone(s)
    BY <1>2 DEF VirtualDone
  <2> QED BY <2>1, <2>2, LongerFacts
<1>3. CASE ~(s.virtual \/ s.seat = None \/ ~{"vptr", "vkbd"} \subseteq s.managers)
  <2> DEFINE a == [s EXCEPT !.virtual = TRUE]
             r == <<"virtual", s.seat>>
             b == Req(a, r)
  <2>1. t = SetKeymap(b)
    BY <1>3 DEF InitVirtualInput
  <2>2. /\ a \in Side /\ a.req = s.req /\ SameSeats(s, a) /\ a.virtual = TRUE /\ a.device = s.device
        /\ a.keyboard = s.keyboard /\ a.pointer = s.pointer
    BY <1>1 DEF Side, SameSeats
  <2>3. Proper(a) /\ a.caps = s.caps
    BY <2>2 DEF Proper, SameSeats
  <2>4. /\ r \in Requests /\ r[1] = "virtual" /\ r \in Able(a.caps) /\ r \notin Asks
        /\ r \in Devises(s.seat) /\ r \notin StrayVirtuals(s.seat) /\ r \notin KeymapRequests
    BY <1>1, <1>3 DEF Requests, Able, Asks, Devises, StrayVirtuals, KeymapRequests
  <2> HIDE DEF a, r
  <2>5. Queue(p, a) = q
    BY <2>2 DEF Queue
  <2>6. /\ Proper(b) /\ SameSeats(a, b) /\ b.virtual = TRUE /\ b.device = s.device
        /\ b.keyboard = s.keyboard /\ b.pointer = s.pointer
    BY <2>2, <2>3, <2>4, ReqProper
  <2>7. /\ \A P : Has(Queue(p, b), P) <=> Has(q, P) \/ r \in P
        /\ Longer(q, Queue(p, b), {"virtual"})
    BY <2>2, <2>4, <2>5, ReqQueue
  <2>8. /\ b.seat = s.seat /\ b.managers = s.managers /\ b.keymap = s.keymap
    BY <2>2, <2>6 DEF SameSeats
  <2> HIDE DEF b
  <2>9. /\ b.virtual => b.seat # None /\ {"vptr", "vkbd"} \subseteq b.managers
        /\ b.virtual => virtual = b.seat \/ Has(Queue(p, b), Devises(b.seat))
        /\ virtual # None => b.virtual /\ virtual = b.seat
        /\ ~Has(Queue(p, b), StrayVirtuals(b.seat))
        /\ Has(Queue(p, b), Devises(b.seat)) \/ Has(Queue(p, b), KeymapRequests) => b.virtual
        /\ ~b.virtual \/ b.keymap = None => ~Has(Queue(p, b), KeymapRequests) /\ vmap = None
    BY <1>3, <2>4, <2>6, <2>7, <2>8 DEF VirtualPart
  <2>10. /\ VirtualPart(t, Queue(p, t), virtual, vmap)
         /\ Longer(Queue(p, b), Queue(p, t), {"keymap"})
         /\ t.device = s.device /\ t.virtual = TRUE
         /\ t.keyboard = s.keyboard /\ t.pointer = s.pointer
    BY <2>1, <2>6, <2>9, SetKeymapWires
  <2>11. Longer(q, Queue(p, t), {"virtual", "keymap"})
    <3>1. /\ Longer(q, Queue(p, b), {"virtual", "keymap"})
          /\ Longer(Queue(p, b), Queue(p, t), {"virtual", "keymap"})
      BY <2>7, <2>10, LongerFacts
    <3> QED BY <3>1, LongerFacts
  <2>12. VirtualDone(t)
    BY <2>10 DEF VirtualDone
  <2> QED BY <2>10, <2>11, <2>12
<1> QED BY <1>2, <1>3

LEMMA SyncSeatDevicesWires ==
  ASSUME NEW s, Proper(s), s.seat \in Seats, NEW p \in Seq(Requests), NEW w, NEW had,
         KeysPart(s, Queue(p, s), w, had), Within(s.caps, had)
  PROVE  LET t == SyncSeatDevices(s) IN
         /\ KeysPart(t, Queue(p, t), w, had) /\ KeysDone(t)
         /\ Longer(Queue(p, s), Queue(p, t), {"get_keyboard", "get_pointer"})
         /\ t.device = s.device /\ t.virtual = s.virtual
         /\ (s.keyboard => t.keyboard) /\ (s.pointer => t.pointer)
<1> DEFINE t == SyncSeatDevices(s)
           q == Queue(p, s)
           a == [s EXCEPT !.keyboard = TRUE]
           x == <<"get_keyboard", s.seat>>
           y == <<"get_pointer", s.seat>>
           b == IF "keyboard" \in s.caps[s.seat] /\ ~s.keyboard THEN Req(a, x) ELSE s
           d == [b EXCEPT !.pointer = TRUE]
<1>1. /\ s \in Side /\ s.keyboard \in BOOLEAN /\ s.pointer \in BOOLEAN /\ s.caps \in [Seats -> SUBSET Caps]
      /\ SameSeats(s, t)
  BY SyncSeatDevicesProper DEF Proper, Side
<1>2. /\ a \in Side /\ a.req = s.req /\ a.keyboard = TRUE /\ a.pointer = s.pointer /\ a.caps = s.caps
      /\ a.device = s.device /\ a.virtual = s.virtual
  BY <1>1 DEF Side
<1>3. x \in Requests /\ y \in Requests /\ x[1] = "get_keyboard" /\ y[1] = "get_pointer"
  BY DEF Requests
<1>4. t = IF "pointer" \in b.caps[b.seat] /\ ~b.pointer THEN Req(d, <<"get_pointer", b.seat>>) ELSE b
  <2>1. b.caps = s.caps /\ b.seat = s.seat
    BY <1>1 DEF Side, Req
  <2> QED BY <2>1 DEF SyncSeatDevices
<1> HIDE DEF a, x
<1>5. Queue(p, a) = q
  BY <1>2 DEF Queue
<1>6. /\ b \in Side /\ b.caps = s.caps /\ b.seat = s.seat /\ b.pointer = s.pointer
      /\ b.keyboard = (s.keyboard \/ "keyboard" \in s.caps[s.seat])
      /\ b.device = s.device /\ b.virtual = s.virtual
      /\ Longer(q, Queue(p, b), {"get_keyboard"})
  <2>1. CASE "keyboard" \in s.caps[s.seat] /\ ~s.keyboard
    <3>1. b = Req(a, x)
      BY <2>1
    <3>2. Longer(q, Queue(p, b), {"get_keyboard"})
      BY <1>2, <1>3, <1>5, <3>1, ReqQueue
    <3>3. Append(a.req, x) \in Seq(Requests)
      BY <1>2, <1>3, AppendProperties DEF Side
    <3>4. b \in Side /\ b.seat = a.seat /\ b.pointer = a.pointer /\ b.keyboard = a.keyboard /\ b.caps = a.caps
          /\ b.device = a.device /\ b.virtual = a.virtual
      BY <1>2, <3>1, <3>3 DEF Req, Side
    <3>5. a.seat = s.seat
      BY <1>1 DEF a, Side
    <3> QED BY <1>2, <2>1, <3>2, <3>4, <3>5
  <2>2. CASE ~("keyboard" \in s.caps[s.seat] /\ ~s.keyboard)
    <3>1. b = s
      BY <2>2
    <3> QED BY <1>1, <2>2, <3>1, LongerFacts
  <2> QED BY <2>1, <2>2
<1> HIDE DEF b
<1>7. /\ t.keyboard = (s.keyboard \/ "keyboard" \in s.caps[s.seat])
      /\ t.pointer = (s.pointer \/ "pointer" \in s.caps[s.seat])
      /\ t.device = s.device /\ t.virtual = s.virtual
      /\ Longer(Queue(p, b), Queue(p, t), {"get_pointer"})
  <2>1. CASE "pointer" \in s.caps[s.seat] /\ ~s.pointer
    <3>1. t = Req(d, y)
      BY <1>4, <1>6, <2>1
    <3>2. /\ d \in Side /\ d.req = b.req /\ d.pointer = TRUE /\ d.keyboard = b.keyboard
          /\ d.device = s.device /\ d.virtual = s.virtual
      BY <1>6 DEF Side
    <3>3. Queue(p, d) = Queue(p, b)
      BY <3>2 DEF Queue
    <3> HIDE DEF d, y
    <3>4. Longer(Queue(p, b), Queue(p, t), {"get_pointer"})
      BY <1>3, <3>1, <3>2, <3>3, ReqQueue
    <3>5. t.pointer = d.pointer /\ t.keyboard = d.keyboard /\ t.device = d.device /\ t.virtual = d.virtual
      BY <3>1, <3>2 DEF Req, Side
    <3> QED BY <1>6, <2>1, <3>2, <3>4, <3>5
  <2>2. CASE ~("pointer" \in s.caps[s.seat] /\ ~s.pointer)
    <3>1. t = b
      BY <1>4, <1>6, <2>2
    <3> QED BY <1>1, <1>6, <2>2, <3>1, LongerFacts
  <2> QED BY <2>1, <2>2
<1>8. Longer(q, Queue(p, t), {"get_keyboard", "get_pointer"})
  <2>1. /\ Longer(q, Queue(p, b), {"get_keyboard", "get_pointer"})
        /\ Longer(Queue(p, b), Queue(p, t), {"get_keyboard", "get_pointer"})
    BY <1>6, <1>7, LongerFacts
  <2> QED BY <2>1, LongerFacts
<1>9. t.seat = s.seat /\ t.pending = s.pending /\ t.caps = s.caps
  BY <1>1 DEF SameSeats
<1>10. KeysPart(t, Queue(p, t), w, had)
  <2>1. \A n : Has(Queue(p, t), Binds(n)) <=> Has(q, Binds(n))
    BY <1>8 DEF Longer, Clear, Binds
  <2>2. s.caps[s.seat] # {} => had[s.seat] = Caps
    BY DEF KeysPart, Within
  <2>3. t.keyboard \/ t.pointer => had[s.seat] = Caps
    BY <1>7, <2>2 DEF KeysPart
  <2>4. (s.keyboard => t.keyboard) /\ (s.pointer => t.pointer) /\ s.seat # None
    BY <1>7, SeatsAreNone
  <2> HIDE DEF t
  <2> QED BY <1>9, <2>1, <2>3, <2>4 DEF KeysPart
<1>11. KeysDone(t)
  <2> HIDE DEF t
  <2> QED BY <1>7, <1>9 DEF KeysDone, Caps
<1> QED BY <1>7, <1>8, <1>10, <1>11

\* The parts the devices are about, with x the compositor and w the events on
\* their way, and what they come to.
Parts(p, s, w, x) ==
  /\ DevicePart(s, Queue(p, s), x.devices)
  /\ VirtualPart(s, Queue(p, s), x.virtual, x.vmap)
  /\ KeysPart(s, Queue(p, s), w, x.had)
Dones(s) == DeviceDone(s) /\ VirtualDone(s) /\ KeysDone(s)

\* The requests that follow from the choice of a seat.
Wiring == {"device", "destroy", "virtual", "keymap", "get_keyboard", "get_pointer"}

\* The clipboard is given a seat.
LEMMA DeviceClaims ==
  ASSUME NEW s \in Side, NEW t, NEW q, NEW devices \in SUBSET ({"ext", "wlr"} \X Seats), DevicePart(s, q, devices),
         s.clip = None, t.clip \in Seats, t.device = s.device
  PROVE  DevicePart(t, q, devices)
<1>1. devices = {} /\ s.device = "none"
  BY SeatsAreNone DEF DevicePart, Side
<1>2. \A P : P \subseteq {"device", "destroy"} \X {"ext", "wlr"} \X Seats => ~Has(q, P)
  <2>1. StrayDevices(None) = {"device", "destroy"} \X {"ext", "wlr"} \X Seats
    BY SeatsAreNone DEF StrayDevices, Creates, Destroys
  <2>2. ~Has(q, StrayDevices(None))
    BY DEF DevicePart
  <2> QED BY <2>1, <2>2 DEF Has
<1>3. /\ ~Has(q, Creates("ext", t.clip)) /\ ~Has(q, Creates("wlr", t.clip)) /\ ~Has(q, Destroys(t.clip))
      /\ ~Has(q, StrayDevices(t.clip))
  BY <1>2 DEF Creates, Destroys, StrayDevices
<1>4. Before(q, Creates("wlr", t.clip), Destroys(t.clip))
  BY <1>3 DEF Has, Before
<1> QED BY <1>1, <1>3, <1>4 DEF DevicePart

LEMMA SelectSeatWires ==
  ASSUME NEW s, Proper(s), NEW n \in Seats, NEW p \in Seq(Requests), NEW w, NEW x \in CompositorType,
         Parts(p, s, w, x), Within(s.caps, x.had), s.seat \in {None, n},
         n \in s.pending \/ n = s.seat \/ Has(Queue(p, s), Binds(n))
  PROVE  LET t == SelectSeat(s, n) IN
         Parts(p, t, w, x) /\ Dones(t) /\ Longer(Queue(p, s), Queue(p, t), Wiring)
<1> DEFINE clip == IF s.clip = None THEN n ELSE s.clip
           a == [s EXCEPT !.clip = clip, !.seat = n, !.pending = {}]
           b == InitDevice(a)
           d == InitVirtualInput(b)
           t == SyncSeatDevices(d)
           q == Queue(p, s)
<1>1. s \in Side /\ s.clip \in Seats \cup {None} /\ s.device \in {"none", "wlr", "ext"} /\ q \in Seq(Requests)
  <2>1. s \in Side /\ s.req \in Seq(Requests)
    BY DEF Proper, Side
  <2> QED BY <2>1 DEF Side, Queue
<1>2. SelectSeat(s, n) = t
  BY DEF SelectSeat
<1>3. /\ a \in Side /\ a.clip = clip /\ a.seat = n /\ a.pending = {} /\ a.req = s.req
      /\ a.device = s.device /\ a.virtual = s.virtual /\ a.keyboard = s.keyboard /\ a.pointer = s.pointer
      /\ a.caps = s.caps /\ a.managers = s.managers /\ a.keymap = s.keymap
  <2>1. clip \in Seats \cup {None}
    BY <1>1
  <2> HIDE DEF clip
  <2> QED BY <1>1, <2>1 DEF Side
<1> HIDE DEF a, t
<1>4. Proper(a) /\ Queue(p, a) = q
  BY <1>3 DEF Proper, Queue
<1>5. DevicePart(a, q, x.devices)
  <2>1. CASE s.clip # None
    BY <1>3, <2>1 DEF Parts, DevicePart
  <2>2. CASE s.clip = None
    <3>1. clip \in Seats
      BY <1>1
    <3> HIDE DEF clip
    <3>2. x.devices \in SUBSET ({"ext", "wlr"} \X Seats)
      BY DEF CompositorType
    <3> QED BY <1>1, <1>3, <2>2, <3>1, <3>2, DeviceClaims DEF Parts
  <2> QED BY <2>1, <2>2
<1>6. VirtualPart(a, q, x.virtual, x.vmap)
  <2>1. CASE s.seat = n
    BY <1>3, <2>1 DEF Parts, VirtualPart
  <2>2. CASE s.seat = None
    <3>1. ~s.virtual /\ x.virtual = None
      BY <2>2 DEF Parts, VirtualPart
    <3>2. ~Has(q, Devises(n)) /\ ~Has(q, StrayVirtuals(n))
      <4>1. StrayVirtuals(None) = {"virtual"} \X Seats
        BY SeatsAreNone DEF StrayVirtuals, Devises
      <4>2. ~Has(q, StrayVirtuals(None))
        BY <2>2 DEF Parts, VirtualPart
      <4> QED BY <4>1, <4>2 DEF Has, Devises, StrayVirtuals
    <3> QED BY <1>3, <3>1, <3>2 DEF Parts, VirtualPart
  <2> QED BY <2>1, <2>2
<1>7. KeysPart(a, q, w, x.had)
  BY <1>3, SeatsAreNone DEF Parts, KeysPart
<1>8. /\ Proper(b) /\ SameSeats(a, b) /\ DevicePart(b, Queue(p, b), x.devices) /\ DeviceDone(b)
      /\ Longer(q, Queue(p, b), {"device", "destroy"})
      /\ b.virtual = a.virtual /\ b.keyboard = a.keyboard /\ b.pointer = a.pointer
  BY <1>4, <1>5, InitDeviceProper, InitDeviceWires
<1>9. VirtualPart(b, Queue(p, b), x.virtual, x.vmap) /\ KeysPart(b, Queue(p, b), w, x.had)
  <2>1. /\ b.seat = a.seat /\ b.managers = a.managers /\ b.keymap = a.keymap /\ b.pending = a.pending
        /\ b.caps = a.caps
    BY <1>8 DEF SameSeats
  <2> HIDE DEF b
  <2> QED BY <1>6, <1>7, <1>8, <2>1, VirtualKept, KeysKept
<1> HIDE DEF b
<1>10. /\ Proper(d) /\ SameSeats(b, d) /\ VirtualPart(d, Queue(p, d), x.virtual, x.vmap) /\ VirtualDone(d)
       /\ Longer(Queue(p, b), Queue(p, d), {"virtual", "keymap"})
       /\ d.device = b.device /\ d.keyboard = b.keyboard /\ d.pointer = b.pointer
  BY <1>8, <1>9, InitVirtualInputProper, InitVirtualInputWires
<1>11. DevicePart(d, Queue(p, d), x.devices) /\ KeysPart(d, Queue(p, d), w, x.had) /\ DeviceDone(d)
  <2>1. /\ d.seat = b.seat /\ d.managers = b.managers /\ d.clip = b.clip /\ d.pending = b.pending
        /\ d.caps = b.caps
    BY <1>10 DEF SameSeats
  <2> HIDE DEF d
  <2>2. DevicePart(d, Queue(p, d), x.devices)
    BY <1>8, <1>10, <2>1, DeviceKept
  <2>3. KeysPart(d, Queue(p, d), w, x.had)
    BY <1>9, <1>10, <2>1, KeysKept
  <2>4. DeviceDone(d)
    BY <1>8, <1>10, <2>1 DEF DeviceDone
  <2> QED BY <2>2, <2>3, <2>4
<1> HIDE DEF d
<1>12. d.seat \in Seats /\ Within(d.caps, x.had)
  BY <1>3, <1>8, <1>10 DEF SameSeats
<1>13. /\ Proper(t) /\ SameSeats(d, t) /\ KeysPart(t, Queue(p, t), w, x.had) /\ KeysDone(t)
       /\ Longer(Queue(p, d), Queue(p, t), {"get_keyboard", "get_pointer"})
       /\ t.device = d.device /\ t.virtual = d.virtual
  BY <1>10, <1>11, <1>12, SyncSeatDevicesProper, SyncSeatDevicesWires DEF t
<1>14. /\ t.seat = d.seat /\ t.managers = d.managers /\ t.clip = d.clip /\ t.keymap = d.keymap
  BY <1>13 DEF SameSeats
<1>15. DevicePart(t, Queue(p, t), x.devices) /\ DeviceDone(t)
  <2>1. DevicePart(t, Queue(p, t), x.devices)
    BY <1>11, <1>13, <1>14, DeviceKept
  <2> QED BY <1>11, <1>13, <1>14, <2>1 DEF DeviceDone
<1>16. VirtualPart(t, Queue(p, t), x.virtual, x.vmap) /\ VirtualDone(t)
  <2>1. VirtualPart(t, Queue(p, t), x.virtual, x.vmap)
    BY <1>10, <1>13, <1>14, VirtualKept
  <2> QED BY <1>10, <1>13, <1>14, <2>1 DEF VirtualDone
<1>17. Longer(q, Queue(p, t), Wiring)
  <2>1. /\ Longer(q, Queue(p, b), Wiring) /\ Longer(Queue(p, b), Queue(p, d), Wiring)
        /\ Longer(Queue(p, d), Queue(p, t), Wiring)
    BY <1>8, <1>10, <1>13, LongerFacts DEF Wiring
  <2> QED BY <2>1, LongerFacts
<1> QED BY <1>2, <1>13, <1>15, <1>16, <1>17 DEF Parts, Dones

\* The parts only see these of this side.
LEMMA PartsSame ==
  ASSUME NEW s, NEW t, NEW p, NEW w, NEW x, Parts(p, s, w, x),
         t.req = s.req, t.device = s.device, t.virtual = s.virtual, t.keyboard = s.keyboard,
         t.pointer = s.pointer, t.seat = s.seat, t.caps = s.caps, t.keymap = s.keymap,
         t.managers = s.managers, t.clip = s.clip, t.pending \subseteq s.pending
  PROVE  Parts(p, t, w, x) /\ (Dones(s) => Dones(t))
<1>1. Queue(p, t) = Queue(p, s)
  BY DEF Queue
<1>2. Longer(Queue(p, s), Queue(p, t), {})
  BY <1>1, LongerFacts
<1>3. DevicePart(t, Queue(p, t), x.devices)
  BY <1>2, DeviceKept DEF Parts
<1>4. VirtualPart(t, Queue(p, t), x.virtual, x.vmap)
  BY <1>2, VirtualKept DEF Parts
<1>5. KeysPart(t, Queue(p, t), w, x.had)
  BY <1>2, KeysKept DEF Parts
<1> QED BY <1>3, <1>4, <1>5 DEF Parts, Dones, DeviceDone, VirtualDone, KeysDone

LEMMA AdoptWires ==
  ASSUME NEW s, Proper(s), Choice(s), NEW p \in Seq(Requests), NEW w, NEW x \in CompositorType,
         Parts(p, s, w, x), Dones(s), Within(s.caps, x.had)
  PROVE  LET t == Adopt(s) IN
         Parts(p, t, w, x) /\ Dones(t) /\ Longer(Queue(p, s), Queue(p, t), Wiring)
<1>1. CASE s.global \in s.pending
  <2>1. s.global \in Seats /\ s.global = Ours /\ s.seat \in {None, Ours}
    <3>1. s.pending \subseteq Seats
      BY DEF Proper, Side
    <3> QED BY <1>1, <3>1, SeatsAreNone DEF Choice
  <2>2. Adopt(s) = SelectSeat(s, s.global)
    BY <1>1 DEF Adopt
  <2>3. s.seat \in {None, s.global}
    BY <2>1
  <2> QED BY <1>1, <2>1, <2>2, <2>3, SelectSeatWires
<1>2. CASE s.global \notin s.pending
  BY <1>2, LongerFacts DEF Adopt
<1> QED BY <1>1, <1>2

\* What is said of the queue once seat n has been bound.
LEMMA SeatAnnouncedWires ==
  ASSUME NEW s, Proper(s), Choice(s), NEW n \in Seats, NEW p \in Seq(Requests), NEW w,
         NEW x \in CompositorType, Parts(p, s, w, x), Dones(s), Within(s.caps, x.had)
  PROVE  LET t == SeatAnnounced(s, n) IN
         /\ Parts(p, t, w, x) /\ Dones(t)
         /\ Has(Queue(p, t), Asks) <=> Has(Queue(p, s), Asks)
         /\ \A m : Has(Queue(p, t), Binds(m)) <=> Has(Queue(p, s), Binds(m)) \/ m = n
         /\ t.mode = s.mode /\ t.asked = s.asked /\ t.global = s.global
         /\ \/ /\ t.seat = n /\ t.pending = {}
               /\ (s.mode = "first" /\ s.seat = None) \/ (s.mode = "transient" /\ s.global = n)
            \/ /\ t.seat = s.seat /\ t.pending = s.pending \cup {n}
               /\ s.mode = "named" \/ (s.mode = "transient" /\ s.global # n)
            \/ t.seat = s.seat /\ t.pending = s.pending /\ s.mode = "first" /\ s.seat # None
<1> DEFINE r == <<"bind", n>>
           a == Req(s, r)
           b == [a EXCEPT !.pending = a.pending \cup {n}]
           q == Queue(p, s)
           t == SeatAnnounced(s, n)
<1>1. r \in Requests /\ r \in Able(s.caps) /\ r \notin Asks /\ r[1] = "bind" /\ (\A m : r \in Binds(m) <=> m = n)
  BY DEF Requests, Able, Asks, Binds
<1>2. s \in Side
  BY DEF Proper
<1>3. t = CASE s.mode = "first" -> IF s.seat = None THEN SelectSeat(a, n) ELSE a
            [] s.mode = "named" -> b
            [] s.mode = "transient" -> IF s.global = n THEN Adopt(b) ELSE b
  BY DEF SeatAnnounced
<1> HIDE DEF r, t
<1>4. /\ Proper(a) /\ SameSeats(s, a) /\ a \in Side /\ a.virtual = s.virtual /\ a.device = s.device
      /\ a.keyboard = s.keyboard /\ a.pointer = s.pointer
  BY <1>1, ReqProper
<1>5. /\ \A P : Has(Queue(p, a), P) <=> Has(q, P) \/ r \in P
      /\ Longer(q, Queue(p, a), {"bind"})
  BY <1>1, <1>2, ReqQueue
<1>6. /\ a.mode = s.mode /\ a.seat = s.seat /\ a.clip = s.clip /\ a.asked = s.asked /\ a.global = s.global
      /\ a.pending = s.pending /\ a.caps = s.caps /\ a.managers = s.managers /\ a.keymap = s.keymap
  BY <1>4 DEF SameSeats
<1> HIDE DEF a
<1>7. /\ b \in Side /\ b.req = a.req /\ b.mode = s.mode /\ b.seat = s.seat /\ b.clip = s.clip
      /\ b.asked = s.asked /\ b.global = s.global /\ b.pending = s.pending \cup {n} /\ b.caps = s.caps
      /\ b.managers = s.managers /\ b.keymap = s.keymap
      /\ b.virtual = s.virtual /\ b.device = s.device /\ b.keyboard = s.keyboard /\ b.pointer = s.pointer
  <2>1. a.pending \cup {n} \in SUBSET Seats
    BY <1>4 DEF Side
  <2> QED BY <1>4, <1>6, <2>1 DEF Side
<1> HIDE DEF b
<1>8. Proper(b) /\ Choice(b) /\ Queue(p, b) = Queue(p, a)
  <2>1. Proper(b)
    BY <1>4, <1>6, <1>7 DEF Proper
  <2>2. Choice(b)
    BY <1>7 DEF Choice
  <2> QED BY <1>7, <2>1, <2>2 DEF Queue
<1>9. \A v \in {a, b} : Parts(p, v, w, x) /\ Dones(v)
  <2> SUFFICES ASSUME NEW v \in {a, b} PROVE Parts(p, v, w, x) /\ Dones(v)
    OBVIOUS
  <2>1. /\ v.device = s.device /\ v.virtual = s.virtual /\ v.keyboard = s.keyboard /\ v.pointer = s.pointer
        /\ v.seat = s.seat /\ v.caps = s.caps /\ v.keymap = s.keymap /\ v.managers = s.managers
        /\ v.clip = s.clip /\ v.pending \subseteq s.pending \cup {n} /\ Queue(p, v) = Queue(p, a)
    <3>1. CASE v = a
      BY <1>4, <1>6, <3>1
    <3>2. CASE v = b
      BY <1>7, <1>8, <3>2
    <3> QED BY <3>1, <3>2
  <2> HIDE DEF q
  <2>2. DevicePart(v, Queue(p, v), x.devices)
    BY <1>5, <2>1, DeviceKept DEF Parts, q
  <2>3. VirtualPart(v, Queue(p, v), x.virtual, x.vmap)
    BY <1>5, <2>1, VirtualKept DEF Parts, q
  <2>4. KeysPart(v, Queue(p, v), w, x.had)
    <3>1. KeysPart(s, q, w, x.had)
      BY DEF Parts, q
    <3>2. \A m : Has(Queue(p, v), Binds(m)) <=> Has(q, Binds(m)) \/ m = n
      BY <1>1, <1>5, <2>1
    <3> QED BY <2>1, <3>1, <3>2 DEF KeysPart
  <2> QED BY <2>1, <2>2, <2>3, <2>4 DEF Parts, Dones, DeviceDone, VirtualDone, KeysDone
<1>10. ASSUME NEW v, Longer(Queue(p, a), Queue(p, v), Wiring)
       PROVE  /\ Has(Queue(p, v), Asks) <=> Has(q, Asks)
              /\ \A m : Has(Queue(p, v), Binds(m)) <=> Has(q, Binds(m)) \/ m = n
  <2>1. Clear(Asks, Wiring) /\ \A m : Clear(Binds(m), Wiring)
    BY DEF Clear, Asks, Binds, Wiring
  <2> QED BY <1>1, <1>5, <1>10, <2>1 DEF Longer
<1>11. CASE s.mode = "first" /\ s.seat = None
  <2>1. t = SelectSeat(a, n)
    BY <1>3, <1>11
  <2>2. Has(Queue(p, a), Binds(n)) /\ Within(a.caps, x.had) /\ a.seat \in {None, n}
    BY <1>1, <1>5, <1>6, <1>11
  <2>3. Parts(p, t, w, x) /\ Dones(t) /\ Longer(Queue(p, a), Queue(p, t), Wiring)
    BY <1>4, <1>9, <2>1, <2>2, SelectSeatWires
  <2>4. t.seat = n /\ t.pending = {} /\ t.mode = s.mode /\ t.asked = s.asked /\ t.global = s.global
    BY <1>4, <1>6, <2>1, SelectSeatProper
  <2> QED BY <1>10, <1>11, <2>3, <2>4 DEF t
<1>12. CASE s.mode = "first" /\ s.seat # None
  <2>1. t = a
    BY <1>3, <1>12
  <2>2. Longer(Queue(p, a), Queue(p, t), Wiring)
    BY <2>1, LongerFacts
  <2> QED BY <1>6, <1>9, <1>10, <1>12, <2>1, <2>2 DEF t
<1>13. CASE s.mode = "named" \/ (s.mode = "transient" /\ s.global # n)
  <2>1. t = b
    BY <1>3, <1>13
  <2>2. Longer(Queue(p, a), Queue(p, t), Wiring)
    BY <1>8, <2>1, LongerFacts
  <2> QED BY <1>7, <1>9, <1>10, <1>13, <2>1, <2>2 DEF t
<1>14. CASE s.mode = "transient" /\ s.global = n
  <2>1. t = SelectSeat(b, n)
    BY <1>3, <1>7, <1>14 DEF Adopt
  <2>2. n \in b.pending /\ Within(b.caps, x.had) /\ b.seat \in {None, n}
    BY <1>7, <1>14, SeatsAreNone DEF Choice
  <2>3. Parts(p, t, w, x) /\ Dones(t) /\ Longer(Queue(p, a), Queue(p, t), Wiring)
    BY <1>8, <1>9, <2>1, <2>2, SelectSeatWires
  <2>4. t.seat = n /\ t.pending = {} /\ t.mode = s.mode /\ t.asked = s.asked /\ t.global = s.global
    BY <1>7, <1>8, <2>1, SelectSeatProper
  <2> QED BY <1>10, <1>14, <2>3, <2>4 DEF t
<1>15. s.mode \in {"first", "named", "transient"}
  BY <1>2 DEF Side
<1> QED BY <1>11, <1>12, <1>13, <1>14, <1>15

\* The seat chosen is the lowest pending, if any is.
LEMMA FallbackWires ==
  ASSUME NEW s, Proper(s), NEW p \in Seq(Requests), NEW w,
         NEW x \in CompositorType, Parts(p, s, w, x), Dones(s), Within(s.caps, x.had)
  PROVE  LET t == Fallback(s) IN
         /\ Parts(p, t, w, x) /\ Dones(t) /\ Longer(Queue(p, s), Queue(p, t), Wiring)
         /\ t.mode = "first" /\ t.asked = FALSE /\ t.global = None
         /\ \/ s.seat = None /\ t.seat \in s.pending /\ t.pending = {}
            \/ t.seat = s.seat /\ t.pending = s.pending /\ (s.seat # None \/ s.pending = {})
<1> DEFINE a == [s EXCEPT !.mode = "first", !.asked = FALSE, !.global = None]
           t == Fallback(s)
           n == Lowest(s.pending)
<1>1. s \in Side /\ s.pending \in SUBSET Seats
  BY DEF Proper, Side
<1>2. /\ a \in Side /\ a.req = s.req /\ a.device = s.device /\ a.virtual = s.virtual
      /\ a.keyboard = s.keyboard /\ a.pointer = s.pointer /\ a.seat = s.seat /\ a.caps = s.caps
      /\ a.keymap = s.keymap /\ a.managers = s.managers /\ a.clip = s.clip /\ a.pending = s.pending
      /\ a.mode = "first" /\ a.asked = FALSE /\ a.global = None
  BY <1>1 DEF Side
<1>3. t = IF s.seat = None /\ s.pending # {} THEN SelectSeat(a, n) ELSE a
  BY DEF Fallback
<1> HIDE DEF a, t, n
<1>4. Proper(a) /\ Queue(p, a) = Queue(p, s)
  BY <1>2 DEF Proper, Queue
<1>5. Parts(p, a, w, x) /\ Dones(a)
  BY <1>2, PartsSame
<1>6. CASE s.seat = None /\ s.pending # {}
  <2>1. n \in s.pending /\ n \in Seats
    BY <1>1, <1>6, LowestIsIn DEF n
  <2>2. Parts(p, t, w, x) /\ Dones(t) /\ Longer(Queue(p, a), Queue(p, t), Wiring)
    BY <1>2, <1>3, <1>4, <1>5, <1>6, <2>1, SelectSeatWires
  <2>3. t.seat = n /\ t.pending = {} /\ t.mode = a.mode /\ t.asked = a.asked /\ t.global = a.global
    BY <1>3, <1>4, <1>6, <2>1, SelectSeatProper
  <2> QED BY <1>2, <1>4, <1>6, <2>1, <2>2, <2>3 DEF t
<1>7. CASE ~(s.seat = None /\ s.pending # {})
  BY <1>2, <1>3, <1>4, <1>5, <1>7, LongerFacts DEF t
<1> QED BY <1>6, <1>7

\* Ours is chosen if its global is there.
LEMMA ReadyWires ==
  ASSUME NEW s, Proper(s), Choice(s), s.asked, s.global = None, NEW p \in Seq(Requests), NEW w,
         NEW x \in CompositorType, Parts(p, s, w, x), Dones(s), Within(s.caps, x.had)
  PROVE  LET t == Ready(s, Ours) IN
         /\ Parts(p, t, w, x) /\ Dones(t) /\ Longer(Queue(p, s), Queue(p, t), Wiring)
         /\ t.mode = s.mode /\ t.asked = s.asked /\ t.global = Ours
         /\ \/ Ours \in s.pending /\ t.seat = Ours /\ t.pending = {}
            \/ Ours \notin s.pending /\ t.seat = None /\ t.pending = s.pending
<1> DEFINE real == s.pending \ {Ours}
           clip == IF real # {} THEN Lowest(real) ELSE None
           a == [s EXCEPT !.global = Ours, !.clip = clip]
           t == Ready(s, Ours)
<1>1. s \in Side /\ s.pending \in SUBSET Seats /\ s.mode = "transient" /\ s.seat = None /\ s.clip = None
  BY DEF Proper, Side, Choice
<1>2. clip \in Seats \cup {None} /\ (clip \in Seats => clip \in Real)
  <2>1. real \in SUBSET Seats /\ real \subseteq Real
    BY <1>1 DEF Seats
  <2>2. real # {} => Lowest(real) \in real
    BY <2>1, LowestIsIn
  <2> QED BY <2>1, <2>2, SeatsAreNone
<1>3. t = Adopt(a)
  <2> DEFINE g == [s EXCEPT !.global = Ours]
  <2>1. t = Adopt(IF s.clip = None /\ real # {} THEN [g EXCEPT !.clip = Lowest(real)] ELSE g)
    BY DEF Ready
  <2>2. a = IF s.clip = None /\ real # {} THEN [g EXCEPT !.clip = Lowest(real)] ELSE g
    BY <1>1 DEF Side
  <2> QED BY <2>1, <2>2
<1> HIDE DEF clip
<1>4. /\ a \in Side /\ a.req = s.req /\ a.device = s.device /\ a.virtual = s.virtual
      /\ a.keyboard = s.keyboard /\ a.pointer = s.pointer /\ a.seat = s.seat /\ a.caps = s.caps
      /\ a.keymap = s.keymap /\ a.managers = s.managers /\ a.clip = clip /\ a.pending = s.pending
      /\ a.mode = s.mode /\ a.asked = s.asked /\ a.global = Ours
  BY <1>1, <1>2, SeatsAreNone DEF Side
<1> HIDE DEF a, t
<1>5. Proper(a) /\ Choice(a) /\ Queue(p, a) = Queue(p, s)
  <2>1. Proper(a)
    BY <1>4 DEF Proper
  <2>2. Choice(a)
    BY <1>1, <1>2, <1>4, SeatsAreNone DEF Choice
  <2> QED BY <1>4, <2>1, <2>2 DEF Queue
<1>6. Parts(p, a, w, x) /\ Dones(a)
  <2>1. Longer(Queue(p, s), Queue(p, a), {})
    BY <1>5, LongerFacts
  <2>2. DevicePart(a, Queue(p, a), x.devices)
    <3>1. CASE clip = None
      BY <1>1, <1>4, <2>1, <3>1, DeviceKept DEF Parts
    <3>2. CASE clip \in Seats
      <4>1. x.devices \in SUBSET ({"ext", "wlr"} \X Seats)
        BY DEF CompositorType
      <4> QED BY <1>1, <1>4, <1>5, <3>2, <4>1, DeviceClaims DEF Parts
    <3> QED BY <1>2, <3>1, <3>2
  <2>3. VirtualPart(a, Queue(p, a), x.virtual, x.vmap)
    BY <1>4, <2>1, VirtualKept DEF Parts
  <2>4. KeysPart(a, Queue(p, a), w, x.had)
    BY <1>4, <2>1, KeysKept DEF Parts
  <2>5. Dones(a)
    BY <1>1, <1>4 DEF Dones, DeviceDone, VirtualDone, KeysDone
  <2> QED BY <2>2, <2>3, <2>4, <2>5 DEF Parts
<1>7. Parts(p, t, w, x) /\ Dones(t) /\ Longer(Queue(p, s), Queue(p, t), Wiring)
  BY <1>3, <1>4, <1>5, <1>6, AdoptWires
<1>8. CASE Ours \in s.pending
  <2>1. t = SelectSeat(a, Ours)
    BY <1>3, <1>4, <1>8 DEF Adopt
  <2>2. t.seat = Ours /\ t.pending = {} /\ t.mode = a.mode /\ t.asked = a.asked /\ t.global = a.global
    BY <1>5, <2>1, SelectSeatProper, SeatsAreNone
  <2> QED BY <1>4, <1>7, <1>8, <2>2 DEF t
<1>9. CASE Ours \notin s.pending
  BY <1>1, <1>3, <1>4, <1>7, <1>9 DEF Adopt, t
<1> QED BY <1>8, <1>9

\* No seat is chosen, but a transient one may be asked for.
LEMMA ManagerWires ==
  ASSUME NEW s, Proper(s), NEW m \in AllManagers, NEW p \in Seq(Requests), NEW w,
         NEW x \in CompositorType, Parts(p, s, w, x), Dones(s)
  PROVE  LET t == ManagerBound(s, m) IN
         /\ Parts(p, t, w, x) /\ Dones(t)
         /\ t.mode = s.mode /\ t.seat = s.seat /\ t.pending = s.pending /\ t.global = s.global
         /\ \A n : Has(Queue(p, t), Binds(n)) <=> Has(Queue(p, s), Binds(n))
         /\ IF m = "transient" /\ s.mode = "transient"
            THEN t.asked /\ Has(Queue(p, t), Asks)
            ELSE t.asked = s.asked /\ (Has(Queue(p, t), Asks) <=> Has(Queue(p, s), Asks))
<1> DEFINE a == [s EXCEPT !.managers = s.managers \cup {m}]
           t == ManagerBound(s, m)
           q == Queue(p, s)
<1>1. s \in Side
  BY DEF Proper
<1>2. /\ a \in Side /\ a.req = s.req /\ a.device = s.device /\ a.virtual = s.virtual
      /\ a.keyboard = s.keyboard /\ a.pointer = s.pointer /\ a.seat = s.seat /\ a.caps = s.caps
      /\ a.keymap = s.keymap /\ a.managers = s.managers \cup {m} /\ a.clip = s.clip /\ a.pending = s.pending
      /\ a.mode = s.mode /\ a.asked = s.asked /\ a.global = s.global
  BY <1>1 DEF Side
<1>3. Proper(a) /\ Queue(p, a) = q
  BY <1>2 DEF Proper, Queue
<1>4. \A b : Longer(q, b, Wiring) =>
        /\ \A n : Has(b, Binds(n)) <=> Has(q, Binds(n))
        /\ Has(b, Asks) <=> Has(q, Asks)
  <2>1. Clear(Asks, Wiring) /\ \A n : Clear(Binds(n), Wiring)
    BY DEF Clear, Asks, Binds, Wiring
  <2> QED BY <2>1 DEF Longer
<1>5. CASE m = "transient" /\ s.mode # "transient"
  BY <1>5 DEF ManagerBound
<1>6. CASE m = "transient" /\ s.mode = "transient"
  <2> DEFINE b == [a EXCEPT !.asked = TRUE]
             r == <<"transient">>
  <2>1. t = Req(b, r)
    BY <1>6 DEF ManagerBound
  <2>2. /\ b \in Side /\ b.req = s.req /\ b.device = s.device /\ b.virtual = s.virtual
        /\ b.keyboard = s.keyboard /\ b.pointer = s.pointer /\ b.seat = s.seat /\ b.caps = s.caps
        /\ b.keymap = s.keymap /\ b.managers = s.managers \cup {m} /\ b.clip = s.clip
        /\ b.pending = s.pending /\ b.mode = s.mode /\ b.asked = TRUE /\ b.global = s.global
    BY <1>2 DEF Side
  <2>3. r \in Requests /\ r[1] = "transient" /\ r \in Asks
    BY DEF Requests, Asks
  <2> HIDE DEF b, r, a
  <2>4. Queue(p, b) = q
    BY <2>2 DEF Queue
  <2>5. /\ \A P : Has(Queue(p, t), P) <=> Has(q, P) \/ r \in P
        /\ Longer(q, Queue(p, t), {"transient"})
    BY <2>1, <2>2, <2>3, <2>4, ReqQueue
  <2>6. /\ t.device = s.device /\ t.virtual = s.virtual
        /\ t.keyboard = s.keyboard /\ t.pointer = s.pointer /\ t.seat = s.seat /\ t.caps = s.caps
        /\ t.keymap = s.keymap /\ t.managers = s.managers \cup {m} /\ t.clip = s.clip
        /\ t.pending = s.pending /\ t.mode = s.mode /\ t.asked = TRUE /\ t.global = s.global
    BY <2>1, <2>2 DEF Req, Side
  <2> HIDE DEF t
  <2>7. DevicePart(t, Queue(p, t), x.devices)
    BY <2>5, <2>6, DeviceKept DEF Parts
  <2>8. VirtualPart(t, Queue(p, t), x.virtual, x.vmap)
    BY <2>5, <2>6, VirtualKept DEF Parts
  <2>9. KeysPart(t, Queue(p, t), w, x.had)
    BY <2>5, <2>6, KeysKept DEF Parts
  <2>10. Dones(t)
    BY <1>6, <2>6 DEF Dones, DeviceDone, VirtualDone, KeysDone
  <2>11. \A n : Has(Queue(p, t), Binds(n)) <=> Has(q, Binds(n))
    BY <2>5 DEF Longer, Clear, Binds
  <2> QED BY <1>6, <2>3, <2>5, <2>6, <2>7, <2>8, <2>9, <2>10, <2>11 DEF Parts, t
<1>7. CASE m \in {"ext", "wlr"}
  <2>1. t = InitDevice(a)
    BY <1>7 DEF ManagerBound
  <2> HIDE DEF a
  <2>2. Longer(q, Queue(p, a), {})
    BY <1>3, LongerFacts
  <2>3. DevicePart(a, Queue(p, a), x.devices) /\ VirtualPart(a, Queue(p, a), x.virtual, x.vmap)
        /\ KeysPart(a, Queue(p, a), w, x.had)
    BY <1>2, <2>2, DeviceKept, VirtualKept, KeysKept DEF Parts
  <2>4. /\ SameSeats(a, t) /\ DevicePart(t, Queue(p, t), x.devices) /\ DeviceDone(t)
        /\ Longer(Queue(p, a), Queue(p, t), {"device", "destroy"})
        /\ t.virtual = a.virtual /\ t.keyboard = a.keyboard /\ t.pointer = a.pointer
    BY <1>3, <2>1, <2>3, InitDeviceProper, InitDeviceWires
  <2>5. /\ t.mode = s.mode /\ t.seat = s.seat /\ t.pending = s.pending /\ t.global = s.global
        /\ t.asked = s.asked /\ t.caps = s.caps /\ t.managers = s.managers \cup {m} /\ t.keymap = s.keymap
    BY <1>2, <2>4 DEF SameSeats
  <2> HIDE DEF t
  <2>6. VirtualPart(t, Queue(p, t), x.virtual, x.vmap)
    BY <1>2, <2>3, <2>4, <2>5, VirtualKept
  <2>7. KeysPart(t, Queue(p, t), w, x.had)
    BY <1>2, <2>3, <2>4, <2>5, KeysKept
  <2>8. VirtualDone(t) /\ KeysDone(t)
    BY <1>2, <1>7, <2>4, <2>5 DEF Dones, VirtualDone, KeysDone
  <2>9. Longer(q, Queue(p, t), Wiring)
    BY <1>3, <2>4, LongerFacts DEF Wiring
  <2> QED BY <1>4, <1>7, <2>4, <2>5, <2>6, <2>7, <2>8, <2>9 DEF Parts, Dones, t
<1>8. CASE m \in {"vptr", "vkbd"}
  <2>1. t = InitVirtualInput(a)
    BY <1>8 DEF ManagerBound
  <2> HIDE DEF a
  <2>2. Longer(q, Queue(p, a), {})
    BY <1>3, LongerFacts
  <2>3. DevicePart(a, Queue(p, a), x.devices) /\ VirtualPart(a, Queue(p, a), x.virtual, x.vmap)
        /\ KeysPart(a, Queue(p, a), w, x.had)
    BY <1>2, <2>2, DeviceKept, VirtualKept, KeysKept DEF Parts
  <2>4. /\ SameSeats(a, t) /\ VirtualPart(t, Queue(p, t), x.virtual, x.vmap) /\ VirtualDone(t)
        /\ Longer(Queue(p, a), Queue(p, t), {"virtual", "keymap"})
        /\ t.device = a.device /\ t.keyboard = a.keyboard /\ t.pointer = a.pointer
    BY <1>3, <2>1, <2>3, InitVirtualInputProper, InitVirtualInputWires
  <2>5. /\ t.mode = s.mode /\ t.seat = s.seat /\ t.pending = s.pending /\ t.global = s.global
        /\ t.asked = s.asked /\ t.caps = s.caps /\ t.managers = s.managers \cup {m} /\ t.clip = s.clip
    BY <1>2, <2>4 DEF SameSeats
  <2> HIDE DEF t
  <2>6. DevicePart(t, Queue(p, t), x.devices)
    BY <1>2, <2>3, <2>4, <2>5, DeviceKept
  <2>7. KeysPart(t, Queue(p, t), w, x.had)
    BY <1>2, <2>3, <2>4, <2>5, KeysKept
  <2>8. DeviceDone(t) /\ KeysDone(t)
    BY <1>2, <1>8, <2>4, <2>5 DEF Dones, DeviceDone, KeysDone
  <2>9. Longer(q, Queue(p, t), Wiring)
    BY <1>3, <2>4, LongerFacts DEF Wiring
  <2> QED BY <1>4, <1>8, <2>4, <2>5, <2>6, <2>7, <2>8, <2>9 DEF Parts, Dones, t
<1> QED BY <1>5, <1>6, <1>7, <1>8 DEF AllManagers

\* w2 is w, but for an event e that may have left it.
Dropped(w, w2, e) ==
  \A P : /\ Has(w2, P) => Has(w, P)
         /\ e \notin P /\ Has(w, P) => Has(w2, P)

LEMMA PartsDropped ==
  ASSUME NEW p, NEW s, NEW w, NEW x, NEW w2, NEW e, Parts(p, s, w, x), Dropped(w, w2, e), e[1] # "capabilities"
  PROVE  Parts(p, s, w2, x)
<1>1. \A n : e \notin News(n)
  BY DEF News
<1>2. \A n : (Has(w2, OldNews(n, x.had)) => Has(w, OldNews(n, x.had))) /\ (Has(w, News(n)) => Has(w2, News(n)))
  BY <1>1 DEF Dropped
<1>3. KeysPart(s, Queue(p, s), w2, x.had)
  BY <1>2 DEF Parts, KeysPart
<1> QED BY <1>3 DEF Parts

\* News of a seat: what is old may come only of a seat whose devices are there.
LEMMA CapabilitiesWires ==
  ASSUME NEW s, Proper(s), s.req = <<>>, NEW n \in Seats, NEW caps \in SUBSET Caps, NEW p \in Seq(Requests),
         NEW w, NEW w2, NEW x \in CompositorType, Parts(p, s, w, x), Dones(s), Within(s.caps, x.had),
         Dropped(w, w2, <<"capabilities", n, caps>>), Has(w, {<<"capabilities", n, caps>>}),
         caps \subseteq x.had[n]
  PROVE  LET t == Capabilities(s, n, caps) IN
         /\ Parts(p, t, w2, x) /\ Dones(t) /\ Longer(Queue(p, s), Queue(p, t), Wiring)
         /\ t.mode = s.mode /\ t.seat = s.seat /\ t.pending = s.pending /\ t.asked = s.asked
         /\ t.global = s.global
<1> DEFINE e == <<"capabilities", n, caps>>
           f == [s.caps EXCEPT ![n] = caps]
           a == [s EXCEPT !.caps[n] = caps]
           t == Capabilities(s, n, caps)
           q == Queue(p, s)
<1>1. s \in Side /\ s.caps \in [Seats -> SUBSET Caps]
  BY DEF Proper, Side
<1>2. f \in [Seats -> SUBSET Caps] /\ f[n] = caps /\ \A m \in Seats : m # n => f[m] = s.caps[m]
  BY <1>1
<1>3. a = [s EXCEPT !.caps = f]
  BY <1>1 DEF Side
<1>4. t = IF s.seat = n THEN SyncSeatDevices(a) ELSE a
  BY DEF Capabilities
<1> HIDE DEF f, t
<1>5. /\ a \in Side /\ a.req = s.req /\ a.device = s.device /\ a.virtual = s.virtual
      /\ a.keyboard = s.keyboard /\ a.pointer = s.pointer /\ a.seat = s.seat /\ a.caps = f
      /\ a.keymap = s.keymap /\ a.managers = s.managers /\ a.clip = s.clip /\ a.pending = s.pending
      /\ a.mode = s.mode /\ a.asked = s.asked /\ a.global = s.global
  BY <1>1, <1>2, <1>3 DEF Side
<1> HIDE DEF a
<1>6. Proper(a) /\ Queue(p, a) = q
  BY <1>5 DEF Proper, Queue, All, Has
<1>7. Longer(q, Queue(p, a), {})
  BY <1>6, LongerFacts
<1>8. DevicePart(a, Queue(p, a), x.devices) /\ VirtualPart(a, Queue(p, a), x.virtual, x.vmap)
      /\ DeviceDone(a) /\ VirtualDone(a)
  <2>1. DevicePart(a, Queue(p, a), x.devices) /\ VirtualPart(a, Queue(p, a), x.virtual, x.vmap)
    BY <1>5, <1>7, DeviceKept, VirtualKept DEF Parts
  <2> QED BY <1>5, <2>1 DEF Dones, DeviceDone, VirtualDone
<1>9. KeysPart(a, Queue(p, a), w2, x.had)
  <2>1. KeysPart(s, q, w, x.had)
    BY DEF Parts
  <2>2. \A m \in Seats : m # n \/ caps # Caps => e \notin News(m)
    BY DEF News
  <2>3. \A m \in Seats : m # s.seat => ~Has(w2, OldNews(m, x.had))
    BY <2>1 DEF KeysPart, Dropped
  <2>4. ASSUME NEW m \in Seats, m \in a.pending \/ m = a.seat, x.had[m] = Caps
        PROVE  \/ m = a.seat /\ a.keyboard /\ a.pointer
               \/ a.caps[m] = Caps \/ Has(Queue(p, a), Binds(m)) \/ Has(w2, News(m))
    <3>1. \/ m = s.seat /\ s.keyboard /\ s.pointer
          \/ s.caps[m] = Caps \/ Has(q, Binds(m)) \/ Has(w, News(m))
      BY <1>5, <2>1, <2>4 DEF KeysPart
    <3>2. CASE m # n
      BY <1>2, <1>5, <1>6, <2>2, <3>1, <3>2 DEF Dropped
    <3>3. CASE m = n /\ caps = Caps
      BY <1>2, <1>5, <3>3
    <3>4. CASE m = n /\ caps # Caps
      <4>1. n = s.seat
        <5>1. e \in OldNews(n, x.had)
          BY <2>4, <3>4 DEF OldNews
        <5>2. Has(w, OldNews(n, x.had))
          BY <5>1 DEF Has
        <5> QED BY <2>1, <5>2 DEF KeysPart
      <4>2. s.caps[n] = Caps => s.keyboard /\ s.pointer
        BY <4>1, SeatsAreNone DEF Dones, KeysDone
      <4>3. Has(w, News(n)) => Has(w2, News(n))
        BY <2>2, <3>4 DEF Dropped
      <4> QED BY <1>5, <1>6, <3>1, <3>4, <4>1, <4>2, <4>3
    <3> QED BY <3>2, <3>3, <3>4
  <2> QED BY <1>5, <2>1, <2>3, <2>4 DEF KeysPart
<1>10. CASE s.seat = n
  <2>1. Within(a.caps, x.had)
    BY <1>2, <1>5 DEF Within
  <2>2. t = SyncSeatDevices(a) /\ a.seat \in Seats
    BY <1>4, <1>5, <1>10
  <2>3. /\ SameSeats(a, t) /\ KeysPart(t, Queue(p, t), w2, x.had) /\ KeysDone(t)
        /\ Longer(Queue(p, a), Queue(p, t), {"get_keyboard", "get_pointer"})
        /\ t.device = a.device /\ t.virtual = a.virtual
    BY <1>6, <1>9, <2>1, <2>2, SyncSeatDevicesProper, SyncSeatDevicesWires
  <2>4. /\ t.seat = a.seat /\ t.managers = a.managers /\ t.clip = a.clip /\ t.keymap = a.keymap
        /\ t.mode = a.mode /\ t.pending = a.pending /\ t.asked = a.asked /\ t.global = a.global
    BY <2>3 DEF SameSeats
  <2>5. DevicePart(t, Queue(p, t), x.devices)
    BY <1>8, <2>3, <2>4, DeviceKept
  <2>6. VirtualPart(t, Queue(p, t), x.virtual, x.vmap)
    BY <1>8, <2>3, <2>4, VirtualKept
  <2>7. DeviceDone(t) /\ VirtualDone(t)
    BY <1>8, <2>3, <2>4 DEF DeviceDone, VirtualDone
  <2>8. Longer(q, Queue(p, t), Wiring)
    BY <1>6, <2>3, LongerFacts DEF Wiring
  <2> QED BY <1>5, <2>3, <2>4, <2>5, <2>6, <2>7, <2>8 DEF Parts, Dones, t
<1>11. CASE s.seat # n
  <2>1. t = a
    BY <1>4, <1>11
  <2>2. KeysDone(a)
    <3>1. s.seat # None => s.seat \in Seats
      BY <1>1 DEF Side
    <3> QED BY <1>2, <1>5, <1>11, <3>1 DEF Dones, KeysDone
  <2>3. Longer(q, Queue(p, a), Wiring)
    BY <1>6, LongerFacts
  <2> QED BY <1>5, <1>8, <1>9, <2>1, <2>2, <2>3 DEF Parts, Dones, t
<1> QED BY <1>10, <1>11

LEMMA SeatNamedWires ==
  ASSUME NEW s, Proper(s), NEW n \in Seats, NEW p \in Seq(Requests), NEW w,
         NEW x \in CompositorType, Parts(p, s, w, x), Dones(s), Within(s.caps, x.had)
  PROVE  LET t == SeatNamed(s, n) IN
         /\ Parts(p, t, w, x) /\ Dones(t) /\ Longer(Queue(p, s), Queue(p, t), Wiring)
         /\ t.mode = s.mode /\ t.asked = s.asked /\ t.global = s.global
         /\ IF s.mode = "named" /\ s.seat = None /\ n \in s.pending
            THEN t.seat = n /\ t.pending = {}
            ELSE t.seat = s.seat /\ t.pending = s.pending
<1>1. CASE s.mode = "named" /\ s.seat = None /\ n \in s.pending
  <2>1. SeatNamed(s, n) = SelectSeat(s, n)
    BY <1>1 DEF SeatNamed
  <2> QED BY <1>1, <2>1, SelectSeatWires, SelectSeatProper
<1>2. CASE ~(s.mode = "named" /\ s.seat = None /\ n \in s.pending)
  BY <1>2, LongerFacts DEF SeatNamed
<1> QED BY <1>1, <1>2

LEMMA KeymapWires ==
  ASSUME NEW s, Proper(s), NEW m \in Keymaps, NEW p \in Seq(Requests), NEW w,
         NEW x \in CompositorType, Parts(p, s, w, x), Dones(s)
  PROVE  LET t == Keymap(s, m) IN
         /\ Parts(p, t, w, x) /\ Dones(t) /\ Longer(Queue(p, s), Queue(p, t), Wiring)
         /\ t.mode = s.mode /\ t.seat = s.seat /\ t.pending = s.pending /\ t.asked = s.asked
         /\ t.global = s.global
<1> DEFINE a == [s EXCEPT !.keymap = m]
           t == Keymap(s, m)
           q == Queue(p, s)
<1>1. s \in Side
  BY DEF Proper
<1>2. CASE s.keymap = m
  BY <1>2, LongerFacts DEF Keymap
<1>3. CASE s.keymap # m
  <2>1. t = SetKeymap(a)
    BY <1>3 DEF Keymap
  <2>2. /\ a \in Side /\ a.req = s.req /\ a.device = s.device /\ a.virtual = s.virtual
        /\ a.keyboard = s.keyboard /\ a.pointer = s.pointer /\ a.seat = s.seat /\ a.caps = s.caps
        /\ a.keymap = m /\ a.managers = s.managers /\ a.clip = s.clip /\ a.pending = s.pending
        /\ a.mode = s.mode /\ a.asked = s.asked /\ a.global = s.global
    BY <1>1 DEF Side
  <2> HIDE DEF a, t
  <2>3. Proper(a) /\ Queue(p, a) = q /\ m # None
    BY <2>2 DEF Proper, Queue, Keymaps, None
  <2>4. Longer(q, Queue(p, a), {})
    BY <2>3, LongerFacts
  <2>5. DevicePart(a, Queue(p, a), x.devices) /\ KeysPart(a, Queue(p, a), w, x.had)
    BY <2>2, <2>4, DeviceKept, KeysKept DEF Parts
  <2>6. /\ a.virtual => a.seat # None /\ {"vptr", "vkbd"} \subseteq a.managers
        /\ a.virtual => x.virtual = a.seat \/ Has(Queue(p, a), Devises(a.seat))
        /\ x.virtual # None => a.virtual /\ x.virtual = a.seat
        /\ ~Has(Queue(p, a), StrayVirtuals(a.seat))
        /\ Has(Queue(p, a), Devises(a.seat)) \/ Has(Queue(p, a), KeymapRequests) => a.virtual
        /\ ~a.virtual \/ a.keymap = None => ~Has(Queue(p, a), KeymapRequests) /\ x.vmap = None
    BY <2>2, <2>3 DEF Parts, VirtualPart
  <2>7. /\ SameSeats(a, t) /\ VirtualPart(t, Queue(p, t), x.virtual, x.vmap)
        /\ Longer(Queue(p, a), Queue(p, t), {"keymap"})
        /\ t.device = a.device /\ t.virtual = a.virtual /\ t.keyboard = a.keyboard /\ t.pointer = a.pointer
    BY <2>1, <2>3, <2>6, SetKeymapWires, SetKeymapProper
  <2>8. /\ t.seat = s.seat /\ t.managers = s.managers /\ t.clip = s.clip /\ t.caps = s.caps
        /\ t.mode = s.mode /\ t.pending = s.pending /\ t.asked = s.asked /\ t.global = s.global
    BY <2>2, <2>7 DEF SameSeats
  <2>9. DevicePart(t, Queue(p, t), x.devices)
    BY <2>2, <2>5, <2>7, <2>8, DeviceKept
  <2>10. KeysPart(t, Queue(p, t), w, x.had)
    BY <2>2, <2>5, <2>7, <2>8, KeysKept
  <2>11. Dones(t)
    BY <2>2, <2>7, <2>8 DEF Dones, DeviceDone, VirtualDone, KeysDone
  <2>12. Longer(q, Queue(p, t), Wiring)
    BY <2>3, <2>7, LongerFacts DEF Wiring
  <2> QED BY <2>7, <2>8, <2>9, <2>10, <2>11, <2>12 DEF Parts, t
<1> QED BY <1>2, <1>3

-----------------------------------------------------------------------------
(* How the seat is found, event by event: s becomes t, the requests sent q *)
(* become b, the event e is dropped from those on their way, w, and of the *)
(* globals not told of, u, those in u2 are left.                           *)

\* Events and requests of no seat.
LEMMA FoundKept ==
  ASSUME NEW s, NEW t, NEW q, NEW b, NEW w, NEW w2, NEW u, NEW u2, NEW named, NEW e,
         FoundPart(s, q, w, u, named), Dropped(w, w2, e),
         e \notin Answers, e[1] # "name", \A n \in Seats : e \notin Global(n),
         t.mode = s.mode, t.seat = s.seat, t.pending = s.pending, t.asked = s.asked, t.global = s.global,
         \A n : Has(b, Binds(n)) <=> Has(q, Binds(n)), Has(b, Asks) <=> Has(q, Asks),
         \A n \in Seats : <<"seat", n>> \in u2 <=> <<"seat", n>> \in u
  PROVE  FoundPart(t, b, w2, u2, named)
<1>1. \A n \in Seats : Has(w2, Global(n)) <=> Has(w, Global(n))
  BY DEF Dropped
<1>2. \A S : Has(w2, Names(S)) <=> Has(w, Names(S))
  BY DEF Dropped, Names
<1>3. /\ Has(w2, Granted) <=> Has(w, Granted)
      /\ Has(w2, Refused) <=> Has(w, Refused)
      /\ Has(w2, Answers) <=> Has(w, Answers)
  <2>1. e \notin Granted /\ e \notin Refused
    BY DEF Answers, Granted, Refused
  <2> QED BY <2>1 DEF Dropped
<1>4. Real \subseteq Seats /\ Ours \in Seats
  BY SeatsAreNone
<1> QED BY <1>1, <1>2, <1>3, <1>4 DEF FoundPart

\* A transient seat is asked for.
LEMMA FoundAsked ==
  ASSUME NEW s, NEW t, NEW q, NEW b, NEW w, NEW w2, NEW u, NEW u2, NEW named, NEW e,
         FoundPart(s, q, w, u, named), Dropped(w, w2, e), e = <<"global", Transient>>,
         ~s.asked, ~Has(w, Answers), t.asked,
         t.mode = s.mode, t.seat = s.seat, t.pending = s.pending, t.global = s.global,
         \A n : Has(b, Binds(n)) <=> Has(q, Binds(n)), Has(b, Asks),
         \A n \in Seats : <<"seat", n>> \in u2 <=> <<"seat", n>> \in u
  PROVE  FoundPart(t, b, w2, u2, named)
<1>1. \A n \in Seats : Has(w2, Global(n)) <=> Has(w, Global(n))
  BY DEF Dropped, Global, Transient
<1>2. \A S : Has(w2, Names(S)) <=> Has(w, Names(S))
  BY DEF Dropped, Names
<1>3. ~Has(w2, Granted)
  BY DEF Dropped, Answers, Granted, Has
<1>4. Real \subseteq Seats /\ Ours \in Seats
  BY SeatsAreNone
<1> QED BY <1>1, <1>2, <1>3, <1>4 DEF FoundPart

\* A seat is announced.
LEMMA FoundAnnounced ==
  ASSUME NEW s, NEW t, NEW q, NEW b, NEW w, NEW w2, NEW u, NEW u2, NEW named \in SUBSET Real, NEW e,
         NEW n \in Seats, FoundPart(s, q, w, u, named), Dropped(w, w2, e), e \in Global(n), Choice(s),
         s.mode \in {"first", "named", "transient"},
         n = Ours => Has(w, Global(Ours)),
         Has(w, Answers) => s.global = None,
         t.mode = s.mode, t.asked = s.asked, t.global = s.global,
         \A m : Has(b, Binds(m)) <=> Has(q, Binds(m)) \/ m = n, Has(b, Asks) <=> Has(q, Asks),
         <<"seat", n>> \notin u2, \A m \in Seats : m # n => (<<"seat", m>> \in u2 <=> <<"seat", m>> \in u),
         \/ /\ t.seat = n /\ t.pending = {}
            /\ (s.mode = "first" /\ s.seat = None) \/ (s.mode = "transient" /\ s.global = n)
         \/ /\ t.seat = s.seat /\ t.pending = s.pending \cup {n}
            /\ s.mode = "named" \/ (s.mode = "transient" /\ s.global # n)
         \/ t.seat = s.seat /\ t.pending = s.pending /\ s.mode = "first" /\ s.seat # None
  PROVE  FoundPart(t, b, w2, u2, named)
<1>1. \A m \in Seats : /\ m # n => (Has(w2, Global(m)) <=> Has(w, Global(m)))
                       /\ Has(w2, Global(m)) => Has(w, Global(m))
  BY DEF Dropped, Global
<1>2. \A S : Has(w2, Names(S)) <=> Has(w, Names(S))
  BY DEF Dropped, Names, Global
<1>3. /\ Has(w2, Granted) <=> Has(w, Granted)
      /\ Has(w2, Refused) <=> Has(w, Refused)
      /\ Has(w2, Answers) <=> Has(w, Answers)
      /\ Has(w, Granted) => Has(w, Answers)
  <2>1. e \notin Granted /\ e \notin Refused /\ e \notin Answers
    BY DEF Answers, Granted, Refused, Global
  <2> QED BY <2>1 DEF Dropped, Has, Granted, Answers
<1>4. Real \subseteq Seats /\ Ours \in Seats /\ None \notin Seats /\ Ours \notin Real
  BY SeatsAreNone
<1>5. n = Ours => s.asked /\ s.mode = "transient" /\ ~Has(w, Refused) /\ ~Has(q, Asks)
  BY DEF FoundPart, Choice
<1>6. CASE /\ t.seat = n /\ t.pending = {}
           /\ (s.mode = "first" /\ s.seat = None) \/ (s.mode = "transient" /\ s.global = n)
  <2>1. n = Ours => s.global = Ours
    BY <1>5, <1>6
  <2>2. ~Has(w, Granted)
    BY <1>3, <1>4, <1>6 DEF Choice, FoundPart
  <2>3. s.asked /\ s.global = None => Has(b, Asks) \/ Has(w2, Answers)
    BY <1>3 DEF FoundPart
  <2>4. Has(w2, Refused) \/ Has(b, Asks) => ~Has(w2, Global(Ours))
    BY <1>1, <1>3, <1>4 DEF FoundPart
  <2>5. \A m \in Real : Has(w2, Global(m)) \/ m = n => <<"seat", m>> \notin u2
    BY <1>1, <1>4 DEF FoundPart
  <2>6. Has(w2, Global(Ours)) => s.asked
    BY <1>1, <1>4 DEF FoundPart
  <2>7. ~Has(w2, Names(Seats \ named))
    BY <1>2 DEF FoundPart
  <2>8. n # None
    BY <1>4
  <2> QED BY <1>3, <1>6, <2>1, <2>2, <2>3, <2>4, <2>5, <2>6, <2>7, <2>8 DEF FoundPart
<1>7. CASE /\ t.seat = s.seat /\ t.pending = s.pending \cup {n}
           /\ s.mode = "named" \/ (s.mode = "transient" /\ s.global # n)
  <2>1. s.seat = None => \A m \in Real : <<"seat", m>> \in u2 \/ Has(w2, Global(m)) \/ m \in t.pending
    BY <1>1, <1>4, <1>7 DEF FoundPart
  <2>2. \A m \in Real : Has(w2, Global(m)) \/ m \in t.pending \/ m = s.seat => <<"seat", m>> \notin u2
    BY <1>1, <1>4, <1>7 DEF FoundPart
  <2>3. Ours \in t.pending \/ Has(w2, Global(Ours)) => s.asked
    BY <1>1, <1>4, <1>5, <1>7 DEF FoundPart
  <2>4. Has(w2, Refused) \/ Has(b, Asks) => Ours \notin t.pending /\ ~Has(w2, Global(Ours))
    BY <1>1, <1>3, <1>4, <1>5, <1>7 DEF FoundPart
  <2>5. s.mode = "named" /\ s.seat = None => \A m \in t.pending \cap named : Has(b, Binds(m)) \/ Has(w2, Names({m}))
    BY <1>2, <1>7 DEF FoundPart
  <2>6. s.asked /\ s.global = None => Has(b, Asks) \/ Has(w2, Answers)
    BY <1>3 DEF FoundPart
  <2>7. s.global = Ours /\ s.seat = None => Has(w2, Global(Ours))
    <3>1. s.global = Ours => n # Ours
      BY <1>4, <1>7 DEF Choice
    <3> QED BY <1>1, <1>4, <3>1 DEF FoundPart
  <2>8. Has(w2, Granted) => Ours \in t.pending \/ Has(w2, Global(Ours))
    BY <1>1, <1>3, <1>4, <1>7 DEF FoundPart
  <2>9. ~Has(w2, Names(Seats \ named)) /\ (s.seat = Ours => s.global = Ours)
        /\ (s.mode = "named" /\ s.seat # None => s.seat \in named) /\ s.mode # "first"
    BY <1>2, <1>7 DEF FoundPart
  <2> QED BY <1>7, <2>1, <2>2, <2>3, <2>4, <2>5, <2>6, <2>7, <2>8, <2>9 DEF FoundPart
<1>8. CASE t.seat = s.seat /\ t.pending = s.pending /\ s.mode = "first" /\ s.seat # None
  <2>1. n # Ours /\ ~s.asked
    BY <1>5, <1>8 DEF Choice
  <2>2. \A m \in Real : Has(w2, Global(m)) \/ m \in t.pending \/ m = s.seat => <<"seat", m>> \notin u2
    BY <1>1, <1>4, <1>8 DEF FoundPart
  <2> QED BY <1>1, <1>2, <1>3, <1>4, <1>8, <2>1, <2>2 DEF FoundPart
<1> QED BY <1>6, <1>7, <1>8

\* A seat is told to have the name wanted.
LEMMA FoundNamed ==
  ASSUME NEW s, NEW t, NEW q, NEW b, NEW w, NEW w2, NEW u, NEW named \in SUBSET Real, NEW e,
         NEW n \in Seats, FoundPart(s, q, w, u, named), Dropped(w, w2, e), e = <<"name", n>>, Has(w, {e}),
         Choice(s), t.mode = s.mode, t.asked = s.asked, t.global = s.global,
         \A m : Has(b, Binds(m)) <=> Has(q, Binds(m)), Has(b, Asks) <=> Has(q, Asks),
         IF s.mode = "named" /\ s.seat = None /\ n \in s.pending
         THEN t.seat = n /\ t.pending = {}
         ELSE t.seat = s.seat /\ t.pending = s.pending
  PROVE  FoundPart(t, b, w2, u, named)
<1>1. \A m \in Seats : Has(w2, Global(m)) <=> Has(w, Global(m))
  BY DEF Dropped, Global
<1>2. /\ \A S : Has(w2, Names(S)) => Has(w, Names(S))
      /\ \A m : m # n => (Has(w2, Names({m})) <=> Has(w, Names({m})))
  BY DEF Dropped, Names
<1>3. /\ Has(w2, Granted) <=> Has(w, Granted)
      /\ Has(w2, Refused) <=> Has(w, Refused)
      /\ Has(w2, Answers) <=> Has(w, Answers)
      /\ Has(w, Granted) => Has(w, Answers)
  <2>1. e \notin Granted /\ e \notin Refused /\ e \notin Answers
    BY DEF Answers, Granted, Refused
  <2> QED BY <2>1 DEF Dropped, Has, Granted, Answers
<1>4. Real \subseteq Seats /\ Ours \in Seats /\ None \notin Seats /\ Ours \notin Real
  BY SeatsAreNone
<1>5. n \in named
  <2>1. n \notin named => Has(w, Names(Seats \ named))
    BY DEF Has, Names
  <2> QED BY <2>1 DEF FoundPart
<1>6. CASE s.mode = "named" /\ s.seat = None /\ n \in s.pending
  <2>1. t.seat = n /\ t.pending = {} /\ ~s.asked /\ s.global = None /\ n # None /\ n # Ours
    BY <1>4, <1>5, <1>6 DEF Choice
  <2>2. \A m \in Real : Has(w2, Global(m)) \/ m = n => <<"seat", m>> \notin u
    BY <1>1, <1>4, <1>6 DEF FoundPart
  <2>3. ~Has(w2, Global(Ours)) /\ ~Has(w2, Granted)
    BY <1>1, <1>3, <1>4, <2>1 DEF FoundPart
  <2>4. ~Has(w2, Names(Seats \ named))
    BY <1>2 DEF FoundPart
  <2> QED BY <1>5, <1>6, <2>1, <2>2, <2>3, <2>4 DEF FoundPart
<1>7. CASE ~(s.mode = "named" /\ s.seat = None /\ n \in s.pending)
  <2>1. t.seat = s.seat /\ t.pending = s.pending
    BY <1>7
  <2>2. s.mode = "named" /\ s.seat = None => \A m \in s.pending \cap named : Has(b, Binds(m)) \/ Has(w2, Names({m}))
    BY <1>2, <1>7 DEF FoundPart
  <2>3. ~Has(w2, Names(Seats \ named))
    BY <1>2 DEF FoundPart
  <2> QED BY <1>1, <1>3, <1>4, <2>1, <2>2, <2>3 DEF FoundPart
<1> QED BY <1>6, <1>7

\* Ours is ready.
LEMMA FoundReady ==
  ASSUME NEW s, NEW t, NEW q, NEW b, NEW w, NEW w2, NEW u, NEW named, NEW e,
         FoundPart(s, q, w, u, named), Dropped(w, w2, e), e \in Granted, Has(w, Granted), ~Has(w2, Answers),
         Choice(s), s.asked, s.global = None, t.mode = s.mode, t.asked = s.asked, t.global = Ours,
         \A m : Has(b, Binds(m)) <=> Has(q, Binds(m)), Has(b, Asks) <=> Has(q, Asks),
         \/ Ours \in s.pending /\ t.seat = Ours /\ t.pending = {}
         \/ Ours \notin s.pending /\ t.seat = None /\ t.pending = s.pending
  PROVE  FoundPart(t, b, w2, u, named)
<1>1. \A m \in Seats : Has(w2, Global(m)) <=> Has(w, Global(m))
  BY DEF Dropped, Global, Granted
<1>2. \A S : Has(w2, Names(S)) <=> Has(w, Names(S))
  BY DEF Dropped, Names, Granted
<1>3. /\ ~Has(w2, Granted) /\ ~Has(w2, Refused)
  BY DEF Has, Granted, Refused, Answers
<1>4. Real \subseteq Seats /\ Ours \in Seats /\ None \notin Seats /\ Ours \notin Real
  BY SeatsAreNone
<1>5. s.mode = "transient" /\ s.seat = None
  BY DEF Choice
<1>6. CASE Ours \in s.pending /\ t.seat = Ours /\ t.pending = {}
  BY <1>1, <1>2, <1>3, <1>4, <1>5, <1>6 DEF FoundPart
<1>7. CASE Ours \notin s.pending /\ t.seat = None /\ t.pending = s.pending
  BY <1>1, <1>2, <1>3, <1>4, <1>5, <1>7 DEF FoundPart
<1> QED BY <1>6, <1>7

\* There is to be no transient seat.
LEMMA FoundFallback ==
  ASSUME NEW s, NEW t, NEW q, NEW b, NEW w, NEW w2, NEW u, NEW named, NEW e,
         FoundPart(s, q, w, u, named), Dropped(w, w2, e), e \in Refused,
         ~Has(w2, Answers), Ours \notin s.pending, ~Has(w, Global(Ours)),
         Choice(s), s.global = None, s.seat = None, t.mode = "first", t.asked = FALSE, t.global = None,
         \A m : Has(b, Binds(m)) <=> Has(q, Binds(m)), Has(b, Asks) <=> Has(q, Asks),
         \/ t.seat \in s.pending \ {None} /\ t.pending = {}
         \/ t.seat = s.seat /\ t.pending = s.pending /\ s.pending = {}
  PROVE  FoundPart(t, b, w2, u, named)
<1>1. \A m \in Seats : Has(w2, Global(m)) <=> Has(w, Global(m))
  BY DEF Dropped, Global, Refused
<1>2. \A S : Has(w2, Names(S)) <=> Has(w, Names(S))
  BY DEF Dropped, Names, Refused
<1>3. /\ ~Has(w2, Granted) /\ ~Has(w2, Refused)
  BY DEF Has, Granted, Refused, Answers
<1>4. Real \subseteq Seats /\ Ours \in Seats /\ None \notin Seats /\ Ours \notin Real
  BY SeatsAreNone
<1>5. ~Has(w2, Names(Seats \ named))
  BY <1>2 DEF FoundPart
<1>6. CASE t.seat \in s.pending \ {None} /\ t.pending = {}
  <2>1. \A m \in Real : Has(w2, Global(m)) \/ m = t.seat => <<"seat", m>> \notin u
    BY <1>1, <1>4, <1>6 DEF FoundPart
  <2>2. t.seat # Ours
    BY <1>6
  <2> QED BY <1>1, <1>3, <1>4, <1>5, <1>6, <2>1, <2>2 DEF FoundPart
<1>7. CASE t.seat = s.seat /\ t.pending = s.pending /\ s.pending = {}
  BY <1>1, <1>2, <1>3, <1>4, <1>5, <1>7 DEF FoundPart
<1> QED BY <1>6, <1>7

-----------------------------------------------------------------------------
(* The steps.                                                              *)

LEMMA RestParts ==
  ASSUME StateType, RestInv
  PROVE  Parts(out, c, wire, k) /\ Dones(c) /\ Queue(out, c) = out /\ Proper(c)
<1>1. c.req = <<>> /\ out \in Seq(Requests) /\ c \in Side
  BY DEF StateType
<1>2. Queue(out, c) = out
  BY <1>1 DEF Queue
<1>3. Proper(c)
  BY <1>1 DEF Proper, All, Has
<1> QED BY <1>2, <1>3 DEF RestInv, Parts, Dones

\* This side takes a step.
LEMMA RestTaken ==
  ASSUME NEW t \in Side, Take(t), UNCHANGED k,
         Parts(out, t, wire', k), Dones(t),
         FoundPart(t, Queue(out, t), wire', unknown' \cup late', k.named),
         unknown' \cap late' = {},
         settled' => unknown' = {} /\ (t.mode = "transient" => t.asked)
  PROVE  RestInv'
<1>1. c' = [t EXCEPT !.req = <<>>] /\ out' = Queue(out, t)
  BY DEF Take, Queue
<1>2. /\ c'.mode = t.mode /\ c'.seat = t.seat /\ c'.clip = t.clip /\ c'.asked = t.asked
      /\ c'.global = t.global /\ c'.pending = t.pending /\ c'.caps = t.caps
      /\ c'.keyboard = t.keyboard /\ c'.pointer = t.pointer /\ c'.managers = t.managers
      /\ c'.device = t.device /\ c'.virtual = t.virtual /\ c'.keymap = t.keymap
  BY <1>1 DEF Side
<1>3. Longer(Queue(out, t), out', {})
  BY <1>1, LongerFacts
<1>4. DevicePart(c', out', k'.devices)
  BY <1>2, <1>3, DeviceKept DEF Parts
<1>5. VirtualPart(c', out', k'.virtual, k'.vmap)
  BY <1>2, <1>3, VirtualKept DEF Parts
<1>6. KeysPart(c', out', wire', k'.had)
  BY <1>2, <1>3, KeysKept DEF Parts
<1>7. DeviceDone(c') /\ VirtualDone(c') /\ KeysDone(c')
  BY <1>2 DEF Dones, DeviceDone, VirtualDone, KeysDone
<1>8. FoundPart(c', out', wire', unknown' \cup late', k'.named)
  BY <1>1, <1>2 DEF FoundPart
<1> QED BY <1>2, <1>4, <1>5, <1>6, <1>7, <1>8 DEF RestInv

\* Dropping the first event, or none.
LEMMA DroppedFacts ==
  /\ \A w, e : Dropped(w, w, e)
  /\ \A w \in Seq(Events) : w # <<>> => Dropped(w, Tail(w), Head(w)) /\ \A P : Head(w) \in P => Has(w, P)
<1>1. ASSUME NEW w \in Seq(Events), w # <<>> PROVE Dropped(w, Tail(w), Head(w)) /\ \A P : Head(w) \in P => Has(w, P)
  <2>1. \A P : /\ Has(Tail(w), P) => Has(w, P)
               /\ Has(w, P) => Head(w) \in P \/ Has(Tail(w), P)
               /\ Head(w) \in P => Has(w, P)
    BY <1>1, TailHas
  <2> QED BY <2>1 DEF Dropped
<1> QED BY <1>1 DEF Dropped

LEMMA WiringFacts ==
  \A q, b : Longer(q, b, Wiring) =>
    /\ \A n : Has(b, Binds(n)) <=> Has(q, Binds(n))
    /\ Has(b, Asks) <=> Has(q, Asks)
<1>1. Clear(Asks, Wiring) /\ \A n : Clear(Binds(n), Wiring)
  BY DEF Clear, Asks, Binds, Wiring
<1> QED BY <1>1 DEF Longer

LEMMA AnnounceRests ==
  ASSUME SeatsInv, RestInv, NEW g \in Globals \cup {<<"seat", Ours>>}, Take(Announce(c, g)),
         UNCHANGED <<k, late, settled>>,
         \/ g \in unknown /\ unknown' = unknown \ {g} /\ wire' = wire
         \/ /\ unknown' = unknown /\ wire # <<>> /\ wire' = Tail(wire)
            /\ Head(wire) = <<"global", g>>
  PROVE  RestInv'
<1>1. StateType /\ CapsInv /\ AskInv /\ ClipInv /\ Choice(c) /\ wire \in Seq(Events)
  BY DEF SeatsInv, ClipInv, StateType
<1>2. Parts(out, c, wire, k) /\ Dones(c) /\ Queue(out, c) = out /\ Proper(c)
  BY <1>1, RestParts
<1> DEFINE e == <<"global", g>>
           t == Announce(c, g)
           u == unknown \cup late
           u2 == unknown' \cup late'
<1>3. Dropped(wire, wire', e) /\ (g \in unknown \/ \A P : e \in P => Has(wire, P))
  BY <1>1, DroppedFacts
<1>4. Parts(out, c, wire', k)
  <2>1. e[1] # "capabilities"
    OBVIOUS
  <2> HIDE DEF e
  <2> QED BY <1>2, <1>3, <2>1, PartsDropped
<1>5. /\ c.mode \in {"first", "named", "transient"} /\ k \in CompositorType /\ k.named \in SUBSET Real
      /\ Within(c.caps, k.had) /\ out \in Seq(Requests)
  BY <1>1 DEF StateType, Side, CompositorType, CapsInv
<1>6. FoundPart(c, out, wire, u, k.named)
  BY DEF RestInv
<1>7. unknown' \cap late' = {} /\ (settled' => unknown' = {} /\ (c.mode = "transient" => c.asked))
  BY DEF RestInv
<1>8. Take(t)
  OBVIOUS
<1> HIDE DEF e
<1>9. ASSUME NEW n \in Seats, g = <<"seat", n>> PROVE RestInv'
  <2>1. t = SeatAnnounced(c, n)
    BY <1>9 DEF Announce
  <2> HIDE DEF t
  <2>2. e \in Global(n)
    BY <1>9 DEF Global, e
  <2>3. n = Ours => Has(wire, Global(Ours))
    <3>1. n = Ours => g \notin unknown
      BY <1>1, <1>9, SeatsAreNone DEF StateType, Globals
    <3> QED BY <1>3, <2>2, <3>1
  <2>4. Has(wire, Answers) => c.global = None
    BY <1>1 DEF AskInv
  <2>5. <<"seat", n>> \notin u2
    <3>1. CASE g \in unknown /\ unknown' = unknown \ {g} /\ wire' = wire
      BY <1>9, <3>1 DEF RestInv
    <3>2. CASE unknown' = unknown /\ wire # <<>> /\ wire' = Tail(wire) /\ Head(wire) = <<"global", g>>
      <4>1. Has(wire, Global(n))
        BY <1>1, <2>2, <3>2, DroppedFacts DEF e
      <4>2. n \in Real => <<"seat", n>> \notin u
        BY <1>6, <4>1 DEF FoundPart
      <4>3. n \notin Real => <<"seat", n>> \notin u
        BY <1>1, SeatsAssumption DEF StateType, Globals
      <4> QED BY <3>2, <4>2, <4>3
    <3> QED BY <3>1, <3>2
  <2>6. \A m \in Seats : m # n => (<<"seat", m>> \in u2 <=> <<"seat", m>> \in u)
    BY <1>9
  <2> HIDE DEF u, u2
  <2>7. /\ Parts(out, t, wire', k) /\ Dones(t)
        /\ Has(Queue(out, t), Asks) <=> Has(out, Asks)
        /\ \A m : Has(Queue(out, t), Binds(m)) <=> Has(out, Binds(m)) \/ m = n
        /\ t.mode = c.mode /\ t.asked = c.asked /\ t.global = c.global
        /\ \/ /\ t.seat = n /\ t.pending = {}
              /\ (c.mode = "first" /\ c.seat = None) \/ (c.mode = "transient" /\ c.global = n)
           \/ /\ t.seat = c.seat /\ t.pending = c.pending \cup {n}
              /\ c.mode = "named" \/ (c.mode = "transient" /\ c.global # n)
           \/ t.seat = c.seat /\ t.pending = c.pending /\ c.mode = "first" /\ c.seat # None
    BY <1>1, <1>2, <1>4, <1>5, <2>1, SeatAnnouncedWires
  <2>8. FoundPart(t, Queue(out, t), wire', u2, k.named)
    BY <1>1, <1>3, <1>5, <1>6, <2>2, <2>3, <2>4, <2>5, <2>6, <2>7, FoundAnnounced
  <2>9. t \in Side
    BY <1>1, <1>2, <2>1, SeatAnnouncedFollows DEF Plain, Follows, Proper
  <2> QED BY  <1>7, <1>8, <2>7, <2>8, <2>9, RestTaken DEF u2
<1>10. ASSUME NEW m \in AllManagers, g = <<"manager", m>> PROVE RestInv'
  <2>1. t = ManagerBound(c, m)
    BY <1>10 DEF Announce
  <2>2. \A n \in Seats : <<"seat", n>> \in u2 <=> <<"seat", n>> \in u
    BY <1>10
  <2> HIDE DEF t, u, u2
  <2>3. /\ Parts(out, t, wire', k) /\ Dones(t)
        /\ t.mode = c.mode /\ t.seat = c.seat /\ t.pending = c.pending /\ t.global = c.global
        /\ \A n : Has(Queue(out, t), Binds(n)) <=> Has(out, Binds(n))
        /\ IF m = "transient" /\ c.mode = "transient"
           THEN t.asked /\ Has(Queue(out, t), Asks)
           ELSE t.asked = c.asked /\ (Has(Queue(out, t), Asks) <=> Has(out, Asks))
    BY <1>2, <1>4, <1>5, <2>1, ManagerWires
  <2>4. Take(t) /\ unknown' \cap late' = {} /\ UNCHANGED k
    BY <1>7, <1>8
  <2>5. CASE m = "transient" /\ c.mode = "transient"
    <3>1. e = <<"global", Transient>> /\ e \in Coming /\ g = Transient
      BY <1>10, <2>5 DEF e, Transient, Coming
    <3>2. ~c.asked
      BY <1>1, <1>3, <3>1 DEF AskInv
    <3>3. ~Has(wire, Answers)
      BY <1>1, <3>2 DEF AskInv
    <3>4. FoundPart(t, Queue(out, t), wire', u2, k.named)
      BY <1>3, <1>6, <2>2, <2>3, <2>5, <3>1, <3>2, <3>3, FoundAsked
    <3>5. t \in Side
      <4> DEFINE a == [c EXCEPT !.managers = @ \cup {"transient"}, !.asked = TRUE]
      <4>1. t = Req(a, <<"transient">>) /\ Follows(c, a)
        BY <1>1, <1>2, <2>1, <2>5, AskFollows
      <4> HIDE DEF a
      <4>2. <<"transient">> \in Requests /\ Proper(a)
        BY <4>1 DEF Requests, Follows
      <4> QED BY <4>1, <4>2, ReqProper
    <3>6. settled' => unknown' = {} /\ (t.mode = "transient" => t.asked)
      BY <1>7, <2>3, <2>5
    <3> QED BY <2>3, <2>4, <3>4, <3>5, <3>6, RestTaken DEF u2
  <2>6. CASE ~(m = "transient" /\ c.mode = "transient")
    <3>1. t.asked = c.asked /\ (Has(Queue(out, t), Asks) <=> Has(out, Asks))
      BY <2>3, <2>6
    <3>2. e \notin Answers /\ e[1] # "name" /\ \A n \in Seats : e \notin Global(n)
      BY <1>10 DEF e, Answers, Global
    <3>3. FoundPart(t, Queue(out, t), wire', u2, k.named)
      BY <1>3, <1>6, <2>2, <2>3, <3>1, <3>2, FoundKept
    <3>4. t \in Side
      BY <1>1, <1>2, <2>1, <2>6, ManagerFollows DEF Plain, Follows, Proper
    <3> QED BY <1>7, <2>3, <2>4, <3>1, <3>3, <3>4, RestTaken DEF u2
  <2> QED BY <2>5, <2>6
<1>11. \/ \E n \in Seats : g = <<"seat", n>>
       \/ \E m \in AllManagers : g = <<"manager", m>>
  BY SeatsAssumption DEF Globals, Seats
<1> QED BY <1>9, <1>10, <1>11

LEMMA DispatchRests ==
  ASSUME SeatsInv, RestInv, Dispatch
  PROVE  RestInv'
<1>1. StateType /\ CapsInv /\ AskInv /\ ClipInv /\ Choice(c) /\ wire \in Seq(Events)
  BY DEF SeatsInv, ClipInv, StateType
<1>2. Parts(out, c, wire, k) /\ Dones(c) /\ Queue(out, c) = out /\ Proper(c) /\ c.req = <<>>
  BY <1>1, RestParts DEF StateType
<1> DEFINE e == Head(wire)
           u == unknown \cup late
<1>3. wire # <<>> /\ wire' = Tail(wire) /\ UNCHANGED <<unknown, late, k, settled>>
      /\ Take(CASE e[1] = "global" -> Announce(c, e[2])
                [] e[1] = "capabilities" -> Capabilities(c, e[2], e[3])
                [] e[1] = "name" -> SeatNamed(c, e[2])
                [] e[1] = "ready" -> Ready(c, e[2])
                [] e[1] = "denied" -> IF c.asked THEN Fallback(c) ELSE c
                [] e[1] = "keymap" -> Keymap(c, e[2]))
  BY DEF Dispatch
<1>4. e \in Events /\ e \in Told(k.had)
  <2>1. All(wire, Told(k.had))
    BY <1>1 DEF CapsInv
  <2> QED BY <1>1, <1>3, <2>1, HeadTailProperties, TailHas
<1>5. Dropped(wire, wire', e) /\ \A P : e \in P => Has(wire, P)
  BY <1>1, <1>3, DroppedFacts
<1>6. k \in CompositorType /\ k.named \in SUBSET Real /\ Within(c.caps, k.had) /\ out \in Seq(Requests)
  BY <1>1 DEF StateType, CompositorType, CapsInv
<1>7. /\ FoundPart(c, out, wire, u, k.named)
      /\ unknown' \cap late' = {} /\ unknown' \cup late' = u
      /\ settled' => unknown' = {} /\ (c.mode = "transient" => c.asked)
  BY <1>3 DEF RestInv
<1>8. ASSUME e[1] # "capabilities" PROVE Parts(out, c, wire', k)
  <2> HIDE DEF e
  <2> QED BY <1>2, <1>5, <1>8, PartsDropped
<1>9. e \in Answers => ~Has(wire', Answers) /\ c.asked /\ c.global = None /\ c.mode = "transient" /\ c.seat = None
  <2>1. Once(wire, Answers)
    BY <1>1 DEF AskInv
  <2>2. e \in Answers => ~Has(wire', Answers) /\ Has(wire, Answers)
    BY <1>1, <1>3, <2>1, TailHas
  <2> QED BY <1>1, <2>2 DEF AskInv, Choice
<1> HIDE DEF u
<1>10. ASSUME NEW t \in Side, Take(t), Parts(out, t, wire', k), Dones(t),
              FoundPart(t, Queue(out, t), wire', u, k.named),
              t.mode = "first" \/ (t.mode = c.mode /\ t.asked = c.asked)
       PROVE  RestInv'
  <2>1. settled' => unknown' = {} /\ (t.mode = "transient" => t.asked)
    BY <1>7, <1>10
  <2> QED BY <1>3, <1>7, <1>10, <2>1, RestTaken
<1> HIDE DEF e
<1>11. CASE e \in {"global"} \X (Globals \cup {<<"seat", Ours>>})
  <2>1. e[1] = "global" /\ e[2] \in Globals \cup {<<"seat", Ours>>} /\ e = <<"global", e[2]>>
    BY <1>11
  <2>2. Take(Announce(c, e[2]))
    BY <1>3, <2>1
  <2>3. Head(wire) = <<"global", e[2]>>
    BY <2>1 DEF e
  <2> QED BY <1>3, <2>1, <2>2, <2>3, AnnounceRests
<1>12. CASE e \in {"capabilities"} \X Seats \X SUBSET Caps
  <2> DEFINE n == e[2]
             caps == e[3]
             t == Capabilities(c, n, caps)
  <2>1. /\ e[1] = "capabilities" /\ n \in Seats /\ caps \in SUBSET Caps /\ caps \subseteq k.had[n]
        /\ e = <<"capabilities", n, caps>>
    BY <1>4, <1>12 DEF Told
  <2>2. Take(t)
    BY <1>3, <2>1
  <2>3. Has(wire, {e})
    BY <1>5
  <2>4. t \in Side
    <3>1. Proper(t)
      BY <1>1, <1>2, <2>1, CapabilitiesFollows
    <3> QED BY <3>1 DEF Proper
  <2>5. /\ Parts(out, t, wire', k) /\ Dones(t) /\ Longer(out, Queue(out, t), Wiring)
        /\ t.mode = c.mode /\ t.seat = c.seat /\ t.pending = c.pending /\ t.asked = c.asked
        /\ t.global = c.global
    <3> HIDE DEF n, caps
    <3>1. Dropped(wire, wire', <<"capabilities", n, caps>>) /\ Has(wire, {<<"capabilities", n, caps>>})
      BY <1>5, <2>1, <2>3
    <3> QED BY <1>2, <1>6, <2>1, <3>1, CapabilitiesWires
  <2>6. e \notin Answers /\ e[1] # "name" /\ \A m \in Seats : e \notin Global(m)
    BY <2>1 DEF Answers, Global
  <2> HIDE DEF t, n, caps
  <2>7. FoundPart(t, Queue(out, t), wire', u, k.named)
    BY <1>5, <1>7, <2>5, <2>6, WiringFacts, FoundKept
  <2> QED BY <1>10, <2>2, <2>4, <2>5, <2>7
<1>13. CASE e \in {"name"} \X Seats
  <2> DEFINE n == e[2]
             t == SeatNamed(c, n)
  <2>1. e[1] = "name" /\ n \in Seats /\ e = <<"name", n>>
    BY <1>13
  <2>2. Take(t)
    BY <1>3, <2>1
  <2> HIDE DEF n
  <2>3. t \in Side
    BY <1>1, <1>2, <2>1, SeatNamedFollows DEF Plain, Follows, Proper
  <2>4. /\ Parts(out, t, wire', k) /\ Dones(t) /\ Longer(out, Queue(out, t), Wiring)
        /\ t.mode = c.mode /\ t.asked = c.asked /\ t.global = c.global
        /\ IF c.mode = "named" /\ c.seat = None /\ n \in c.pending
           THEN t.seat = n /\ t.pending = {}
           ELSE t.seat = c.seat /\ t.pending = c.pending
    BY <1>2, <1>6, <1>8, <2>1, SeatNamedWires
  <2> HIDE DEF t
  <2>5. Has(wire, {e})
    BY <1>5
  <2>6. FoundPart(t, Queue(out, t), wire', u, k.named)
    BY <1>1, <1>5, <1>6, <1>7, <2>1, <2>4, <2>5, WiringFacts, FoundNamed
  <2> QED BY <1>10, <2>2, <2>3, <2>4, <2>6
<1>14. CASE e \in {"keymap"} \X Keymaps
  <2> DEFINE t == Keymap(c, e[2])
  <2>1. e[1] = "keymap" /\ e[2] \in Keymaps
    BY <1>14
  <2>2. Take(t)
    BY <1>3, <2>1
  <2>3. t \in Side
    BY <1>1, <1>2, <2>1, KeymapFollows DEF Plain, Follows, Proper
  <2>4. /\ Parts(out, t, wire', k) /\ Dones(t) /\ Longer(out, Queue(out, t), Wiring)
        /\ t.mode = c.mode /\ t.seat = c.seat /\ t.pending = c.pending /\ t.asked = c.asked
        /\ t.global = c.global
    BY <1>2, <1>6, <1>8, <2>1, KeymapWires
  <2>5. e \notin Answers /\ e[1] # "name" /\ \A m \in Seats : e \notin Global(m)
    BY <1>14 DEF Answers, Global
  <2> HIDE DEF t
  <2>6. FoundPart(t, Queue(out, t), wire', u, k.named)
    BY <1>5, <1>7, <2>4, <2>5, WiringFacts, FoundKept
  <2> QED BY <1>10, <2>2, <2>3, <2>4, <2>6
<1>15. CASE e = <<"ready", Ours>>
  <2> DEFINE t == Ready(c, Ours)
  <2>1. e[1] = "ready" /\ e[2] = Ours /\ e \in Answers /\ e \in Granted
    BY <1>15 DEF Answers, Granted
  <2>2. Take(t)
    BY <1>3, <2>1
  <2>3. t \in Side
    BY <1>1, <1>2, <1>9, <2>1, ReadyFollows DEF Follows, Proper
  <2>4. /\ Parts(out, t, wire', k) /\ Dones(t) /\ Longer(out, Queue(out, t), Wiring)
        /\ t.mode = c.mode /\ t.asked = c.asked /\ t.global = Ours
        /\ \/ Ours \in c.pending /\ t.seat = Ours /\ t.pending = {}
           \/ Ours \notin c.pending /\ t.seat = None /\ t.pending = c.pending
    BY <1>1, <1>2, <1>6, <1>8, <1>9, <2>1, ReadyWires
  <2> HIDE DEF t
  <2>5. FoundPart(t, Queue(out, t), wire', u, k.named)
    BY <1>1, <1>5, <1>7, <1>9, <2>1, <2>4, WiringFacts, FoundReady
  <2> QED BY <1>10, <2>2, <2>3, <2>4, <2>5
<1>16. CASE e = <<"denied">>
  <2> DEFINE t == Fallback(c)
  <2>1. e[1] = "denied" /\ e \in Answers /\ e \in Refused
    BY <1>16 DEF Answers, Refused
  <2>2. Take(t)
    BY <1>3, <1>9, <2>1
  <2>3. t \in Side
    BY <1>1, <1>2, <1>9, <2>1, FallbackFollows DEF Follows, Proper
  <2>4. /\ Parts(out, t, wire', k) /\ Dones(t) /\ Longer(out, Queue(out, t), Wiring)
        /\ t.mode = "first" /\ t.asked = FALSE /\ t.global = None
        /\ \/ c.seat = None /\ t.seat \in c.pending /\ t.pending = {}
           \/ t.seat = c.seat /\ t.pending = c.pending /\ (c.seat # None \/ c.pending = {})
    BY <1>2, <1>6, <1>8, <2>1, FallbackWires
  <2> HIDE DEF t
  <2>5. Ours \notin c.pending /\ ~Has(wire, Global(Ours))
    <3>1. Has(wire, Refused)
      BY <1>5, <2>1
    <3> QED BY <1>7, <3>1 DEF FoundPart
  <2>6. \/ t.seat \in c.pending \ {None} /\ t.pending = {}
        \/ t.seat = c.seat /\ t.pending = c.pending /\ c.pending = {}
    <3>1. None \notin c.pending
      BY <1>2, SeatsAreNone DEF Proper, Side
    <3> QED BY <1>9, <2>1, <2>4, <3>1
  <2>7. FoundPart(t, Queue(out, t), wire', u, k.named)
    BY <1>1, <1>5, <1>7, <1>9, <2>1, <2>4, <2>5, <2>6, WiringFacts, FoundFallback
  <2> QED BY <1>10, <2>2, <2>3, <2>4, <2>7
<1> QED BY <1>4, <1>11, <1>12, <1>13, <1>14, <1>15, <1>16 DEF Events

LEMMA SettleRests ==
  ASSUME SeatsInv, RestInv, Settle
  PROVE  RestInv'
<1>1. StateType /\ CapsInv /\ AskInv /\ ClipInv /\ Choice(c)
  BY DEF SeatsInv, ClipInv
<1>2. Parts(out, c, wire, k) /\ Dones(c) /\ Queue(out, c) = out /\ Proper(c)
  BY <1>1, RestParts
<1>3. UNCHANGED <<unknown, late, k, wire>> /\ unknown = {}
      /\ Take(IF c.mode = "transient" /\ ~c.asked THEN Fallback(c) ELSE c)
  BY DEF Settle
<1>4. /\ k \in CompositorType /\ Within(c.caps, k.had) /\ out \in Seq(Requests) /\ c.asked \in BOOLEAN
      /\ c \in Side
  BY <1>1 DEF StateType, Side, CapsInv
<1>5. FoundPart(c, out, wire, unknown \cup late, k.named) /\ unknown \cap late = {}
  BY DEF RestInv
<1>6. CASE ~(c.mode = "transient" /\ ~c.asked)
  <2>1. Take(c)
    BY <1>3, <1>6
  <2> QED BY <1>2, <1>3, <1>4, <1>5, <1>6, <2>1, RestTaken
<1>7. CASE c.mode = "transient" /\ ~c.asked
  <2> DEFINE t == Fallback(c)
  <2>1. Take(t)
    BY <1>3, <1>7
  <2>2. c.global = None /\ c.seat = None
    BY <1>1, <1>7 DEF Choice
  <2>3. t \in Side
    BY <1>1, <1>2, <2>2, FallbackFollows DEF Follows, Proper
  <2>4. /\ Parts(out, t, wire, k) /\ Dones(t) /\ Longer(out, Queue(out, t), Wiring)
        /\ t.mode = "first" /\ t.asked = FALSE /\ t.global = None
        /\ \/ c.seat = None /\ t.seat \in c.pending /\ t.pending = {}
           \/ t.seat = c.seat /\ t.pending = c.pending /\ (c.seat # None \/ c.pending = {})
    BY <1>2, <1>4, FallbackWires
  <2> HIDE DEF t
  <2>5. Ours \notin c.pending /\ ~Has(wire, Global(Ours)) /\ ~Has(wire, Answers)
    BY <1>1, <1>5, <1>7 DEF FoundPart, AskInv
  <2>6. \/ t.seat \in c.pending \ {None} /\ t.pending = {}
        \/ t.seat = c.seat /\ t.pending = c.pending /\ c.pending = {}
    <3>1. None \notin c.pending
      BY <1>4, SeatsAreNone DEF Side
    <3> QED BY <2>2, <2>4, <3>1
  <2>7. <<"denied">> \in Refused /\ Dropped(wire, wire, <<"denied">>)
    BY DroppedFacts DEF Refused
  <2>8. FoundPart(t, Queue(out, t), wire, unknown \cup late, k.named)
    BY <1>1, <1>5, <2>2, <2>4, <2>5, <2>6, <2>7, WiringFacts, FoundFallback
  <2> QED BY <1>3, <1>5, <2>1, <2>3, <2>4, <2>8, RestTaken
<1> QED BY <1>6, <1>7

\* The last keymap on its way is one.
LEMMA LastIsKeymap ==
  ASSUME out \in Seq(Requests), LastIs(out, KeymapRequests, <<"keymap", c.keymap>>)
  PROVE  <<"keymap", c.keymap>> \in KeymapRequests
<1> DEFINE e == <<"keymap", c.keymap>>
<1>1. PICK j \in DOMAIN out : out[j] = e
  BY DEF LastIs
<1>2. e \in Requests /\ e[1] = "keymap"
  <2>1. out[j] \in Requests
    BY ElementOfSeq, LenProperties
  <2> QED BY <1>1, <2>1
<1> HIDE DEF e
<1>3. e \in KeymapRequests
  BY <1>2 DEF Requests, KeymapRequests
<1> QED BY <1>3 DEF e

\* A keymap told of is nothing else.
LEMMA TellKeymapClear ==
  ASSUME NEW s \in CompositorType
  PROVE  LET w == TellKeymap(s) IN
         w \in Seq(Events) /\ \A P, K : Clear(P, K) /\ "keymap" \in K => ~Has(w, P)
<1>1. TellKeymap(s) \in Seq(Events)
  BY TellKeymapQuiet
<1>2. ASSUME NEW P, NEW K, Clear(P, K), "keymap" \in K PROVE ~Has(TellKeymap(s), P)
  <2>1. CASE s.kbd = None \/ SeatKeymap(s) = None
    BY <2>1 DEF TellKeymap, Has
  <2>2. CASE ~(s.kbd = None \/ SeatKeymap(s) = None)
    <3> DEFINE e == <<"keymap", SeatKeymap(s)>>
    <3>1. TellKeymap(s) = <<e>> /\ e[1] = "keymap"
      BY <2>2 DEF TellKeymap
    <3>2. e \notin P
      BY <1>2, <3>1 DEF Clear
    <3> HIDE DEF e
    <3> QED BY <3>1, <3>2 DEF Has
  <2> QED BY <2>1, <2>2
<1> QED BY <1>1, <1>2

\* What the first request handled leaves of the parts it has nothing to do with,
\* w being what the compositor answers.
LEMMA Leaves ==
  ASSUME RestInv, out \in Seq(Requests), out # <<>>, out' = Tail(out), UNCHANGED <<c, unknown, late>>,
         wire \in Seq(Events), NEW w \in Seq(Events), wire' = wire \o w, k'.named = k.named
  PROVE  LET r == Head(out) IN
         /\ Dropped(out, out', r) /\ \A P : Has(wire', P) <=> Has(wire, P) \/ Has(w, P)
         /\ r[1] \notin {"device", "destroy"} /\ k'.devices = k.devices => DevicePart(c', out', k'.devices)
         /\ r[1] \notin {"virtual", "keymap"} /\ k'.virtual = k.virtual /\ k'.vmap = k.vmap =>
              VirtualPart(c', out', k'.virtual, k'.vmap)
         /\ r[1] # "bind" /\ k'.had = k.had /\ (\A n : ~Has(w, OldNews(n, k.had))) =>
              KeysPart(c', out', wire', k'.had)
         /\ r[1] \notin {"bind", "transient"} /\ (\A P : Clear(P, {"capabilities", "keymap"}) => ~Has(w, P)) =>
              FoundPart(c', out', wire', unknown' \cup late', k'.named)
<1> DEFINE r == Head(out)
<1>1. Dropped(out, out', r)
  <2>1. \A P : /\ Has(Tail(out), P) => Has(out, P)
               /\ Has(out, P) => r \in P \/ Has(Tail(out), P)
    BY TailHas
  <2> QED BY <2>1 DEF Dropped
<1>2. /\ \A P, R : Before(out, P, R) => Before(out', P, R)
      /\ \A P, e : LastIs(out, P, e) /\ e \in P => IF Has(out', P) THEN LastIs(out', P, e) ELSE r = e
  BY TailFacts
<1>3. \A P : Has(wire', P) <=> Has(wire, P) \/ Has(w, P)
  BY ConcatHas
<1>4. r \in Requests
  BY HeadTailProperties
<1> HIDE DEF r
<1>5. ASSUME r[1] \notin {"device", "destroy"}, k'.devices = k.devices PROVE DevicePart(c', out', k'.devices)
  <2>1. /\ \A d : r \notin Creates(d, c.clip)
        /\ r \notin Destroys(c.clip) /\ r \notin StrayDevices(c.clip)
    BY <1>5 DEF Creates, Destroys, StrayDevices
  <2>2. /\ \A d : Has(out', Creates(d, c.clip)) <=> Has(out, Creates(d, c.clip))
        /\ Has(out', Destroys(c.clip)) <=> Has(out, Destroys(c.clip))
        /\ Has(out', StrayDevices(c.clip)) <=> Has(out, StrayDevices(c.clip))
    BY <1>1, <2>1 DEF Dropped
  <2> QED BY <1>2, <1>5, <2>2 DEF DevicePart, RestInv
<1>6. ASSUME r[1] \notin {"virtual", "keymap"}, k'.virtual = k.virtual, k'.vmap = k.vmap
      PROVE  VirtualPart(c', out', k'.virtual, k'.vmap)
  <2>1. r \notin Devises(c.seat) /\ r \notin StrayVirtuals(c.seat) /\ r \notin KeymapRequests
    BY <1>6 DEF Devises, StrayVirtuals, KeymapRequests
  <2>2. /\ Has(out', Devises(c.seat)) <=> Has(out, Devises(c.seat))
        /\ Has(out', StrayVirtuals(c.seat)) <=> Has(out, StrayVirtuals(c.seat))
        /\ Has(out', KeymapRequests) <=> Has(out, KeymapRequests)
    BY <1>1, <2>1 DEF Dropped
  <2>3. Has(out', KeymapRequests) => LastIs(out', KeymapRequests, <<"keymap", c.keymap>>)
    <3>1. Has(out', KeymapRequests) => LastIs(out, KeymapRequests, <<"keymap", c.keymap>>)
      BY <2>2 DEF RestInv, VirtualPart
    <3>2. LastIs(out, KeymapRequests, <<"keymap", c.keymap>>) => <<"keymap", c.keymap>> \in KeymapRequests
      BY LastIsKeymap
    <3> QED BY <1>2, <3>1, <3>2
  <2> QED BY <1>6, <2>2, <2>3 DEF VirtualPart, RestInv
<1>7. ASSUME r[1] # "bind", k'.had = k.had, \A n : ~Has(w, OldNews(n, k.had))
      PROVE  KeysPart(c', out', wire', k'.had)
  <2>1. \A n : r \notin Binds(n)
    BY <1>7 DEF Binds
  <2>2. \A n : Has(out', Binds(n)) <=> Has(out, Binds(n))
    BY <1>1, <2>1 DEF Dropped
  <2> QED BY <1>3, <1>7, <2>2 DEF KeysPart, RestInv
<1>8. ASSUME r[1] \notin {"bind", "transient"}, \A P : Clear(P, {"capabilities", "keymap"}) => ~Has(w, P)
      PROVE  FoundPart(c', out', wire', unknown' \cup late', k'.named)
  <2>1. r \notin Asks /\ \A n : r \notin Binds(n)
    BY <1>8 DEF Asks, Binds
  <2>2. (Has(out', Asks) <=> Has(out, Asks)) /\ \A n : Has(out', Binds(n)) <=> Has(out, Binds(n))
    BY <1>1, <2>1 DEF Dropped
  <2>3. /\ \A n : ~Has(w, Global(n))
        /\ \A S : ~Has(w, Names(S))
        /\ ~Has(w, Granted) /\ ~Has(w, Refused) /\ ~Has(w, Answers)
    <3> DEFINE K == {"capabilities", "keymap"}
    <3>1. /\ \A n : Clear(Global(n), K)
          /\ \A S : Clear(Names(S), K)
          /\ Clear(Granted, K) /\ Clear(Refused, K) /\ Clear(Answers, K)
      BY DEF Clear, Global, Names, Granted, Refused, Answers
    <3> QED BY <1>8, <3>1
  <2> QED BY <1>3, <2>2, <2>3 DEF FoundPart, RestInv
<1> QED BY <1>1, <1>3, <1>5, <1>6, <1>7, <1>8 DEF r

LEMMA DeviceHandled ==
  ASSUME DevicePart(c, out, k.devices), out \in Seq(Requests), out # <<>>, out' = Tail(out), UNCHANGED c,
         NEW r, r = Head(out), r \in Requests,
         \/ r[1] = "device" /\ k'.devices = k.devices \cup {<<r[2], r[3]>>}
         \/ r[1] = "destroy" /\ k'.devices = k.devices \ {<<r[2], r[3]>>}
  PROVE  DevicePart(c', out', k'.devices)
<1> DEFINE n == c.clip
           made(d) == <<d, n>> \in k.devices \/ Has(out, Creates(d, n))
           left(d) == <<d, n>> \in k'.devices \/ Has(out', Creates(d, n))
<1>1. /\ Dropped(out, out', r)
      /\ \A P, R : Before(out, P, R) => Before(out', P, R) /\ (r \in R => ~Has(out', P))
      /\ r \notin StrayDevices(n)
  <2>1. \A P : /\ Has(Tail(out), P) => Has(out, P)
               /\ Has(out, P) => r \in P \/ Has(Tail(out), P)
               /\ r \in P => Has(out, P)
    BY TailHas
  <2>2. ~Has(out, StrayDevices(n))
    BY DEF DevicePart
  <2> QED BY <2>1, <2>2, TailFacts DEF Dropped
<1>2. \/ r \in Creates("ext", n) \/ r \in Creates("wlr", n)
      \/ r \in Destroys(n)
  <2>1. r \in {"device", "destroy"} \X {"ext", "wlr"} \X Seats
    BY DEF Requests
  <2> QED BY <1>1, <2>1 DEF StrayDevices
<1>3. /\ ~Has(out', StrayDevices(n)) /\ Before(out', Creates("wlr", n), Destroys(n))
      /\ k.devices \subseteq {"ext", "wlr"} \X {n}
  BY <1>1 DEF DevicePart, Dropped
<1>4. CASE r \in Creates("ext", n) \/ r \in Creates("wlr", n)
  <2>1. /\ r[1] = "device" /\ r[3] = n /\ r[2] \in {"ext", "wlr"} /\ r \in Creates(r[2], n)
        /\ \A d : d # r[2] => r \notin Creates(d, n)
        /\ r \notin Destroys(n)
    BY <1>4 DEF Creates, Destroys
  <2>2. k'.devices = k.devices \cup {<<r[2], n>>}
    BY <2>1
  <2>3. \A d : left(d) <=> made(d)
    <3>1. Has(out, Creates(r[2], n))
      BY <2>1, TailHas
    <3> QED BY <1>1, <2>1, <2>2, <3>1 DEF Dropped
  <2>4. Has(out', Destroys(n)) <=> Has(out, Destroys(n))
    BY <1>1, <2>1 DEF Dropped
  <2>5. k'.devices \subseteq {"ext", "wlr"} \X {n}
    BY <1>3, <2>1, <2>2
  <2> QED BY <1>3, <2>3, <2>4, <2>5 DEF DevicePart
<1>5. CASE r \in Destroys(n)
  <2>1. /\ r[1] = "destroy" /\ r[2] = "wlr" /\ r[3] = n
        /\ \A d : r \notin Creates(d, n)
    BY <1>5 DEF Creates, Destroys
  <2>2. k'.devices = k.devices \ {<<"wlr", n>>}
    BY <2>1
  <2>3. c.device = "ext"
    <3>1. Has(out, Destroys(n))
      BY <1>5, TailHas
    <3> QED BY <3>1 DEF DevicePart
  <2>4. left("ext") <=> made("ext")
    BY <1>1, <2>1, <2>2 DEF Dropped
  <2>5. ~left("wlr")
    BY <1>1, <1>5, <2>2 DEF DevicePart
  <2>6. k'.devices \subseteq {"ext", "wlr"} \X {n}
    BY <1>3, <2>2
  <2> QED BY <1>3, <2>3, <2>4, <2>5, <2>6 DEF DevicePart
<1> QED BY <1>2, <1>4, <1>5

LEMMA HandleRests ==
  ASSUME SeatsInv, RestInv, Handle
  PROVE  RestInv'
<1>1. StateType /\ CapsInv /\ AskInv /\ ClipInv /\ wire \in Seq(Events) /\ out \in Seq(Requests)
  BY DEF SeatsInv, StateType
<1> DEFINE r == Head(out)
           n == r[2]
           u == unknown \cup late
<1>2. out # <<>> /\ out' = Tail(out) /\ UNCHANGED <<unknown, late, c, settled>>
  BY DEF Handle
<1>3. r \in Requests
  BY <1>1, <1>2, HeadTailProperties
<1>4. k \in CompositorType /\ k.had \in [Seats -> SUBSET Caps] /\ k.named \in SUBSET Real
  BY <1>1 DEF StateType, CompositorType
<1>5. ASSUME DevicePart(c', out', k'.devices), VirtualPart(c', out', k'.virtual, k'.vmap),
             KeysPart(c', out', wire', k'.had), FoundPart(c', out', wire', unknown' \cup late', k'.named)
      PROVE  RestInv'
  BY <1>2, <1>5 DEF RestInv, DeviceDone, VirtualDone, KeysDone
<1>6. /\ <<>> \in Seq(Events) /\ wire = wire \o <<>>
      /\ \A P : ~Has(<<>>, P)
  BY <1>1, EmptySeq DEF Has
<1>7. \A P : r \in P => Has(out, P)
  BY <1>1, <1>2, TailHas
<1>8. CASE r[1] = "bind"
  <2>1. n \in Seats /\ r = <<"bind", n>>
    BY <1>3, <1>8 DEF Requests
  <2> DEFINE e == <<"capabilities", n, k.had[n]>>
             f == <<"name", n>>
             w == <<e>> \o IF n \in k.named THEN <<f>> ELSE <<>>
  <2>2. wire' = wire \o w /\ k' = k
    BY <1>8 DEF Handle, Sends
  <2>3. e \in Events /\ f \in Events
    BY <1>4, <2>1 DEF Events
  <2> DEFINE rest == IF n \in k.named THEN <<f>> ELSE <<>>
  <2>4. w \in Seq(Events) /\ \A P : Has(w, P) <=> e \in P \/ (n \in k.named /\ f \in P)
    <3> DEFINE h == n \in k.named
    <3>1. w = <<e>> \o rest /\ rest = IF h THEN <<f>> ELSE <<>>
      OBVIOUS
    <3> HIDE DEF e, f, rest, w, h
    <3>2. <<e>> \in Seq(Events) /\ \A P : Has(<<e>>, P) <=> e \in P
      BY <2>3 DEF Has
    <3>3. <<f>> \in Seq(Events) /\ \A P : Has(<<f>>, P) <=> f \in P
      BY <2>3 DEF Has
    <3>4. rest \in Seq(Events) /\ \A P : Has(rest, P) <=> h /\ f \in P
      BY <1>6, <3>1, <3>3
    <3>5. w \in Seq(Events)
      BY <3>1, <3>2, <3>4, ConcatProperties
    <3>6. \A P : Has(w, P) <=> Has(<<e>>, P) \/ Has(rest, P)
      BY <3>1, <3>2, <3>4, ConcatHas
    <3>7. \A P : Has(w, P) <=> e \in P \/ (h /\ f \in P)
      BY <3>2, <3>4, <3>6
    <3> QED BY <3>5, <3>7 DEF h
  <2> HIDE DEF w, r
  <2>5. /\ Dropped(out, out', r) /\ \A P : Has(wire', P) <=> Has(wire, P) \/ Has(w, P)
        /\ DevicePart(c', out', k'.devices) /\ VirtualPart(c', out', k'.virtual, k'.vmap)
    BY <1>1, <1>2, <1>8, <2>2, <2>4, Leaves DEF r
  <2>6. (\A m : m # n => r \notin Binds(m)) /\ r \notin Asks
    BY <2>1 DEF Binds, Asks
  <2>7. /\ \A m : m # n => (Has(out', Binds(m)) <=> Has(out, Binds(m)))
        /\ \A m : Has(out', Binds(m)) => Has(out, Binds(m))
        /\ Has(out', Asks) <=> Has(out, Asks)
    BY <2>5, <2>6 DEF Dropped
  <2>8. KeysPart(c', out', wire', k'.had)
    <3>1. \A m : ~Has(w, OldNews(m, k.had))
      BY <2>4 DEF OldNews
    <3>2. k.had[n] = Caps => Has(w, News(n))
      BY <2>4 DEF News
    <3> HIDE DEF e, f
    <3> QED BY <1>2, <2>2, <2>5, <2>7, <3>1, <3>2 DEF RestInv, KeysPart
  <2>9. FoundPart(c', out', wire', unknown' \cup late', k'.named)
    <3>1. /\ \A m : ~Has(w, Global(m))
          /\ ~Has(w, Granted) /\ ~Has(w, Refused) /\ ~Has(w, Answers)
      BY <2>4 DEF Global, Granted, Refused, Answers
    <3>2. ~Has(w, Names(Seats \ k.named))
      BY <2>4 DEF Names
    <3>3. n \in k.named => Has(w, Names({n}))
      BY <2>4 DEF Names
    <3> HIDE DEF e, f
    <3> QED BY <1>2, <2>2, <2>5, <2>7, <3>1, <3>2, <3>3 DEF RestInv, FoundPart
  <2> QED BY <1>5, <2>5, <2>8, <2>9
<1>9. CASE r[1] = "transient"
  <2>1. r \in Asks
    BY <1>3, <1>9 DEF Requests, Asks
  <2>2. /\ Has(out, Asks) /\ ~Has(out', Asks) /\ c.asked /\ c.global = None /\ ~Has(wire, Answers)
        /\ Ours \notin c.pending /\ ~Has(wire, Global(Ours))
    <3>1. Has(out, Asks) /\ ~Has(out', Asks)
      BY <1>1, <1>2, <2>1, TailHas DEF AskInv
    <3> QED BY <1>1, <3>1 DEF AskInv, RestInv, FoundPart
  <2> DEFINE g == <<"global", <<"seat", Ours>>>>
             y == <<"ready", Ours>>
             d == <<"denied">>
  <2>3. PICK w \in {<<g, y>>, <<y, g>>, <<d>>} : wire' = wire \o w
    BY <1>9 DEF Handle, Sends
  <2>4. k' = k
    BY <1>9 DEF Handle
  <2>5. {g, y, d} \subseteq Events
    BY DEF Events
  <2> HIDE DEF g, y, d
  <2>6. /\ w \in Seq(Events)
        /\ (\A P : Has(w, P) <=> g \in P \/ y \in P) \/ (\A P : Has(w, P) <=> d \in P)
    <3>1. CASE w = <<g, y>>
      BY <2>5, <3>1 DEF Has
    <3>2. CASE w = <<y, g>>
      BY <2>5, <3>2 DEF Has
    <3>3. CASE w = <<d>>
      BY <2>5, <3>3 DEF Has
    <3> QED BY <2>3, <3>1, <3>2, <3>3
  <2> HIDE DEF r
  <2>7. /\ \A P : Has(wire', P) <=> Has(wire, P) \/ Has(w, P)
        /\ Dropped(out, out', r)
        /\ DevicePart(c', out', k'.devices) /\ VirtualPart(c', out', k'.virtual, k'.vmap)
    BY <1>1, <1>2, <1>9, <2>3, <2>4, <2>6, Leaves DEF r
  <2>8. \A m : /\ ~Has(w, OldNews(m, k.had))
               /\ m # Ours => ~Has(w, Global(m))
    BY <2>6 DEF OldNews, Global, g, y, d
  <2>9. KeysPart(c', out', wire', k'.had)
    BY <1>1, <1>2, <1>9, <2>3, <2>4, <2>6, <2>8, Leaves DEF r
  <2>10. \A S : ~Has(w, Names(S))
    BY <2>6 DEF Names, g, y, d
  <2>11. /\ Has(w, Answers)
         /\ \/ Has(w, Global(Ours)) /\ ~Has(w, Refused)
            \/ ~Has(w, Global(Ours)) /\ ~Has(w, Granted)
    BY <2>6 DEF Answers, Global, Refused, Granted, g, y, d
  <2>12. \A m : Has(out', Binds(m)) <=> Has(out, Binds(m))
    <3>1. \A m : r \notin Binds(m)
      BY <1>9 DEF Binds
    <3> QED BY <2>7, <3>1 DEF Dropped
  <2>13. ~Has(wire, Refused) /\ ~Has(wire, Granted)
    BY <2>2 DEF Has, Answers, Refused, Granted
  <2>14. FoundPart(c', out', wire', unknown' \cup late', k'.named)
    <3>1. Ours \notin Real
      BY SeatsAreNone
    <3>2. \A m \in Real : Has(wire', Global(m)) <=> Has(wire, Global(m))
      BY <2>7, <2>8, <3>1
    <3>3. \A S : Has(wire', Names(S)) <=> Has(wire, Names(S))
      BY <2>7, <2>10
    <3>4. /\ Has(wire', Answers)
          /\ Has(wire', Refused) => ~Has(wire', Global(Ours))
          /\ Has(wire', Granted) => Has(wire', Global(Ours))
      BY <2>2, <2>7, <2>11, <2>13
    <3> QED BY <1>2, <2>2, <2>4, <2>12, <3>2, <3>3, <3>4, SeatsAreNone DEF RestInv, FoundPart
  <2> QED BY <1>5, <2>7, <2>9, <2>14
<1>10. ASSUME wire' = wire PROVE wire' = wire \o <<>>
  BY <1>6, <1>10
<1>11. CASE r[1] \in {"device", "destroy"}
  <2>1. /\ wire' = wire
        /\ \/ r[1] = "device" /\ k' = [k EXCEPT !.devices = k.devices \cup {<<r[2], r[3]>>}]
           \/ r[1] = "destroy" /\ k' = [k EXCEPT !.devices = k.devices \ {<<r[2], r[3]>>}]
    BY <1>11 DEF Handle
  <2>2. /\ k'.virtual = k.virtual /\ k'.vmap = k.vmap /\ k'.had = k.had /\ k'.named = k.named
        /\ \/ r[1] = "device" /\ k'.devices = k.devices \cup {<<r[2], r[3]>>}
           \/ r[1] = "destroy" /\ k'.devices = k.devices \ {<<r[2], r[3]>>}
    BY <1>4, <2>1 DEF CompositorType
  <2> HIDE DEF r
  <2>3. DevicePart(c', out', k'.devices)
    BY <1>1, <1>2, <1>3, <2>2, DeviceHandled DEF RestInv, r
  <2>4. VirtualPart(c', out', k'.virtual, k'.vmap) /\ KeysPart(c', out', wire', k'.had)
        /\ FoundPart(c', out', wire', unknown' \cup late', k'.named)
    BY <1>1, <1>2, <1>6, <1>10, <1>11, <2>1, <2>2, Leaves DEF r
  <2> QED BY <1>5, <2>3, <2>4
<1>12. CASE r[1] = "virtual"
  <2>1. n \in Seats /\ r = <<"virtual", n>>
    BY <1>3, <1>12 DEF Requests
  <2> DEFINE e == <<"capabilities", n, Caps>>
  <2>2. wire' = wire \o <<e>> /\ k' = [k EXCEPT !.virtual = n, !.had[n] = Caps]
    BY <1>12 DEF Handle, Sends
  <2>3. /\ k'.virtual = n /\ k'.vmap = k.vmap /\ k'.devices = k.devices /\ k'.named = k.named
        /\ k'.had = [k.had EXCEPT ![n] = Caps]
    BY <1>4, <2>2 DEF CompositorType
  <2>4. e \in Events
    BY <2>1 DEF Events
  <2>5. <<e>> \in Seq(Events) /\ \A P : Has(<<e>>, P) <=> e \in P
    <3> HIDE DEF e
    <3> QED BY <2>4 DEF Has
  <2> DEFINE w == <<e>>
  <2> HIDE DEF w, r
  <2>6. r \notin StrayVirtuals(c.seat) /\ r \in Devises(c.seat) /\ n = c.seat /\ c.virtual
    <3>1. r \notin StrayVirtuals(c.seat)
      BY <1>7 DEF RestInv, VirtualPart
    <3>2. r \in Devises(c.seat)
      BY <2>1, <3>1 DEF StrayVirtuals
    <3>3. Has(out, Devises(c.seat))
      BY <1>7, <3>2
    <3> QED BY <2>1, <3>1, <3>2, <3>3 DEF Devises, RestInv, VirtualPart
  <2>7. /\ Dropped(out, out', r) /\ \A P : Has(wire', P) <=> Has(wire, P) \/ Has(w, P)
        /\ DevicePart(c', out', k'.devices)
        /\ FoundPart(c', out', wire', unknown' \cup late', k'.named)
    <3>1. \A P : Clear(P, {"capabilities", "keymap"}) => ~Has(w, P)
      BY <2>5 DEF Clear, w
    <3> HIDE DEF e
    <3> QED BY <1>1, <1>2, <1>12, <2>2, <2>3, <2>5, <3>1, Leaves DEF r, w
  <2>8. VirtualPart(c', out', k'.virtual, k'.vmap)
    <3>1. /\ Has(out', KeymapRequests) <=> Has(out, KeymapRequests)
          /\ ~Has(out', StrayVirtuals(c.seat))
          /\ Has(out', KeymapRequests) => LastIs(out', KeymapRequests, <<"keymap", c.keymap>>)
      <4>1. r \notin KeymapRequests
        BY <1>12 DEF KeymapRequests
      <4>2. Has(out', KeymapRequests) <=> Has(out, KeymapRequests)
        BY <2>7, <4>1 DEF Dropped
      <4>3. ~Has(out', StrayVirtuals(c.seat))
        BY <2>7 DEF Dropped, RestInv, VirtualPart
      <4>4. Has(out', KeymapRequests) => LastIs(out, KeymapRequests, <<"keymap", c.keymap>>)
        BY <4>2 DEF RestInv, VirtualPart
      <4>5. LastIs(out, KeymapRequests, <<"keymap", c.keymap>>) => <<"keymap", c.keymap>> \in KeymapRequests
        BY <1>1, LastIsKeymap
      <4> QED BY <1>1, <1>2, <4>1, <4>2, <4>3, <4>4, <4>5, TailFacts DEF r
    <3> QED BY <1>2, <2>3, <2>6, <3>1 DEF RestInv, VirtualPart
  <2>9. KeysPart(c', out', wire', k'.had)
    <3>1. \A m \in Seats : m # n => k'.had[m] = k.had[m] /\ OldNews(m, k'.had) = OldNews(m, k.had)
      BY <1>4, <2>3 DEF OldNews
    <3>2. \A m : m # n => ~Has(w, OldNews(m, k.had))
      BY <2>5 DEF OldNews, w
    <3>3. Has(wire', News(n)) /\ k'.had[n] = Caps
      BY <1>4, <2>1, <2>3, <2>5, <2>7 DEF News, w
    <3>4. \A m : Has(out', Binds(m)) <=> Has(out, Binds(m))
      <4>1. \A m : r \notin Binds(m)
        BY <1>12 DEF Binds
      <4> QED BY <2>7, <4>1 DEF Dropped
    <3>5. \A m \in Seats : k'.had[m] \in {{}, Caps}
      BY <3>1, <3>3 DEF RestInv, KeysPart
    <3>6. \A m \in Seats : m # n => ~Has(wire', OldNews(m, k'.had))
      BY <2>6, <2>7, <3>1, <3>2 DEF RestInv, KeysPart
    <3> HIDE DEF n, e
    <3> QED BY <1>2, <2>1, <2>6, <2>7, <3>1, <3>3, <3>4, <3>5, <3>6 DEF RestInv, KeysPart
  <2> QED BY <1>5, <2>7, <2>8, <2>9
<1>13. CASE r[1] = "get_pointer"
  <2>1. wire' = wire /\ k' = Passive([k EXCEPT !.ptr = n], n, "pointer")
    BY <1>13 DEF Handle
  <2>2. /\ k'.virtual = k.virtual /\ k'.vmap = k.vmap /\ k'.had = k.had /\ k'.named = k.named
        /\ k'.devices = k.devices
    BY <1>4, <2>1 DEF Passive, CompositorType
  <2> HIDE DEF r, n
  <2>3. /\ DevicePart(c', out', k'.devices) /\ VirtualPart(c', out', k'.virtual, k'.vmap)
        /\ KeysPart(c', out', wire', k'.had)
        /\ FoundPart(c', out', wire', unknown' \cup late', k'.named)
    BY <1>1, <1>2, <1>6, <1>10, <1>13, <2>1, <2>2, Leaves DEF r
  <2> QED BY <1>5, <2>3
<1>14. CASE r[1] = "get_keyboard"
  <2> DEFINE p == [k EXCEPT !.kbd = n]
             w == TellKeymap(k')
  <2>1. wire' = wire \o w /\ k' = Passive(p, n, "keyboard")
    BY <1>14 DEF Handle, Sends
  <2>2. /\ k'.virtual = k.virtual /\ k'.vmap = k.vmap /\ k'.had = k.had /\ k'.named = k.named
        /\ k'.devices = k.devices
    BY <1>4, <2>1 DEF Passive, CompositorType
  <2>3. k' \in CompositorType
    <3>1. n \in Seats /\ p \in CompositorType
      <4>1. n \in Seats
        BY <1>3, <1>14 DEF Requests
      <4> QED BY <1>4, <4>1 DEF CompositorType
    <3> HIDE DEF p
    <3> QED BY <2>1, <3>1 DEF Passive, CompositorType
  <2> HIDE DEF r, n, p
  <2>4. w \in Seq(Events) /\ \A P : Clear(P, {"capabilities", "keymap"}) => ~Has(w, P)
    BY <2>3, TellKeymapClear
  <2>5. \A m : ~Has(w, OldNews(m, k.had))
    <3>1. \A P : Clear(P, {"keymap"}) => ~Has(w, P)
      BY <2>3, TellKeymapClear
    <3>2. \A m : Clear(OldNews(m, k.had), {"keymap"})
      BY DEF Clear, OldNews
    <3> HIDE DEF w
    <3> QED BY <3>1, <3>2
  <2> HIDE DEF w
  <2>6. /\ DevicePart(c', out', k'.devices) /\ VirtualPart(c', out', k'.virtual, k'.vmap)
        /\ KeysPart(c', out', wire', k'.had)
        /\ FoundPart(c', out', wire', unknown' \cup late', k'.named)
    BY <1>1, <1>2, <1>14, <2>1, <2>2, <2>4, <2>5, Leaves DEF r
  <2> QED BY <1>5, <2>6
<1>15. CASE r[1] = "keymap"
  <2> DEFINE w == IF k.other = None THEN TellKeymap(k') ELSE <<>>
  <2>1. wire' = wire \o w /\ k' = [k EXCEPT !.vmap = n]
    BY <1>15 DEF Handle, Sends
  <2>2. n \in Keymaps /\ r = <<"keymap", n>> /\ r \in KeymapRequests
    BY <1>3, <1>15 DEF Requests, KeymapRequests
  <2>3. /\ k'.virtual = k.virtual /\ k'.vmap = n /\ k'.had = k.had /\ k'.named = k.named
        /\ k'.devices = k.devices /\ k' \in CompositorType
    BY <1>4, <2>1, <2>2 DEF CompositorType
  <2> HIDE DEF r, n
  <2>4. /\ w \in Seq(Events) /\ \A P : Clear(P, {"capabilities", "keymap"}) => ~Has(w, P)
        /\ \A m : ~Has(w, OldNews(m, k.had))
    <3>1. \A P : Clear(P, {"keymap"}) => ~Has(w, P)
      BY <1>6, <2>3, TellKeymapClear
    <3>2. \A m : Clear(OldNews(m, k.had), {"keymap"})
      BY DEF Clear, OldNews
    <3>3. \A P : Clear(P, {"capabilities", "keymap"}) => Clear(P, {"keymap"})
      BY DEF Clear
    <3>4. w \in Seq(Events)
      BY <1>6, <2>3, TellKeymapClear
    <3> HIDE DEF w
    <3> QED BY <3>1, <3>2, <3>3, <3>4
  <2> HIDE DEF w
  <2>5. /\ DevicePart(c', out', k'.devices) /\ Dropped(out, out', r)
        /\ KeysPart(c', out', wire', k'.had)
        /\ FoundPart(c', out', wire', unknown' \cup late', k'.named)
    BY <1>1, <1>2, <1>15, <2>1, <2>3, <2>4, Leaves DEF r
  <2>6. VirtualPart(c', out', k'.virtual, k'.vmap)
    <3> DEFINE x == <<"keymap", c.keymap>>
    <3>1. Has(out, KeymapRequests) /\ c.virtual /\ LastIs(out, KeymapRequests, x)
      BY <1>7, <2>2 DEF RestInv, VirtualPart
    <3>2. x \in KeymapRequests
      BY <1>1, <3>1, LastIsKeymap
    <3>3. IF Has(out', KeymapRequests) THEN LastIs(out', KeymapRequests, x) ELSE r = x
      <4> HIDE DEF x
      <4> QED BY <1>1, <1>2, <3>1, <3>2, TailFacts DEF r
    <3>4. r = x => n = c.keymap
      BY <2>2
    <3>5. r \notin Devises(c.seat) /\ ~Has(out', StrayVirtuals(c.seat))
          /\ (Has(out', Devises(c.seat)) <=> Has(out, Devises(c.seat)))
      <4>1. r \notin Devises(c.seat)
        BY <1>15 DEF Devises
      <4> QED BY <2>5, <4>1 DEF Dropped, RestInv, VirtualPart
    <3> QED BY <1>2, <2>3, <3>1, <3>3, <3>4, <3>5 DEF RestInv, VirtualPart
  <2> QED BY <1>5, <2>5, <2>6
<1> HIDE DEF r, n, u
<1> QED
  <2>1. r[1] \in {"bind", "transient", "device", "destroy", "virtual", "get_keyboard", "get_pointer", "keymap"}
    BY <1>3 DEF Requests
  <2> QED BY <2>1, <1>8, <1>9, <1>11, <1>12, <1>13, <1>14, <1>15

LEMMA AppearRests ==
  ASSUME SeatsInv, RestInv, NEW g \in Globals, Appear(g)
  PROVE  RestInv'
<1>1. StateType /\ wire \in Seq(Events)
  BY DEF SeatsInv, StateType
<1> DEFINE e == <<"global", g>>
           u == unknown \cup late
<1>2. /\ g \in late /\ late' = late \ {g} /\ wire' = wire \o <<e>>
      /\ UNCHANGED <<unknown, settled, c, k, out>>
  BY DEF Appear, Sends
<1>3. e \in Events
  BY DEF Events
<1>4. <<e>> \in Seq(Events) /\ \A P : Has(<<e>>, P) <=> e \in P
  <2> HIDE DEF e
  <2> QED BY <1>3 DEF Has
<1>5. \A P : Has(wire', P) <=> Has(wire, P) \/ e \in P
  <2> HIDE DEF e
  <2> QED BY <1>1, <1>2, <1>4, Sent
<1>6. /\ unknown' \cap late' = {} /\ unknown' \cup late' = u \ {g}
      /\ settled' => unknown' = {} /\ (c'.mode = "transient" => c'.asked)
  BY <1>2 DEF RestInv
<1>7. /\ \A n, had : e \notin OldNews(n, had)
      /\ \A n : e \notin News(n)
      /\ \A S : e \notin Names(S)
      /\ e \notin Answers /\ e \notin Granted /\ e \notin Refused
      /\ \A n : e \in Global(n) <=> g = <<"seat", n>>
  BY DEF OldNews, News, Names, Answers, Granted, Refused, Global
<1>8. g # <<"seat", Ours>>
  BY SeatsAssumption DEF Globals
<1> HIDE DEF e
<1>9. KeysPart(c', out', wire', k'.had)
  BY <1>2, <1>5, <1>7 DEF RestInv, KeysPart
<1>10. FoundPart(c', out', wire', u \ {g}, k'.named)
  <2>1. /\ \A S : Has(wire', Names(S)) <=> Has(wire, Names(S))
        /\ Has(wire', Answers) <=> Has(wire, Answers)
        /\ Has(wire', Granted) <=> Has(wire, Granted)
        /\ Has(wire', Refused) <=> Has(wire, Refused)
        /\ Has(wire', Global(Ours)) <=> Has(wire, Global(Ours))
        /\ \A n : Has(wire', Global(n)) <=> Has(wire, Global(n)) \/ g = <<"seat", n>>
    BY <1>5, <1>7, <1>8
  <2>2. FoundPart(c, out, wire, u, k.named)
    BY DEF RestInv
  <2>3. \A n : <<"seat", n>> \in u \ {g} <=> <<"seat", n>> \in u /\ g # <<"seat", n>>
    OBVIOUS
  <2> DEFINE v == u \ {g}
  <2> HIDE DEF u, v
  <2>4. c' = c /\ out' = out /\ k' = k
    BY <1>2
  <2>5. \A n : <<"seat", n>> \in v <=> <<"seat", n>> \in u /\ g # <<"seat", n>>
    BY <2>3 DEF v
  <2> QED
    <3>1. FoundPart(c, out, wire', v, k.named)
      BY <2>1, <2>2, <2>5 DEF FoundPart
    <3> QED BY <2>4, <3>1 DEF v
<1> QED BY <1>2, <1>6, <1>9, <1>10 DEF RestInv, DeviceDone, VirtualDone, KeysDone

LEMMA PlugRests ==
  ASSUME SeatsInv, RestInv, Plug
  PROVE  RestInv'
<1>1. StateType /\ wire \in Seq(Events) /\ k \in CompositorType
  BY DEF SeatsInv, StateType
<1>2. PICK m \in Keymaps \cup {None} : k' = [k EXCEPT !.other = m]
  BY DEF Plug
<1> DEFINE w == TellKeymap(k')
<1>3. wire' = wire \o w /\ UNCHANGED <<c, unknown, late, settled, out>>
  BY DEF Plug, Sends
<1>4. /\ k' \in CompositorType /\ k'.had = k.had /\ k'.named = k.named /\ k'.devices = k.devices
      /\ k'.virtual = k.virtual /\ k'.vmap = k.vmap
  BY <1>1, <1>2 DEF CompositorType
<1>5. w \in Seq(Events) /\ \A P : Clear(P, {"keymap"}) => ~Has(w, P)
  BY <1>4, TellKeymapClear
<1> HIDE DEF w
<1>6. \A P : Has(wire', P) <=> Has(wire, P) \/ Has(w, P)
  BY <1>1, <1>3, <1>5, Sent
<1>7. \A P : Clear(P, {"keymap"}) => (Has(wire', P) <=> Has(wire, P))
  BY <1>5, <1>6
<1>8. /\ \A n : Clear(OldNews(n, k.had), {"keymap"}) /\ Clear(News(n), {"keymap"}) /\ Clear(Global(n), {"keymap"})
      /\ \A S : Clear(Names(S), {"keymap"})
      /\ Clear(Granted, {"keymap"}) /\ Clear(Refused, {"keymap"}) /\ Clear(Answers, {"keymap"})
  BY DEF Clear, OldNews, News, Global, Names, Granted, Refused, Answers
<1>9. KeysPart(c', out', wire', k'.had)
  <2>1. KeysPart(c, out, wire', k.had)
    BY <1>7, <1>8 DEF RestInv, KeysPart
  <2> QED BY <1>3, <1>4, <2>1
<1>10. FoundPart(c', out', wire', unknown' \cup late', k'.named)
  <2> DEFINE u == unknown \cup late
  <2>1. FoundPart(c, out, wire, u, k.named)
    BY DEF RestInv
  <2> HIDE DEF u
  <2>2. FoundPart(c, out, wire', u, k.named)
    BY <1>7, <1>8, <2>1 DEF FoundPart
  <2> QED BY <1>3, <1>4, <2>2 DEF u
<1> QED BY <1>3, <1>4, <1>9, <1>10 DEF RestInv, DeviceDone, VirtualDone, KeysDone

LEMMA RestInvInit == Init => RestInv
<1> SUFFICES ASSUME Init PROVE RestInv
  OBVIOUS
<1>1. PICK mode \in Modes, bare \in {{Ours}, Seats}, other \in {None, 1}, named \in SUBSET Real :
         c = Here(mode) /\ k = There(named, [n \in Seats |-> IF n \in bare THEN {} ELSE Caps], other)
  BY DEF Init
<1>2. unknown = Globals \ late /\ late \subseteq Globals /\ ~settled /\ out = <<>> /\ wire = <<>>
  BY SeatsAssumption DEF Init
<1>3. \A P : ~Has(<<>>, P)
  BY DEF Has
<1>4. \A P, R : Before(<<>>, P, R)
  BY DEF Before
<1>5. /\ c.seat = None /\ c.clip = None /\ ~c.asked /\ c.global = None /\ c.pending = {}
      /\ ~c.keyboard /\ ~c.pointer /\ c.managers = {} /\ c.device = "none" /\ ~c.virtual
  BY <1>1 DEF Here
<1>6. /\ k.named = named /\ k.devices = {} /\ k.virtual = None /\ k.vmap = None
      /\ \A n \in Seats : k.had[n] \in {{}, Caps}
  BY <1>1 DEF There
<1>7. unknown \cup late = Globals /\ unknown \cap late = {} /\ \A n \in Real : <<"seat", n>> \in Globals
  BY <1>2 DEF Globals
<1>8. DevicePart(c, out, k.devices) /\ DeviceDone(c)
  BY <1>2, <1>3, <1>4, <1>5, <1>6 DEF DevicePart, DeviceDone
<1>9. VirtualPart(c, out, k.virtual, k.vmap) /\ VirtualDone(c)
  BY <1>2, <1>3, <1>5, <1>6 DEF VirtualPart, VirtualDone
<1>10. KeysPart(c, out, wire, k.had) /\ KeysDone(c)
  BY <1>2, <1>3, <1>5, <1>6, SeatsAreNone DEF KeysPart, KeysDone
<1>11. FoundPart(c, out, wire, Globals, k.named)
  BY <1>2, <1>3, <1>5, <1>7, SeatsAreNone DEF FoundPart
<1> QED BY <1>2, <1>7, <1>8, <1>9, <1>10, <1>11 DEF RestInv

LEMMA RestInvStep == SeatsInv /\ RestInv /\ [Next]_vars => RestInv'
<1> SUFFICES ASSUME SeatsInv, RestInv, [Next]_vars PROVE RestInv'
  OBVIOUS
<1>1. ASSUME UNCHANGED <<unknown, late, settled, c, k, out, wire>> PROVE RestInv'
  BY <1>1 DEF RestInv, DeviceDone, VirtualDone, KeysDone
<1>2. ASSUME NEW g \in Globals, InitialGlobal(g) PROVE RestInv'
  <2>1. /\ g \in unknown /\ unknown' = unknown \ {g} /\ wire' = wire
        /\ Take(Announce(c, g)) /\ UNCHANGED <<k, late, settled>>
    BY <1>2 DEF InitialGlobal
  <2> QED BY <2>1, AnnounceRests
<1>3. ASSUME NEW g \in Globals, Appear(g) PROVE RestInv'
  BY <1>3, AppearRests
<1>4. CASE Settle
  BY <1>4, SettleRests
<1>5. CASE Dispatch
  BY <1>5, DispatchRests
<1>6. CASE LoadKeymap
  BY <1>1, <1>6 DEF LoadKeymap
<1>7. CASE Handle
  BY <1>7, HandleRests
<1>8. CASE Plug
  BY <1>8, PlugRests
<1>9. CASE SendStroke \/ \E press \in BOOLEAN : Stroke(press)
  BY <1>1, <1>9 DEF SendStroke, Stroke
<1>10. CASE UNCHANGED vars
  BY <1>1, <1>10 DEF vars
<1> QED BY <1>2, <1>3, <1>4, <1>5, <1>6, <1>7, <1>8, <1>9, <1>10 DEF Next

-----------------------------------------------------------------------------
(* What the parts come to at rest, when nothing is on its way.             *)

LEMMA SeatFoundAtRest ==
  ASSUME SeatsInv, RestInv, AtRest
  PROVE  SeatFound
<1>1. StateType /\ Choice(c) /\ c \in Side /\ k.named \subseteq Real
  BY DEF SeatsInv, ClipInv, StateType, CompositorType
<1>2. \A P : ~Has(out, P) /\ ~Has(wire, P)
  BY DEF AtRest, Has
<1>3. unknown = {} /\ (c.mode = "transient" => c.asked)
  BY DEF AtRest, RestInv
<1>4. FoundPart(c, out, wire, late, k.named)
  <2>1. unknown \cup late = late
    BY <1>3
  <2> QED BY <2>1 DEF RestInv
<1>5. /\ c.seat = None => \A n \in Real : <<"seat", n>> \in late \/ n \in c.pending
      /\ c.seat \in Real => <<"seat", c.seat>> \notin late
      /\ c.seat = Ours => c.global = Ours
      /\ c.global = Ours => c.seat # None
      /\ c.asked => c.global # None
      /\ c.mode = "first" /\ c.seat = None => c.pending = {}
      /\ c.mode = "named" /\ c.seat # None => c.seat \in k.named
      /\ c.mode = "named" /\ c.seat = None => c.pending \cap k.named = {}
  BY <1>2, <1>4 DEF FoundPart
<1>6. c.seat \in Real \cup {Ours, None} /\ c.mode \in {"first", "named", "transient"} /\ c.global \in {None, Ours}
  BY <1>1 DEF Side, Seats, Choice
<1>7. c.seat # None => c.seat \in Announced
  BY <1>5, <1>6 DEF Announced
<1>8. c.seat = None => \A n \in Announced : n \in Real /\ n \in c.pending
  BY <1>5, <1>6 DEF Announced
<1>9. CASE c.mode = "transient"
  <2>1. c.global = Ours /\ c.seat = Ours
    BY <1>1, <1>3, <1>5, <1>6, <1>9 DEF Choice
  <2>2. Usable = {Ours}
    BY <1>9 DEF Usable
  <2> QED BY <2>1, <2>2 DEF SeatFound
<1>10. CASE c.mode = "named"
  <2>1. Usable = Announced \cap k.named
    BY <1>10 DEF Usable
  <2>2. c.seat # None => c.seat \in Usable
    BY <1>5, <1>7, <1>10, <2>1
  <2>3. c.seat = None => Usable = {}
    BY <1>5, <1>8, <1>10, <2>1
  <2> QED BY <2>2, <2>3 DEF SeatFound
<1>11. CASE c.mode = "first"
  <2>1. Usable = Announced
    BY <1>11 DEF Usable
  <2>2. c.seat = None => Announced = {}
    BY <1>5, <1>8, <1>11
  <2> QED BY <1>7, <2>1, <2>2 DEF SeatFound
<1> QED BY <1>6, <1>9, <1>10, <1>11

LEMMA DevicesFollowAtRest ==
  ASSUME SeatsInv, RestInv, AtRest
  PROVE  DevicesFollow
<1> SUFFICES ASSUME c.seat # None PROVE DevicesFollow
  BY DEF DevicesFollow
<1>1. c \in Side /\ c.seat \in Seats
  <2>1. c \in Side
    BY DEF SeatsInv, StateType
  <2> QED BY <2>1 DEF Side
<1>2. \A P : ~Has(out, P) /\ ~Has(wire, P)
  BY DEF AtRest, Has
<1>3. c.keyboard \/ c.pointer => k.had[c.seat] = Caps
  BY DEF RestInv, KeysPart
<1>4. k.had[c.seat] = Caps => c.keyboard /\ c.pointer
  BY <1>1, <1>2 DEF RestInv, KeysPart, KeysDone
<1>5. c.keyboard \in BOOLEAN /\ c.pointer \in BOOLEAN
  BY <1>1 DEF Side
<1>6. k.virtual = IF {"vptr", "vkbd"} \subseteq c.managers THEN c.seat ELSE None
  BY <1>2 DEF RestInv, VirtualPart, VirtualDone
<1>7. k.virtual # None => k.vmap = c.keymap
  BY <1>2 DEF RestInv, VirtualPart
<1>8. (c.keyboard <=> k.had[c.seat] = Caps) /\ (c.pointer <=> k.had[c.seat] = Caps)
  BY <1>3, <1>4, <1>5
<1> QED BY <1>6, <1>7, <1>8 DEF DevicesFollow

LEMMA ClipboardFollowsAtRest ==
  ASSUME SeatsInv, RestInv, AtRest
  PROVE  ClipboardFollows
<1>1. Choice(c) /\ c.device \in {"none", "wlr", "ext"} /\ c.clip \in Seats \cup {None}
  <2>1. c \in Side /\ Choice(c)
    BY DEF SeatsInv, StateType, ClipInv
  <2> QED BY <2>1 DEF Side
<1>2. \A P : ~Has(out, P) /\ ~Has(wire, P)
  BY DEF AtRest, Has
<1>3. /\ c.device # "none" => c.clip # None /\ c.device \in c.managers
      /\ k.devices \subseteq {"ext", "wlr"} \X {c.clip}
      /\ c.device = "ext" <=> <<"ext", c.clip>> \in k.devices
      /\ c.device = "wlr" <=> <<"wlr", c.clip>> \in k.devices
  BY <1>2 DEF RestInv, DevicePart
<1>4. /\ c.device = "none" => c.clip = None \/ c.seat = None \/ {"ext", "wlr"} \cap c.managers = {}
      /\ c.device = "wlr" => "ext" \notin c.managers
  BY DEF RestInv, DeviceDone
<1>5. c.seat = None => c.clip = None
  <2>1. c.global = Ours => c.seat # None
    BY <1>2 DEF RestInv, FoundPart
  <2> QED BY <1>1, <2>1 DEF Choice
<1>6. k.devices = IF c.device = "none" THEN {} ELSE {<<c.device, c.clip>>}
  <2>1. \A d \in k.devices : d = <<"ext", c.clip>> \/ d = <<"wlr", c.clip>>
    BY <1>3
  <2>2. CASE c.device = "none"
    BY <1>3, <2>1, <2>2
  <2>3. CASE c.device = "ext"
    BY <1>3, <2>1, <2>3
  <2>4. CASE c.device = "wlr"
    BY <1>3, <2>1, <2>4
  <2> QED BY <1>1, <2>2, <2>3, <2>4
<1>7. CASE c.device = "none"
  <2>1. c.clip = None \/ {"ext", "wlr"} \cap c.managers = {}
    BY <1>4, <1>5, <1>7
  <2> QED BY <1>6, <1>7, <2>1 DEF ClipboardFollows
<1>8. CASE c.device = "ext"
  <2>1. c.clip # None /\ "ext" \in c.managers
    BY <1>3, <1>8
  <2> QED BY <1>6, <1>8, <2>1 DEF ClipboardFollows
<1>9. CASE c.device = "wlr"
  <2>1. c.clip # None /\ "wlr" \in c.managers /\ "ext" \notin c.managers
    BY <1>3, <1>4, <1>9
  <2> QED BY <1>6, <1>9, <2>1 DEF ClipboardFollows
<1> QED BY <1>1, <1>7, <1>8, <1>9

\* Whenever nothing is on its way, whatever the order in which globals, names,
\* capabilities, keymaps and the answer for a transient seat came: there is a seat
\* if -seat leaves one to choose, and it has the passive devices it can have, the
\* virtual devices with the keymap seen, and the clipboard's device of the better
\* protocol (select_seat, seat_announced, transient_ready, transient_fallback,
\* sync_seat_devices, try_init_virtual_input, try_init_device).
THEOREM AlwaysWiredUp == Spec => []WiredUp
<1>1. SeatsInv /\ RestInv => WiredUp
  BY SeatFoundAtRest, DevicesFollowAtRest, ClipboardFollowsAtRest DEF WiredUp
<1>2. Spec => [](SeatsInv /\ RestInv)
  <2>1. Init => SeatsInv /\ RestInv
    BY SeatsInvInit, RestInvInit
  <2>2. SeatsInv /\ RestInv /\ [Next]_vars => (SeatsInv /\ RestInv)'
    BY SeatsInvStep, RestInvStep
  <2> QED BY <2>1, <2>2, PTL DEF Spec
<1> QED BY <1>1, <1>2, PTL

=============================================================================

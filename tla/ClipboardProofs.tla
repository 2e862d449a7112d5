-------------------------- MODULE ClipboardProofs --------------------------
(***************************************************************************)
(* What is proved of a bridged selection, for any items, times and limits, *)
(* and of its types and its clears for any number of clients too.          *)
(*                                                                         *)
(* SidesInv follows the latest value either side has: where it is, and     *)
(* that all that is still under way towards the other side ends with it.   *)
(* EchoesInv follows the queue of what we announce, from the jobs posted   *)
(* over the socket to the announcements (Coming): the echoes on record are *)
(* the last of what comes, in that order (Suffix), and with nothing        *)
(* forgotten all of it but withdrawals (Short), so that an echo that is    *)
(* due is found.                                                           *)
(***************************************************************************)
EXTENDS Clipboard, SequenceTheorems, WellFoundedInduction, TLAPS

-----------------------------------------------------------------------------
(* Types.                                                                  *)

\* What EchoOf returns, and what a full record makes room for.
LEMMA EchoTypes ==
  /\ \A item : EchoOf(item) \in {"Source", "Withdrawn"}
  /\ echoes \in Seq({"Source", "Withdrawn"}) /\ Len(echoes) <= MaxEchoes
       => /\ Capped(echoes) \in Seq({"Source", "Withdrawn"})
          /\ Len(Capped(echoes)) < MaxEchoes
<1>1. \A item : EchoOf(item) \in {"Source", "Withdrawn"}
  BY DEF EchoOf
<1>2. ASSUME echoes \in Seq({"Source", "Withdrawn"}), Len(echoes) <= MaxEchoes
      PROVE  /\ Capped(echoes) \in Seq({"Source", "Withdrawn"})
             /\ Len(Capped(echoes)) < MaxEchoes
  <2>1. MaxEchoes \in Nat \ {0} /\ Len(echoes) \in Nat
    BY <1>2, ClipboardAssumption
  <2>2. CASE Len(echoes) >= MaxEchoes
    <3>1. echoes # <<>> /\ Capped(echoes) = Tail(echoes)
      BY <1>2, <2>1, <2>2 DEF Capped
    <3>2. Tail(echoes) \in Seq({"Source", "Withdrawn"}) /\ Len(Tail(echoes)) = Len(echoes) - 1
      BY <1>2, <3>1, HeadTailProperties
    <3> QED BY <1>2, <2>1, <3>1, <3>2
  <2>3. CASE ~(Len(echoes) >= MaxEchoes)
    BY <1>2, <2>1, <2>3 DEF Capped
  <2> QED BY <2>2, <2>3
<1> QED BY <1>1, <1>2

LEMMA OwnerShapes ==
  /\ NoOwner \in OwnerType
  /\ \A item \in Items : WaylandOwner(item) \in OwnerType
  /\ \A client \in Clients, t \in Nat, has \in BOOLEAN : XOwner(client, t, has) \in OwnerType
  /\ \A o \in OwnerType : o.kind = "x" =>
       /\ o.client \in Clients /\ o.time \in Nat /\ o.data \in BOOLEAN
       /\ LET with == [o EXCEPT !.data = TRUE]
          IN  /\ with \in OwnerType /\ with.kind = "x"
              /\ with.client = o.client /\ with.time = o.time
<1>1. \A o \in OwnerType : o.kind = "x" =>
        o.client \in Clients /\ o.time \in Nat /\ o.data \in BOOLEAN
  BY DEF OwnerType
<1>2. \A o \in OwnerType : o.kind = "x" =>
        /\ [o EXCEPT !.data = TRUE] \in OwnerType /\ [o EXCEPT !.data = TRUE].kind = "x"
        /\ [o EXCEPT !.data = TRUE].client = o.client /\ [o EXCEPT !.data = TRUE].time = o.time
  BY DEF OwnerType
<1> QED BY <1>1, <1>2 DEF OwnerType, NoOwner, WaylandOwner, XOwner

LEMMA FxShapes ==
  /\ NoFx \in FxType
  /\ \A x \in FxType, cl \in Acquisitions \cup {Nothing} : [x EXCEPT !.clear = cl] \in FxType
  /\ \A x \in FxType, n \in ((Threads \cup {Nothing}) \X Nat) \cup {Nothing} :
       [x EXCEPT !.notify = n] \in FxType
  /\ \A x \in FxType, t \in Nat : [x EXCEPT !.fetch = t] \in FxType
  /\ \A x \in FxType, leaving \in BOOLEAN : [x EXCEPT !.leave = leaving] \in FxType
<1>1. NoFx \in FxType
  BY DEF NoFx, FxType, NoTime
<1> QED BY <1>1 DEF FxType

LEMMA ClearType ==
  ASSUME owner \in OwnerType
  PROVE  /\ ToClear \in Acquisitions \cup {Nothing}
         /\ IsX => OwnerAcq \in Acquisitions
BY OwnerShapes DEF ToClear, IsX, OwnerAcq, Acquisitions

Publics == Acquisitions \cup {Nothing}

LEMMA TypeStep == TypeOK /\ [Next]_vars => TypeOK'
<1> SUFFICES ASSUME TypeOK, [Next]_vars PROVE TypeOK'
  OBVIOUS
<1>1. owner \in OwnerType /\ clock \in Nat /\ lastStamp \in Nat /\ lastChanged \in Nat
  BY DEF TypeOK
<1>2. /\ pc \in [Threads -> {"idle", "withdraw", "publish", "post", "unpost", "apply", "gone"}]
      /\ fx \in [Threads -> FxType] /\ pub \in [Threads -> Publics]
  BY DEF TypeOK, Publics
<1>3. /\ echoes \in Seq({"Source", "Withdrawn"}) /\ Len(echoes) <= MaxEchoes
      /\ Len(echoes) \in Nat /\ MaxEchoes \in Nat \ {0}
  BY ClipboardAssumption DEF TypeOK
<1>4. jobs \in Seq(Publics) /\ socket \in Seq(Publics)
      /\ announced \in Seq([item : Items \cup {Nothing}, ours : BOOLEAN])
  BY DEF TypeOK, Publics
<1>5. fetches \in [Clients -> SUBSET Nat] /\ holds \in [Clients -> Nat]
  BY DEF TypeOK
<1>6. Clients \subseteq Threads /\ Wayland \in Threads /\ Acquisitions \subseteq Items
  BY DEF Threads, Items
<1>7. CASE \E t \in Clients : Asks(t)
  <2>1. PICK t \in Clients, at \in 1 .. clock : XTook(t, at) \/ XReleased(t, at)
    BY <1>7 DEF Asks
  <2>2. at \in Nat
    BY <1>1
  <2>3. t \in Threads
    BY <1>6
  <2>4. ASSUME ChangedAt(at) PROVE lastChanged' \in Nat /\ lastStamp' \in Nat
    BY <1>1, <2>2, <2>4 DEF ChangedAt, Larger
  <2>5. CASE XTook(t, at)
    <3>1. fx' \in [Threads -> FxType]
      <4>1. (IF IsX /\ owner.client # t THEN OwnerAcq ELSE Nothing) \in Acquisitions \cup {Nothing}
        BY <1>1, ClearType
      <4> DEFINE cl == IF IsX /\ owner.client # t THEN OwnerAcq ELSE Nothing
      <4>2. fx' = [fx EXCEPT ![t] = [NoFx EXCEPT !.clear = cl, !.fetch = at]]
        BY <2>5 DEF XTook
      <4> HIDE DEF cl
      <4>3. [NoFx EXCEPT !.clear = cl] \in FxType
        BY <4>1, FxShapes DEF cl
      <4>4. [NoFx EXCEPT !.clear = cl, !.fetch = at] \in FxType
        BY <2>2, <4>3, FxShapes
      <4> QED BY <1>2, <4>2, <4>4
    <3>2. owner' \in OwnerType
      BY <2>2, <2>5, OwnerShapes DEF XTook
    <3>3. holds' \in [Clients -> Nat]
      BY <1>5, <2>2, <2>5 DEF XTook
    <3>4. pc' \in [Threads -> {"idle", "withdraw", "publish", "post", "unpost", "apply", "gone"}]
      BY <1>2, <2>5 DEF XTook
    <3>5. lastChanged' \in Nat /\ lastStamp' \in Nat
      BY <2>4, <2>5 DEF XTook
    <3> QED BY <2>5, <3>1, <3>2, <3>3, <3>4, <3>5 DEF XTook, TypeOK, outside
  <2>6. CASE XReleased(t, at)
    <3>1. fx' \in [Threads -> FxType]
      <4>1. fx' = [fx EXCEPT ![t] = [NoFx EXCEPT !.clear = ToClear, !.notify = <<Nothing, at>>]]
        BY <2>6 DEF XReleased
      <4>2. [NoFx EXCEPT !.clear = ToClear] \in FxType
        BY <1>1, ClearType, FxShapes
      <4>3. [NoFx EXCEPT !.clear = ToClear, !.notify = <<Nothing, at>>] \in FxType
        BY <2>2, <4>2, FxShapes
      <4> QED BY <1>2, <4>1, <4>3
    <3>2. owner' \in OwnerType
      BY <1>1, <2>6, OwnerShapes DEF XReleased
    <3>3. pc' \in [Threads -> {"idle", "withdraw", "publish", "post", "unpost", "apply", "gone"}]
      BY <1>2, <2>6 DEF XReleased
    <3>4. lastChanged' \in Nat /\ lastStamp' \in Nat
      BY <2>4, <2>6 DEF XReleased
    <3> QED BY <2>6, <3>1, <3>2, <3>3, <3>4 DEF XReleased, TypeOK, outside
  <2> QED BY <2>1, <2>5, <2>6
<1>8. CASE \E t \in Clients : FetchResolves(t)
  <2>0. PICK t \in Clients : FetchResolves(t)
    BY <1>8
  <2>1. PICK at \in fetches[t] : XFetched(t, at) \/ XFetchFailed(t, at)
    BY <2>0 DEF FetchResolves
  <2>2. at \in Nat /\ t \in Threads
    BY <1>5, <1>6
  <2>3. Acquired(t, at) \in FxType
    BY <2>2, FxShapes DEF Acquired
  <2>4. <<t, at>> \in Publics
    BY <2>2 DEF Publics, Acquisitions
  <2>5. CASE XFetched(t, at)
    <3>1. fetches' \in [Clients -> SUBSET Nat]
      BY <1>5, <2>5 DEF XFetched
    <3>2. owner' \in OwnerType
      <4>1. CASE Owns(t, at) /\ owner' = [owner EXCEPT !.data = TRUE]
        BY <1>1, <4>1, OwnerShapes DEF Owns, IsX
      <4> QED BY <1>1, <2>5, <4>1 DEF XFetched
    <3>3. fx' \in [Threads -> FxType] /\ pub' \in [Threads -> Publics]
      BY <1>2, <2>3, <2>4, <2>5 DEF XFetched, threadVars
    <3>4. pc' \in [Threads -> {"idle", "withdraw", "publish", "post", "unpost", "apply", "gone"}]
      BY <1>2, <2>5 DEF XFetched, threadVars
    <3> QED BY <2>5, <3>1, <3>2, <3>3, <3>4 DEF XFetched, TypeOK, outside, Publics
  <2>6. CASE XFetchFailed(t, at)
    <3>1. fetches' \in [Clients -> SUBSET Nat]
      BY <1>5, <2>6 DEF XFetchFailed
    <3>2. fx' \in [Threads -> FxType]
      BY <1>2, <2>3, <2>6 DEF XFetchFailed
    <3>3. pc' \in [Threads -> {"idle", "withdraw", "publish", "post", "unpost", "apply", "gone"}]
      BY <1>2, <2>6 DEF XFetchFailed
    <3> QED BY <2>6, <3>1, <3>2, <3>3 DEF XFetchFailed, TypeOK, outside, lockVars
  <2> QED BY <2>1, <2>5, <2>6
<1>9. CASE \E t \in Clients : Goes(t)
  <2>1. PICK t \in Clients, leaving \in BOOLEAN : XOwnerGone(t, leaving)
    BY <1>9 DEF Goes
  <2>2. fetches' \in [Clients -> SUBSET Nat] /\ holds' \in [Clients -> Nat]
    BY <1>5, <2>1 DEF XOwnerGone, NoTime
  <2>3. owner' \in OwnerType
    BY <1>1, <2>1, OwnerShapes DEF XOwnerGone
  <2>4. fx' \in [Threads -> FxType]
    <3>1. [NoFx EXCEPT !.notify = <<Nothing, lastChanged>>] \in FxType
      BY <1>1, FxShapes
    <3>2. [NoFx EXCEPT !.notify = <<Nothing, lastChanged>>, !.leave = leaving] \in FxType
      BY <3>1, FxShapes
    <3> QED BY <1>2, <2>1, <3>2 DEF XOwnerGone
  <2>5. pc' \in [Threads -> {"idle", "withdraw", "publish", "post", "unpost", "apply", "gone"}]
    BY <1>2, <1>6, <2>1 DEF XOwnerGone
  <2> QED BY <2>1, <2>2, <2>3, <2>4, <2>5 DEF XOwnerGone, TypeOK, outside
<1>10. CASE \E t \in Clients : Publishes(t)
  <2>1. PICK t \in Clients : Publishes(t)
    BY <1>10
  <2>2. t \in Threads /\ pub[t] \in Publics
    BY <1>2, <1>6
  <2>3. CASE Withdraw(t)
    <3>1. pub' \in [Threads -> Publics]
      BY <1>2, <2>3 DEF Withdraw, Publics
    <3>2. pc' \in [Threads -> {"idle", "withdraw", "publish", "post", "unpost", "apply", "gone"}]
      BY <1>2, <2>3 DEF Withdraw
    <3> QED BY <2>3, <3>1, <3>2 DEF Withdraw, TypeOK, outside, lockVars, xside, Publics
  <2>4. CASE RecordEcho(t)
    <3>1. echoes' \in Seq({"Source", "Withdrawn"}) /\ Len(echoes') <= MaxEchoes
      <4>1. CASE echoes' = Append(Capped(echoes), EchoOf(pub[t]))
        <5>1. /\ Capped(echoes) \in Seq({"Source", "Withdrawn"})
              /\ Len(Capped(echoes)) < MaxEchoes /\ EchoOf(pub[t]) \in {"Source", "Withdrawn"}
          BY <1>3, EchoTypes
        <5>2. /\ Len(echoes') = Len(Capped(echoes)) + 1 /\ Len(Capped(echoes)) \in Nat
              /\ echoes' \in Seq({"Source", "Withdrawn"})
          BY <4>1, <5>1
        <5> QED BY <1>3, <5>1, <5>2
      <4> QED BY <1>3, <2>4, <4>1 DEF RecordEcho
    <3>2. pc' \in [Threads -> {"idle", "withdraw", "publish", "post", "unpost", "apply", "gone"}]
      BY <1>2, <2>4 DEF RecordEcho
    <3>3. published' \in BOOLEAN
      BY <2>4 DEF RecordEcho, TypeOK
    <3> QED BY <2>4, <3>1, <3>2, <3>3 DEF RecordEcho, TypeOK, outside, xside
  <2>5. CASE PostPublish(t)
    <3>1. jobs' \in Seq(Publics)
      <4>1. Append(jobs, pub[t]) \in Seq(Publics)
        BY <1>4, <2>2
      <4> QED BY <1>4, <2>5, <4>1 DEF PostPublish
    <3>2. pc' \in [Threads -> {"idle", "withdraw", "publish", "post", "unpost", "apply", "gone"}]
      BY <1>2, <2>5 DEF PostPublish
    <3> QED BY <2>5, <3>1, <3>2 DEF PostPublish, TypeOK, outside, lockVars, xside, Publics
  <2>6. CASE UnrecordEcho(t)
    <3>1. echoes' \in Seq({"Source", "Withdrawn"}) /\ Len(echoes') <= MaxEchoes
      <4>1. CASE echoes # <<>> /\ echoes' = SubSeq(echoes, 1, Len(echoes) - 1)
        BY <1>3, <4>1
      <4> QED BY <1>3, <2>6, <4>1 DEF UnrecordEcho
    <3>2. pc' \in [Threads -> {"idle", "withdraw", "publish", "post", "unpost", "apply", "gone"}]
      BY <1>2, <2>6 DEF UnrecordEcho
    <3> QED BY <2>6, <3>1, <3>2 DEF UnrecordEcho, TypeOK, outside, xside
  <2> QED BY <2>1, <2>3, <2>4, <2>5, <2>6 DEF Publishes
<1>11. CASE \E t \in Threads : Proceeds(t)
  <2>1. PICK t \in Threads : SendClear(t) \/ Notify(t) \/ Applied(t)
    BY <1>11 DEF Proceeds
  <2>2. fx[t] \in FxType
    BY <1>2
  <2>3. CASE SendClear(t)
    <3>1. fx' \in [Threads -> FxType]
      BY <1>2, <2>2, <2>3, FxShapes DEF SendClear
    <3>2. holds' \in [Clients -> Nat]
      BY <1>5, <2>3 DEF SendClear, NoTime
    <3> QED BY <2>3, <3>1, <3>2 DEF SendClear, TypeOK, outside, lockVars
  <2>4. CASE Notify(t)
    <3>1. fx' \in [Threads -> FxType]
      BY <1>2, <2>2, <2>4, FxShapes DEF Notify
    <3>2. heard' \subseteq Acquisitions
      BY <2>4 DEF Notify, TypeOK
    <3> QED BY <2>4, <3>1, <3>2 DEF Notify, TypeOK, outside, lockVars
  <2>5. CASE Applied(t)
    <3>1. fx' \in [Threads -> FxType]
      BY <1>2, <2>5, FxShapes DEF Applied
    <3>2. fetches' \in [Clients -> SUBSET Nat]
      <4>1. fx[t].fetch \in Nat
        BY <2>2 DEF FxType
      <4> QED BY <1>5, <2>5, <4>1 DEF Applied
    <3>3. pc' \in [Threads -> {"idle", "withdraw", "publish", "post", "unpost", "apply", "gone"}]
      BY <1>2, <2>5 DEF Applied
    <3> QED BY <2>5, <3>1, <3>2, <3>3 DEF Applied, TypeOK, outside, lockVars
  <2> QED BY <2>1, <2>3, <2>4, <2>5
<1>12. CASE WaylandAnnounced
  <2>1. /\ announced' \in Seq([item : Items \cup {Nothing}, ours : BOOLEAN])
        /\ Head(announced).item \in Items \cup {Nothing}
    <3>1. announced # <<>> /\ announced' = Tail(announced)
      BY <1>12 DEF WaylandAnnounced
    <3>2. /\ Head(announced) \in [item : Items \cup {Nothing}, ours : BOOLEAN]
          /\ Tail(announced) \in Seq([item : Items \cup {Nothing}, ours : BOOLEAN])
      BY <1>4, <3>1, HeadTailProperties
    <3> QED BY <3>1, <3>2
  <2>2. UNCHANGED <<publishable, running, jobs, pub, comp, socket, copied, fetches, requests, heard, holds>>
    BY <1>12 DEF WaylandAnnounced, xside
  <2>3. ASSUME echoes # <<>>
        PROVE  Tail(echoes) \in Seq({"Source", "Withdrawn"}) /\ Len(Tail(echoes)) <= MaxEchoes
    <3>1. Tail(echoes) \in Seq({"Source", "Withdrawn"}) /\ Len(Tail(echoes)) = Len(echoes) - 1
      BY <1>3, <2>3, HeadTailProperties
    <3> QED BY <1>3, <3>1
  <2>4. CASE AbsorbEcho
    <3>1. echoes' \in Seq({"Source", "Withdrawn"}) /\ Len(echoes') <= MaxEchoes
      BY <2>3, <2>4 DEF AbsorbEcho, Absorbed, LooksLikeEcho
    <3> QED BY <2>1, <2>2, <2>4, <3>1 DEF AbsorbEcho, TypeOK
  <2>5. CASE WaylandTakes
    <3>1. echoes' \in Seq({"Source", "Withdrawn"}) /\ Len(echoes') <= MaxEchoes
      BY <1>3, <2>3, <2>5 DEF WaylandTakes, LooksLikeEcho
    <3>2. NextTimestamp \in Nat
      BY <1>1 DEF NextTimestamp
    <3>3. lastStamp' \in Nat /\ clock' \in Nat /\ lastChanged' \in Nat
      BY <1>1, <2>5, <3>2 DEF WaylandTakes, Larger
    <3>4. owner' \in OwnerType
      BY <2>1, <2>5, OwnerShapes DEF WaylandTakes
    <3>5. fx' \in [Threads -> FxType]
      <4> DEFINE who == IF Head(announced).item = Nothing THEN Nothing ELSE Wayland
      <4>1. fx' = [fx EXCEPT ![Wayland] =
                    [NoFx EXCEPT !.clear = ToClear, !.notify = <<who, NextTimestamp>>]]
        BY <2>5 DEF WaylandTakes
      <4>2. [NoFx EXCEPT !.clear = ToClear] \in FxType
        BY <1>1, ClearType, FxShapes
      <4>3. <<who, NextTimestamp>> \in (Threads \cup {Nothing}) \X Nat
        BY <1>6, <3>2
      <4> HIDE DEF who
      <4>4. [NoFx EXCEPT !.clear = ToClear, !.notify = <<who, NextTimestamp>>] \in FxType
        BY <4>2, <4>3, FxShapes
      <4> QED BY <1>2, <4>1, <4>4
    <3>6. pc' \in [Threads -> {"idle", "withdraw", "publish", "post", "unpost", "apply", "gone"}]
      BY <1>2, <2>5 DEF WaylandTakes
    <3>7. published' \in BOOLEAN
      BY <2>5 DEF WaylandTakes
    <3> QED BY <2>1, <2>2, <3>1, <3>3, <3>4, <3>5, <3>6, <3>7 DEF TypeOK
  <2> QED BY <1>12, <2>4, <2>5 DEF WaylandAnnounced
<1>13. CASE RunJobs
  <2>1. socket' \in Seq(Publics) /\ jobs' \in Seq(Publics)
    BY <1>4, <1>13 DEF RunJobs
  <2> QED BY <1>13, <2>1 DEF RunJobs, TypeOK, lockVars, threadVars, xside, Publics
<1>14. CASE WaylandLost
  <2>1. /\ socket' \in Seq(Publics) /\ jobs' \in Seq(Publics) /\ running' \in BOOLEAN
        /\ announced' \in Seq([item : Items \cup {Nothing}, ours : BOOLEAN])
    BY <1>14, EmptySeq DEF WaylandLost
  <2> QED BY <1>14, <2>1 DEF WaylandLost, TypeOK, lockVars, threadVars, xside, Publics
<1>15. ASSUME NEW item \in Items \cup {Nothing}, NEW ours \in BOOLEAN
       PROVE  Announce(item, ours) \in Seq([item : Items \cup {Nothing}, ours : BOOLEAN])
  <2>1. [item |-> item, ours |-> ours] \in [item : Items \cup {Nothing}, ours : BOOLEAN]
    OBVIOUS
  <2> HIDE DEF Items
  <2> QED BY <1>4, <2>1 DEF Announce
<1>16. CASE CompositorSets
  <2>1. Head(socket) \in Publics /\ socket' \in Seq(Publics)
    BY <1>4, <1>16 DEF CompositorSets
  <2>2. Head(socket) \in Items \cup {Nothing}
    BY <1>6, <2>1 DEF Publics
  <2>3. announced' \in Seq([item : Items \cup {Nothing}, ours : BOOLEAN])
    BY <1>15, <1>16, <2>2 DEF CompositorSets
  <2> QED BY <1>16, <2>1, <2>2, <2>3 DEF CompositorSets, TypeOK, lockVars, threadVars, xside, Publics
<1>17. CASE \E a \in AppItems : AppCopies(a)
  <2>1. PICK a \in AppItems : AppCopies(a)
    BY <1>17
  <2>2. a \in Items \cup {Nothing}
    BY DEF Items
  <2>3. announced' \in Seq([item : Items \cup {Nothing}, ours : BOOLEAN])
    BY <1>15, <2>1, <2>2 DEF AppCopies
  <2> QED BY <2>1, <2>2, <2>3 DEF AppCopies, TypeOK, lockVars, threadVars, xside
<1>18. CASE AppClears
  <2>1. announced' \in Seq([item : Items \cup {Nothing}, ours : BOOLEAN])
    BY <1>15, <1>18 DEF AppClears
  <2> QED BY <1>18, <2>1 DEF AppClears, TypeOK, lockVars, threadVars, xside
<1>19. CASE Tick
  BY <1>19 DEF Tick, TypeOK, threadVars, outside, xside
<1>20. CASE UNCHANGED vars
  BY <1>20 DEF vars, TypeOK, lockVars, threadVars, outside, xside
<1> QED BY <1>7, <1>8, <1>9, <1>10, <1>11, <1>12, <1>13, <1>14, <1>16, <1>17, <1>18, <1>19,
           <1>20 DEF Next

LEMMA InitTypes == Init => TypeOK
<1> SUFFICES ASSUME Init PROVE TypeOK
  OBVIOUS
<1>1. <<>> \in Seq({"Source", "Withdrawn"}) /\ Len(<<>>) = 0 /\ MaxEchoes \in Nat
  BY EmptySeq, ClipboardAssumption
<1>2. pc \in [Threads -> {"idle", "withdraw", "publish", "post", "unpost", "apply", "gone"}]
  BY DEF Init
<1>3. fx \in [Threads -> FxType]
  BY FxShapes DEF Init
<1>4. pub \in [Threads -> Acquisitions \cup {Nothing}]
  BY DEF Init
<1>5. fetches \in [Clients -> SUBSET Nat] /\ holds \in [Clients -> Nat]
  BY DEF Init, NoTime
<1>6. echoes \in Seq({"Source", "Withdrawn"}) /\ Len(echoes) <= MaxEchoes
  BY <1>1 DEF Init
<1>7. owner \in OwnerType
  BY OwnerShapes DEF Init
<1>8. /\ jobs \in Seq(Acquisitions \cup {Nothing}) /\ socket \in Seq(Acquisitions \cup {Nothing})
      /\ announced \in Seq([item : Items \cup {Nothing}, ours : BOOLEAN])
  BY EmptySeq DEF Init
<1>9. lastChanged \in Nat /\ lastStamp \in Nat /\ clock \in Nat
  BY DEF Init
<1>10. /\ published \in BOOLEAN /\ publishable \in BOOLEAN /\ running \in BOOLEAN
       /\ comp \in Items \cup {Nothing} /\ heard \subseteq Acquisitions
  BY DEF Init
<1> QED BY <1>2, <1>3, <1>4, <1>5, <1>6, <1>7, <1>8, <1>9, <1>10 DEF TypeOK

\* Every variable keeps its type, and the record of echoes its bound.
THEOREM TypeCorrect == Spec => []TypeOK
<1>1. TypeOK /\ [Next]_vars => TypeOK'
  BY TypeStep
<1> QED BY <1>1, InitTypes, PTL DEF Spec

-----------------------------------------------------------------------------
(* Who is told that it no longer owns the selection.                       *)

\* A thread that is about to make a transition has none of its own to apply, so
\* no SelectionClear is overwritten by another.
NothingOwing == \A t \in Threads : pc[t] = "idle" => fx[t].clear = Nothing

\* A client believes what is so.
Believes(d) == Owns(d, holds[d])

ClearsInv == TypeOK /\ NothingOwing /\ NobodyMisled

\* Between an owner and the next, a client is told of the change or has lost its
\* belief by itself; the other clients' beliefs and clears are left alone.
LEMMA Displaced ==
  ASSUME ClearsInv, TypeOK', NEW u \in Threads, pc[u] = "idle",
         \A t \in Threads : t # u => fx'[t] = fx[t] /\ pc'[t] = pc[t],
         pc'[u] # "idle",
         \A d \in Clients : \/ holds'[d] = NoTime
                            \/ Believes(d)'
                            \/ holds'[d] = holds[d] /\ (Believes(d) => fx'[u].clear = <<d, holds[d]>>)
  PROVE  ClearsInv'
<1>1. fx[u].clear = Nothing
  BY DEF ClearsInv, NothingOwing
<1>2. NothingOwing'
  BY DEF ClearsInv, NothingOwing
<1>3. ASSUME NEW d \in Clients, holds'[d] # NoTime
      PROVE  Believes(d)' \/ \E t \in Threads : fx'[t].clear = <<d, holds'[d]>>
  <2>1. CASE Believes(d)'
    BY <2>1
  <2>2. CASE holds'[d] = holds[d] /\ (Believes(d) => fx'[u].clear = <<d, holds[d]>>)
    <3>1. CASE Believes(d)
      BY <2>2, <3>1
    <3>2. CASE \E t \in Threads : fx[t].clear = <<d, holds[d]>>
      <4>1. PICK t \in Threads : fx[t].clear = <<d, holds[d]>>
        BY <3>2
      <4>2. <<d, holds[d]>> # Nothing
        <5>1. <<d, holds[d]>> \in Clients \X Nat
          BY DEF ClearsInv, TypeOK
        <5> QED BY <5>1, ClipboardAssumption
      <4>3. t # u
        BY <1>1, <4>1, <4>2
      <4> QED BY <2>2, <4>1, <4>3
    <3>3. holds[d] # NoTime
      BY <1>3, <2>2
    <3> QED BY <2>2, <3>1, <3>2, <3>3 DEF ClearsInv, NobodyMisled, Believes
  <2> QED BY <1>3, <2>1, <2>2
<1> QED BY <1>2, <1>3 DEF ClearsInv, NobodyMisled, Believes

\* Where neither the owner, nor a belief, nor a clear changes, nor a thread
\* becomes idle, nothing changes.
LEMMA NoneDisplaced ==
  ASSUME ClearsInv, TypeOK', holds' = holds,
         \A d \in Clients, at \in Nat : Owns(d, at) => Owns(d, at)',
         \A t \in Threads : fx'[t].clear = fx[t].clear,
         \A t \in Threads : pc'[t] = "idle" => pc[t] = "idle" \/ fx[t].clear = Nothing
  PROVE  ClearsInv'
<1>1. NothingOwing'
  BY DEF ClearsInv, NothingOwing
<1>2. NobodyMisled'
  <2>1. \A d \in Clients : holds[d] \in Nat
    BY DEF ClearsInv, TypeOK
  <2>2. ASSUME NEW d \in Clients, holds'[d] # NoTime
        PROVE  Believes(d)' \/ \E t \in Threads : fx'[t].clear = <<d, holds'[d]>>
    BY <2>1, <2>2 DEF ClearsInv, NobodyMisled, Believes
  <2> QED BY <2>2 DEF NobodyMisled, Believes
<1> QED BY <1>1, <1>2 DEF ClearsInv

LEMMA ClearsStep == ClearsInv /\ [Next]_vars => ClearsInv'
<1> SUFFICES ASSUME ClearsInv, [Next]_vars PROVE ClearsInv'
  OBVIOUS
<1>1. TypeOK' /\ TypeOK
  BY TypeStep DEF ClearsInv
<1>2. /\ pc \in [Threads -> {"idle", "withdraw", "publish", "post", "unpost", "apply", "gone"}]
      /\ fx \in [Threads -> FxType] /\ holds \in [Clients -> Nat]
      /\ owner \in OwnerType /\ clock \in Nat
  BY <1>1 DEF TypeOK
<1>3. /\ Clients \subseteq Threads /\ Wayland \in Threads /\ Wayland \notin Clients
      /\ Nothing \notin Acquisitions
  BY ClipboardAssumption DEF Threads, Acquisitions
<1>4. \A x \in FxType : \A cl, n, at, leaving :
        /\ [NoFx EXCEPT !.clear = cl, !.notify = n].clear = cl
        /\ [NoFx EXCEPT !.clear = cl, !.fetch = at].clear = cl
        /\ [x EXCEPT !.notify = n].clear = x.clear
        /\ [NoFx EXCEPT !.notify = n].clear = Nothing
        /\ [NoFx EXCEPT !.notify = n, !.leave = leaving].clear = Nothing
        /\ [x EXCEPT !.clear = cl].clear = cl
        /\ NoFx.clear = Nothing
  BY DEF NoFx, FxType
<1>5. ASSUME NEW d \in Clients, NEW at, Owns(d, at) PROVE IsX /\ owner.client = d /\ OwnerAcq = <<d, at>>
  BY <1>5 DEF Owns, OwnerAcq
<1>6. CASE \E c \in Clients : Asks(c)
  <2>1. PICK c \in Clients, at \in 1 .. clock : XTook(c, at) \/ XReleased(c, at)
    BY <1>6 DEF Asks
  <2>2. /\ c \in Threads /\ pc[c] = "idle"
        /\ \A t \in Threads : t # c => fx'[t] = fx[t] /\ pc'[t] = pc[t]
        /\ pc'[c] # "idle"
    BY <1>2, <1>3, <2>1 DEF XTook, XReleased, MayAsk
  <2>3. CASE XTook(c, at)
    <3>1. /\ owner' = XOwner(c, at, FALSE) /\ holds' = [holds EXCEPT ![c] = at]
          /\ fx'[c].clear = IF IsX /\ owner.client # c THEN OwnerAcq ELSE Nothing
      BY <1>2, <1>4, <2>2, <2>3 DEF XTook
    <3>2. Owns(c, at)'
      BY <3>1 DEF Owns, IsX, XOwner
    <3>3. ASSUME NEW d \in Clients
          PROVE \/ Believes(d)'
                \/ holds'[d] = holds[d] /\ (Believes(d) => fx'[c].clear = <<d, holds[d]>>)
      <4>1. CASE d = c
        <5>1. holds'[d] = at
          BY <1>2, <3>1, <4>1
        <5> QED BY <3>2, <4>1, <5>1 DEF Owns, Believes
      <4>2. CASE d # c
        BY <1>2, <1>5, <3>1, <4>2 DEF Believes
      <4> QED BY <4>1, <4>2
    <3> QED BY <1>1, <2>2, <3>3, Displaced
  <2>4. CASE XReleased(c, at)
    <3>1. holds' = holds /\ fx'[c].clear = ToClear
      BY <1>2, <1>4, <2>2, <2>4 DEF XReleased
    <3>2. ASSUME NEW d \in Clients, Believes(d) PROVE fx'[c].clear = <<d, holds[d]>>
      BY <1>5, <3>1, <3>2 DEF ToClear, Believes
    <3> QED BY <1>1, <2>2, <3>1, <3>2, Displaced
  <2> QED BY <2>1, <2>3, <2>4
<1>7. CASE \E c \in Clients : FetchResolves(c)
  <2>1. PICK c \in Clients : FetchResolves(c)
    BY <1>7
  <2>2. PICK at \in fetches[c] : XFetched(c, at) \/ XFetchFailed(c, at)
    BY <2>1 DEF FetchResolves
  <2>3. holds' = holds /\ pc[c] = "idle" /\ fx[c].clear = Nothing
    BY <1>3, <2>2 DEF XFetched, XFetchFailed, ClearsInv, NothingOwing, xside
  <2>4. \A d \in Clients, n \in Nat : Owns(d, n) => Owns(d, n)'
    <3>1. CASE owner' = owner
      BY <3>1 DEF Owns, IsX
    <3>2. CASE Owns(c, at) /\ owner' = [owner EXCEPT !.data = TRUE]
      <4>1. owner'.kind = "x" /\ owner'.client = owner.client /\ owner'.time = owner.time
        BY <1>2, <3>2, OwnerShapes DEF Owns, IsX
      <4> QED BY <4>1 DEF Owns, IsX
    <3> QED BY <2>2, <3>1, <3>2 DEF XFetched, XFetchFailed, lockVars
  <2>5. \A t \in Threads : fx'[t].clear = fx[t].clear
    <3>1. Acquired(c, at).clear = Nothing
      BY DEF Acquired, NoFx
    <3> QED BY <1>2, <2>2, <2>3, <3>1 DEF XFetched, XFetchFailed, threadVars
  <2>6. \A t \in Threads : pc'[t] = "idle" => pc[t] = "idle"
    BY <1>2, <2>2 DEF XFetched, XFetchFailed, threadVars
  <2> QED BY <1>1, <2>3, <2>4, <2>5, <2>6, NoneDisplaced
<1>8. CASE \E c \in Clients : Goes(c)
  <2>1. PICK c \in Clients, leaving \in BOOLEAN : XOwnerGone(c, leaving)
    BY <1>8 DEF Goes
  <2>2. /\ holds' = [holds EXCEPT ![c] = NoTime] /\ pc[c] = "idle" /\ c \in Threads
        /\ fx[c].clear = Nothing
    BY <1>3, <2>1 DEF XOwnerGone, ClearsInv, NothingOwing
  <2>3. CASE IsX /\ owner.client = c
    <3>1. /\ \A t \in Threads : t # c => fx'[t] = fx[t] /\ pc'[t] = pc[t]
          /\ pc'[c] # "idle"
      BY <1>2, <2>1, <2>2, <2>3 DEF XOwnerGone
    <3>2. ASSUME NEW d \in Clients
          PROVE \/ holds'[d] = NoTime
                \/ holds'[d] = holds[d] /\ (Believes(d) => fx'[c].clear = <<d, holds[d]>>)
      BY <1>2, <1>5, <2>2, <2>3 DEF Believes
    <3> QED BY <1>1, <2>2, <3>1, <3>2, Displaced
  <2>4. CASE ~(IsX /\ owner.client = c)
    <3>1. owner' = owner /\ fx' = fx
      BY <2>1, <2>4 DEF XOwnerGone
    <3>2. \A t \in Threads : pc'[t] = "idle" => pc[t] = "idle"
      BY <1>2, <2>1, <2>2, <2>4 DEF XOwnerGone
    <3>3. NothingOwing'
      BY <3>1, <3>2 DEF ClearsInv, NothingOwing
    <3>4. NobodyMisled'
      <4>1. \A d \in Clients : holds'[d] # NoTime => holds'[d] = holds[d]
        BY <1>2, <2>2
      <4> QED BY <3>1, <4>1 DEF ClearsInv, NobodyMisled, Owns, IsX
    <3> QED BY <1>1, <3>3, <3>4 DEF ClearsInv
  <2> QED BY <2>3, <2>4
<1>9. CASE \E c \in Clients : Publishes(c)
  <2>1. PICK c \in Clients : Publishes(c)
    BY <1>9
  <2>2. owner' = owner /\ holds' = holds /\ fx' = fx
    BY <2>1 DEF Publishes, Withdraw, RecordEcho, PostPublish, UnrecordEcho, lockVars, xside
  <2>3. \A t \in Threads : pc'[t] = "idle" => pc[t] = "idle"
    BY <1>2, <2>1 DEF Publishes, Withdraw, RecordEcho, PostPublish, UnrecordEcho
  <2> QED BY <1>1, <2>2, <2>3, NoneDisplaced DEF Owns, IsX
<1>10. CASE \E t \in Threads : Proceeds(t)
  <2>1. PICK t \in Threads : SendClear(t) \/ Notify(t) \/ Applied(t)
    BY <1>10 DEF Proceeds
  <2>2. owner' = owner /\ fx[t] \in FxType /\ pc[t] = "apply"
    BY <1>2, <2>1 DEF SendClear, Notify, Applied, lockVars
  <2>3. CASE SendClear(t)
    <3>1. PICK d \in Clients, at \in Nat : fx[t].clear = <<d, at>>
      BY <2>2, <2>3 DEF SendClear, FxType, Acquisitions
    <3>2. /\ holds' = IF holds[d] = at THEN [holds EXCEPT ![d] = NoTime] ELSE holds
          /\ fx' = [fx EXCEPT ![t].clear = Nothing] /\ pc' = pc
      BY <2>3, <3>1 DEF SendClear
    <3>3. \A u \in Threads : IF u = t THEN fx'[u].clear = Nothing ELSE fx'[u] = fx[u]
      BY <1>2, <1>4, <3>2
    <3>4. NothingOwing'
      BY <2>2, <3>2, <3>3 DEF ClearsInv, NothingOwing
    <3>5. ASSUME NEW e \in Clients, holds'[e] # NoTime
          PROVE  Believes(e)' \/ \E u \in Threads : fx'[u].clear = <<e, holds'[e]>>
      <4>1. holds'[e] = holds[e] /\ (e # d \/ holds[e] # at)
        BY <1>2, <3>2, <3>5
      <4>2. <<e, holds[e]>> # fx[t].clear
        BY <3>1, <4>1
      <4>3. Believes(e) \/ \E u \in Threads : fx[u].clear = <<e, holds[e]>>
        BY <3>5, <4>1 DEF ClearsInv, NobodyMisled, Believes
      <4> QED BY <2>2, <3>3, <4>1, <4>2, <4>3 DEF Believes, Owns, IsX
    <3> QED BY <1>1, <3>4, <3>5 DEF ClearsInv, NobodyMisled, Believes
  <2>4. CASE Notify(t)
    <3>1. holds' = holds /\ pc' = pc /\ \A u \in Threads : fx'[u].clear = fx[u].clear
      BY <1>2, <1>4, <2>2, <2>4 DEF Notify
    <3> QED BY <1>1, <2>2, <3>1, NoneDisplaced DEF Owns, IsX
  <2>5. CASE Applied(t)
    <3>1. holds' = holds /\ \A u \in Threads : fx'[u].clear = fx[u].clear
      BY <1>2, <1>4, <2>5 DEF Applied
    <3>2. \A u \in Threads : pc'[u] = "idle" => pc[u] = "idle" \/ fx[u].clear = Nothing
      BY <1>2, <2>5 DEF Applied
    <3> QED BY <1>1, <2>2, <3>1, <3>2, NoneDisplaced DEF Owns, IsX
  <2> QED BY <2>1, <2>3, <2>4, <2>5
<1>11. CASE WaylandAnnounced
  <2>1. holds' = holds /\ pc[Wayland] = "idle"
    BY <1>11 DEF WaylandAnnounced, xside
  <2>2. CASE AbsorbEcho
    BY <1>1, <2>1, <2>2, NoneDisplaced DEF AbsorbEcho, Owns, IsX
  <2>3. CASE WaylandTakes
    <3>1. /\ \A t \in Threads : t # Wayland => fx'[t] = fx[t] /\ pc'[t] = pc[t]
          /\ pc'[Wayland] # "idle" /\ fx'[Wayland].clear = ToClear
      BY <1>2, <1>3, <1>4, <2>3 DEF WaylandTakes
    <3>2. ASSUME NEW d \in Clients, Believes(d) PROVE fx'[Wayland].clear = <<d, holds[d]>>
      BY <1>5, <3>1, <3>2 DEF ToClear, Believes
    <3> QED BY <1>1, <1>3, <2>1, <3>1, <3>2, Displaced
  <2> QED BY <1>11, <2>2, <2>3 DEF WaylandAnnounced
<1>12. CASE RunJobs \/ WaylandLost \/ CompositorSets \/ (\E a \in AppItems : AppCopies(a))
            \/ AppClears \/ Tick \/ UNCHANGED vars
  <2>1. owner' = owner /\ holds' = holds /\ fx' = fx /\ pc' = pc
    BY <1>12 DEF RunJobs, WaylandLost, CompositorSets, AppCopies, AppClears, Tick, vars,
                 lockVars, threadVars, xside
  <2> QED BY <1>1, <2>1, NoneDisplaced DEF Owns, IsX
<1> QED BY <1>6, <1>7, <1>8, <1>9, <1>10, <1>11, <1>12 DEF Next

\* A client that took the selection and has not been told otherwise still owns
\* it, or its SelectionClear is on some thread's way to it (Effects::apply): for
\* any number of clients, and whoever else takes it meanwhile.
THEOREM NobodyEverMisled == Spec => []NobodyMisled
<1>1. Init => ClearsInv
  <2> SUFFICES ASSUME Init PROVE NothingOwing /\ NobodyMisled /\ TypeOK
    BY DEF ClearsInv
  <2>1. NothingOwing
    BY DEF Init, NothingOwing, NoFx
  <2>2. NobodyMisled
    BY DEF Init, NobodyMisled
  <2>3. TypeOK
    BY InitTypes
  <2> QED BY <2>1, <2>2, <2>3
<1>2. ClearsInv => NobodyMisled
  BY DEF ClearsInv
<1> QED BY <1>1, <1>2, ClearsStep, PTL DEF Spec

-----------------------------------------------------------------------------
(* What both sides settle on.                                              *)

OneClient == \A c, d \in Clients : c = d

\* No publication is refused for want of room.
RoomForJobs == Len(jobs) < MaxJobs

\* What was announced last is the compositor's selection, which a Wayland owner
\* holds once it is all read.
LatestInv ==
  running =>
    /\ announced # <<>> => announced[Len(announced)].item = comp
    /\ announced = <<>> /\ owner.kind = "wayland" => comp = owner.item

\* What the compositor comes to show of an item of ours: the last that is still
\* to be published, or else what it shows, unless an app's copy is on its way.
ComesToShow(c, item) ==
  IF pc[c] \in {"publish", "post"} THEN pub[c] = item
  ELSE IF jobs # <<>> THEN jobs[Len(jobs)] = item
  ELSE IF socket # <<>> THEN socket[Len(socket)] = item
  ELSE comp = item \/ \E n \in DOMAIN announced : announced[n].item \in AppItems

\* An X owner's value is asked for once, and published, and not withdrawn while
\* it is the owner.
ShownInv ==
  \A c \in Clients : running /\ publishable /\ IsX /\ owner.client = c /\ owner.data =>
    /\ pc[c] \notin {"withdraw", "unpost"}
    /\ owner.time \notin fetches[c]
    /\ fx[c].fetch # NoTime => fx[c].fetch # owner.time
    /\ ComesToShow(c, OwnerAcq)

SidesInv == TypeOK /\ LatestInv /\ ShownInv

\* A step of the client's that leaves the owner, and everyone but its thread, alone.
LEMMA LatestSame ==
  ASSUME LatestInv, UNCHANGED <<running, announced, comp>>,
         owner' = owner \/ owner'.kind # "wayland"
  PROVE  LatestInv'
BY DEF LatestInv

LEMMA SidesStep ==
  ASSUME OneClient, TextItems = {}
  PROVE  SidesInv /\ RoomForJobs /\ [Next]_vars => SidesInv'
<1> SUFFICES ASSUME SidesInv, RoomForJobs, [Next]_vars PROVE SidesInv'
  OBVIOUS
<1>1. TypeOK /\ TypeOK'
  BY TypeStep DEF SidesInv
<1>2. /\ pc \in [Threads -> {"idle", "withdraw", "publish", "post", "unpost", "apply", "gone"}]
      /\ fx \in [Threads -> FxType] /\ pub \in [Threads -> Publics]
      /\ owner \in OwnerType /\ fetches \in [Clients -> SUBSET Nat]
  BY <1>1 DEF TypeOK, Publics
<1>3. jobs \in Seq(Publics) /\ socket \in Seq(Publics)
      /\ announced \in Seq([item : Items \cup {Nothing}, ours : BOOLEAN])
  BY <1>1 DEF TypeOK, Publics
<1>4. /\ Clients \subseteq Threads /\ Wayland \in Threads /\ Wayland \notin Clients
      /\ Nothing \notin Acquisitions /\ Nothing \notin AppItems /\ AppItems \cap Acquisitions = {}
  BY ClipboardAssumption DEF Threads, Acquisitions
<1>5. ASSUME NEW c \in Clients, IsX PROVE owner.client = c /\ OwnerAcq \in Acquisitions
  <2>1. owner.client \in Clients
    BY <1>2, <1>5, OwnerShapes DEF IsX
  <2> QED BY <1>2, <1>5, <2>1, ClearType DEF OneClient
<1>6. CASE \E c \in Clients : Asks(c)
  <2>1. PICK c \in Clients, at \in 1 .. clock : XTook(c, at) \/ XReleased(c, at)
    BY <1>6 DEF Asks
  <2>2. (owner' = owner /\ ~IsX) \/ owner'.kind = "none" \/ (owner'.kind = "x" /\ ~owner'.data)
    BY <2>1 DEF XTook, XReleased, XOwner, NoOwner
  <2>3. LatestInv'
    BY <2>1, <2>2, LatestSame DEF XTook, XReleased, outside, SidesInv
  <2>4. ShownInv'
    BY <2>2 DEF ShownInv, IsX
  <2> QED BY <1>1, <2>3, <2>4 DEF SidesInv
<1>7. CASE \E c \in Clients : FetchResolves(c)
  <2>1. PICK c \in Clients : FetchResolves(c)
    BY <1>7
  <2>2. PICK at \in fetches[c] : XFetched(c, at) \/ XFetchFailed(c, at)
    BY <2>1 DEF FetchResolves
  <2>3. UNCHANGED <<running, publishable, jobs, announced, comp, socket>> /\ pc[c] = "idle"
        /\ fetches' = [fetches EXCEPT ![c] = @ \ {at}]
    BY <2>2 DEF XFetched, XFetchFailed, outside
  <2>4. CASE ~Owns(c, at)
    <3>1. UNCHANGED <<owner, pc, pub, fx>>
      BY <2>2, <2>4 DEF XFetched, XFetchFailed, lockVars, threadVars
    <3>2. fetches'[c] \subseteq fetches[c]
      BY <1>2, <2>3
    <3>3. ShownInv'
      <4>1. \A d \in Clients : d = c
        BY DEF OneClient
      <4> QED BY <2>3, <3>1, <3>2, <4>1 DEF SidesInv, ShownInv, ComesToShow, IsX, OwnerAcq
    <3>4. LatestInv'
      BY <2>3, <3>1, LatestSame DEF SidesInv
    <3> QED BY <1>1, <3>3, <3>4 DEF SidesInv
  <2>5. CASE Owns(c, at) /\ XFetched(c, at)
    <3>1. /\ owner' = [owner EXCEPT !.data = TRUE] /\ pub' = [pub EXCEPT ![c] = <<c, at>>]
          /\ fx' = [fx EXCEPT ![c] = Acquired(c, at)] /\ pc' = [pc EXCEPT ![c] = "publish"]
      BY <2>5 DEF XFetched
    <3>2. owner'.kind = "x" /\ owner'.client = c /\ owner'.time = at
      <4>1. owner'.kind = "x" /\ owner'.client = owner.client /\ owner'.time = owner.time
        BY <1>2, <2>5, <3>1, OwnerShapes DEF Owns, IsX
      <4> QED BY <2>5, <4>1 DEF Owns
    <3>3. /\ pub'[c] = <<c, at>> /\ pc'[c] = "publish" /\ fx'[c].fetch = NoTime
          /\ at \notin fetches'[c]
      <4>1. Acquired(c, at).fetch = NoTime
        BY DEF Acquired, NoFx
      <4> QED BY <1>2, <1>4, <2>3, <3>1, <4>1
    <3>4. ShownInv'
      <4>1. OwnerAcq' = <<c, at>>
        BY <3>2 DEF OwnerAcq
      <4>2. ComesToShow(c, OwnerAcq)'
        BY <3>3, <4>1 DEF ComesToShow
      <4>3. \A d \in Clients : d = c
        BY DEF OneClient
      <4> QED BY <3>2, <3>3, <4>2, <4>3 DEF ShownInv
    <3>5. LatestInv'
      BY <2>3, <3>2, LatestSame DEF SidesInv
    <3> QED BY <1>1, <3>4, <3>5 DEF SidesInv
  <2>6. CASE Owns(c, at) /\ XFetchFailed(c, at)
    <3>1. owner' = owner
      BY <2>6 DEF XFetchFailed, lockVars
    <3>2. ShownInv'
      BY <2>3, <2>6, <3>1 DEF SidesInv, ShownInv, IsX, Owns
    <3>3. LatestInv'
      BY <2>3, <3>1, LatestSame DEF SidesInv
    <3> QED BY <1>1, <3>2, <3>3 DEF SidesInv
  <2> QED BY <2>2, <2>4, <2>5, <2>6
<1>8. CASE \E c \in Clients : Goes(c)
  <2>1. PICK c \in Clients, leaving \in BOOLEAN : XOwnerGone(c, leaving)
    BY <1>8 DEF Goes
  <2>2. UNCHANGED <<running, announced, comp>> /\ owner'.kind # "x"
    <3>1. CASE IsX
      <4>1. owner' = NoOwner
        BY <1>5, <2>1, <3>1 DEF XOwnerGone
      <4> QED BY <2>1, <4>1 DEF NoOwner, XOwnerGone, outside
    <3>2. CASE ~IsX
      BY <2>1, <3>2 DEF XOwnerGone, outside, IsX
    <3> QED BY <3>1, <3>2
  <2>3. owner' = owner \/ owner'.kind = "none"
    BY <2>1 DEF XOwnerGone, NoOwner
  <2>4. ShownInv'
    BY <2>2 DEF ShownInv, IsX
  <2>5. LatestInv'
    BY <2>2, <2>3, LatestSame DEF SidesInv
  <2> QED BY <1>1, <2>4, <2>5 DEF SidesInv
<1>9. CASE \E c \in Clients : Publishes(c)
  <2>1. PICK c \in Clients : Publishes(c)
    BY <1>9
  <2>2. UNCHANGED <<owner, running, publishable, announced, comp, socket, fx, fetches>>
    BY <2>1 DEF Publishes, Withdraw, RecordEcho, PostPublish, UnrecordEcho, lockVars, xside, outside
  <2>3. LatestInv'
    BY <2>2, LatestSame DEF SidesInv
  <2>4. ShownInv'
    <3> SUFFICES ASSUME running, publishable, IsX, owner.data
                 PROVE  /\ pc'[c] \notin {"withdraw", "unpost"}
                        /\ owner.time \notin fetches[c]
                        /\ fx[c].fetch # NoTime => fx[c].fetch # owner.time
                        /\ ComesToShow(c, OwnerAcq)'
      <4>1. \A d \in Clients : d = c
        BY DEF OneClient
      <4> QED BY <2>2, <4>1 DEF ShownInv, IsX
    <3>1. /\ pc[c] \notin {"withdraw", "unpost"}
          /\ owner.time \notin fetches[c]
          /\ fx[c].fetch # NoTime => fx[c].fetch # owner.time
          /\ ComesToShow(c, OwnerAcq)
      BY <1>5 DEF SidesInv, ShownInv
    <3>2. CASE RecordEcho(c)
      <4>1. pc'[c] = "post" /\ pc[c] = "publish" /\ pub' = pub
        BY <1>2, <1>4, <3>2 DEF RecordEcho
      <4> QED BY <2>2, <3>1, <4>1 DEF ComesToShow, OwnerAcq
    <3>3. CASE PostPublish(c)
      <4>1. /\ pc'[c] = "apply" /\ pc[c] = "post" /\ jobs' = Append(jobs, pub[c])
        BY <1>2, <1>4, <3>3 DEF PostPublish, RoomForJobs
      <4>2. jobs' # <<>> /\ jobs'[Len(jobs')] = pub[c]
        <5>1. pub[c] \in Publics
          BY <1>2, <1>4
        <5> QED BY <1>3, <4>1, <5>1
      <4> QED BY <2>2, <3>1, <4>1, <4>2 DEF ComesToShow, OwnerAcq
    <3> QED BY <2>1, <3>1, <3>2, <3>3 DEF Publishes, Withdraw, UnrecordEcho
  <2> QED BY <1>1, <2>3, <2>4 DEF SidesInv
<1>10. CASE \E t \in Threads : Proceeds(t)
  <2>1. PICK t \in Threads : SendClear(t) \/ Notify(t) \/ Applied(t)
    BY <1>10 DEF Proceeds
  <2>2. UNCHANGED <<owner, running, publishable, announced, comp, socket, jobs, pub>> /\ pc[t] = "apply"
    BY <2>1 DEF SendClear, Notify, Applied, lockVars, outside
  <2>3. LatestInv'
    BY <2>2, LatestSame DEF SidesInv
  <2>4. ASSUME NEW c \in Clients, running, publishable, IsX, owner.data
        PROVE  /\ pc'[c] \notin {"withdraw", "unpost"}
               /\ owner.time \notin fetches'[c]
               /\ fx'[c].fetch # NoTime => fx'[c].fetch # owner.time
               /\ ComesToShow(c, OwnerAcq)'
    <3>1. /\ pc[c] \notin {"withdraw", "unpost"}
          /\ owner.time \notin fetches[c]
          /\ fx[c].fetch # NoTime => fx[c].fetch # owner.time
          /\ ComesToShow(c, OwnerAcq)
      BY <1>5, <2>4 DEF SidesInv, ShownInv
    <3>2. /\ pc'[c] \in {"publish", "post"} <=> pc[c] \in {"publish", "post"}
          /\ pc'[c] \notin {"withdraw", "unpost"}
      BY <1>2, <1>4, <2>1, <2>2, <3>1 DEF SendClear, Notify, Applied
    <3>3. /\ fx'[c].fetch # NoTime => fx'[c].fetch = fx[c].fetch
          /\ fetches'[c] \subseteq fetches[c] \cup ({fx[c].fetch} \ {NoTime})
      <4>1. fx[t] \in FxType
        BY <1>2
      <4>2. [fx[t] EXCEPT !.clear = Nothing].fetch = fx[t].fetch
            /\ [fx[t] EXCEPT !.notify = Nothing].fetch = fx[t].fetch
        BY <4>1 DEF FxType
      <4>3. NoFx.fetch = NoTime
        BY DEF NoFx
      <4>4. CASE SendClear(t)
        BY <1>2, <1>4, <4>2, <4>4 DEF SendClear
      <4>5. CASE Notify(t)
        BY <1>2, <1>4, <4>2, <4>5 DEF Notify
      <4>6. CASE Applied(t)
        BY <1>2, <1>4, <4>3, <4>6 DEF Applied
      <4> QED BY <2>1, <4>4, <4>5, <4>6
    <3>4. ComesToShow(c, OwnerAcq)'
      BY <2>2, <3>1, <3>2 DEF ComesToShow, OwnerAcq
    <3> QED BY <3>1, <3>2, <3>3, <3>4
  <2>5. ShownInv'
    BY <2>2, <2>4 DEF ShownInv, IsX
  <2> QED BY <1>1, <2>3, <2>5 DEF SidesInv
<1>11. CASE WaylandAnnounced
  <2>1. /\ announced # <<>> /\ announced' = Tail(announced) /\ pc[Wayland] = "idle"
        /\ UNCHANGED <<publishable, running, jobs, pub, comp, socket, fetches>>
    BY <1>11 DEF WaylandAnnounced, xside
  <2> DEFINE h == Head(announced)
  <2>2. /\ Len(announced') = Len(announced) - 1 /\ Len(announced) \in Nat \ {0}
        /\ h = announced[1] /\ \A n \in 1 .. Len(announced) - 1 : announced'[n] = announced[n + 1]
        /\ DOMAIN announced = 1 .. Len(announced) /\ DOMAIN announced' = 1 .. Len(announced) - 1
    <3>1. announced' \in Seq([item : Items \cup {Nothing}, ours : BOOLEAN])
      BY <1>1 DEF TypeOK
    <3>2. Len(announced') = Len(announced) - 1 /\ Len(announced) \in Nat \ {0}
      BY <1>3, <2>1, HeadTailProperties, EmptySeq
    <3> QED BY <1>3, <2>1, <3>1, <3>2
  <2>3. CASE AbsorbEcho
    <3>1. UNCHANGED <<owner, fx, pc>> /\ h.item \notin AppItems /\ (owner.kind = "x" \/ owner.kind = "none")
      <4>1. Absorbed(h.item) /\ UNCHANGED <<owner, fx, pc>>
        BY <2>3 DEF AbsorbEcho
      <4>2. h.item \in Acquisitions \/ h.item = Nothing
        BY <4>1 DEF Absorbed, LooksLikeEcho
      <4> QED BY <1>4, <4>1, <4>2 DEF Absorbed, IsX
    <3>2. LatestInv'
      <4>1. announced' # <<>> => announced'[Len(announced')] = announced[Len(announced)]
        BY <2>2
      <4> QED BY <2>1, <3>1, <4>1 DEF SidesInv, LatestInv
    <3>3. ASSUME NEW n \in DOMAIN announced, announced[n].item \in AppItems
          PROVE  \E m \in DOMAIN announced' : announced'[m].item \in AppItems
      <4>1. n # 1
        BY <2>2, <3>1, <3>3
      <4>2. n - 1 \in 1 .. Len(announced) - 1 /\ announced'[n - 1] = announced[n]
        BY <2>2, <3>3, <4>1
      <4> QED BY <2>2, <3>3, <4>2
    <3>4. \A c \in Clients : ComesToShow(c, OwnerAcq) => ComesToShow(c, OwnerAcq)'
      BY <2>1, <3>1, <3>3 DEF ComesToShow, OwnerAcq
    <3>5. ShownInv'
      BY <2>1, <3>1, <3>4 DEF SidesInv, ShownInv, IsX
    <3> QED BY <1>1, <3>2, <3>5 DEF SidesInv
  <2>4. CASE WaylandTakes
    <3>1. owner' = IF h.item = Nothing THEN NoOwner ELSE WaylandOwner(h.item)
      BY <2>4 DEF WaylandTakes
    <3>2. owner'.kind # "x" /\ (owner'.kind = "wayland" => owner'.item = h.item)
      BY <3>1 DEF NoOwner, WaylandOwner
    <3>3. LatestInv'
      <4>1. announced' # <<>> => announced'[Len(announced')] = announced[Len(announced)]
        BY <2>2
      <4>2. announced' = <<>> => h = announced[Len(announced)]
        <5> SUFFICES ASSUME announced' = <<>> PROVE Len(announced) = 1
          BY <2>2
        <5>1. Len(announced') = 0
          BY EmptySeq, Zenon
        <5> QED BY <2>2, <5>1
      <4> QED BY <2>1, <3>2, <4>1, <4>2 DEF SidesInv, LatestInv
    <3>4. ShownInv'
      BY <3>2 DEF ShownInv, IsX
    <3> QED BY <1>1, <3>3, <3>4 DEF SidesInv
  <2> QED BY <1>11, <2>3, <2>4 DEF WaylandAnnounced
<1>12. CASE RunJobs
  <2>1. /\ UNCHANGED <<owner, running, publishable, announced, comp, pc, fx, pub, fetches>>
        /\ socket' = socket \o jobs /\ jobs' = <<>> /\ jobs # <<>>
    BY <1>12 DEF RunJobs, lockVars, threadVars, xside
  <2>2. socket' # <<>> /\ socket'[Len(socket')] = jobs[Len(jobs)]
    BY <1>3, <2>1
  <2>3. LatestInv'
    BY <2>1, LatestSame DEF SidesInv
  <2>4. \A c \in Clients : ComesToShow(c, OwnerAcq) => ComesToShow(c, OwnerAcq)'
    BY <2>1, <2>2 DEF ComesToShow, OwnerAcq
  <2>5. ShownInv'
    BY <2>1, <2>4 DEF SidesInv, ShownInv, IsX
  <2> QED BY <1>1, <2>3, <2>5 DEF SidesInv
<1>13. CASE WaylandLost
  <2>1. ~running'
    BY <1>13 DEF WaylandLost
  <2> QED BY <1>1, <2>1 DEF SidesInv, LatestInv, ShownInv
<1>14. ASSUME NEW item \in Items \cup {Nothing}, NEW ours \in BOOLEAN,
              announced' = Announce(item, ours), comp' = item,
              UNCHANGED <<owner, running, publishable, pc, fx, pub, fetches, jobs>>
       PROVE  /\ LatestInv' /\ DOMAIN announced \subseteq DOMAIN announced'
              /\ \A n \in DOMAIN announced : announced'[n] = announced[n]
              /\ \E n \in DOMAIN announced' : announced'[n].item = item
  <2> DEFINE e == [item |-> item, ours |-> ours]
  <2>1. e \in [item : Items \cup {Nothing}, ours : BOOLEAN] /\ e.item = item
    OBVIOUS
  <2> HIDE DEF e
  <2>2. announced' = Append(announced, e)
    BY <1>14 DEF Announce, e
  <2>3. /\ announced' # <<>> /\ announced'[Len(announced')] = e
        /\ Len(announced') \in DOMAIN announced'
        /\ DOMAIN announced \subseteq DOMAIN announced'
        /\ \A n \in DOMAIN announced : announced'[n] = announced[n]
    <3>1. announced \in Seq([item : Items \cup {Nothing}, ours : BOOLEAN])
      BY <1>1 DEF TypeOK
    <3>2. /\ Len(announced) \in Nat /\ DOMAIN announced = 1 .. Len(announced)
          /\ Len(announced') = Len(announced) + 1 /\ DOMAIN announced' = 1 .. Len(announced) + 1
      BY <2>1, <2>2, <3>1, AppendProperties, LenProperties
    <3>3. /\ announced'[Len(announced) + 1] = e
          /\ \A n \in 1 .. Len(announced) : announced'[n] = announced[n]
      BY <2>1, <2>2, <3>1, AppendProperties
    <3>4. announced' # <<>>
      BY <3>2, EmptySeq
    <3> QED BY <3>2, <3>3, <3>4
  <2> QED BY <1>14, <2>1, <2>3 DEF LatestInv
<1>15. CASE CompositorSets
  <2>1. /\ UNCHANGED <<owner, running, publishable, pc, fx, pub, fetches, jobs>>
        /\ socket # <<>> /\ comp' = Head(socket) /\ announced' = Announce(Head(socket), TRUE)
        /\ socket' = Tail(socket)
    BY <1>15 DEF CompositorSets, lockVars, threadVars, xside
  <2>2. Head(socket) \in Items \cup {Nothing}
    <3>1. Head(socket) \in Publics
      BY <1>3, <2>1
    <3> QED BY <3>1 DEF Publics, Items
  <2>3. /\ LatestInv' /\ DOMAIN announced \subseteq DOMAIN announced'
        /\ \A n \in DOMAIN announced : announced'[n] = announced[n]
    BY <1>14, <2>1, <2>2
  <2>4. /\ socket' # <<>> => socket'[Len(socket')] = socket[Len(socket)]
        /\ socket' = <<>> => Head(socket) = socket[Len(socket)]
    <3>1. /\ Len(socket') = Len(socket) - 1 /\ Len(socket) \in Nat \ {0}
          /\ Head(socket) = socket[1] /\ \A n \in 1 .. Len(socket) - 1 : socket'[n] = socket[n + 1]
      BY <1>3, <2>1, HeadTailProperties, EmptySeq
    <3>2. socket' # <<>> => Len(socket') # 0
      <4>1. socket' \in Seq(Publics)
        BY <1>3, <2>1, HeadTailProperties
      <4> QED BY <4>1, EmptySeq
    <3>3. socket' = <<>> => Len(socket') = 0
      BY EmptySeq, Zenon
    <3>4. socket' # <<>> => socket'[Len(socket) - 1] = socket[(Len(socket) - 1) + 1]
      BY <3>1, <3>2
    <3> QED BY <3>1, <3>3, <3>4
  <2>5. \A c \in Clients : ComesToShow(c, OwnerAcq) => ComesToShow(c, OwnerAcq)'
    BY <2>1, <2>3, <2>4 DEF ComesToShow, OwnerAcq
  <2>6. ShownInv'
    BY <2>1, <2>5 DEF SidesInv, ShownInv, IsX
  <2> QED BY <1>1, <2>3, <2>6 DEF SidesInv
<1>16. CASE \E a \in AppItems : AppCopies(a)
  <2>1. PICK a \in AppItems : AppCopies(a)
    BY <1>16
  <2>2. /\ UNCHANGED <<owner, running, publishable, pc, fx, pub, fetches, jobs, socket>>
        /\ comp' = a /\ announced' = Announce(a, FALSE) /\ a \in Items \cup {Nothing}
    BY <2>1 DEF AppCopies, lockVars, threadVars, xside, Items
  <2>3. LatestInv' /\ \E n \in DOMAIN announced' : announced'[n].item = a
    BY <1>14, <2>2
  <2>4. \A c \in Clients : ComesToShow(c, OwnerAcq) => ComesToShow(c, OwnerAcq)'
    BY <2>2, <2>3 DEF ComesToShow, OwnerAcq
  <2>5. ShownInv'
    BY <2>2, <2>4 DEF SidesInv, ShownInv, IsX
  <2> QED BY <1>1, <2>3, <2>5 DEF SidesInv
<1>17. CASE AppClears
  <2>1. /\ UNCHANGED <<owner, running, publishable, pc, fx, pub, fetches, jobs, socket>>
        /\ comp \in AppItems /\ comp' = Nothing /\ announced' = Announce(Nothing, FALSE)
    BY <1>17 DEF AppClears, lockVars, threadVars, xside
  <2>2. /\ LatestInv' /\ DOMAIN announced \subseteq DOMAIN announced'
        /\ \A n \in DOMAIN announced : announced'[n] = announced[n]
    BY <1>14, <2>1
  <2>3. \A c \in Clients : IsX => (ComesToShow(c, OwnerAcq) => ComesToShow(c, OwnerAcq)')
    <3>1. \A c \in Clients : IsX => comp # OwnerAcq
      BY <1>4, <1>5, <2>1
    <3> QED BY <2>1, <2>2, <3>1 DEF ComesToShow, OwnerAcq
  <2>4. ShownInv'
    BY <2>1, <2>3 DEF SidesInv, ShownInv, IsX
  <2> QED BY <1>1, <2>2, <2>4 DEF SidesInv
<1>18. CASE Tick \/ UNCHANGED vars
  <2>1. UNCHANGED <<owner, running, publishable, announced, comp, socket, jobs, pc, fx, pub, fetches>>
    BY <1>18 DEF Tick, vars, lockVars, threadVars, outside, xside
  <2>2. LatestInv' /\ ShownInv'
    BY <2>1 DEF SidesInv, LatestInv, ShownInv, ComesToShow, IsX, OwnerAcq
  <2> QED BY <1>1, <2>2 DEF SidesInv
<1> QED BY <1>6, <1>7, <1>8, <1>9, <1>10, <1>11, <1>12, <1>13, <1>15, <1>16, <1>17, <1>18 DEF Next

\* With one X client, and no Wayland app that advertises just what we do, what X
\* is served once everything is delivered is what Wayland shows, as long as no
\* publication was refused for want of room (Clipboard::publish, take_echo): for
\* any number of copies and acquisitions, in whatever order they cross.
THEOREM SidesAlwaysAgree ==
  ASSUME OneClient, TextItems = {}
  PROVE  Spec /\ []RoomForJobs => []SidesAgree
<1>1. Init => SidesInv
  <2> SUFFICES ASSUME Init PROVE LatestInv /\ ShownInv
    BY InitTypes DEF SidesInv
  <2> QED BY DEF Init, LatestInv, ShownInv, IsX, NoOwner
<1>2. SidesInv => SidesAgree
  <2> SUFFICES ASSUME SidesInv, Settled, publishable, Served # Nothing PROVE comp = Served
    BY DEF SidesAgree
  <2>1. running /\ announced = <<>> /\ jobs = <<>> /\ socket = <<>> /\ owner \in OwnerType
    BY DEF Settled, SidesInv, TypeOK
  <2>2. CASE owner.kind = "wayland"
    BY <2>1, <2>2 DEF SidesInv, LatestInv, Served
  <2>3. CASE owner.kind = "x"
    <3>1. owner.client \in Clients /\ owner.client \in Threads
      BY <2>1, <2>3, OwnerShapes DEF Threads
    <3>2. owner.data /\ Served = OwnerAcq
      BY <2>3 DEF Served
    <3>3. pc[owner.client] \in {"idle", "gone"}
      BY <3>1 DEF Settled
    <3>4. ComesToShow(owner.client, OwnerAcq)
      BY <2>1, <2>3, <3>1, <3>2 DEF SidesInv, ShownInv, IsX
    <3>5. DOMAIN announced = {}
      BY <2>1
    <3> QED BY <2>1, <3>2, <3>3, <3>4, <3>5 DEF ComesToShow
  <2>4. owner.kind # "none"
    BY DEF Served
  <2> QED BY <2>1, <2>2, <2>3, <2>4 DEF OwnerType
<1>3. SidesInv /\ RoomForJobs /\ [Next]_vars => SidesInv'
  BY SidesStep
<1> QED BY <1>1, <1>2, <1>3, PTL DEF Spec

-----------------------------------------------------------------------------
(* Which announcements are ours: what the recursion of Mine comes to.       *)

\* The order of the natural numbers, news a relation, is well founded.
LEMMA NatOrder ==
  \E R : IsWellFoundedOn(R, Nat) /\ \A x, y \in Nat : <<y, x>> \in R <=> y < x
<1>1. IsWellFoundedOn({p \in Nat \X Nat : p[1] < p[2]}, Nat)
  BY NatLessThanWellFounded DEF OpToRel
<1>2. \A x, y \in Nat : <<y, x>> \in {p \in Nat \X Nat : p[1] < p[2]} <=> y < x
  OBVIOUS
<1> QED BY <1>1, <1>2, Zenon

\* A set of natural numbers has a least one.
LEMMA Least ==
  ASSUME NEW S \in SUBSET Nat, S # {}
  PROVE  \E n \in S : \A m \in S : n <= m
<1>1. PICK R : IsWellFoundedOn(R, Nat) /\ \A x, y \in Nat : <<y, x>> \in R <=> y < x
  BY NatOrder
<1>2. PICK n \in S : \A m \in S : ~(<<m, n>> \in R)
  BY <1>1, WFMin
<1>3. ASSUME NEW m \in S PROVE n <= m
  <2>1. n \in Nat /\ m \in Nat
    OBVIOUS
  <2>2. ~(m < n)
    BY <1>1, <1>2, <2>1, Zenon
  <2> QED BY <2>1, <2>2
<1> QED BY <1>3

Announcements(S) == Seq([item : S, ours : BOOLEAN])

\* The recursion of Mine, up to k.
MineStep(news, f, n) ==
  IF n = 0 THEN <<>>
  ELSE IF news[n].ours THEN Append(f[n - 1], news[n].item) ELSE f[n - 1]
IsMine(news, f, k) == f = [n \in 0 .. k |-> MineStep(news, f, n)]

\* It is well founded.
LEMMA MineExists ==
  ASSUME NEW news, NEW k \in Nat
  PROVE  \E f : IsMine(news, f, k)
<1> DEFINE Bad == {n \in 0 .. k : ~\E f : IsMine(news, f, n)}
<1> SUFFICES ASSUME ~\E f : IsMine(news, f, k) PROVE FALSE
  OBVIOUS
<1>0. Bad \in SUBSET Nat /\ Bad # {}
  <2>0. k \in 0 .. k
    OBVIOUS
  <2>1. k \in Bad
    BY <2>0, Zenon
  <2>2. Bad \subseteq 0 .. k
    BY Zenon
  <2> HIDE DEF Bad
  <2> QED BY <2>1, <2>2
<1>1. PICK n \in Bad : \A m \in Bad : n <= m
  <2> HIDE DEF Bad
  <2> QED BY <1>0, Least
<1>2. CASE n = 0
  <2> DEFINE f == [m \in 0 .. 0 |-> <<>>]
  <2>1. IsMine(news, f, 0)
    BY DEF IsMine, MineStep
  <2> QED BY <1>1, <1>2, <2>1
<1>3. CASE n # 0
  <2>1. n \in Nat /\ n - 1 \in 0 .. k /\ n \in 0 .. k /\ ~(n <= n - 1)
    BY <1>1, <1>3
  <2>2. PICK f : IsMine(news, f, n - 1)
    BY <1>1, <2>1
  <2>3. f = [m \in 0 .. n - 1 |-> MineStep(news, f, m)]
    BY <2>2 DEF IsMine
  <2> DEFINE g == [m \in 0 .. n |-> IF m = n THEN MineStep(news, f, n) ELSE f[m]]
  <2>4. \A m \in 0 .. n : g[m] = MineStep(news, g, m)
    <3> SUFFICES ASSUME NEW m \in 0 .. n PROVE g[m] = MineStep(news, g, m)
      OBVIOUS
    <3>1. m # 0 => g[m - 1] = f[m - 1]
      <4>1. m # 0 => m - 1 \in 0 .. n /\ m - 1 # n
        BY <2>1
      <4> QED BY <4>1
    <3>2. MineStep(news, g, m) = MineStep(news, f, m)
      BY <3>1 DEF MineStep
    <3>3. m # n => f[m] = MineStep(news, f, m)
      <4>1. m # n => m \in 0 .. n - 1
        BY <2>1
      <4> QED BY <2>3, <4>1
    <3> QED BY <3>2, <3>3
  <2>5. g = [m \in 0 .. n |-> MineStep(news, g, m)]
    BY <2>4
  <2>6. IsMine(news, g, n)
    BY <2>5 DEF IsMine
  <2> QED BY <1>1, <2>6
<1> QED BY <1>2, <1>3

LEMMA MineIs ==
  ASSUME NEW S, NEW news \in Announcements(S)
  PROVE  \E f : IsMine(news, f, Len(news)) /\ Mine(news) = f[Len(news)]
<1> DEFINE f == CHOOSE f : f = [n \in 0 .. Len(news) |->
                 IF n = 0 THEN <<>>
                 ELSE IF news[n].ours THEN Append(f[n - 1], news[n].item) ELSE f[n - 1]]
<1>1. Mine(news) = f[Len(news)]
  BY DEF Mine
<1>2. \E g : g = [n \in 0 .. Len(news) |->
                 IF n = 0 THEN <<>>
                 ELSE IF news[n].ours THEN Append(g[n - 1], news[n].item) ELSE g[n - 1]]
  <2>1. Len(news) \in Nat
    BY LenProperties DEF Announcements
  <2>2. PICK g : IsMine(news, g, Len(news))
    BY <2>1, MineExists
  <2> QED BY <2>2 DEF IsMine, MineStep
<1>3. IsMine(news, f, Len(news))
  BY <1>2 DEF IsMine, MineStep
<1> QED BY <1>1, <1>3

LEMMA MineTyped ==
  ASSUME NEW S, NEW news \in Announcements(S), NEW f, IsMine(news, f, Len(news))
  PROVE  /\ \A n \in 0 .. Len(news) : f[n] \in Seq(S)
         /\ f[0] = <<>>
         /\ \A n \in 1 .. Len(news) : f[n] = IF news[n].ours THEN Append(f[n - 1], news[n].item) ELSE f[n - 1]
<1>1. Len(news) \in Nat /\ \A n \in 1 .. Len(news) : news[n] \in [item : S, ours : BOOLEAN]
  BY LenProperties, ElementOfSeq DEF Announcements
<1>2. f = [n \in 0 .. Len(news) |-> MineStep(news, f, n)]
  BY DEF IsMine
<1>3. \A n \in 0 .. Len(news) : f[n] = MineStep(news, f, n)
  BY <1>2, Zenon
<1>4. f[0] = <<>> /\ 0 \in 0 .. Len(news)
  <2>1. 0 \in 0 .. Len(news)
    BY <1>1
  <2> QED BY <1>3, <2>1 DEF MineStep
<1>5. \A n \in 1 .. Len(news) :
         /\ n - 1 \in 0 .. Len(news) /\ n \in 0 .. Len(news)
         /\ f[n] = IF news[n].ours THEN Append(f[n - 1], news[n].item) ELSE f[n - 1]
  <2> SUFFICES ASSUME NEW n \in 1 .. Len(news)
               PROVE  /\ n - 1 \in 0 .. Len(news) /\ n \in 0 .. Len(news)
                      /\ f[n] = IF news[n].ours THEN Append(f[n - 1], news[n].item) ELSE f[n - 1]
    OBVIOUS
  <2>1. n # 0 /\ n - 1 \in 0 .. Len(news) /\ n \in 0 .. Len(news)
    BY <1>1
  <2> QED BY <1>3, <2>1, Zenon DEF MineStep
<1>6. \A n \in 0 .. Len(news) : f[n] \in Seq(S)
  <2> DEFINE Bad == {n \in 0 .. Len(news) : f[n] \notin Seq(S)}
  <2> SUFFICES ASSUME Bad # {} PROVE FALSE
    BY Zenon
  <2>1. Bad \in SUBSET Nat
    <3>1. 0 .. Len(news) \subseteq Nat
      BY <1>1
    <3> QED BY <3>1
  <2>2. PICK n \in Bad : \A m \in Bad : n <= m
    <3> HIDE DEF Bad
    <3> QED BY <2>1, Least
  <2>3. n \in 0 .. Len(news) /\ f[n] \notin Seq(S) /\ n \in Nat
    BY <1>1
  <2>4. n # 0
    <3>1. <<>> \in Seq(S)
      OBVIOUS
    <3> QED BY <1>4, <2>3, <3>1
  <2>5. n \in 1 .. Len(news) /\ n - 1 \in 0 .. Len(news) /\ ~(n <= n - 1)
    BY <1>1, <2>3, <2>4
  <2>6. f[n - 1] \in Seq(S)
    BY <2>2, <2>5
  <2>7. news[n].item \in S /\ Append(f[n - 1], news[n].item) \in Seq(S)
    <3>1. news[n].item \in S
      BY <1>1, <2>5
    <3> QED BY <2>6, <3>1
  <2> QED BY <1>5, <2>3, <2>5, <2>6, <2>7
<1> QED BY <1>4, <1>5, <1>6

LEMMA MineType ==
  ASSUME NEW S, NEW news \in Announcements(S)
  PROVE  Mine(news) \in Seq(S)
<1>1. PICK f : IsMine(news, f, Len(news)) /\ Mine(news) = f[Len(news)]
  BY MineIs
<1>2. Len(news) \in 0 .. Len(news)
  <2>1. Len(news) \in Nat
    BY LenProperties DEF Announcements
  <2> QED BY <2>1
<1> QED BY <1>1, <1>2, MineTyped

\* Nothing is nobody's.
LEMMA MineEmpty == Mine(<<>>) = <<>>
<1>1. <<>> \in Announcements({})
  BY DEF Announcements
<1>2. PICK f : IsMine(<<>>, f, Len(<<>>)) /\ Mine(<<>>) = f[Len(<<>>)]
  BY <1>1, MineIs
<1>3. f[0] = <<>>
  BY <1>1, <1>2, MineTyped
<1> QED BY <1>2, <1>3

\* One more announcement.
LEMMA MineAppend ==
  ASSUME NEW S, NEW news \in Announcements(S), NEW item \in S, NEW ours \in BOOLEAN
  PROVE  Mine(Append(news, [item |-> item, ours |-> ours]))
            = IF ours THEN Append(Mine(news), item) ELSE Mine(news)
<1> DEFINE e == [item |-> item, ours |-> ours]
           bs == Append(news, e)
<1>1. e \in [item : S, ours : BOOLEAN] /\ e.item = item /\ e.ours = ours
  OBVIOUS
<1> HIDE DEF e
<1>2. /\ bs \in Announcements(S) /\ Len(news) \in Nat /\ Len(bs) = Len(news) + 1
      /\ bs[Len(news) + 1] = e
      /\ \A n \in 1 .. Len(news) : bs[n] = news[n]
  BY <1>1 DEF Announcements
<1> HIDE DEF bs
<1>3. PICK f : IsMine(news, f, Len(news)) /\ Mine(news) = f[Len(news)]
  BY MineIs
<1>4. PICK g : IsMine(bs, g, Len(bs)) /\ Mine(bs) = g[Len(bs)]
  BY <1>2, MineIs
<1>f. /\ f[0] = <<>>
      /\ \A n \in 1 .. Len(news) : f[n] = IF news[n].ours THEN Append(f[n - 1], news[n].item) ELSE f[n - 1]
  BY <1>3, MineTyped, Zenon
<1>g. /\ g[0] = <<>>
      /\ \A n \in 1 .. Len(bs) : g[n] = IF bs[n].ours THEN Append(g[n - 1], bs[n].item) ELSE g[n - 1]
  BY <1>2, <1>4, MineTyped, Zenon
<1>5. \A n \in 0 .. Len(news) : f[n] = g[n]
  <2> DEFINE Bad == {n \in 0 .. Len(news) : f[n] # g[n]}
  <2> SUFFICES ASSUME Bad # {} PROVE FALSE
    BY Zenon
  <2>1. Bad \in SUBSET Nat
    BY <1>2
  <2>2. PICK n \in Bad : \A m \in Bad : n <= m
    <3> HIDE DEF Bad
    <3> QED BY <2>1, Least
  <2>3. n \in 0 .. Len(news) /\ f[n] # g[n] /\ n \in Nat
    BY <1>2
  <2>4. f[0] = <<>> /\ g[0] = <<>>
    BY <1>f, <1>g
  <2>5. n \in 1 .. Len(news) /\ n \in 1 .. Len(bs) /\ n - 1 \in 0 .. Len(news) /\ ~(n <= n - 1)
    BY <1>2, <2>3, <2>4
  <2>6. f[n - 1] = g[n - 1] /\ news[n] = bs[n]
    BY <1>2, <2>2, <2>5
  <2>7. f[n] = IF news[n].ours THEN Append(f[n - 1], news[n].item) ELSE f[n - 1]
    BY <1>f, <2>5
  <2>8. g[n] = IF bs[n].ours THEN Append(g[n - 1], bs[n].item) ELSE g[n - 1]
    BY <1>g, <2>5
  <2> QED BY <2>3, <2>6, <2>7, <2>8
<1>6. Len(bs) \in 1 .. Len(bs) /\ Len(bs) - 1 = Len(news) /\ Len(news) \in 0 .. Len(news)
  BY <1>2
<1>7. Mine(bs) = IF bs[Len(bs)].ours THEN Append(g[Len(bs) - 1], bs[Len(bs)].item) ELSE g[Len(bs) - 1]
  <2>1. g[Len(bs)] = IF bs[Len(bs)].ours THEN Append(g[Len(bs) - 1], bs[Len(bs)].item) ELSE g[Len(bs) - 1]
    BY <1>6, <1>g
  <2> QED BY <1>4, <2>1, Zenon
<1> QED BY <1>1, <1>2, <1>3, <1>5, <1>6, <1>7 DEF bs, e

LEMMA AppendConcat ==
  \A S : \A p, q \in Seq(S) : \A i \in S : p \o Append(q, i) = Append(p \o q, i)
OBVIOUS

LEMMA ConcatThrough ==
  \A S : \A p, q, r \in Seq(S) : (p \o q) \o r = p \o (q \o r)
BY ConcatAssociative

\* The next announcement is gone.
LEMMA MineTail ==
  ASSUME NEW S, NEW news \in Announcements(S), news # <<>>
  PROVE  /\ Head(news).ours => Mine(news) # <<>> /\ Head(Mine(news)) = Head(news).item
                             /\ Mine(Tail(news)) = Tail(Mine(news))
         /\ ~Head(news).ours => Mine(Tail(news)) = Mine(news)
<1> DEFINE h == Head(news)
           bs == Tail(news)
           pre == IF h.ours THEN <<h.item>> ELSE <<>>
<1>1. /\ bs \in Announcements(S) /\ Len(news) \in Nat \ {0} /\ Len(bs) = Len(news) - 1
      /\ Len(bs) \in Nat /\ h = news[1] /\ h \in [item : S, ours : BOOLEAN]
      /\ \A n \in 1 .. Len(bs) : bs[n] = news[n + 1] /\ bs[n] \in [item : S, ours : BOOLEAN]
  <2>1. bs \in Announcements(S) /\ Len(news) \in Nat \ {0} /\ Len(bs) = Len(news) - 1
    BY HeadTailProperties, EmptySeq DEF Announcements
  <2>2. h = news[1] /\ h \in [item : S, ours : BOOLEAN]
    <3> DEFINE R == [item : S, ours : BOOLEAN]
    <3>1. news \in Seq(R)
      BY DEF Announcements
    <3> HIDE DEF R
    <3>2. h = news[1]
      BY <3>1
    <3>3. h \in R
      BY <3>1, HeadTailProperties
    <3> QED BY <3>2, <3>3 DEF R
  <2>3. \A n \in 1 .. Len(bs) : bs[n] = news[n + 1]
    BY <2>1 DEF Announcements
  <2>4. \A n \in 1 .. Len(bs) : bs[n] \in [item : S, ours : BOOLEAN]
    BY <2>1, ElementOfSeq DEF Announcements
  <2> QED BY <2>1, <2>2, <2>3, <2>4
<1> HIDE DEF h, bs
<1>2. pre \in Seq(S) /\ h.item \in S
  <2>1. h.item \in S
    BY <1>1
  <2>2. <<h.item>> \in Seq(S) /\ <<>> \in Seq(S)
    BY <2>1
  <2> QED BY <2>1, <2>2
<1>3. PICK f : IsMine(news, f, Len(news)) /\ Mine(news) = f[Len(news)]
  BY MineIs
<1>4. PICK g : IsMine(bs, g, Len(bs)) /\ Mine(bs) = g[Len(bs)]
  BY <1>1, MineIs
<1>f. /\ f[0] = <<>>
      /\ \A n \in 1 .. Len(news) : f[n] = IF news[n].ours THEN Append(f[n - 1], news[n].item) ELSE f[n - 1]
  BY <1>3, MineTyped, Zenon
<1>g. /\ g[0] = <<>>
      /\ \A n \in 1 .. Len(bs) : g[n] = IF bs[n].ours THEN Append(g[n - 1], bs[n].item) ELSE g[n - 1]
  <2>1. bs \in Announcements(S)
    BY <1>1
  <2> QED BY <1>4, <2>1, MineTyped, Zenon
<1>n. Len(bs) \in Nat /\ Len(news) = Len(bs) + 1
  BY <1>1
<1>5. \A n \in 0 .. Len(bs) : f[n + 1] = pre \o g[n]
  <2> DEFINE Bad == {n \in 0 .. Len(bs) : f[n + 1] # pre \o g[n]}
  <2> SUFFICES ASSUME Bad # {} PROVE FALSE
    BY Zenon
  <2>1. Bad \in SUBSET Nat
    <3>1. 0 .. Len(bs) \subseteq Nat
      BY <1>1
    <3> QED BY <3>1
  <2>2. PICK n \in Bad : \A m \in Bad : n <= m
    <3> HIDE DEF Bad
    <3> QED BY <2>1, Least
  <2>3. n \in 0 .. Len(bs) /\ f[n + 1] # pre \o g[n] /\ n \in Nat
    <3>1. n \in 0 .. Len(bs) /\ f[n + 1] # pre \o g[n]
      OBVIOUS
    <3>2. n \in Nat
      BY <2>1
    <3> QED BY <3>1, <3>2
  <2>4. n + 1 \in 1 .. Len(news) /\ n + 1 - 1 = n
    <3>1. n \in 0 .. Len(bs)
      BY <2>3
    <3> QED BY <1>n, <3>1
  <2>5. f[n + 1] = IF news[n + 1].ours THEN Append(f[n], news[n + 1].item) ELSE f[n]
    BY <1>f, <2>4
  <2>6. CASE n = 0
    <3>1. f[1] = pre
      <4>1. f[0] = <<>>
        BY <1>f
      <4>2. f[1] = IF h.ours THEN Append(<<>>, h.item) ELSE <<>>
        BY <1>1, <2>5, <2>6, <4>1
      <4>3. Append(<<>>, h.item) = <<h.item>>
        OBVIOUS
      <4> QED BY <4>2, <4>3
    <3>2. g[0] = <<>>
      BY <1>g
    <3>3. pre \o <<>> = pre
      BY <1>2, ConcatEmptySeq
    <3> QED BY <2>3, <2>6, <3>1, <3>2, <3>3
  <2>7. CASE n # 0
    <3>1. n \in 1 .. Len(bs) /\ n - 1 \in 0 .. Len(bs) /\ ~(n <= n - 1) /\ n - 1 + 1 = n
      BY <1>n, <2>3, <2>7
    <3>2. f[n] = pre \o g[n - 1]
      BY <2>2, <3>1
    <3>3. g[n] = IF bs[n].ours THEN Append(g[n - 1], bs[n].item) ELSE g[n - 1]
      BY <1>1, <1>4, <3>1, MineTyped
    <3>4. g[n - 1] \in Seq(S) /\ bs[n].item \in S /\ bs[n] = news[n + 1]
      BY <1>1, <1>4, <3>1, MineTyped
    <3>5. pre \o Append(g[n - 1], bs[n].item) = Append(pre \o g[n - 1], bs[n].item)
      <4> HIDE DEF pre, Bad
      <4> QED BY <1>2, <3>4, AppendConcat
    <3> HIDE DEF pre
    <3> QED BY <2>3, <2>5, <3>2, <3>3, <3>4, <3>5
  <2> QED BY <2>6, <2>7
<1>6. Mine(news) = pre \o Mine(bs) /\ Mine(bs) \in Seq(S)
  <2>1. Len(bs) \in 0 .. Len(bs) /\ Len(bs) + 1 = Len(news)
    BY <1>1
  <2>2. g[Len(bs)] \in Seq(S)
    BY <1>1, <1>4, <2>1, MineTyped
  <2> QED BY <1>3, <1>4, <1>5, <2>1, <2>2
<1>7. CASE h.ours
  <2>1. Mine(news) = <<h.item>> \o Mine(bs)
    BY <1>6, <1>7
  <2> QED BY <1>2, <1>6, <1>7, <2>1 DEF h, bs
<1>8. CASE ~h.ours
  <2>1. Mine(news) = <<>> \o Mine(bs)
    BY <1>6, <1>8
  <2>2. Mine(news) = Mine(bs)
    BY <1>6, <2>1, ConcatEmptySeq
  <2> QED BY <1>8, <2>2 DEF h, bs
<1> QED BY <1>7, <1>8

-----------------------------------------------------------------------------
(* What take_echo has on record: the last of what is owed.                  *)

Marks == {"Source", "Withdrawn"}

\* e is the last of s.
Suffix(e, s) ==
  Len(e) <= Len(s) /\ \A i \in 1 .. Len(e) : e[i] = s[i + Len(s) - Len(e)]

\* What e has not of s is withdrawals.
Short(e, s) == \A i \in 1 .. Len(s) - Len(e) : s[i] = "Withdrawn"

LEMMA SuffixBoth ==
  ASSUME NEW S, NEW e \in Seq(S), NEW s \in Seq(S), NEW x \in S, Suffix(e, s)
  PROVE  /\ Suffix(Append(e, x), Append(s, x))
         /\ Short(e, s) => Short(Append(e, x), Append(s, x))
<1>1. /\ Append(e, x) \in Seq(S) /\ Len(Append(e, x)) = Len(e) + 1 /\ Append(e, x)[Len(e) + 1] = x
      /\ Append(s, x) \in Seq(S) /\ Len(Append(s, x)) = Len(s) + 1 /\ Append(s, x)[Len(s) + 1] = x
      /\ \A i \in 1 .. Len(e) : Append(e, x)[i] = e[i]
      /\ \A i \in 1 .. Len(s) : Append(s, x)[i] = s[i]
      /\ Len(e) \in Nat /\ Len(s) \in Nat
  BY AppendProperties, LenProperties
<1> DEFINE a == Append(e, x)
           b == Append(s, x)
<1> HIDE DEF a, b
<1>2. /\ Len(a) = Len(e) + 1 /\ a[Len(e) + 1] = x
      /\ Len(b) = Len(s) + 1 /\ b[Len(s) + 1] = x
      /\ \A i \in 1 .. Len(e) : a[i] = e[i]
      /\ \A i \in 1 .. Len(s) : b[i] = s[i]
      /\ Len(e) \in Nat /\ Len(s) \in Nat
  BY <1>1 DEF a, b
<1>3. Suffix(a, b)
  <2>1. ASSUME NEW i \in 1 .. Len(a) PROVE a[i] = b[i + Len(b) - Len(a)]
    <3>1. CASE i \in 1 .. Len(e)
      <4>1. e[i] = s[i + Len(s) - Len(e)]
        BY <3>1 DEF Suffix
      <4>2. i + Len(s) - Len(e) \in 1 .. Len(s)
        BY <1>2, <3>1 DEF Suffix
      <4>3. i + Len(b) - Len(a) = i + Len(s) - Len(e)
        BY <1>2, <3>1
      <4> QED BY <1>2, <3>1, <4>1, <4>2, <4>3
    <3>2. CASE i = Len(e) + 1
      BY <1>2, <3>2
    <3> QED BY <1>2, <2>1, <3>1, <3>2
  <2> QED BY <1>2, <2>1 DEF Suffix
<1>4. Short(e, s) => Short(a, b)
  <2>1. ASSUME Short(e, s), NEW i \in 1 .. Len(b) - Len(a) PROVE b[i] = "Withdrawn"
    <3>1. i \in 1 .. Len(s) - Len(e) /\ i \in 1 .. Len(s)
      BY <1>2
    <3> QED BY <1>2, <2>1, <3>1 DEF Short
  <2> QED BY <2>1 DEF Short
<1> QED BY <1>3, <1>4 DEF a, b

LEMMA SuffixTail ==
  ASSUME NEW S, NEW e \in Seq(S), NEW s \in Seq(S), Suffix(e, s), s # <<>>
  PROVE  /\ e # <<>> => /\ Suffix(Tail(e), Tail(s)) /\ Suffix(Tail(e), s)
                        /\ Len(e) = Len(s) => Head(e) = Head(s)
                        /\ Short(e, s) /\ (Len(e) = Len(s) \/ Head(e) = "Withdrawn")
                             => Short(Tail(e), Tail(s))
                        /\ Short(e, s) /\ Head(e) = "Withdrawn" => Short(Tail(e), s)
         /\ Len(e) # Len(s) => /\ Suffix(e, Tail(s))
                               /\ Short(e, s) => Short(e, Tail(s)) /\ Head(s) = "Withdrawn"
<1> DEFINE t == Tail(s)
           d == Tail(e)
<1>1. /\ t \in Seq(S) /\ Len(s) \in Nat \ {0} /\ Len(e) \in Nat /\ Len(t) = Len(s) - 1
      /\ Head(s) = s[1] /\ \A i \in 1 .. Len(s) - 1 : t[i] = s[i + 1]
  <2>1. t \in Seq(S) /\ Len(s) \in Nat \ {0} /\ Len(e) \in Nat /\ Len(t) = Len(s) - 1
    BY HeadTailProperties, EmptySeq, LenProperties
  <2> QED BY <2>1, HeadTailProperties
<1>2. Len(e) <= Len(s) /\ \A i \in 1 .. Len(e) : e[i] = s[i + Len(s) - Len(e)]
  BY DEF Suffix
<1> HIDE DEF t, d
<1>3. ASSUME e # <<>>
      PROVE  /\ Suffix(d, t) /\ Suffix(d, s)
             /\ Len(e) = Len(s) => Head(e) = Head(s)
             /\ Short(e, s) /\ (Len(e) = Len(s) \/ Head(e) = "Withdrawn") => Short(d, t)
             /\ Short(e, s) /\ Head(e) = "Withdrawn" => Short(d, s)
  <2>1. d \in Seq(S) /\ Len(e) \in Nat \ {0} /\ Len(d) = Len(e) - 1
    BY <1>3, HeadTailProperties, EmptySeq, LenProperties DEF d
  <2>2. Head(e) = e[1] /\ \A i \in 1 .. Len(e) - 1 : d[i] = e[i + 1]
    BY <1>3, <2>1, HeadTailProperties DEF d
  <2>3. ASSUME NEW i \in 1 .. Len(d)
        PROVE  d[i] = t[i + Len(t) - Len(d)] /\ d[i] = s[i + Len(s) - Len(d)]
    <3>1. /\ i \in 1 .. Len(e) - 1 /\ i + 1 \in 1 .. Len(e)
          /\ i + Len(t) - Len(d) \in 1 .. Len(s) - 1
          /\ i + Len(t) - Len(d) + 1 = (i + 1) + Len(s) - Len(e)
          /\ i + Len(s) - Len(d) = (i + 1) + Len(s) - Len(e)
      BY <1>1, <1>2, <2>1
    <3>2. d[i] = e[i + 1] /\ e[i + 1] = s[(i + 1) + Len(s) - Len(e)]
      BY <1>2, <2>2, <3>1
    <3>3. t[i + Len(t) - Len(d)] = s[i + Len(t) - Len(d) + 1]
      BY <1>1, <3>1
    <3> QED BY <3>1, <3>2, <3>3
  <2>4. Suffix(d, t) /\ Suffix(d, s)
    <3>1. Len(d) <= Len(t) /\ Len(d) <= Len(s)
      BY <1>1, <1>2, <2>1
    <3> QED BY <2>3, <3>1 DEF Suffix
  <2>5. e[1] = s[1 + Len(s) - Len(e)]
    BY <1>2, <2>1
  <2>6. Len(e) = Len(s) => Head(e) = Head(s)
    BY <1>1, <2>1, <2>2, <2>5
  <2>7. ASSUME Short(e, s), Head(e) = "Withdrawn", NEW i \in 1 .. Len(s) - Len(d) PROVE s[i] = "Withdrawn"
    <3>1. i \in 1 .. Len(s) - Len(e) \/ i = 1 + Len(s) - Len(e)
      BY <1>1, <2>1
    <3> QED BY <2>2, <2>5, <2>7, <3>1 DEF Short
  <2>8. Short(e, s) /\ Head(e) = "Withdrawn" => Short(d, s)
    BY <2>7 DEF Short
  <2>9. ASSUME Short(d, s) PROVE Short(d, t)
    <3>1. ASSUME NEW i \in 1 .. Len(t) - Len(d) PROVE t[i] = "Withdrawn"
      <4>1. i \in 1 .. Len(s) - 1 /\ i + 1 \in 1 .. Len(s) - Len(d)
        BY <1>1, <2>1
      <4> QED BY <1>1, <2>9, <4>1 DEF Short
    <3> QED BY <3>1 DEF Short
  <2>10. Len(e) = Len(s) => Short(d, t)
    BY <1>1, <2>1 DEF Short
  <2> QED BY <2>4, <2>6, <2>8, <2>9, <2>10
<1>4. ASSUME Len(e) # Len(s)
      PROVE  /\ Suffix(e, t)
             /\ Short(e, s) => Short(e, t) /\ Head(s) = "Withdrawn"
  <2>1. ASSUME NEW i \in 1 .. Len(e) PROVE e[i] = t[i + Len(t) - Len(e)]
    <3>1. i + Len(t) - Len(e) \in 1 .. Len(s) - 1
          /\ i + Len(t) - Len(e) + 1 = i + Len(s) - Len(e)
      BY <1>1, <1>2, <1>4
    <3> QED BY <1>1, <1>2, <3>1
  <2>2. Suffix(e, t)
    BY <1>1, <1>2, <1>4, <2>1 DEF Suffix
  <2>3. ASSUME Short(e, s), NEW i \in 1 .. Len(t) - Len(e) PROVE t[i] = "Withdrawn"
    <3>1. i \in 1 .. Len(s) - 1 /\ i + 1 \in 1 .. Len(s) - Len(e)
      BY <1>1, <1>2
    <3> QED BY <1>1, <2>3, <3>1 DEF Short
  <2>4. Short(e, s) => Head(s) = "Withdrawn"
    <3>1. 1 \in 1 .. Len(s) - Len(e)
      BY <1>1, <1>2, <1>4
    <3> QED BY <1>1, <3>1 DEF Short
  <2> QED BY <2>2, <2>3, <2>4 DEF Short
<1> QED BY <1>3, <1>4 DEF t, d

LEMMA SuffixFront ==
  ASSUME NEW S, NEW e \in Seq(S), NEW s \in Seq(S), NEW x \in S, Suffix(e, Append(s, x))
  PROVE  /\ e # <<>> =>
              /\ e[Len(e)] = x /\ Suffix(SubSeq(e, 1, Len(e) - 1), s)
              /\ Short(e, Append(s, x)) => Short(SubSeq(e, 1, Len(e) - 1), s)
         /\ e = <<>> => /\ Suffix(e, s)
                        /\ Short(e, Append(s, x)) => Short(e, s)
<1> DEFINE b == Append(s, x)
           f == SubSeq(e, 1, Len(e) - 1)
<1>1. /\ Len(b) = Len(s) + 1 /\ b[Len(s) + 1] = x
      /\ \A i \in 1 .. Len(s) : b[i] = s[i]
      /\ Len(s) \in Nat /\ Len(e) \in Nat
  BY AppendProperties, LenProperties
<1>2. Len(e) <= Len(b) /\ \A i \in 1 .. Len(e) : e[i] = b[i + Len(b) - Len(e)]
  BY DEF Suffix
<1> HIDE DEF b, f
<1>3. ASSUME e # <<>>
      PROVE  e[Len(e)] = x /\ Suffix(f, s) /\ (Short(e, b) => Short(f, s))
  <2>1. Len(e) \in Nat \ {0}
    BY <1>1, <1>3, EmptySeq
  <2>2. Len(f) = Len(e) - 1 /\ \A i \in 1 .. Len(e) - 1 : f[i] = e[i]
    <3>1. \A i \in 1 .. Len(e) - 1 : e[i] \in S
      BY <2>1
    <3>2. Len(e) - 1 \in Int /\ 1 \in Int
      BY <2>1
    <3> DEFINE l == Len(e) - 1
    <3>3. /\ Len(f) = IF 1 <= l THEN l - 1 + 1 ELSE 0
          /\ \A i \in 1 .. l - 1 + 1 : f[i] = e[1 + i - 1]
      BY <3>1, <3>2, SubSeqProperties DEF f
    <3>4. Len(f) = Len(e) - 1 /\ l - 1 + 1 = Len(e) - 1
      <4>1. l \in Nat
        BY <2>1
      <4> HIDE DEF l
      <4>2. l - 1 + 1 = l /\ (~(1 <= l) => l = 0)
        BY <4>1
      <4>3. Len(f) = l
        BY <3>3, <4>2, Zenon
      <4> QED BY <4>2, <4>3 DEF l
    <3>5. ASSUME NEW i \in 1 .. Len(e) - 1 PROVE f[i] = e[i]
      <4>1. 1 + i - 1 = i
        BY <2>1
      <4> QED BY <3>3, <3>4, <4>1
    <3> QED BY <3>4, <3>5
  <2>3. e[Len(e)] = x
    BY <1>1, <1>2, <2>1
  <2>4. ASSUME NEW i \in 1 .. Len(f) PROVE f[i] = s[i + Len(s) - Len(f)]
    <3>1. /\ i \in 1 .. Len(e) - 1 /\ i \in 1 .. Len(e)
          /\ i + Len(s) - Len(f) \in 1 .. Len(s) /\ i + Len(s) - Len(f) = i + Len(b) - Len(e)
      BY <1>1, <1>2, <2>1, <2>2
    <3> QED BY <1>1, <1>2, <2>2, <3>1
  <2>5. Suffix(f, s)
    BY <1>1, <1>2, <2>1, <2>2, <2>4 DEF Suffix
  <2>6. ASSUME Short(e, b), NEW i \in 1 .. Len(s) - Len(f) PROVE s[i] = "Withdrawn"
    <3>1. i \in 1 .. Len(b) - Len(e) /\ i \in 1 .. Len(s)
      BY <1>1, <2>1, <2>2
    <3> QED BY <1>1, <2>6, <3>1 DEF Short
  <2> QED BY <2>3, <2>5, <2>6 DEF Short
<1>4. ASSUME e = <<>> PROVE Suffix(e, s) /\ (Short(e, b) => Short(e, s))
  <2>1. Len(e) = 0
    BY <1>4, EmptySeq, Zenon
  <2>2. ASSUME Short(e, b), NEW i \in 1 .. Len(s) - Len(e) PROVE s[i] = "Withdrawn"
    <3>1. i \in 1 .. Len(b) - Len(e) /\ i \in 1 .. Len(s)
      BY <1>1, <2>1
    <3> QED BY <1>1, <2>2, <3>1 DEF Short
  <2> QED BY <1>1, <2>1, <2>2 DEF Suffix, Short
<1> QED BY <1>3, <1>4 DEF b, f

\* The echo of each of items.
Marked(items) == [i \in DOMAIN items |-> EchoOf(items[i])]

LEMMA MarkedProperties ==
  ASSUME NEW S, NEW items \in Seq(S)
  PROVE  /\ Marked(items) \in Seq(Marks) /\ Len(Marked(items)) = Len(items)
         /\ \A p \in S : Marked(Append(items, p)) = Append(Marked(items), EchoOf(p))
         /\ items # <<>> => /\ Marked(items) # <<>> /\ Head(Marked(items)) = EchoOf(Head(items))
                            /\ Marked(Tail(items)) = Tail(Marked(items))
<1>1. \A item : EchoOf(item) \in Marks
  BY DEF EchoOf, Marks
<1>2. ASSUME NEW q \in Seq(S)
      PROVE  /\ Marked(q) \in Seq(Marks) /\ Len(Marked(q)) = Len(q)
             /\ \A i \in 1 .. Len(q) : Marked(q)[i] = EchoOf(q[i])
  <2>1. DOMAIN q = 1 .. Len(q) /\ Len(q) \in Nat
    OBVIOUS
  <2>2. Marked(q) = [i \in 1 .. Len(q) |-> EchoOf(q[i])]
    BY <2>1 DEF Marked
  <2> QED BY <1>1, <2>1, <2>2
<1>3. ASSUME NEW p \in S PROVE Marked(Append(items, p)) = Append(Marked(items), EchoOf(p))
  <2> DEFINE b == Append(items, p)
  <2>1. /\ b \in Seq(S) /\ Len(b) = Len(items) + 1 /\ b[Len(items) + 1] = p
        /\ \A i \in 1 .. Len(items) : b[i] = items[i] /\ Len(items) \in Nat
    BY AppendProperties
  <2> DEFINE m == Marked(items)
             c == Append(m, EchoOf(p))
  <2>2. /\ m \in Seq(Marks) /\ Len(m) = Len(items) /\ EchoOf(p) \in Marks
        /\ \A i \in 1 .. Len(items) : m[i] = EchoOf(items[i])
    BY <1>1, <1>2
  <2>3. /\ Marked(b) \in Seq(Marks) /\ Len(Marked(b)) = Len(b)
        /\ \A i \in 1 .. Len(b) : Marked(b)[i] = EchoOf(b[i])
    BY <1>2, <2>1
  <2> HIDE DEF m, b
  <2>4. /\ c \in Seq(Marks) /\ Len(c) = Len(m) + 1 /\ c[Len(m) + 1] = EchoOf(p)
        /\ \A i \in 1 .. Len(m) : c[i] = m[i]
    BY <2>2, AppendProperties
  <2> HIDE DEF c
  <2>5. \A i \in 1 .. Len(c) : c[i] = Marked(b)[i]
    <3> SUFFICES ASSUME NEW i \in 1 .. Len(c) PROVE c[i] = Marked(b)[i]
      OBVIOUS
    <3>1. Len(items) \in Nat
      OBVIOUS
    <3>2. i \in 1 .. Len(items) \/ i = Len(items) + 1
      BY <2>2, <2>4, <3>1
    <3>3. i \in 1 .. Len(b)
      BY <2>1, <2>2, <2>4
    <3> QED BY <2>1, <2>2, <2>3, <2>4, <3>2, <3>3
  <2>6. Len(c) = Len(Marked(b))
    BY <2>1, <2>2, <2>3, <2>4
  <2>7. c = Marked(b)
    BY <2>3, <2>4, <2>5, <2>6, SeqEqual
  <2> QED BY <2>7 DEF b, c, m
<1>4. ASSUME items # <<>>
      PROVE  /\ Marked(items) # <<>> /\ Head(Marked(items)) = EchoOf(Head(items))
             /\ Marked(Tail(items)) = Tail(Marked(items))
  <2> DEFINE t == Tail(items)
             m == Marked(items)
  <2>1. t \in Seq(S) /\ Len(items) \in Nat \ {0} /\ Len(t) = Len(items) - 1
    BY <1>4, HeadTailProperties, EmptySeq
  <2>2. Head(items) = items[1] /\ \A i \in 1 .. Len(items) - 1 : t[i] = items[i + 1]
    BY <1>4, <2>1, HeadTailProperties
  <2>3. /\ m \in Seq(Marks) /\ Len(m) = Len(items)
        /\ \A i \in 1 .. Len(items) : m[i] = EchoOf(items[i])
    BY <1>2
  <2>4. /\ Marked(t) \in Seq(Marks) /\ Len(Marked(t)) = Len(t)
        /\ \A i \in 1 .. Len(t) : Marked(t)[i] = EchoOf(t[i])
    BY <1>2, <2>1
  <2> HIDE DEF m, t
  <2>5. m # <<>>
    <3>1. Len(m) # 0
      BY <2>1, <2>3
    <3> QED BY <3>1, EmptySeq, Zenon
  <2>6. /\ Tail(m) \in Seq(Marks) /\ Len(Tail(m)) = Len(m) - 1 /\ Head(m) = m[1]
        /\ \A i \in 1 .. Len(m) - 1 : Tail(m)[i] = m[i + 1]
    <3>1. Tail(m) \in Seq(Marks) /\ Len(Tail(m)) = Len(m) - 1
      BY <2>3, <2>5, HeadTailProperties
    <3> QED BY <2>3, <2>5, <3>1, HeadTailProperties
  <2>7. \A i \in 1 .. Len(Marked(t)) : Marked(t)[i] = Tail(m)[i]
    <3> SUFFICES ASSUME NEW i \in 1 .. Len(Marked(t)) PROVE Marked(t)[i] = Tail(m)[i]
      OBVIOUS
    <3>1. i \in 1 .. Len(items) - 1 /\ i + 1 \in 1 .. Len(items) /\ i \in 1 .. Len(t) /\ i \in 1 .. Len(m) - 1
      BY <2>1, <2>3, <2>4
    <3> QED BY <2>2, <2>3, <2>4, <2>6, <3>1
  <2>8. Marked(t) = Tail(m)
    BY <2>1, <2>3, <2>4, <2>6, <2>7, SeqEqual
  <2>9. Head(m) = EchoOf(Head(items))
    <3>1. 1 \in 1 .. Len(items)
      BY <2>1
    <3> QED BY <2>2, <2>3, <2>6, <3>1
  <2> QED BY <2>5, <2>8, <2>9 DEF m, t
<1> QED BY <1>2, <1>3, <1>4

-----------------------------------------------------------------------------
(* The echoes on record, with one client.                                  *)

Shown == Items \cup {Nothing}

\* What the announcements of ours still to come are of.
Coming == Mine(announced) \o socket \o jobs

\* The echoes client c's thread has recorded at most: those of Owed, and the one
\* of what it has not posted yet.
Due(c) ==
  IF pc[c] \in {"post", "unpost"} THEN Append(Owed, EchoOf(pub[c])) ELSE Owed

\* What is ours, and what is an app's.
OursInv ==
  \A n \in DOMAIN announced :
    announced[n].item \in IF announced[n].ours THEN Publics ELSE AppItems \cup {Nothing}

OwingInv == running =>
  /\ Clients = {} => echoes = <<>>
  /\ \A c \in Clients : Suffix(echoes, Due(c))

MissingInv == running => \A c \in Clients : Short(echoes, Due(c))

EchoesInv == TypeOK /\ OursInv /\ OwingInv

\* No echo is forgotten for want of room.
RoomForEchoes == Len(echoes) < MaxEchoes

LEMMA OwedIsMarked == Owed = Marked(Coming) /\ Owed' = Marked(Coming')
BY DEF Owed, Marked, Coming

LEMMA ComingType ==
  TypeOK => /\ announced \in Announcements(Shown) /\ Mine(announced) \in Seq(Shown)
            /\ socket \in Seq(Shown) /\ jobs \in Seq(Shown) /\ Coming \in Seq(Shown)
            /\ Owed = Marked(Coming) /\ Owed \in Seq(Marks) /\ echoes \in Seq(Marks)
            /\ Len(Owed) = Len(Coming) /\ pub \in [Threads -> Publics] /\ Publics \subseteq Shown
<1> SUFFICES ASSUME TypeOK
             PROVE  /\ announced \in Announcements(Shown) /\ Mine(announced) \in Seq(Shown)
                    /\ socket \in Seq(Shown) /\ jobs \in Seq(Shown) /\ Coming \in Seq(Shown)
                    /\ Owed = Marked(Coming) /\ Owed \in Seq(Marks) /\ echoes \in Seq(Marks)
                    /\ Len(Owed) = Len(Coming) /\ pub \in [Threads -> Publics]
                    /\ Publics \subseteq Shown
  OBVIOUS
<1>1. announced \in Announcements(Shown)
  BY DEF TypeOK, Announcements, Shown
<1>2. Publics \subseteq Shown
  BY DEF Publics, Shown, Items
<1>3. socket \in Seq(Publics) /\ jobs \in Seq(Publics) /\ echoes \in Seq(Marks)
      /\ pub \in [Threads -> Publics]
  BY DEF TypeOK, Publics, Marks
<1>4. socket \in Seq(Shown) /\ jobs \in Seq(Shown)
  BY <1>2, <1>3, SeqMonotonic
<1>5. Mine(announced) \in Seq(Shown)
  BY <1>1, MineType
<1>6. Coming \in Seq(Shown)
  BY <1>4, <1>5 DEF Coming
<1>7. Owed = Marked(Coming)
  BY OwedIsMarked
<1> QED BY <1>1, <1>2, <1>3, <1>4, <1>5, <1>6, <1>7, MarkedProperties

LEMMA EchoMark == \A item : EchoOf(item) \in Marks
BY DEF EchoOf, Marks

LEMMA DueType ==
  TypeOK => \A c \in Clients : Due(c) \in Seq(Marks) /\ EchoOf(pub[c]) \in Marks
BY ComingType, EchoMark, AppendProperties DEF Due

\* What an announcement does to Owed, when it is made and when it is heard.
LEMMA Announcing ==
  ASSUME TypeOK, TypeOK', NEW item \in Shown, announced' = Announce(item, FALSE),
         UNCHANGED <<socket, jobs>>
  PROVE  Owed' = Owed
<1>1. Mine(announced') = Mine(announced)
  BY ComingType, MineAppend DEF Announce
<1> QED BY <1>1 DEF Owed

LEMMA Setting ==
  ASSUME TypeOK, TypeOK', socket # <<>>, announced' = Announce(Head(socket), TRUE),
         socket' = Tail(socket), jobs' = jobs
  PROVE  Owed' = Owed
<1> DEFINE m == Mine(announced)
           h == Head(socket)
           t == Tail(socket)
<1>1. m \in Seq(Shown) /\ socket \in Seq(Shown) /\ jobs \in Seq(Shown) /\ announced \in Announcements(Shown)
  BY ComingType
<1>2. h \in Shown /\ t \in Seq(Shown)
  BY <1>1, HeadTailProperties
<1>3. Mine(announced') = Append(m, h)
  BY <1>1, <1>2, MineAppend DEF Announce
<1>4. Append(m, h) \o t = m \o socket
  <2> HIDE DEF m, h, t
  <2>1. socket = <<h>> \o t
    BY <1>1 DEF h, t
  <2>2. Append(m, h) = m \o <<h>> /\ <<h>> \in Seq(Shown)
    BY <1>1, <1>2, AppendIsConcat
  <2>3. (m \o <<h>>) \o t = m \o (<<h>> \o t)
    BY <1>1, <1>2, <2>2, ConcatAssociative
  <2> QED BY <2>1, <2>2, <2>3
<1>5. Coming' = Coming
  BY <1>3, <1>4 DEF Coming
<1> QED BY <1>5, OwedIsMarked

LEMMA Running ==
  ASSUME TypeOK, TypeOK', UNCHANGED announced, socket' = socket \o jobs, jobs' = <<>>
  PROVE  Owed' = Owed
<1> DEFINE m == Mine(announced)
<1>1. m \in Seq(Shown) /\ socket \in Seq(Shown) /\ jobs \in Seq(Shown)
  BY ComingType
<1> HIDE DEF m
<1>2. (m \o (socket \o jobs)) \o <<>> = m \o socket \o jobs
  <2>1. (m \o socket) \o jobs = m \o (socket \o jobs)
    BY <1>1, ConcatAssociative
  <2>2. (m \o socket) \o jobs \in Seq(Shown)
    BY <1>1, ConcatProperties
  <2> QED BY <2>1, <2>2, ConcatEmptySeq
<1>3. Coming' = Coming
  BY <1>2 DEF Coming, m
<1> QED BY <1>3, OwedIsMarked

LEMMA Posting ==
  ASSUME TypeOK, TypeOK', NEW p \in Publics, UNCHANGED <<announced, socket>>, jobs' = Append(jobs, p)
  PROVE  Owed' = Append(Owed, EchoOf(p))
<1> DEFINE m == Mine(announced) \o socket
<1>1. m \in Seq(Shown) /\ jobs \in Seq(Shown) /\ p \in Shown /\ Coming = m \o jobs
  BY ComingType, ConcatProperties DEF Coming
<1>2. Coming' = Append(Coming, p)
  <2>1. Coming' = m \o Append(jobs, p)
    BY DEF Coming
  <2> HIDE DEF m
  <2> QED BY <1>1, <2>1, AppendConcat
<1>3. Marked(Append(Coming, p)) = Append(Marked(Coming), EchoOf(p))
  BY <1>1, ComingType, MarkedProperties
<1> QED BY <1>2, <1>3, OwedIsMarked

LEMMA Hearing ==
  ASSUME TypeOK, TypeOK', announced # <<>>, announced' = Tail(announced), UNCHANGED <<socket, jobs>>
  PROVE  /\ Head(announced).ours =>
              Owed # <<>> /\ Head(Owed) = EchoOf(Head(announced).item) /\ Owed' = Tail(Owed)
         /\ ~Head(announced).ours => Owed' = Owed
<1> DEFINE m == Mine(announced)
           rest == socket \o jobs
<1>1. m \in Seq(Shown) /\ rest \in Seq(Shown) /\ announced \in Announcements(Shown)
  BY ComingType, ConcatProperties
<1>2. Coming = m \o rest /\ Coming' = Mine(announced') \o rest
  <2>1. socket \in Seq(Shown) /\ jobs \in Seq(Shown) /\ Mine(announced') \in Seq(Shown)
    <3>1. announced' \in Announcements(Shown)
      BY <1>1, HeadTailProperties DEF Announcements
    <3> QED BY <3>1, ComingType, MineType
  <2>2. Coming' = Mine(announced') \o socket \o jobs
    BY DEF Coming
  <2>3. \A p \in Seq(Shown) : (p \o socket) \o jobs = p \o (socket \o jobs)
    <3>1. socket \in Seq(Shown) /\ jobs \in Seq(Shown)
      BY <2>1
    <3> QED BY <3>1, ConcatThrough
  <2> QED BY <1>1, <2>1, <2>2, <2>3 DEF Coming
<1>3. CASE Head(announced).ours
  <2>1. m # <<>> /\ Head(m) = Head(announced).item /\ Mine(announced') = Tail(m)
    BY <1>1, <1>3, MineTail
  <2> HIDE DEF m, rest
  <2>2. m \o rest # <<>> /\ Head(m \o rest) = Head(m) /\ Tail(m \o rest) = Tail(m) \o rest
    BY <1>1, <2>1
  <2>3. Coming # <<>> /\ Head(Coming) = Head(announced).item /\ Coming' = Tail(Coming)
    BY <1>2, <2>1, <2>2
  <2>4. /\ Marked(Coming) # <<>> /\ Head(Marked(Coming)) = EchoOf(Head(Coming))
        /\ Marked(Tail(Coming)) = Tail(Marked(Coming))
    BY <2>3, ComingType, MarkedProperties
  <2>5. Owed' = Marked(Tail(Coming))
    BY <2>3, OwedIsMarked
  <2> QED BY <1>3, <2>3, <2>4, <2>5, OwedIsMarked
<1>4. CASE ~Head(announced).ours
  <2>1. Mine(announced') = m
    BY <1>1, <1>4, MineTail
  <2>2. Coming' = Coming
    BY <1>2, <2>1
  <2> QED BY <1>4, <2>2, OwedIsMarked
<1> QED BY <1>3, <1>4

LEMMA HearsOurs ==
  ASSUME TypeOK, announced # <<>>, Head(announced).ours
  PROVE  Owed # <<>> /\ Head(Owed) = EchoOf(Head(announced).item)
<1> DEFINE m == Mine(announced)
           rest == socket \o jobs
<1>1. /\ m \in Seq(Shown) /\ rest \in Seq(Shown) /\ announced \in Announcements(Shown)
      /\ socket \in Seq(Shown) /\ jobs \in Seq(Shown)
  BY ComingType, ConcatProperties
<1>2. Coming = m \o rest
  BY <1>1, ConcatAssociative, SMTT(20) DEF Coming
<1>3. m # <<>> /\ Head(m) = Head(announced).item
  BY <1>1, MineTail
<1> HIDE DEF m, rest
<1>4. m \o rest # <<>> /\ Head(m \o rest) = Head(m)
  BY <1>1, <1>3
<1>5. Marked(Coming) # <<>> /\ Head(Marked(Coming)) = EchoOf(Head(Coming))
  BY <1>2, <1>4, ComingType, MarkedProperties
<1> QED BY <1>2, <1>3, <1>4, <1>5, OwedIsMarked

Kept == EchoesInv' /\ (TextItems = {} /\ RoomForEchoes /\ MissingInv => MissingInv')

LEMMA KeptWhen ==
  ASSUME EchoesInv, TypeOK', running' = running, OursInv',
         Clients = {} /\ echoes = <<>> => echoes' = <<>>,
         \A c \in Clients : running /\ Suffix(echoes, Due(c)) =>
           /\ Suffix(echoes', Due(c)')
           /\ TextItems = {} /\ RoomForEchoes /\ Short(echoes, Due(c)) => Short(echoes', Due(c)')
  PROVE  Kept
<1>1. OwingInv'
  BY DEF EchoesInv, OwingInv
<1>2. TextItems = {} /\ RoomForEchoes /\ MissingInv => MissingInv'
  BY DEF EchoesInv, OwingInv, MissingInv
<1> QED BY <1>1, <1>2 DEF Kept, EchoesInv

LEMMA KeptUnmoved ==
  ASSUME EchoesInv, TypeOK', UNCHANGED <<running, announced, echoes>>, Owed' = Owed,
         \A c \in Clients : /\ pc'[c] \in {"post", "unpost"} <=> pc[c] \in {"post", "unpost"}
                            /\ pc[c] \in {"post", "unpost"} => pub'[c] = pub[c]
  PROVE  Kept
<1>1. \A c \in Clients : Due(c)' = Due(c)
  BY DEF Due
<1>2. OursInv'
  BY DEF EchoesInv, OursInv
<1>3. \A c \in Clients : Suffix(echoes, Due(c)) => Suffix(echoes', Due(c)')
  BY <1>1
<1>4. \A c \in Clients : Short(echoes, Due(c)) => Short(echoes', Due(c)')
  BY <1>1
<1> QED BY <1>2, <1>3, <1>4, KeptWhen

\* One client's thread publishes.
LEMMA PublishesStep ==
  ASSUME OneClient, EchoesInv, TypeOK', NEW c \in Clients, Publishes(c)
  PROVE  Kept
<1>1. /\ echoes \in Seq(Marks) /\ Due(c) \in Seq(Marks) /\ Owed \in Seq(Marks)
      /\ EchoOf(pub[c]) \in Marks /\ pub[c] \in Publics /\ TypeOK
  <2>1. TypeOK /\ c \in Threads
    BY DEF EchoesInv, Threads
  <2> QED BY <2>1, ComingType, DueType
<1>2. \A d \in Clients : d = c
  BY DEF OneClient
<1>3. pc \in [Threads -> {"idle", "withdraw", "publish", "post", "unpost", "apply", "gone"}]
      /\ pub \in [Threads -> Publics] /\ c \in Threads
  BY <1>1, ComingType DEF TypeOK, Threads
<1>4. UNCHANGED <<running, announced, socket>> /\ OursInv'
  <2>1. UNCHANGED <<running, announced, socket>>
    BY DEF Publishes, Withdraw, RecordEcho, PostPublish, UnrecordEcho, outside
  <2> QED BY <2>1 DEF EchoesInv, OursInv
<1>5. ASSUME UNCHANGED jobs PROVE Owed' = Owed
  BY <1>4, <1>5 DEF Owed
<1>6. CASE Withdraw(c)
  <2>1. UNCHANGED <<jobs, echoes>> /\ pc[c] = "withdraw" /\ pc'[c] \in {"publish", "apply"}
    BY <1>3, <1>6 DEF Withdraw, lockVars
  <2> QED BY <1>1, <1>2, <1>4, <1>5, <2>1, KeptUnmoved
<1>7. CASE RecordEcho(c) /\ ~publishable
  <2>1. UNCHANGED <<jobs, echoes>> /\ pc[c] = "publish" /\ pc'[c] = "apply"
    BY <1>3, <1>7 DEF RecordEcho
  <2> QED BY <1>1, <1>2, <1>4, <1>5, <2>1, KeptUnmoved
<1>8. CASE RecordEcho(c) /\ publishable
  <2>1. /\ UNCHANGED <<jobs, pub>> /\ pc[c] = "publish" /\ pc'[c] = "post"
        /\ echoes' = Append(Capped(echoes), EchoOf(pub[c]))
    BY <1>3, <1>8 DEF RecordEcho
  <2>2. Due(c) = Owed /\ Due(c)' = Append(Owed, EchoOf(pub[c]))
    BY <1>5, <2>1 DEF Due
  <2>3. Capped(echoes) \in Seq(Marks)
    BY <1>1, EchoTypes DEF TypeOK, Marks
  <2>4. ASSUME Suffix(echoes, Owed) PROVE Suffix(Capped(echoes), Owed)
    <3>1. CASE Len(echoes) >= MaxEchoes
      <4>1. echoes # <<>> /\ Capped(echoes) = Tail(echoes)
        <5>1. Len(echoes) # 0
          BY <1>1, <3>1, ClipboardAssumption
        <5> QED BY <3>1, <5>1 DEF Capped
      <4>2. Owed # <<>>
        <5>1. Len(echoes) \in Nat \ {0} /\ Len(Owed) \in Nat /\ Len(echoes) <= Len(Owed)
          BY <1>1, <2>4, <4>1, EmptySeq, LenProperties DEF Suffix
        <5>2. Len(Owed) # 0
          BY <5>1
        <5> QED BY <5>2, EmptySeq, Zenon
      <4> QED BY <1>1, <2>4, <4>1, <4>2, SuffixTail
    <3>2. CASE ~(Len(echoes) >= MaxEchoes)
      BY <2>4, <3>2 DEF Capped
    <3> QED BY <3>1, <3>2
  <2>5. RoomForEchoes => Capped(echoes) = echoes
    <3>1. Len(echoes) \in Nat /\ MaxEchoes \in Nat
      BY <1>1, ClipboardAssumption, LenProperties
    <3> QED BY <3>1 DEF RoomForEchoes, Capped
  <2>6. ASSUME Suffix(echoes, Due(c)) PROVE Suffix(echoes', Due(c)')
    BY <1>1, <2>1, <2>2, <2>3, <2>4, <2>6, SuffixBoth
  <2>7. ASSUME Suffix(echoes, Due(c)), RoomForEchoes, Short(echoes, Due(c)) PROVE Short(echoes', Due(c)')
    BY <1>1, <2>1, <2>2, <2>5, <2>7, SuffixBoth
  <2>8. Clients # {}
    OBVIOUS
  <2>9. \A d \in Clients : Suffix(echoes, Due(d)) =>
           /\ Suffix(echoes', Due(d)')
           /\ TextItems = {} /\ RoomForEchoes /\ Short(echoes, Due(d)) => Short(echoes', Due(d)')
    BY <1>2, <2>6, <2>7
  <2> QED BY <1>4, <2>8, <2>9, KeptWhen
<1>9. CASE PostPublish(c)
  <2>1. UNCHANGED <<echoes, pub>> /\ pc[c] = "post"
    BY <1>9 DEF PostPublish, lockVars
  <2>2. CASE running /\ Len(jobs) < MaxJobs
    <3>1. jobs' = Append(jobs, pub[c]) /\ pc'[c] = "apply"
      BY <1>3, <1>9, <2>2 DEF PostPublish
    <3>2. Owed' = Append(Owed, EchoOf(pub[c]))
      BY <1>1, <1>4, <3>1, Posting
    <3>3. Due(c)' = Due(c)
      BY <2>1, <3>1, <3>2 DEF Due
    <3>4. \A d \in Clients : Suffix(echoes, Due(d)) =>
             /\ Suffix(echoes', Due(d)')
             /\ TextItems = {} /\ RoomForEchoes /\ Short(echoes, Due(d)) => Short(echoes', Due(d)')
      BY <1>2, <2>1, <3>3
    <3> QED BY <1>4, <2>1, <3>4, KeptWhen
  <2>3. CASE ~(running /\ Len(jobs) < MaxJobs)
    <3>1. UNCHANGED jobs /\ pc'[c] = "unpost"
      BY <1>3, <1>9, <2>3 DEF PostPublish
    <3> QED BY <1>1, <1>2, <1>4, <1>5, <2>1, <3>1, KeptUnmoved
  <2> QED BY <2>2, <2>3
<1>10. CASE UnrecordEcho(c)
  <2>1. /\ UNCHANGED <<jobs, pub>> /\ pc[c] = "unpost" /\ pc'[c] = "apply"
        /\ echoes' = IF echoes # <<>> /\ echoes[Len(echoes)] = EchoOf(pub[c])
                     THEN SubSeq(echoes, 1, Len(echoes) - 1) ELSE echoes
    BY <1>3, <1>10 DEF UnrecordEcho
  <2>2. Due(c)' = Owed /\ Due(c) = Append(Owed, EchoOf(pub[c]))
    BY <1>5, <2>1 DEF Due
  <2>3. ASSUME Suffix(echoes, Due(c))
        PROVE  Suffix(echoes', Due(c)') /\ (Short(echoes, Due(c)) => Short(echoes', Due(c)'))
    BY <1>1, <2>1, <2>2, <2>3, SuffixFront
  <2>4. \A d \in Clients : Suffix(echoes, Due(d)) =>
             /\ Suffix(echoes', Due(d)')
             /\ TextItems = {} /\ RoomForEchoes /\ Short(echoes, Due(d)) => Short(echoes', Due(d)')
    BY <1>2, <2>3
  <2> QED BY <1>4, <2>4, KeptWhen
<1> QED BY <1>6, <1>7, <1>8, <1>9, <1>10 DEF Publishes

\* An announcement is heard: an echo is taken for it, or none.
LEMMA HeardStep ==
  ASSUME EchoesInv, TypeOK', WaylandAnnounced
  PROVE  Kept
<1> DEFINE h == Head(announced)
<1>1. /\ TypeOK /\ running /\ announced # <<>> /\ announced' = Tail(announced)
      /\ UNCHANGED <<running, jobs, socket, pub>>
      /\ announced \in Announcements(Shown) /\ echoes \in Seq(Marks)
  BY ComingType DEF EchoesInv, WaylandAnnounced
<1>2. \A c \in Clients : pc'[c] = pc[c]
  <2>1. pc' = pc \/ pc' = [pc EXCEPT ![Wayland] = "apply"]
    BY DEF WaylandAnnounced, AbsorbEcho, WaylandTakes
  <2>2. pc \in [Threads -> {"idle", "withdraw", "publish", "post", "unpost", "apply", "gone"}]
    BY <1>1 DEF TypeOK
  <2> QED BY <2>1, <2>2, ClipboardAssumption DEF Threads
<1>3. /\ h \in [item : Shown, ours : BOOLEAN]
      /\ h.item \in IF h.ours THEN Publics ELSE AppItems \cup {Nothing}
  <2> DEFINE R == [item : Shown, ours : BOOLEAN]
  <2>1. announced \in Seq(R)
    BY <1>1 DEF Announcements
  <2> HIDE DEF R
  <2>2. h \in R /\ h = announced[1] /\ 1 \in DOMAIN announced
    <3>1. h \in R /\ Len(announced) \in Nat \ {0}
      BY <1>1, <2>1, HeadTailProperties, EmptySeq
    <3>2. h = announced[1] /\ DOMAIN announced = 1 .. Len(announced)
      BY <2>1
    <3> QED BY <3>1, <3>2
  <2> QED BY <2>2 DEF R, EchoesInv, OursInv
<1>4. OursInv'
  <2> DEFINE R == [item : Shown, ours : BOOLEAN]
  <2>1. announced \in Seq(R)
    BY <1>1 DEF Announcements
  <2> HIDE DEF R
  <2>2. announced' \in Seq(R) /\ Len(announced') = Len(announced) - 1
        /\ \A n \in 1 .. Len(announced') : announced'[n] = announced[n + 1]
    BY <1>1, <2>1, HeadTailProperties
  <2>3. DOMAIN announced = 1 .. Len(announced) /\ DOMAIN announced' = 1 .. Len(announced')
        /\ Len(announced) \in Nat
    BY <2>1, <2>2
  <2>4. ASSUME NEW n \in DOMAIN announced'
        PROVE  n + 1 \in DOMAIN announced /\ announced'[n] = announced[n + 1]
    BY <2>2, <2>3
  <2> QED BY <2>4 DEF EchoesInv, OursInv
<1>5. echoes' = IF LooksLikeEcho(h.item) THEN Tail(echoes) ELSE echoes
  BY DEF WaylandAnnounced, AbsorbEcho, WaylandTakes, Absorbed
<1>6. LooksLikeEcho(h.item) => echoes # <<>>
  BY DEF LooksLikeEcho
<1>7. ASSUME TextItems = {}, LooksLikeEcho(h.item), ~h.ours PROVE Head(echoes) = "Withdrawn"
  <2>1. h.item \notin Acquisitions
    BY <1>3, <1>7, ClipboardAssumption DEF Acquisitions
  <2> QED BY <1>7, <2>1 DEF LooksLikeEcho
<1>8. ASSUME LooksLikeEcho(h.item), h.item = Nothing PROVE Head(echoes) = "Withdrawn"
  <2>1. TextItems \cup Acquisitions \subseteq Items /\ Nothing \notin Items
    BY ClipboardAssumption DEF Items, Acquisitions
  <2> QED BY <1>8, <2>1 DEF LooksLikeEcho
<1>9. ASSUME h.ours, echoes # <<>>, Head(echoes) = EchoOf(h.item) PROVE LooksLikeEcho(h.item)
  <2>1. h.item \in Acquisitions \/ h.item = Nothing
    BY <1>3, <1>9 DEF Publics
  <2> QED BY <1>9, <2>1 DEF LooksLikeEcho, EchoOf
<1>10. ASSUME NEW c \in Clients
       PROVE  /\ h.ours => /\ Due(c) # <<>> /\ Head(Due(c)) = EchoOf(h.item)
                           /\ Due(c)' = Tail(Due(c))
              /\ ~h.ours => Due(c)' = Due(c)
  <2>1. /\ h.ours => Owed # <<>> /\ Head(Owed) = EchoOf(h.item) /\ Owed' = Tail(Owed)
        /\ ~h.ours => Owed' = Owed
    BY <1>1, Hearing
  <2>2. Owed \in Seq(Marks) /\ EchoOf(pub[c]) \in Marks
    BY <1>1, ComingType, EchoMark
  <2>3. ASSUME Owed # <<>>
        PROVE  LET s == Append(Owed, EchoOf(pub[c]))
               IN  s # <<>> /\ Head(s) = Head(Owed) /\ Tail(s) = Append(Tail(Owed), EchoOf(pub[c]))
    BY <2>2, <2>3, HeadTailAppend, AppendProperties
  <2>4. Due(c)' = IF pc[c] \in {"post", "unpost"} THEN Append(Owed', EchoOf(pub[c])) ELSE Owed'
    BY <1>1, <1>2 DEF Due
  <2> QED BY <2>1, <2>3, <2>4 DEF Due
<1>11. ASSUME NEW c \in Clients, Suffix(echoes, Due(c))
       PROVE  /\ Suffix(echoes', Due(c)')
              /\ TextItems = {} /\ Short(echoes, Due(c)) => Short(echoes', Due(c)')
  <2>1. Due(c) \in Seq(Marks) /\ Len(Due(c)) \in Nat /\ Len(echoes) \in Nat
    BY <1>1, DueType, LenProperties
  <2>2. ASSUME echoes # <<>> PROVE Due(c) # <<>>
    <3>1. Len(echoes) # 0 /\ Len(echoes) <= Len(Due(c))
      BY <1>1, <1>11, <2>2, EmptySeq DEF Suffix
    <3>2. Len(Due(c)) # 0
      BY <2>1, <3>1
    <3> QED BY <3>2, EmptySeq, Zenon
  <2>3. CASE h.ours /\ LooksLikeEcho(h.item)
    <3>1. Due(c)' = Tail(Due(c)) /\ echoes' = Tail(echoes) /\ echoes # <<>> /\ Due(c) # <<>>
          /\ Head(Due(c)) = EchoOf(h.item)
      BY <1>5, <1>6, <1>10, <2>3
    <3>2. Suffix(Tail(echoes), Tail(Due(c)))
      BY <1>1, <1>11, <2>1, <3>1, SuffixTail
    <3>3. ASSUME Short(echoes, Due(c)) PROVE Short(Tail(echoes), Tail(Due(c)))
      <4>1. CASE Len(echoes) = Len(Due(c))
        BY <1>1, <1>11, <2>1, <3>1, <3>3, <4>1, SuffixTail
      <4>2. CASE Len(echoes) # Len(Due(c))
        <5>1. Head(Due(c)) = "Withdrawn"
          BY <1>1, <1>11, <2>1, <3>1, <3>3, <4>2, SuffixTail
        <5>2. h.item = Nothing
          BY <3>1, <5>1 DEF EchoOf
        <5>3. Head(echoes) = "Withdrawn"
          BY <1>8, <2>3, <5>2
        <5> QED BY <1>1, <1>11, <2>1, <3>1, <3>3, <5>3, SuffixTail
      <4> QED BY <4>1, <4>2
    <3> QED BY <3>1, <3>2, <3>3
  <2>4. CASE h.ours /\ ~LooksLikeEcho(h.item)
    <3>1. Due(c)' = Tail(Due(c)) /\ echoes' = echoes /\ Due(c) # <<>>
          /\ Head(Due(c)) = EchoOf(h.item)
      BY <1>5, <1>10, <2>4
    <3>2. Len(echoes) # Len(Due(c))
      <4> SUFFICES ASSUME Len(echoes) = Len(Due(c)) PROVE FALSE
        OBVIOUS
      <4>1. echoes # <<>>
        <5>1. Len(Due(c)) # 0
          BY <2>1, <3>1, EmptySeq
        <5> QED BY <5>1, EmptySeq, Zenon
      <4>2. Head(echoes) = Head(Due(c))
        BY <1>1, <1>11, <2>1, <3>1, <4>1, SuffixTail
      <4> QED BY <1>9, <2>4, <3>1, <4>1, <4>2
    <3> QED BY <1>1, <1>11, <2>1, <3>1, <3>2, SuffixTail
  <2>5. CASE ~h.ours /\ LooksLikeEcho(h.item)
    <3>1. Due(c)' = Due(c) /\ echoes' = Tail(echoes) /\ echoes # <<>> /\ Due(c) # <<>>
      BY <1>5, <1>6, <1>10, <2>2, <2>5
    <3>2. TextItems = {} => Head(echoes) = "Withdrawn"
      BY <1>7, <2>5
    <3> QED BY <1>1, <1>11, <2>1, <3>1, <3>2, SuffixTail
  <2>6. CASE ~h.ours /\ ~LooksLikeEcho(h.item)
    <3>1. Due(c)' = Due(c) /\ echoes' = echoes
      BY <1>5, <1>10, <2>6
    <3> QED BY <1>11, <3>1
  <2> QED BY <2>3, <2>4, <2>5, <2>6
<1>12. Clients = {} /\ echoes = <<>> => echoes' = <<>>
  BY <1>5, <1>6
<1> QED BY <1>1, <1>4, <1>11, <1>12, KeptWhen

LEMMA EchoesStep ==
  ASSUME OneClient, EchoesInv, [Next]_vars
  PROVE  Kept
<1>1. TypeOK /\ TypeOK'
  BY TypeStep DEF EchoesInv
<1>2. pc \in [Threads -> {"idle", "withdraw", "publish", "post", "unpost", "apply", "gone"}]
      /\ pub \in [Threads -> Publics] /\ Clients \subseteq Threads /\ Wayland \notin Clients
  BY <1>1, ComingType, ClipboardAssumption DEF TypeOK, Threads
<1>3. ASSUME UNCHANGED <<announced, socket, jobs>> PROVE Owed' = Owed
  BY <1>3 DEF Owed
<1>4. CASE \E c \in Clients : Asks(c) \/ FetchResolves(c) \/ Goes(c)
  <2>1. PICK c \in Clients : Asks(c) \/ FetchResolves(c) \/ Goes(c)
    BY <1>4
  <2>2. /\ UNCHANGED <<running, announced, socket, jobs, echoes>> /\ pc[c] = "idle"
        /\ \A d \in Clients : d # c => pc'[d] = pc[d] /\ pub'[d] = pub[d]
        /\ pc'[c] \notin {"post", "unpost"}
    <3>1. CASE Asks(c)
      <4>1. PICK t \in 1 .. clock : XTook(c, t) \/ XReleased(c, t)
        BY <3>1 DEF Asks
      <4> QED BY <1>2, <4>1 DEF XTook, XReleased, MayAsk, outside
    <3>2. CASE FetchResolves(c)
      <4>1. PICK t \in fetches[c] : XFetched(c, t) \/ XFetchFailed(c, t)
        BY <3>2 DEF FetchResolves
      <4> QED BY <1>2, <4>1 DEF XFetched, XFetchFailed, outside, threadVars, lockVars
    <3>3. CASE Goes(c)
      <4>1. PICK leaving \in BOOLEAN : XOwnerGone(c, leaving)
        BY <3>3 DEF Goes
      <4> QED BY <1>2, <4>1 DEF XOwnerGone, outside
    <3> QED BY <2>1, <3>1, <3>2, <3>3
  <2>3. \A d \in Clients : /\ pc'[d] \in {"post", "unpost"} <=> pc[d] \in {"post", "unpost"}
                           /\ pc[d] \in {"post", "unpost"} => pub'[d] = pub[d]
    BY <2>2
  <2>4. Owed' = Owed
    BY <1>3, <2>2
  <2> QED BY <1>1, <2>2, <2>3, <2>4, KeptUnmoved
<1>5. CASE \E c \in Clients : Publishes(c)
  BY <1>1, <1>5, PublishesStep
<1>6. CASE \E t \in Threads : Proceeds(t)
  <2>1. PICK t \in Threads : SendClear(t) \/ Notify(t) \/ Applied(t)
    BY <1>6 DEF Proceeds
  <2>2. /\ UNCHANGED <<running, announced, socket, jobs, echoes, pub>> /\ pc[t] = "apply"
        /\ pc' = pc \/ \E at \in {"idle", "gone"} : pc' = [pc EXCEPT ![t] = at]
    BY <2>1 DEF SendClear, Notify, Applied, outside, lockVars
  <2>3. \A d \in Clients : pc'[d] \in {"post", "unpost"} <=> pc[d] \in {"post", "unpost"}
    BY <1>2, <2>2
  <2>4. Owed' = Owed
    BY <1>3, <2>2
  <2> QED BY <1>1, <2>2, <2>3, <2>4, KeptUnmoved
<1>7. CASE WaylandAnnounced
  BY <1>1, <1>7, HeardStep
<1>8. CASE RunJobs
  <2>1. UNCHANGED <<running, announced, echoes, pc, pub>> /\ socket' = socket \o jobs /\ jobs' = <<>>
    BY <1>8 DEF RunJobs, lockVars, threadVars
  <2>2. Owed' = Owed
    BY <1>1, <2>1, Running
  <2> QED BY <1>1, <2>1, <2>2, KeptUnmoved
<1>9. CASE WaylandLost
  <2>1. ~running' /\ announced' = <<>> /\ DOMAIN announced' = {}
    BY <1>9 DEF WaylandLost
  <2> QED BY <1>1, <2>1 DEF Kept, EchoesInv, OursInv, OwingInv, MissingInv
<1>10. ASSUME NEW item \in Shown, NEW ours \in BOOLEAN, announced' = Announce(item, ours),
              item \in IF ours THEN Publics ELSE AppItems \cup {Nothing}
       PROVE  OursInv'
  <2> DEFINE e == [item |-> item, ours |-> ours]
             R == [item : Shown, ours : BOOLEAN]
  <2>1. e \in R /\ e.item = item /\ e.ours = ours
    OBVIOUS
  <2>2. announced \in Seq(R)
    BY <1>1, ComingType DEF Announcements
  <2> HIDE DEF e, R
  <2>3. announced' = Append(announced, e)
    BY <1>10 DEF Announce, e
  <2>4. /\ DOMAIN announced' = 1 .. Len(announced) + 1 /\ DOMAIN announced = 1 .. Len(announced)
        /\ Len(announced) \in Nat
        /\ announced'[Len(announced) + 1] = e
        /\ \A n \in 1 .. Len(announced) : announced'[n] = announced[n]
    BY <2>1, <2>2, <2>3
  <2>5. \A n \in DOMAIN announced' :
           announced'[n] = e \/ (n \in DOMAIN announced /\ announced'[n] = announced[n])
    BY <2>4
  <2> QED BY <1>10, <2>1, <2>5 DEF EchoesInv, OursInv
<1>11. ASSUME UNCHANGED <<running, echoes, pc, pub>>, Owed' = Owed, OursInv' PROVE Kept
  <2>1. \A c \in Clients : Due(c)' = Due(c)
    BY <1>11 DEF Due
  <2> QED BY <1>1, <1>11, <2>1, KeptWhen
<1>12. CASE CompositorSets
  <2>1. /\ UNCHANGED <<running, echoes, pc, pub, jobs>> /\ socket # <<>>
        /\ announced' = Announce(Head(socket), TRUE) /\ socket' = Tail(socket)
    BY <1>12 DEF CompositorSets, lockVars, threadVars
  <2>2. Owed' = Owed
    BY <1>1, <2>1, Setting
  <2>3. Head(socket) \in Publics /\ Head(socket) \in Shown
    <3>1. socket \in Seq(Publics) /\ Publics \subseteq Shown
      BY <1>1, ComingType DEF TypeOK, Publics
    <3> QED BY <2>1, <3>1, HeadTailProperties
  <2> QED BY <1>10, <1>11, <2>1, <2>2, <2>3
<1>13. CASE (\E a \in AppItems : AppCopies(a)) \/ AppClears
  <2>1. PICK item \in AppItems \cup {Nothing} :
          /\ UNCHANGED <<running, echoes, pc, pub, jobs, socket>>
          /\ announced' = Announce(item, FALSE)
    BY <1>13 DEF AppCopies, AppClears, lockVars, threadVars
  <2>2. item \in Shown
    BY DEF Shown, Items
  <2>3. Owed' = Owed
    BY <1>1, <2>1, <2>2, Announcing
  <2> QED BY <1>10, <1>11, <2>1, <2>2, <2>3
<1>14. CASE Tick \/ UNCHANGED vars
  <2>1. UNCHANGED <<running, echoes, pc, pub, announced, socket, jobs>>
    BY <1>14 DEF Tick, vars, lockVars, threadVars, outside
  <2>2. Owed' = Owed
    BY <1>3, <2>1
  <2> QED BY <1>1, <2>1, <2>2, KeptUnmoved
<1> QED BY <1>4, <1>5, <1>6, <1>7, <1>8, <1>9, <1>12, <1>13, <1>14 DEF Next

LEMMA NoneOwed == Init => EchoesInv /\ MissingInv
<1> SUFFICES ASSUME Init PROVE EchoesInv /\ MissingInv
  OBVIOUS
<1>1. TypeOK
  BY InitTypes
<1>2. announced = <<>> /\ socket = <<>> /\ jobs = <<>> /\ echoes = <<>> /\ pc = [t \in Threads |-> "idle"]
  BY DEF Init
<1>3. OursInv
  BY <1>2 DEF OursInv
<1>4. Len(echoes) = 0 /\ Owed = <<>> /\ Len(Owed) = 0
  <2>1. Coming = <<>>
    <3>1. Coming = (<<>> \o <<>>) \o <<>>
      BY <1>2, MineEmpty DEF Coming
    <3> QED BY <3>1
  <2>2. Len(Coming) = 0 /\ Len(echoes) = 0
    BY <1>2, <2>1, EmptySeq, Zenon
  <2>3. Len(Owed) = 0 /\ Owed \in Seq(Marks)
    BY <1>1, <2>2, ComingType
  <2> QED BY <2>2, <2>3, EmptySeq
<1>5. \A c \in Clients : Due(c) = Owed
  BY <1>2 DEF Due, Threads
<1>6. Suffix(echoes, Owed) /\ Short(echoes, Owed)
  BY <1>4 DEF Suffix, Short
<1>7. OwingInv /\ MissingInv
  BY <1>2, <1>5, <1>6 DEF OwingInv, MissingInv
<1> QED BY <1>1, <1>3, <1>7 DEF EchoesInv

\* With one X client, every echo on record is for an announcement of ours that
\* is still to come, in the order recorded: whatever is refused, forgotten or
\* taken for another, take_echo keeps none that could stand for an app's later
\* copy (EchoesOwed).
THEOREM EchoesAlwaysOwed == ASSUME OneClient PROVE Spec => []EchoesOwed
<1>1. EchoesInv => EchoesOwed
  <2> SUFFICES ASSUME EchoesInv, running
               PROVE  LET last(s) == \A i \in DOMAIN echoes :
                               Len(echoes) <= Len(s) /\ echoes[i] = s[i + Len(s) - Len(echoes)]
                      IN  \/ last(Owed)
                          \/ \E c \in Recording : last(Append(Owed, EchoOf(pub[c])))
    BY DEF EchoesOwed
  <2>1. echoes \in Seq(Marks) /\ DOMAIN echoes = 1 .. Len(echoes)
    <3>1. echoes \in Seq(Marks)
      BY ComingType DEF EchoesInv
    <3> QED BY <3>1
  <2>2. CASE Clients = {}
    <3>1. echoes = <<>> /\ DOMAIN echoes = {}
      BY <2>2 DEF EchoesInv, OwingInv
    <3> QED BY <3>1
  <2>3. ASSUME NEW c \in Clients
        PROVE  LET last(s) == \A i \in DOMAIN echoes :
                               Len(echoes) <= Len(s) /\ echoes[i] = s[i + Len(s) - Len(echoes)]
               IN  \/ last(Owed)
                   \/ \E d \in Recording : last(Append(Owed, EchoOf(pub[d])))
    <3>1. Suffix(echoes, Due(c))
      BY DEF EchoesInv, OwingInv
    <3>2. CASE pc[c] \in {"post", "unpost"}
      <4>1. c \in Recording
        BY <3>2 DEF Recording
      <4>2. Suffix(echoes, Append(Owed, EchoOf(pub[c])))
        BY <3>1, <3>2 DEF Due
      <4> QED BY <2>1, <4>1, <4>2 DEF Suffix
    <3>3. CASE ~(pc[c] \in {"post", "unpost"})
      <4>1. Suffix(echoes, Owed)
        BY <3>1, <3>3 DEF Due
      <4> QED BY <2>1, <4>1 DEF Suffix
    <3> QED BY <3>2, <3>3
  <2> QED BY <2>2, <2>3
<1>2. EchoesInv /\ [Next]_vars => EchoesInv'
  BY EchoesStep DEF Kept
<1> QED BY <1>1, <1>2, NoneOwed, PTL DEF Spec

\* The client the owner is.
LEMMA OwnersAcquisition ==
  TypeOK /\ IsX => owner.client \in Clients /\ OwnerAcq \in Acquisitions
BY OwnerShapes, ClearType DEF TypeOK, IsX

\* With one X client, and no Wayland app that advertises just what we do, as long
\* as no echo is forgotten for want of room, what is announced of the value that
\* was published for the owner never takes the selection from it: however many
\* publications, withdrawals and copies cross (wayland_announced, take_echo).
THEOREM EchoNeverTakesOver ==
  ASSUME OneClient, TextItems = {}
  PROVE  Spec /\ []RoomForEchoes => EchoIsNoTakeover
<1>1. EchoesInv /\ MissingInv /\ RoomForEchoes /\ [Next]_vars => EchoesInv' /\ MissingInv'
  BY EchoesStep DEF Kept
<1>2. EchoesInv /\ MissingInv /\ [Next]_vars
        => [(WaylandAnnounced /\ IsX /\ Head(announced) = [item |-> OwnerAcq, ours |-> TRUE])
               => owner' = owner]_vars
  <2> SUFFICES ASSUME EchoesInv, MissingInv, WaylandAnnounced, IsX,
                      Head(announced) = [item |-> OwnerAcq, ours |-> TRUE]
               PROVE  owner' = owner
    OBVIOUS
  <2>1. TypeOK /\ running /\ announced # <<>>
    BY DEF EchoesInv, WaylandAnnounced
  <2>2. PICK c \in Clients : c = owner.client
    BY <2>1, OwnersAcquisition
  <2>3. OwnerAcq \in Acquisitions /\ OwnerAcq # Nothing
    BY <2>1, OwnersAcquisition, ClipboardAssumption DEF Acquisitions
  <2>4. Head(announced).ours /\ Head(announced).item = OwnerAcq /\ EchoOf(OwnerAcq) = "Source"
    BY <2>3 DEF EchoOf
  <2>5. Suffix(echoes, Due(c)) /\ Short(echoes, Due(c))
    BY <2>1 DEF EchoesInv, OwingInv, MissingInv
  <2>6. Due(c) # <<>> /\ Head(Due(c)) = "Source"
    <3>1. Owed # <<>> /\ Head(Owed) = "Source"
      BY <2>1, <2>4, HearsOurs
    <3>2. Owed \in Seq(Marks) /\ EchoOf(pub[c]) \in Marks
      BY <2>1, ComingType, EchoMark
    <3> QED BY <3>1, <3>2, HeadTailAppend, AppendProperties DEF Due
  <2>7. echoes \in Seq(Marks) /\ Due(c) \in Seq(Marks)
    BY <2>1, ComingType, DueType
  <2>8. Len(echoes) = Len(Due(c))
    BY <2>5, <2>6, <2>7, SuffixTail
  <2>9. echoes # <<>> /\ Head(echoes) = "Source"
    <3>1. echoes # <<>>
      <4>1. Len(Due(c)) # 0
        BY <2>6, <2>7, EmptySeq
      <4> QED BY <2>8, <4>1, EmptySeq, Zenon
    <3> QED BY <2>5, <2>6, <2>7, <2>8, <3>1, SuffixTail
  <2>10. Absorbed(OwnerAcq)
    BY <2>3, <2>9 DEF Absorbed, LooksLikeEcho
  <2> QED BY <2>4, <2>10 DEF WaylandAnnounced, AbsorbEcho, WaylandTakes
<1> QED BY <1>1, <1>2, NoneOwed, PTL DEF Spec, EchoIsNoTakeover

=============================================================================

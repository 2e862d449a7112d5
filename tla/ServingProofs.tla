--------------------------- MODULE ServingProofs ---------------------------
(***************************************************************************)
(* What is proved of serving a conversion, for any targets, mime types,    *)
(* conversions and limits.                                                 *)
(*                                                                         *)
(* The targets table first: what resolve returns and advertised lists.     *)
(* Then the invariant behind what a client is answered.  Its heart is that *)
(* items are numbered as they are copied: each stands, of what either side *)
(* is told, either still to come, current, or past (SelectionsInv), so     *)
(* that a generation a conversion noted is never another selection's, and  *)
(* what it saw at that generation stays true of it (LooksInv).             *)
(***************************************************************************)
EXTENDS Serving, FiniteSetTheorems, SequenceTheorems, WellFoundedInduction, TLAPS

-----------------------------------------------------------------------------
(* The targets table.                                                      *)

\* The order of the natural numbers, as a relation, is well founded.
LEMMA NatOrder ==
  \E R : IsWellFoundedOn(R, Nat) /\ \A x, y \in Nat : <<y, x>> \in R <=> y < x
<1>1. IsWellFoundedOn({p \in Nat \X Nat : p[1] < p[2]}, Nat)
  BY NatLessThanWellFounded DEF OpToRel
<1>2. \A x, y \in Nat : <<y, x>> \in {p \in Nat \X Nat : p[1] < p[2]} <=> y < x
  OBVIOUS
<1> QED BY <1>1, <1>2, Zenon

\* A set of natural numbers has a least one, which is its Min.
LEMMA Least ==
  ASSUME NEW S \in SUBSET Nat, S # {}
  PROVE  Min(S) \in S
<1>1. PICK R : IsWellFoundedOn(R, Nat) /\ \A x, y \in Nat : <<y, x>> \in R <=> y < x
  BY NatOrder
<1>2. PICK x \in S : \A y \in S : ~(<<y, x>> \in R)
  BY <1>1, WFMin
<1>3. ASSUME NEW y \in S PROVE x =< y
  <2>1. x \in Nat /\ y \in Nat
    OBVIOUS
  <2>2. ~(y < x)
    BY <1>1, <1>2, <2>1, Zenon
  <2> QED BY <2>1, <2>2
<1> QED BY <1>3 DEF Min

\* FirstOf finds one that is in both, if anything.
LEMMA FirstOfIsOne ==
  ASSUME NEW mimes, DOMAIN mimes \subseteq Nat, NEW names,
         FirstOf(mimes, names) # NoMime
  PROVE  FirstOf(mimes, names) \in ToSet(mimes) \cap names
<1> DEFINE at == {n \in DOMAIN mimes : mimes[n] \in names}
<1>1. at \in SUBSET Nat /\ at # {}
  BY DEF FirstOf
<1>2. Min(at) \in at
  BY <1>1, Least
<1>3. FirstOf(mimes, names) = mimes[Min(at)]
  BY <1>1 DEF FirstOf
<1> QED BY <1>2, <1>3 DEF ToSet

\* What a target is resolved to is always one of the mime types the owner has
\* (targets.rs, resolve): what is asked of an app is something it offered.
THEOREM ResolveFits ==
  ASSUME NEW S, NEW mimes \in Seq(S), NEW target, resolve(target, mimes) # NoMime
  PROVE  resolve(target, mimes) \in ToSet(mimes)
<1>1. TextMime(mimes) # NoMime => TextMime(mimes) \in ToSet(mimes)
  <2>1. DOMAIN Utf8Mimes \subseteq Nat /\ DOMAIN mimes \subseteq Nat
    BY DEF Utf8Mimes
  <2>2. CASE FirstOf(Utf8Mimes, ToSet(mimes)) # NoMime
    BY <2>1, <2>2, FirstOfIsOne DEF TextMime
  <2>3. CASE FirstOf(Utf8Mimes, ToSet(mimes)) = NoMime
    BY <2>1, <2>3, FirstOfIsOne DEF TextMime
  <2> QED BY <2>2, <2>3
<1>2. TextTargets \cap WithSlash = {}
  BY DEF TextTargets, WithSlash, OtherText
<1>3. CASE target \in TextTargets
  BY <1>1, <1>2, <1>3 DEF resolve
<1>4. CASE target \notin TextTargets
  BY <1>4 DEF resolve
<1> QED BY <1>3, <1>4

\* TARGETS lists exactly the targets a conversion accepts (targets.rs,
\* advertised, whose comment says so): whatever an owner's mime types, no client
\* is offered a target that is then refused for want of one, and none that would
\* be served is left out.
THEOREM ListedIsResolved ==
  ASSUME NEW S, NEW mimes \in Seq(S), NEW target
  PROVE  target \in advertised(mimes) <=> resolve(target, mimes) # NoMime
<1>1. TextTargets \cap WithSlash = {} /\ NoMime \notin WithSlash
  BY DEF TextTargets, WithSlash, OtherText, NoMime
<1>2. CASE target \in TextTargets
  BY <1>1, <1>2 DEF advertised
<1>3. CASE target \notin TextTargets
  BY <1>1, <1>3 DEF advertised, resolve
<1> QED BY <1>2, <1>3

-----------------------------------------------------------------------------
(* The invariant.                                                          *)

\* What conversions are named by: strings, among them our own (which the provers
\* are not aware of).
Names == STRING \cup ToSet(TextMimes) \cup {NoMime}

Mimes == Seq(Names)

OwnerType ==
  [kind : {"none"}]
    \cup [kind : {"wayland"}, item : Nat \ {0}]
    \cup [kind : {"x"}, item : Nat \ {0}, value : {"asked", "here", "refused"}]

JobType == [kind : {"publish"}, item : Nat] \cup [kind : {"receive"}, conv : Convs]

Steps == {"unasked", "listed", "resolved", "posted", "receiving",
          "refused", "served", "delivered"}

ConvType ==
  [step : Steps, target : Names, listed : Nat \cup {NotListed}, mime : Names,
   gen : Nat, offer : Nat]

PipeType == [sent : Nat, dropped : BOOLEAN, ended : BOOLEAN]

TypeInv ==
  /\ items \in Seq([mimes : Mimes, size : Nat])
  /\ owner \in OwnerType
  /\ gen \in Nat
  /\ echoes \in Seq({"Source", "Withdrawn"})
  /\ shown \in BOOLEAN
  /\ comp \in Nat
  /\ wire \in Seq(Nat)
  /\ jobs \in Seq(JobType)
  /\ socket \in Seq(JobType)
  /\ conv \in [Convs -> ConvType]
  /\ pipe \in [Convs -> PipeType]

Queued(j) == j \in ToSet(jobs) \/ j \in ToSet(socket)

\* Every item that something is said of has been copied.
Copied ==
  /\ owner.kind # "none" => owner.item =< Len(items)
  /\ owner.kind = "x" => items[owner.item].mimes = TextMimes
  /\ \A i \in ToSet(wire) : i =< Len(items)
  /\ \A i \in Nat : Queued(Publication(i)) => i =< Len(items)
  /\ \A c \in Convs : conv[c].step = "receiving" => conv[c].offer \in DOMAIN items

\* Nothing is in a queue twice but our withdrawals.
Once(q) == \A m, n \in DOMAIN q : q[m] = q[n] /\ q[m] # Publication(0) => m = n

\* A conversion is in a queue as its step says, and its pipe is new until the
\* request for it has reached the compositor.
QueuesInv ==
  /\ Once(jobs) /\ Once(socket)
  /\ \A i \in Nat \ {0} : Publication(i) \in ToSet(jobs) => Publication(i) \notin ToSet(socket)
  /\ \A c \in Convs :
       /\ Reception(c) \in ToSet(jobs) => conv[c].step = "posted"
       /\ Reception(c) \in ToSet(socket) => conv[c].step \in {"receiving", "refused"}
       /\ Reception(c) \in ToSet(socket) /\ conv[c].step = "receiving" => pipe[c] = FreshPipe
       /\ conv[c].step \in {"unasked", "listed", "resolved", "posted"} => pipe[c] = FreshPipe

\* What is still to be the compositor's selection, and what has been.
Asked(i) == owner.kind = "x" /\ owner.value = "asked" /\ owner.item = i
Coming(i) == Asked(i) \/ Queued(Publication(i))
Past(i) ==
  \/ i \in ToSet(wire)
  \/ owner = WaylandOwner(i)
  \/ \E c \in Convs : conv[c].step = "receiving" /\ conv[c].offer = i

\* No selection comes back, and what was announced last is the compositor's.
SelectionsInv ==
  /\ \A i \in Nat \ {0} : Past(i) => ~Coming(i)
  /\ \A i \in Nat \ {0} : Asked(i) => ~Queued(Publication(i))
  /\ wire # <<>> => wire[Len(wire)] = comp
  /\ wire = <<>> /\ owner.kind = "wayland" => owner.item = comp

\* What is in a pipe is of the item asked for, and a dropped one stays empty.
PipesInv ==
  \A c \in Convs : conv[c].step = "receiving" =>
    /\ pipe[c].dropped => comp # conv[c].offer /\ pipe[c].ended /\ pipe[c].sent = 0
    /\ ~pipe[c].dropped => pipe[c].sent =< items[conv[c].offer].size
    /\ ~pipe[c].dropped /\ pipe[c].ended => pipe[c].sent = items[conv[c].offer].size

\* What a conversion found at the generation it noted holds while that is the
\* selection's.
Holds(c) ==
  /\ conv[c].listed =< gen
  /\ conv[c].gen =< gen
  /\ conv[c].step = "unasked" => conv[c].listed = NotListed
  /\ conv[c].step = "listed" /\ conv[c].listed = gen => conv[c].target \in advertised(convertible)
  /\ conv[c].step \in {"resolved", "posted", "receiving"} => conv[c].listed =< conv[c].gen
  /\ conv[c].step \in {"resolved", "posted"} /\ conv[c].gen = gen =>
       /\ owner.kind # "none" /\ Has(owner.item, conv[c].mime)
       /\ owner.kind = "x" => owner.value = "here"
  /\ conv[c].step = "posted" /\ conv[c].gen = gen => owner.kind = "wayland"
  /\ conv[c].step = "receiving" => Has(conv[c].offer, conv[c].mime)
  /\ conv[c].step = "receiving" /\ conv[c].gen = gen => owner = WaylandOwner(conv[c].offer)

LooksInv == \A c \in Convs : Holds(c)

Inv ==
  /\ TypeInv /\ Copied /\ QueuesInv /\ SelectionsInv /\ PipesInv /\ LooksInv
  /\ IsFiniteSet(Receiving)

-----------------------------------------------------------------------------
(* Queues, one element more or less.                                       *)

LEMMA AppendSet ==
  ASSUME NEW S, NEW q \in Seq(S), NEW e \in S
  PROVE  /\ Append(q, e) \in Seq(S) /\ Append(q, e) # <<>>
         /\ Append(q, e)[Len(Append(q, e))] = e
         /\ ToSet(Append(q, e)) = ToSet(q) \cup {e}
<1>1. /\ Append(q, e) \in Seq(S) /\ Len(Append(q, e)) = Len(q) + 1
      /\ \A n \in 1 .. Len(q) : Append(q, e)[n] = q[n]
      /\ Append(q, e)[Len(q) + 1] = e
  OBVIOUS
<1>2. Append(q, e) # <<>> /\ DOMAIN Append(q, e) = 1 .. Len(q) + 1 /\ DOMAIN q = 1 .. Len(q)
  BY <1>1
<1>3. ASSUME NEW x PROVE x \in ToSet(Append(q, e)) <=> x \in ToSet(q) \cup {e}
  BY <1>1, <1>2 DEF ToSet
<1> QED BY <1>1, <1>2, <1>3, Zenon

LEMMA TailSet ==
  ASSUME NEW S, NEW q \in Seq(S), q # <<>>
  PROVE  /\ Head(q) \in S /\ Tail(q) \in Seq(S)
         /\ ToSet(q) = {Head(q)} \cup ToSet(Tail(q))
         /\ Tail(q) # <<>> => Tail(q)[Len(Tail(q))] = q[Len(q)]
         /\ Tail(q) = <<>> => Head(q) = q[Len(q)]
<1>1. /\ Head(q) \in S /\ Tail(q) \in Seq(S) /\ Len(q) \in Nat \ {0}
      /\ Head(q) = q[1] /\ Len(Tail(q)) = Len(q) - 1
      /\ \A n \in 1 .. Len(q) - 1 : Tail(q)[n] = q[n + 1]
  BY HeadTailProperties, EmptySeq
<1>2. DOMAIN q = 1 .. Len(q) /\ DOMAIN Tail(q) = 1 .. Len(q) - 1
  BY <1>1
<1>3. ASSUME NEW x PROVE x \in ToSet(q) <=> x \in {Head(q)} \cup ToSet(Tail(q))
  <2>1. ASSUME x \in ToSet(q) PROVE x = Head(q) \/ x \in ToSet(Tail(q))
    <3>1. PICK n \in 1 .. Len(q) : x = q[n]
      BY <1>2, <2>1 DEF ToSet
    <3>2. n = 1 \/ (n - 1 \in 1 .. Len(q) - 1 /\ Tail(q)[n - 1] = q[n])
      BY <1>1, <3>1
    <3> QED BY <1>1, <1>2, <3>1, <3>2 DEF ToSet
  <2>2. ASSUME x \in ToSet(Tail(q)) PROVE x \in ToSet(q)
    BY <1>1, <1>2, <2>2 DEF ToSet
  <2>3. Head(q) \in ToSet(q)
    BY <1>1, <1>2 DEF ToSet
  <2> QED BY <2>1, <2>2, <2>3
<1>4. Tail(q) # <<>> => Tail(q)[Len(Tail(q))] = q[Len(q)]
  BY <1>1
<1>5. Tail(q) = <<>> => Head(q) = q[Len(q)]
  <2> SUFFICES ASSUME Tail(q) = <<>> PROVE Len(q) = 1
    BY <1>1
  <2>1. Len(Tail(q)) = 0
    BY EmptySeq, Zenon
  <2>2. Len(q) - 1 = 0 /\ Len(q) \in Nat
    BY <1>1, <2>1
  <2> QED BY <2>2
<1> QED BY <1>1, <1>3, <1>4, <1>5, Zenon

LEMMA OnceAppend ==
  ASSUME NEW S, NEW q \in Seq(S), NEW e \in S, Once(q), e \notin ToSet(q) \/ e = Publication(0)
  PROVE  Once(Append(q, e))
<1>1. /\ Len(Append(q, e)) = Len(q) + 1 /\ Append(q, e) \in Seq(S)
      /\ \A n \in 1 .. Len(q) : Append(q, e)[n] = q[n]
      /\ Append(q, e)[Len(q) + 1] = e
  OBVIOUS
<1>2. DOMAIN Append(q, e) = 1 .. Len(q) + 1 /\ DOMAIN q = 1 .. Len(q) /\ Len(q) \in Nat
  BY <1>1
<1> SUFFICES ASSUME NEW m \in 1 .. Len(q) + 1, NEW n \in 1 .. Len(q) + 1,
                    Append(q, e)[m] = Append(q, e)[n], Append(q, e)[m] # Publication(0)
             PROVE  m = n
  BY <1>2 DEF Once
<1>3. CASE m \in 1 .. Len(q) /\ n \in 1 .. Len(q)
  BY <1>1, <1>2, <1>3 DEF Once
<1>4. CASE m = Len(q) + 1 /\ n # Len(q) + 1
  BY <1>1, <1>2, <1>4 DEF ToSet
<1>5. CASE n = Len(q) + 1 /\ m # Len(q) + 1
  BY <1>1, <1>2, <1>5 DEF ToSet
<1> QED BY <1>2, <1>3, <1>4, <1>5

LEMMA OnceTail ==
  ASSUME NEW S, NEW q \in Seq(S), q # <<>>, Once(q)
  PROVE  /\ Once(Tail(q))
         /\ Head(q) # Publication(0) => Head(q) \notin ToSet(Tail(q))
<1>1. /\ Tail(q) \in Seq(S) /\ Len(q) \in Nat \ {0}
      /\ Head(q) = q[1] /\ Len(Tail(q)) = Len(q) - 1
      /\ \A n \in 1 .. Len(q) - 1 : Tail(q)[n] = q[n + 1]
  BY HeadTailProperties, EmptySeq
<1>2. DOMAIN q = 1 .. Len(q) /\ DOMAIN Tail(q) = 1 .. Len(q) - 1
  BY <1>1
<1>3. Once(Tail(q))
  <2> SUFFICES ASSUME NEW m \in 1 .. Len(q) - 1, NEW n \in 1 .. Len(q) - 1,
                      Tail(q)[m] = Tail(q)[n], Tail(q)[m] # Publication(0)
               PROVE  m = n
    BY <1>2 DEF Once
  <2>1. q[m + 1] = q[n + 1] /\ q[m + 1] # Publication(0)
    BY <1>1
  <2>2. m + 1 \in DOMAIN q /\ n + 1 \in DOMAIN q
    BY <1>1, <1>2
  <2>3. m + 1 = n + 1
    BY <2>1, <2>2 DEF Once
  <2> QED BY <2>3
<1>4. ASSUME Head(q) # Publication(0), Head(q) \in ToSet(Tail(q)) PROVE FALSE
  <2>1. PICK n \in 1 .. Len(q) - 1 : Tail(q)[n] = Head(q)
    BY <1>2, <1>4 DEF ToSet
  <2>2. q[n + 1] = q[1] /\ q[n + 1] # Publication(0) /\ n + 1 \in DOMAIN q /\ 1 \in DOMAIN q
    BY <1>1, <1>2, <1>4, <2>1
  <2>3. n + 1 = 1
    BY <2>2 DEF Once
  <2> QED BY <2>3
<1> QED BY <1>3, <1>4

LEMMA JobKinds ==
  /\ \A i \in Nat : Publication(i) \in JobType
  /\ \A c \in Convs : Reception(c) \in JobType
  /\ \A i \in Nat, c \in Convs : Publication(i) # Reception(c)
  /\ \A i, j : Publication(i) = Publication(j) => i = j
  /\ \A c, d : Reception(c) = Reception(d) => c = d
  /\ \A j \in JobType :
       \/ j.kind = "publish" /\ j.item \in Nat /\ j = Publication(j.item)
       \/ j.kind = "receive" /\ j.conv \in Convs /\ j = Reception(j.conv)
<1>1. \A i \in Nat, c \in Convs : Publication(i) # Reception(c)
  <2> SUFFICES ASSUME NEW i, NEW c PROVE Publication(i) # Reception(c)
    OBVIOUS
  <2>1. Publication(i).kind = "publish" /\ Reception(c).kind = "receive"
    BY DEF Publication, Reception
  <2> QED BY <2>1
<1>2. \A i, j : Publication(i) = Publication(j) => i = j
  <2> SUFFICES ASSUME NEW i, NEW j, Publication(i) = Publication(j) PROVE i = j
    OBVIOUS
  <2>1. Publication(i).item = i /\ Publication(j).item = j
    BY DEF Publication
  <2> QED BY <2>1
<1>3. \A c, d : Reception(c) = Reception(d) => c = d
  <2> SUFFICES ASSUME NEW c, NEW d, Reception(c) = Reception(d) PROVE c = d
    OBVIOUS
  <2>1. Reception(c).conv = c /\ Reception(d).conv = d
    BY DEF Reception
  <2> QED BY <2>1
<1>4. ASSUME NEW j \in JobType
      PROVE  \/ j.kind = "publish" /\ j.item \in Nat /\ j = Publication(j.item)
             \/ j.kind = "receive" /\ j.conv \in Convs /\ j = Reception(j.conv)
  BY DEF JobType, Publication, Reception
<1>5. \A i \in Nat : Publication(i) \in JobType
  BY DEF JobType, Publication
<1>6. \A c \in Convs : Reception(c) \in JobType
  BY DEF JobType, Reception
<1> QED BY <1>1, <1>2, <1>3, <1>4, <1>5, <1>6

-----------------------------------------------------------------------------
(* Types.                                                                  *)

LEMMA OwnerShapes ==
  /\ NoOwner \in OwnerType
  /\ \A i \in Nat \ {0} : WaylandOwner(i) \in OwnerType
  /\ \A i \in Nat \ {0}, v \in {"asked", "here", "refused"} : XOwner(i, v) \in OwnerType
  /\ \A o \in OwnerType :
       /\ o.kind \in {"none", "wayland", "x"}
       /\ o.kind = "wayland" => o.item \in Nat \ {0} /\ o = WaylandOwner(o.item)
       /\ o.kind = "x" => /\ o.item \in Nat \ {0} /\ o.value \in {"asked", "here", "refused"}
                          /\ o = XOwner(o.item, o.value)
       /\ o.kind = "x" => \A v \in {"asked", "here", "refused"} :
                            [o EXCEPT !.value = v] = XOwner(o.item, v)
  BY DEF OwnerType, NoOwner, WaylandOwner, XOwner

LEMMA NamesHeld == TextMimes \in Mimes /\ MimeLists \subseteq Mimes /\ Targets \subseteq Names
<1>1. Targets \subseteq Names /\ STRING \subseteq Names
  BY ServingAssumption DEF Names
<1>2. MimeLists \subseteq Mimes
  BY <1>1, ServingAssumption, SeqMonotonic DEF Mimes
<1>3. TextMimes \in Mimes
  <2> DEFINE T == ToSet(TextMimes)
  <2>1. TextMimes \in Seq(T)
    <3>1. Len(TextMimes) = 5 /\ DOMAIN TextMimes = 1 .. 5
      BY DEF TextMimes
    <3>2. TextMimes \in [1 .. 5 -> T]
      BY <3>1 DEF TextMimes, ToSet
    <3> QED BY <3>2, SeqDef
  <2>2. T \subseteq Names
    BY DEF Names
  <2> HIDE DEF T
  <2> QED BY <2>1, <2>2, SeqMonotonic DEF Mimes
<1> QED BY <1>1, <1>2, <1>3

LEMMA AnsweredType ==
  ASSUME NEW how \in {"refused", "served", "delivered"}
  PROVE  /\ Answered(how) \in ConvType /\ Answered(how).step = how
         /\ Answered(how).listed = NotListed /\ Answered(how).gen = 0
<1> NoMime \in Names
  BY DEF Names
<1> QED BY DEF Answered, Fresh, ConvType, Steps, NotListed

LEMMA CopyKeeps ==
  ASSUME TypeInv, NEW mimes \in Mimes, NEW size \in Nat, Copy(mimes, size)
  PROVE  /\ items' \in Seq([mimes : Mimes, size : Nat])
         /\ Len(items') = Len(items) + 1 /\ Len(items) \in Nat
         /\ items'[Len(items')] = [mimes |-> mimes, size |-> size]
         /\ \A i \in DOMAIN items : i \in DOMAIN items' /\ items'[i] = items[i]
         /\ DOMAIN items = 1 .. Len(items) /\ DOMAIN items' = 1 .. Len(items')
  BY DEF TypeInv, Copy

LEMMA TypeStep == TypeInv /\ Copied /\ [Next]_vars => TypeInv'
<1> SUFFICES ASSUME TypeInv, Copied, [Next]_vars PROVE TypeInv'
  OBVIOUS
<1>0. TextMimes \in Mimes /\ MimeLists \subseteq Mimes
  BY NamesHeld
<1>o. owner \in OwnerType /\ gen \in Nat
  BY DEF TypeInv
<1>q. jobs \in Seq(JobType) /\ socket \in Seq(JobType) /\ wire \in Seq(Nat)
  BY DEF TypeInv
<1>c. conv \in [Convs -> ConvType] /\ pipe \in [Convs -> PipeType]
  BY DEF TypeInv
<1>i. items \in Seq([mimes : Mimes, size : Nat])
  BY DEF TypeInv
<1>a. ASSUME NEW i \in Nat, Publish(i)
      PROVE  /\ jobs' \in Seq(JobType) /\ echoes' \in Seq({"Source", "Withdrawn"})
             /\ shown' \in BOOLEAN
  <2>1. Publication(i) \in JobType
    BY JobKinds
  <2> QED BY <1>a, <2>1, AppendSet DEF Publish, TypeInv
<1>b. ASSUME Withdraw
      PROVE  /\ jobs' \in Seq(JobType) /\ echoes' \in Seq({"Source", "Withdrawn"})
             /\ shown' \in BOOLEAN
  BY <1>a, <1>b DEF Withdraw, TypeInv
<1>d. ASSUME NEW i \in Nat, Selects(i) PROVE comp' \in Nat /\ wire' \in Seq(Nat)
  BY <1>d, <1>q, AppendSet DEF Selects
<1>1. CASE XTook
  <2>1. Copy(TextMimes, 1)
    BY <1>1 DEF XTook
  <2>2. Len(items') = Len(items) + 1 /\ Len(items) \in Nat
        /\ items' \in Seq([mimes : Mimes, size : Nat])
    BY <1>0, <2>1, CopyKeeps
  <2>3. owner' \in OwnerType /\ gen' \in Nat
    BY <1>1, <1>o, <2>2, OwnerShapes DEF XTook, Enter
  <2> QED BY <1>1, <2>2, <2>3 DEF XTook, TypeInv
<1>2. CASE XFetched
  <2>1. owner' \in OwnerType /\ owner.item \in Nat
    <3>1. owner' = XOwner(owner.item, "here") /\ owner.item \in Nat \ {0}
      BY <1>2, <1>o, OwnerShapes, Zenon DEF XFetched
    <3> QED BY <3>1, OwnerShapes
  <2>2. /\ jobs' \in Seq(JobType) /\ echoes' \in Seq({"Source", "Withdrawn"})
        /\ shown' \in BOOLEAN
    BY <1>2, <1>a, <2>1 DEF XFetched
  <2> QED BY <1>2, <2>1, <2>2 DEF XFetched, TypeInv
<1>3. CASE XFetchFailed
  <2>1. owner' \in OwnerType
    <3>1. owner' = XOwner(owner.item, "refused") /\ owner.item \in Nat \ {0}
      BY <1>3, <1>o, OwnerShapes, Zenon DEF XFetchFailed
    <3> QED BY <3>1, OwnerShapes
  <2> QED BY <1>3, <1>b, <2>1 DEF XFetchFailed, TypeInv
<1>4. CASE XGone
  BY <1>4, <1>b, OwnerShapes DEF XGone, Enter, TypeInv
<1>5. CASE AppCopies
  <2>1. PICK mimes \in MimeLists, size \in 0 .. MaxBytes + 1 : Copy(mimes, size)
    BY <1>5 DEF AppCopies
  <2>2. mimes \in Mimes /\ size \in Nat
    BY <1>0, ServingAssumption
  <2>3. Len(items') = Len(items) + 1 /\ Len(items) \in Nat
        /\ items' \in Seq([mimes : Mimes, size : Nat])
    BY <2>1, <2>2, CopyKeeps
  <2>4. comp' \in Nat /\ wire' \in Seq(Nat)
    <3>1. Len(items') \in Nat /\ Selects(Len(items'))
      BY <1>5, <2>3 DEF AppCopies
    <3> QED BY <1>d, <3>1
  <2> QED BY <1>5, <2>3, <2>4 DEF AppCopies, ownerVars, TypeInv
<1>6. CASE AppClears
  BY <1>6, <1>d DEF AppClears, ownerVars, TypeInv
<1>7. CASE CompositorHandles
  <2>1. Head(socket) \in JobType /\ Tail(socket) \in Seq(JobType)
    BY <1>7, <1>q, TailSet DEF CompositorHandles
  <2>2. CASE Head(socket).kind = "publish" /\ Selects(Head(socket).item) /\ UNCHANGED pipe
    <3>1. comp' \in Nat /\ wire' \in Seq(Nat)
      BY <1>d, <2>1, <2>2, JobKinds
    <3> QED BY <1>7, <2>1, <2>2, <3>1 DEF CompositorHandles, ownerVars, TypeInv
  <2>3. CASE /\ Head(socket).kind = "receive" /\ UNCHANGED <<comp, wire>>
             /\ \E gone \in BOOLEAN :
                  pipe' = [pipe EXCEPT ![Head(socket).conv].dropped = gone,
                                       ![Head(socket).conv].ended = gone]
    <3>1. pipe' \in [Convs -> PipeType]
      <4> DEFINE c == Head(socket).conv
      <4>1. PICK gone \in BOOLEAN : pipe' = [pipe EXCEPT ![c].dropped = gone, ![c].ended = gone]
        BY <2>3
      <4> HIDE DEF c
      <4>2. [pipe EXCEPT ![c].dropped = gone] \in [Convs -> PipeType]
        BY <1>c DEF PipeType
      <4> QED BY <4>1, <4>2 DEF PipeType
    <3> QED BY <1>7, <2>1, <2>3, <3>1 DEF CompositorHandles, ownerVars, TypeInv
  <2> QED BY <1>7, <2>2, <2>3 DEF CompositorHandles
<1>8. CASE Announced
  <2>1. Head(wire) \in Nat /\ Tail(wire) \in Seq(Nat)
    BY <1>8, <1>q, TailSet DEF Announced
  <2>2. echoes' \in Seq({"Source", "Withdrawn"})
    BY <1>8, TailSet DEF Announced, take_echo, TypeInv
  <2>3. owner' \in OwnerType /\ gen' \in Nat /\ shown' \in BOOLEAN
    BY <1>8, <1>o, <2>1, OwnerShapes DEF Announced, Enter
  <2> QED BY <1>8, <2>1, <2>2, <2>3 DEF Announced, TypeInv
<1>9. CASE RunJob
  <2>1. Head(jobs) \in JobType /\ Tail(jobs) \in Seq(JobType)
    BY <1>9, <1>q, TailSet DEF RunJob
  <2>2. CASE Head(jobs).kind = "publish" /\ socket' = Append(socket, Head(jobs)) /\ UNCHANGED conv
    <3>1. socket' \in Seq(JobType)
      BY <1>q, <2>1, <2>2, AppendSet
    <3> QED BY <1>9, <2>1, <2>2, <3>1 DEF RunJob, ownerVars, TypeInv
  <2>3. CASE Head(jobs).kind = "receive" /\ start_receive(Head(jobs).conv)
    <3>1. PICK c \in Convs : start_receive(c) /\ Reception(c) \in JobType
      BY <2>1, <2>3, JobKinds
    <3>2. socket' \in Seq(JobType)
      <4>1. Append(socket, Reception(c)) \in Seq(JobType)
        BY <1>q, <3>1, AppendSet
      <4> QED BY <1>q, <3>1, <4>1 DEF start_receive
    <3>3. conv' \in [Convs -> ConvType]
      <4>1. CASE /\ offer_at(c)
                 /\ conv' = [conv EXCEPT ![c].step = "receiving", ![c].offer = owner.item]
        <5>1. owner.item \in Nat
          BY <1>o, <4>1, OwnerShapes DEF offer_at
        <5> DEFINE r == [conv[c] EXCEPT !.step = "receiving", !.offer = owner.item]
        <5>2. conv[c] \in ConvType
          BY <1>c
        <5>3. r \in ConvType
          BY <5>1, <5>2 DEF ConvType, Steps
        <5>4. conv' = [conv EXCEPT ![c] = r]
          BY <1>c, <4>1
        <5> HIDE DEF r
        <5> QED BY <1>c, <5>3, <5>4
      <4>2. CASE conv' = [conv EXCEPT ![c] = Answered("refused")]
        BY <1>c, <4>2, AnsweredType
      <4> QED BY <3>1, <4>1, <4>2 DEF start_receive
    <3> QED BY <1>9, <2>1, <3>2, <3>3 DEF RunJob, ownerVars, TypeInv
  <2> QED BY <1>9, <2>2, <2>3 DEF RunJob
<1>10. ASSUME NEW c \in Convs, Lists(c) PROVE TypeInv'
  <2>1. conv' \in [Convs -> ConvType]
    <3> DEFINE z == IF conv[c].target \in advertised(convertible) THEN gen ELSE NotListed
               r == [conv[c] EXCEPT !.step = "listed", !.listed = z]
    <3>1. z \in Nat \cup {NotListed}
      BY <1>o
    <3>2. conv' = [conv EXCEPT ![c].step = "listed", ![c].listed = z]
      BY <1>10 DEF Lists
    <3> HIDE DEF z
    <3>3. conv' = [conv EXCEPT ![c] = r]
      BY <1>c, <3>2
    <3>4. r \in ConvType
      BY <1>c, <3>1 DEF ConvType, Steps
    <3> HIDE DEF r
    <3> QED BY <1>c, <3>3, <3>4
  <2> QED BY <1>10, <2>1 DEF Lists, ownerVars, TypeInv
<1>11. ASSUME NEW c \in Convs, Resolves(c) PROVE TypeInv'
  <2>1. convertible \in Mimes
    <3>1. <<>> \in Mimes
      BY EmptySeq DEF Mimes
    <3>2. owner.kind = "wayland" => items[owner.item].mimes \in Mimes
      <4> SUFFICES ASSUME owner.kind = "wayland" PROVE items[owner.item] \in [mimes : Mimes, size : Nat]
        OBVIOUS
      <4>1. owner.item \in Nat \ {0} /\ owner.item =< Len(items) /\ Len(items) \in Nat
        BY <1>o, <1>i, OwnerShapes, LenProperties DEF Copied
      <4>2. owner.item \in 1 .. Len(items)
        BY <4>1
      <4> QED BY <1>i, <4>2, ElementOfSeq
    <3> QED BY <1>0, <1>o, <3>1, <3>2, OwnerShapes DEF convertible
  <2> DEFINE mime == resolve(conv[c].target, convertible)
  <2>2. mime \in Names
    <3>1. NoMime \in Names
      BY DEF Names
    <3>2. \A m \in Mimes : ToSet(m) \subseteq Names
      BY DEF Mimes, ToSet
    <3> QED BY <2>1, <3>1, <3>2, ResolveFits DEF Mimes
  <2> HIDE DEF mime
  <2>3. conv' \in [Convs -> ConvType]
    <3>1. CASE conv' = [conv EXCEPT ![c] = Answered("refused")]
      BY <1>c, <3>1, AnsweredType
    <3>2. CASE conv' = [conv EXCEPT ![c] = [@ EXCEPT !.step = "resolved", !.mime = mime, !.gen = gen]]
      BY <1>c, <1>o, <2>2, <3>2 DEF ConvType, Steps
    <3> QED BY <1>11, <3>1, <3>2 DEF Resolves, mime
  <2> QED BY <1>11, <2>3 DEF Resolves, ownerVars, TypeInv
<1>12. ASSUME NEW c \in Convs, Value(c) PROVE TypeInv'
  <2>1. conv' \in [Convs -> ConvType]
    <3>1. CASE \E how \in {"refused", "served"} : conv' = [conv EXCEPT ![c] = Answered(how)]
      BY <1>c, <3>1, AnsweredType
    <3>2. CASE conv' = [conv EXCEPT ![c].step = "posted"]
      BY <1>c, <3>2 DEF ConvType, Steps
    <3> QED BY <1>12, <3>1, <3>2 DEF Value
  <2>2. jobs' \in Seq(JobType)
    <3>1. Append(jobs, Reception(c)) \in Seq(JobType)
      BY <1>q, AppendSet, JobKinds
    <3> QED BY <1>12, <1>q, <3>1 DEF Value
  <2> QED BY <1>12, <2>1, <2>2 DEF Value, ownerVars, TypeInv
<1>13. ASSUME NEW c \in Convs, AppWrites(c) PROVE TypeInv'
  <2>1. pipe[c].sent \in Nat
    BY <1>c DEF PipeType
  <2>2. CASE pipe' = [pipe EXCEPT ![c].sent = @ + 1]
    <3>1. pipe' \in [Convs -> PipeType]
      BY <1>c, <2>1, <2>2 DEF PipeType
    <3> QED BY <1>13, <3>1 DEF AppWrites, ownerVars, TypeInv
  <2>3. CASE pipe' = [pipe EXCEPT ![c].ended = TRUE]
    <3>1. pipe' \in [Convs -> PipeType]
      BY <1>c, <2>3 DEF PipeType
    <3> QED BY <1>13, <3>1 DEF AppWrites, ownerVars, TypeInv
  <2> QED BY <1>13, <2>2, <2>3 DEF AppWrites
<1>14. ASSUME NEW c \in Convs, Finish(c) PROVE TypeInv'
  <2>1. pipe' \in [Convs -> PipeType]
    BY <1>14, <1>c DEF Finish, PipeType, FreshPipe
  <2>2. conv' \in [Convs -> ConvType]
    BY <1>14, <1>c, AnsweredType DEF Finish
  <2> QED BY <1>14, <2>1, <2>2 DEF Finish, ownerVars, TypeInv
<1>15. CASE UNCHANGED vars
  BY <1>15 DEF vars, ownerVars, TypeInv
<1> QED BY <1>1, <1>2, <1>3, <1>4, <1>5, <1>6, <1>7, <1>8, <1>9, <1>10, <1>11, <1>12,
           <1>13, <1>14, <1>15 DEF Next

-----------------------------------------------------------------------------
(* What a step leaves as it was.                                           *)

\* A look at the selection stays good while nothing about it changes...
LEMMA LooksSame ==
  ASSUME TypeInv, Copied, NEW c \in Convs, Holds(c), conv'[c] = conv[c],
         gen' = gen, owner' = owner, \A i \in DOMAIN items : items'[i] = items[i]
  PROVE  Holds(c)'
<1>1. DOMAIN items = 1 .. Len(items) /\ Len(items) \in Nat
  BY DEF TypeInv
<1>2. owner.kind # "none" => owner.item \in DOMAIN items
  <2>1. owner \in OwnerType
    BY DEF TypeInv
  <2>2. owner.kind # "none" => owner.item \in Nat \ {0} /\ owner.item =< Len(items)
    BY <2>1, OwnerShapes DEF Copied
  <2> QED BY <1>1, <2>2
<1>3. convertible' = convertible
  BY <1>2 DEF convertible
<1>4. \A i \in DOMAIN items : \A m : Has(i, m)' = Has(i, m)
  BY DEF Has
<1>5. conv[c].step = "receiving" => conv[c].offer \in DOMAIN items
  BY DEF Copied
<1> QED BY <1>2, <1>3, <1>4, <1>5 DEF Holds, WaylandOwner

\* ...and is no longer counted on once it has a new generation.
LEMMA LooksEntered ==
  ASSUME TypeInv, Copied, NEW c \in Convs, Holds(c), conv'[c] = conv[c],
         gen' = gen + 1, \A i \in DOMAIN items : items'[i] = items[i]
  PROVE  Holds(c)'
<1>1. gen \in Nat /\ conv[c].gen \in Nat /\ conv[c].listed \in Nat \cup {NotListed}
  BY DEF TypeInv, ConvType
<1>2. \A i \in DOMAIN items : \A m : Has(i, m)' = Has(i, m)
  BY DEF Has
<1>3. conv[c].step = "receiving" => conv[c].offer \in DOMAIN items
  BY DEF Copied
<1>4. conv[c].gen # gen' /\ conv[c].listed # gen' /\ conv[c].gen =< gen' /\ conv[c].listed =< gen'
  BY <1>1 DEF Holds, NotListed
<1> QED BY <1>2, <1>3, <1>4 DEF Holds

\* A look at an owner without a value found nothing.
LEMMA NothingSeen ==
  ASSUME TypeInv, NEW c \in Convs, Holds(c), owner.kind = "x", owner.value # "here"
  PROVE  /\ conv[c].step = "listed" => conv[c].listed # gen
         /\ conv[c].step \in {"resolved", "posted", "receiving"} => conv[c].gen # gen
<1>1. convertible = <<>>
  BY DEF convertible
<1>2. <<>> \in Mimes /\ ToSet(<<>>) = {}
  BY EmptySeq DEF Mimes, ToSet
<1>3. conv[c].target \notin advertised(<<>>)
  <2>1. resolve(conv[c].target, <<>>) = NoMime
    BY <1>2, ResolveFits DEF Mimes
  <2> QED BY <1>2, <2>1, ListedIsResolved DEF Mimes
<1>4. conv[c].step = "receiving" => conv[c].gen # gen
  <2>1. ASSUME conv[c].step = "receiving", conv[c].gen = gen PROVE FALSE
    <3>1. owner = WaylandOwner(conv[c].offer)
      BY <2>1 DEF Holds
    <3>2. owner.kind = "wayland"
      BY <3>1 DEF WaylandOwner
    <3> QED BY <3>2
  <2> QED BY <2>1
<1> QED BY <1>1, <1>3, <1>4 DEF Holds

LEMMA PublishQueues ==
  ASSUME TypeInv, QueuesInv, NEW i \in Nat, Publish(i), i = 0 \/ ~Queued(Publication(i)),
         UNCHANGED <<socket, conv, pipe>>
  PROVE  QueuesInv' /\ ToSet(jobs') = ToSet(jobs) \cup {Publication(i)}
<1>1. Publication(i) \in JobType
  BY JobKinds
<1>2. jobs' = Append(jobs, Publication(i)) /\ jobs \in Seq(JobType)
  BY DEF Publish, TypeInv
<1>3. ToSet(jobs') = ToSet(jobs) \cup {Publication(i)}
  BY <1>1, <1>2, AppendSet
<1>4. Once(jobs')
  BY <1>1, <1>2, OnceAppend DEF QueuesInv, Queued
<1>5. \A n \in Nat \ {0} : Publication(n) \in ToSet(jobs') => Publication(n) \notin ToSet(socket')
  BY <1>3, JobKinds DEF QueuesInv, Queued
<1>6. \A c \in Convs : Reception(c) \in ToSet(jobs') => conv[c].step = "posted"
  BY <1>3, JobKinds DEF QueuesInv
<1> QED BY <1>3, <1>4, <1>5, <1>6 DEF QueuesInv, Once

LEMMA WithdrawQueues ==
  ASSUME TypeInv, QueuesInv, Withdraw, UNCHANGED <<socket, conv, pipe>>
  PROVE  /\ QueuesInv'
         /\ \A i \in Nat \ {0} : Queued(Publication(i))' <=> Queued(Publication(i))
<1>1. CASE UNCHANGED jobs
  BY <1>1 DEF QueuesInv, Queued, Once
<1>2. CASE Publish(0)
  <2>1. QueuesInv' /\ ToSet(jobs') = ToSet(jobs) \cup {Publication(0)}
    BY <1>2, PublishQueues
  <2> QED BY <2>1, JobKinds DEF Queued
<1> QED BY <1>1, <1>2 DEF Withdraw

\* ...nor is it counted on while the owner's value is not here.
LEMMA LooksUnseen ==
  ASSUME TypeInv, NEW c \in Convs, Holds(c), owner.kind = "x", owner.value # "here",
         conv'[c] = conv[c], gen' = gen, items' = items
  PROVE  Holds(c)'
<1>1. /\ conv[c].step = "listed" => conv[c].listed # gen
      /\ conv[c].step \in {"resolved", "posted", "receiving"} => conv[c].gen # gen
  BY NothingSeen
<1>2. \A i, m : Has(i, m)' = Has(i, m)
  BY DEF Has
<1> QED BY <1>1, <1>2 DEF Holds

LEMMA PipesSame ==
  ASSUME Copied, PipesInv, UNCHANGED <<conv, pipe, comp>>,
         \A i \in DOMAIN items : items'[i] = items[i]
  PROVE  PipesInv'
BY DEF Copied, PipesInv

LEMMA ReceivingSame ==
  ASSUME UNCHANGED conv
  PROVE  Receiving' = Receiving
BY DEF Receiving

\* A copy is numbered above everything that is spoken of.
LEMMA CopyIsNew ==
  ASSUME TypeInv, Copied
  PROVE  \A i \in Nat : i > Len(items) => ~Past(i) /\ ~Coming(i)
<1> SUFFICES ASSUME NEW i \in Nat, i > Len(items) PROVE ~Past(i) /\ ~Coming(i)
  OBVIOUS
<1>1. DOMAIN items = 1 .. Len(items) /\ Len(items) \in Nat /\ owner \in OwnerType
  BY DEF TypeInv
<1>2. i \notin ToSet(wire) /\ ~Queued(Publication(i))
  <2>1. \A n \in ToSet(wire) : n \in Nat
    BY DEF TypeInv, ToSet
  <2> QED BY <1>1, <2>1 DEF Copied
<1>3. owner.kind # "none" => owner.item # i
  <2>1. owner.kind # "none" => owner.item \in Nat /\ owner.item =< Len(items)
    BY <1>1, OwnerShapes DEF Copied
  <2> QED BY <1>1, <2>1
<1>4. \A c \in Convs : conv[c].step = "receiving" => conv[c].offer # i
  BY <1>1 DEF Copied
<1>5. owner # WaylandOwner(i)
  BY <1>3 DEF WaylandOwner
<1> QED BY <1>2, <1>3, <1>4, <1>5 DEF Past, Coming, Asked

-----------------------------------------------------------------------------
(* The X owner.                                                            *)

LEMMA XTookStep == Inv /\ XTook /\ TypeInv' => Inv'
<1> SUFFICES ASSUME Inv, XTook, TypeInv' PROVE Inv'
  OBVIOUS
<1> DEFINE n == Len(items')
<1>1. /\ Len(items) \in Nat /\ n = Len(items) + 1
      /\ items'[n].mimes = TextMimes
      /\ \A i \in DOMAIN items : i \in DOMAIN items' /\ items'[i] = items[i]
  <2>1. Copy(TextMimes, 1)
    BY DEF XTook
  <2>2. /\ Len(items') = Len(items) + 1 /\ Len(items) \in Nat
        /\ items'[Len(items')] = [mimes |-> TextMimes, size |-> 1]
        /\ \A i \in DOMAIN items : i \in DOMAIN items' /\ items'[i] = items[i]
    BY <2>1, CopyKeeps, NamesHeld DEF Inv
  <2> QED BY <2>2
<1>2. /\ owner' = XOwner(n, "asked") /\ gen' = gen + 1
      /\ UNCHANGED <<echoes, shown, comp, socket, wire, jobs, conv, pipe>>
  BY DEF XTook, Enter
<1>3. owner'.kind = "x" /\ owner'.item = n /\ owner'.value = "asked"
  BY <1>2 DEF XOwner
<1> HIDE DEF n
<1>4. \A i : Queued(Publication(i))' = Queued(Publication(i))
  BY <1>2 DEF Queued
<1>5. Copied'
  <2>1. \A i \in Nat : i =< Len(items) => i =< n
    BY <1>1
  <2>2. \A i \in ToSet(wire) : i \in Nat
    BY DEF Inv, TypeInv, ToSet
  <2> QED BY <1>1, <1>2, <1>3, <1>4, <2>1, <2>2 DEF Inv, Copied, n
<1>6. QueuesInv'
  BY <1>2 DEF Inv, QueuesInv, Once
<1>7. SelectionsInv'
  <2>1. \A i \in Nat \ {0} : Past(i)' => Past(i)
    BY <1>2, <1>3 DEF Past, WaylandOwner
  <2>2. ~Past(n) /\ ~Coming(n) /\ n \in Nat
    BY <1>1, CopyIsNew DEF Inv
  <2>3. \A i \in Nat \ {0} : Coming(i)' => Coming(i) \/ i = n
    BY <1>3, <1>4 DEF Coming, Asked
  <2>4. \A i \in Nat \ {0} : Asked(i)' => i = n
    BY <1>3 DEF Asked
  <2> QED BY <1>2, <1>3, <1>4, <2>1, <2>2, <2>3, <2>4 DEF Inv, SelectionsInv, Coming
<1>8. PipesInv'
  BY <1>1, <1>2, PipesSame DEF Inv
<1>9. LooksInv'
  BY <1>1, <1>2, LooksEntered DEF Inv, LooksInv
<1>10. IsFiniteSet(Receiving)'
  BY <1>2, ReceivingSame DEF Inv
<1> QED BY <1>5, <1>6, <1>7, <1>8, <1>9, <1>10 DEF Inv

LEMMA XFetchedStep == Inv /\ XFetched /\ TypeInv' => Inv'
<1> SUFFICES ASSUME Inv, XFetched, TypeInv' PROVE Inv'
  OBVIOUS
<1> DEFINE n == owner.item
<1>1. owner \in OwnerType
  BY DEF Inv, TypeInv
<1>2. owner.kind = "x" /\ owner.value = "asked" /\ Publish(n)
  BY DEF XFetched
<1>3. n \in Nat \ {0} /\ owner' = XOwner(n, "here")
  BY <1>1, <1>2, OwnerShapes, Zenon DEF XFetched
<1>4. owner'.kind = "x" /\ owner'.item = n /\ owner'.value = "here"
  BY <1>3 DEF XOwner
<1>5. UNCHANGED <<items, gen, comp, socket, wire, conv, pipe>>
  BY DEF XFetched
<1>6. Asked(n)
  BY <1>2 DEF Asked
<1> HIDE DEF n
<1>7. ~Queued(Publication(n))
  BY <1>3, <1>6 DEF Inv, SelectionsInv
<1>8. QueuesInv' /\ ToSet(jobs') = ToSet(jobs) \cup {Publication(n)}
  BY <1>2, <1>3, <1>5, <1>7, PublishQueues DEF Inv
<1>9. \A i : Queued(Publication(i))' <=> Queued(Publication(i)) \/ i = n
  BY <1>5, <1>8, JobKinds DEF Queued
<1>10. Copied'
  <2>1. n =< Len(items) /\ items[n].mimes = TextMimes
    BY <1>2 DEF Inv, Copied, n
  <2> QED BY <1>4, <1>5, <1>9, <2>1 DEF Inv, Copied
<1>11. SelectionsInv'
  <2>1. \A i \in Nat \ {0} : Past(i)' => Past(i)
    BY <1>4, <1>5 DEF Past, WaylandOwner
  <2>2. \A i \in Nat \ {0} : (Coming(i)' => Coming(i)) /\ ~Asked(i)'
    BY <1>4, <1>6, <1>9 DEF Coming, Asked
  <2> QED BY <1>4, <1>5, <2>1, <2>2 DEF Inv, SelectionsInv
<1>12. PipesInv'
  BY <1>5, PipesSame DEF Inv
<1>13. LooksInv'
  BY <1>2, <1>5, LooksUnseen DEF Inv, LooksInv
<1>14. IsFiniteSet(Receiving)'
  BY <1>5, ReceivingSame DEF Inv
<1> QED BY <1>8, <1>10, <1>11, <1>12, <1>13, <1>14 DEF Inv

LEMMA XFetchFailedStep == Inv /\ XFetchFailed /\ TypeInv' => Inv'
<1> SUFFICES ASSUME Inv, XFetchFailed, TypeInv' PROVE Inv'
  OBVIOUS
<1>1. owner \in OwnerType
  BY DEF Inv, TypeInv
<1>2. owner.kind = "x" /\ owner.value = "asked" /\ Withdraw
  BY DEF XFetchFailed
<1>3. owner.item \in Nat \ {0} /\ owner' = XOwner(owner.item, "refused")
  BY <1>1, <1>2, OwnerShapes, Zenon DEF XFetchFailed
<1>4. owner'.kind = "x" /\ owner'.item = owner.item /\ owner'.value = "refused"
  BY <1>3 DEF XOwner
<1>5. UNCHANGED <<items, gen, comp, socket, wire, conv, pipe>>
  BY DEF XFetchFailed
<1>6. QueuesInv' /\ \A i \in Nat \ {0} : Queued(Publication(i))' <=> Queued(Publication(i))
  BY <1>2, <1>5, WithdrawQueues DEF Inv
<1>7. Copied'
  <2>1. Len(items) \in Nat
    BY DEF Inv, TypeInv
  <2>2. \A i \in Nat : Queued(Publication(i))' => i =< Len(items)
    BY <1>6, <2>1 DEF Inv, Copied
  <2> QED BY <1>2, <1>4, <1>5, <2>2 DEF Inv, Copied
<1>8. SelectionsInv'
  <2>1. \A i \in Nat \ {0} : Past(i)' => Past(i)
    BY <1>4, <1>5 DEF Past, WaylandOwner
  <2>2. \A i \in Nat \ {0} : (Coming(i)' => Coming(i)) /\ ~Asked(i)'
    BY <1>4, <1>6 DEF Coming, Asked
  <2> QED BY <1>4, <1>5, <2>1, <2>2 DEF Inv, SelectionsInv
<1>9. PipesInv'
  BY <1>5, PipesSame DEF Inv
<1>10. LooksInv'
  BY <1>2, <1>5, LooksUnseen DEF Inv, LooksInv
<1>11. IsFiniteSet(Receiving)'
  BY <1>5, ReceivingSame DEF Inv
<1> QED BY <1>6, <1>7, <1>8, <1>9, <1>10, <1>11 DEF Inv

LEMMA XGoneStep == Inv /\ XGone /\ TypeInv' => Inv'
<1> SUFFICES ASSUME Inv, XGone, TypeInv' PROVE Inv'
  OBVIOUS
<1>1. owner' = NoOwner /\ owner'.kind = "none" /\ gen' = gen + 1 /\ Withdraw
  BY DEF XGone, Enter, NoOwner
<1>2. UNCHANGED <<items, comp, socket, wire, conv, pipe>>
  BY DEF XGone
<1>3. QueuesInv' /\ \A i \in Nat \ {0} : Queued(Publication(i))' <=> Queued(Publication(i))
  BY <1>1, <1>2, WithdrawQueues DEF Inv
<1>4. Copied'
  <2>1. Len(items) \in Nat
    BY DEF Inv, TypeInv
  <2>2. \A i \in Nat : Queued(Publication(i))' => i =< Len(items)
    BY <1>3, <2>1 DEF Inv, Copied
  <2> QED BY <1>1, <1>2, <2>2 DEF Inv, Copied
<1>5. SelectionsInv'
  <2>1. \A i \in Nat \ {0} : Past(i)' => Past(i)
    BY <1>1, <1>2 DEF Past, WaylandOwner
  <2>2. \A i \in Nat \ {0} : (Coming(i)' => Coming(i)) /\ ~Asked(i)'
    BY <1>1, <1>3 DEF Coming, Asked
  <2> QED BY <1>1, <1>2, <2>1, <2>2 DEF Inv, SelectionsInv
<1>6. PipesInv'
  BY <1>2, PipesSame DEF Inv
<1>7. LooksInv'
  BY <1>1, <1>2, LooksEntered DEF Inv, LooksInv
<1>8. IsFiniteSet(Receiving)'
  BY <1>2, ReceivingSame DEF Inv
<1> QED BY <1>3, <1>4, <1>5, <1>6, <1>7, <1>8 DEF Inv

-----------------------------------------------------------------------------
(* The compositor and the apps.                                            *)

LEMMA AppCopiesStep == Inv /\ AppCopies /\ TypeInv' => Inv'
<1> SUFFICES ASSUME Inv, AppCopies, TypeInv' PROVE Inv'
  OBVIOUS
<1> DEFINE n == Len(items')
<1>1. /\ Len(items) \in Nat /\ n = Len(items) + 1
      /\ \A i \in DOMAIN items : i \in DOMAIN items' /\ items'[i] = items[i]
      /\ DOMAIN items = 1 .. Len(items)
  <2>1. PICK mimes \in MimeLists, size \in 0 .. MaxBytes + 1 : Copy(mimes, size)
    BY DEF AppCopies
  <2>2. mimes \in Mimes /\ size \in Nat
    BY NamesHeld, ServingAssumption
  <2>3. /\ Len(items') = Len(items) + 1 /\ Len(items) \in Nat
        /\ \A i \in DOMAIN items : i \in DOMAIN items' /\ items'[i] = items[i]
        /\ DOMAIN items = 1 .. Len(items)
    BY <2>1, <2>2, CopyKeeps DEF Inv
  <2> QED BY <2>3
<1>2. Selects(n) /\ UNCHANGED <<owner, gen, echoes, shown, socket, jobs, conv, pipe>>
  BY DEF AppCopies, ownerVars
<1> HIDE DEF n
<1>3. /\ comp' = n /\ wire' # <<>> /\ wire'[Len(wire')] = comp'
      /\ ToSet(wire') = ToSet(wire) \cup {n}
  <2>1. wire \in Seq(Nat) /\ n \in Nat
    BY <1>1 DEF Inv, TypeInv
  <2> QED BY <1>2, <2>1, AppendSet DEF Selects
<1>4. \A i : Queued(Publication(i))' = Queued(Publication(i))
  BY <1>2 DEF Queued
<1>5. owner \in OwnerType /\ \A i \in ToSet(wire) : i \in Nat
  BY DEF Inv, TypeInv, ToSet
<1>6. Copied'
  <2>1. \A i \in Nat : i =< Len(items) => i =< n
    BY <1>1
  <2>2. owner.kind # "none" => owner.item \in Nat \ {0} /\ owner.item =< Len(items)
    BY <1>5, OwnerShapes DEF Inv, Copied
  <2>3. owner.kind # "none" => owner.item \in DOMAIN items
    BY <1>1, <2>2
  <2>4. n =< n
    BY <1>1
  <2> QED BY <1>1, <1>2, <1>3, <1>4, <1>5, <2>1, <2>2, <2>3, <2>4 DEF Inv, Copied, n
<1>7. QueuesInv'
  BY <1>2 DEF Inv, QueuesInv, Once
<1>8. SelectionsInv'
  <2>1. \A i \in Nat \ {0} : Past(i)' => Past(i) \/ i = n
    BY <1>2, <1>3 DEF Past, WaylandOwner
  <2>2. ~Coming(n)
    BY <1>1, CopyIsNew DEF Inv
  <2>3. \A i \in Nat \ {0} : (Coming(i)' <=> Coming(i)) /\ (Asked(i)' <=> Asked(i))
    BY <1>2, <1>4 DEF Coming, Asked
  <2> QED BY <1>3, <1>4, <2>1, <2>2, <2>3 DEF Inv, SelectionsInv
<1>9. PipesInv'
  <2>1. \A c \in Convs : conv[c].step = "receiving" => conv[c].offer # n
    BY <1>1 DEF Inv, Copied
  <2> QED BY <1>1, <1>2, <1>3, <2>1 DEF Inv, PipesInv, Copied
<1>10. LooksInv'
  BY <1>1, <1>2, LooksSame DEF Inv, LooksInv
<1>11. IsFiniteSet(Receiving)'
  BY <1>2, ReceivingSame DEF Inv
<1> QED BY <1>6, <1>7, <1>8, <1>9, <1>10, <1>11 DEF Inv

\* What is selected is new, or is none.
LEMMA SelectsStep ==
  ASSUME Inv, TypeInv', NEW n \in Nat, Selects(n),
         n # 0 => n =< Len(items) /\ ~Past(n) /\ ~Coming(n)',
         \A i \in Nat \ {0} : Coming(i)' => Coming(i),
         \A i \in Nat \ {0} : Queued(Publication(i))' => Queued(Publication(i)),
         QueuesInv', UNCHANGED <<items, owner, gen, conv, pipe>>
  PROVE  Inv'
<1>1. /\ comp' = n /\ wire' # <<>> /\ wire'[Len(wire')] = comp'
      /\ ToSet(wire') = ToSet(wire) \cup {n}
  <2>1. wire \in Seq(Nat)
    BY DEF Inv, TypeInv
  <2> QED BY <2>1, AppendSet DEF Selects
<1>2. Len(items) \in Nat
  BY DEF Inv, TypeInv
<1>3. Copied'
  <2>1. \A i \in ToSet(wire') : i =< Len(items)
    BY <1>1, <1>2 DEF Inv, Copied
  <2>2. \A i \in Nat : Queued(Publication(i))' => i =< Len(items)
    BY <1>2 DEF Inv, Copied
  <2> QED BY <2>1, <2>2 DEF Inv, Copied
<1>4. SelectionsInv'
  <2>1. \A i \in Nat \ {0} : Past(i)' => Past(i) \/ i = n
    BY <1>1 DEF Past, WaylandOwner
  <2>2. \A i \in Nat \ {0} : Asked(i)' <=> Asked(i)
    BY DEF Asked
  <2> QED BY <1>1, <2>1, <2>2 DEF Inv, SelectionsInv
<1>5. PipesInv'
  <2>1. ASSUME NEW c \in Convs, conv[c].step = "receiving" PROVE conv[c].offer # n
    <3>1. conv[c].offer \in Nat \ {0} /\ Past(conv[c].offer)
      BY <2>1 DEF Inv, Copied, TypeInv, Past
    <3> QED BY <3>1
  <2> QED BY <1>1, <2>1 DEF Inv, PipesInv
<1>6. LooksInv'
  BY LooksSame DEF Inv, LooksInv
<1>7. IsFiniteSet(Receiving)'
  BY ReceivingSame DEF Inv
<1> QED BY <1>3, <1>4, <1>5, <1>6, <1>7 DEF Inv

LEMMA AppClearsStep == Inv /\ AppClears /\ TypeInv' => Inv'
<1> SUFFICES ASSUME Inv, AppClears, TypeInv' PROVE Inv'
  OBVIOUS
<1>1. Selects(0) /\ UNCHANGED <<items, owner, gen, echoes, shown, socket, jobs, conv, pipe>>
  BY DEF AppClears, ownerVars
<1>2. QueuesInv'
  BY <1>1 DEF Inv, QueuesInv, Once
<1>3. \A i \in Nat \ {0} : (Coming(i)' => Coming(i))
                           /\ (Queued(Publication(i))' => Queued(Publication(i)))
  BY <1>1 DEF Coming, Asked, Queued
<1> QED BY <1>1, <1>2, <1>3, SelectsStep

LEMMA CompositorPublishes ==
  ASSUME Inv, TypeInv', CompositorHandles, Head(socket).kind = "publish",
         Selects(Head(socket).item), UNCHANGED pipe
  PROVE  Inv'
<1>1. socket \in Seq(JobType) /\ socket # <<>> /\ socket' = Tail(socket) /\ Len(items) \in Nat
  BY DEF Inv, TypeInv, CompositorHandles
<1>2. UNCHANGED <<items, owner, gen, jobs, conv, pipe>>
  BY DEF CompositorHandles, ownerVars
<1>3. PICK n \in Nat : Head(socket) = Publication(n) /\ Selects(n)
  BY <1>1, TailSet, JobKinds
<1>4. ToSet(socket) = {Publication(n)} \cup ToSet(socket')
  BY <1>1, <1>3, TailSet
<1>5. Once(socket') /\ (n # 0 => Publication(n) \notin ToSet(socket'))
  <2>1. n # 0 => Publication(n) # Publication(0)
    BY JobKinds
  <2> QED BY <1>1, <1>3, <2>1, OnceTail DEF Inv, QueuesInv
<1>6. QueuesInv'
  BY <1>2, <1>4, <1>5 DEF Inv, QueuesInv, Once
<1>7. \A i \in Nat \ {0} : (Coming(i)' => Coming(i))
                           /\ (Queued(Publication(i))' => Queued(Publication(i)))
  BY <1>2, <1>4 DEF Coming, Asked, Queued
<1>8. ASSUME n # 0 PROVE n =< Len(items) /\ ~Past(n) /\ ~Coming(n)'
  <2>1. Queued(Publication(n)) /\ n \in Nat \ {0}
    BY <1>3, <1>4, <1>8 DEF Queued
  <2>2. n =< Len(items)
    BY <1>3, <2>1 DEF Inv, Copied
  <2>3. ~Past(n) /\ ~Asked(n)
    BY <2>1 DEF Inv, SelectionsInv, Coming
  <2>4. ~Queued(Publication(n))'
    <3>1. Publication(n) \notin ToSet(jobs)
      <4>1. \A i \in Nat \ {0} : Publication(i) \in ToSet(jobs) => Publication(i) \notin ToSet(socket)
        BY DEF Inv, QueuesInv
      <4> QED BY <1>4, <2>1, <4>1
    <3> QED BY <1>2, <1>5, <1>8, <3>1 DEF Queued
  <2> QED BY <1>2, <2>2, <2>3, <2>4 DEF Coming, Asked
<1> QED BY <1>2, <1>3, <1>6, <1>7, <1>8, SelectsStep

LEMMA CompositorPasses ==
  ASSUME Inv, TypeInv', CompositorHandles, Head(socket).kind = "receive",
         NEW gone \in BOOLEAN, gone = (conv[Head(socket).conv].offer # comp),
         pipe' = [pipe EXCEPT ![Head(socket).conv].dropped = gone, ![Head(socket).conv].ended = gone],
         UNCHANGED <<comp, wire>>
  PROVE  Inv'
<1> DEFINE d == Head(socket).conv
<1>1. socket \in Seq(JobType) /\ socket # <<>> /\ socket' = Tail(socket)
  BY DEF Inv, TypeInv, CompositorHandles
<1>2. UNCHANGED <<items, owner, gen, echoes, shown, jobs, conv, comp, wire>>
  BY DEF CompositorHandles, ownerVars
<1>3. d \in Convs /\ Head(socket) = Reception(d)
  BY <1>1, TailSet, JobKinds
<1>4. ToSet(socket) = {Reception(d)} \cup ToSet(socket')
  BY <1>1, <1>3, TailSet
<1>5. Once(socket') /\ Reception(d) \notin ToSet(socket')
  <2>1. Reception(d) # Publication(0)
    BY <1>3, JobKinds
  <2> QED BY <1>1, <1>3, <2>1, OnceTail DEF Inv, QueuesInv
<1>6. pipe' = [pipe EXCEPT ![d].dropped = gone, ![d].ended = gone] /\ gone = (conv[d].offer # comp)
  OBVIOUS
<1> HIDE DEF d
<1>7. conv[d].step \in {"receiving", "refused"}
      /\ (conv[d].step = "receiving" => pipe[d] = FreshPipe)
  BY <1>3, <1>4 DEF Inv, QueuesInv
<1>p. pipe \in [Convs -> PipeType]
  BY DEF Inv, TypeInv
<1> DEFINE r == [pipe[d] EXCEPT !.dropped = gone, !.ended = gone]
<1>r. pipe' = [pipe EXCEPT ![d] = r]
  BY <1>6, <1>p, <1>3
<1> HIDE DEF r
<1>8. \A c \in Convs : c # d => pipe'[c] = pipe[c]
  BY <1>p, <1>r
<1>9. pipe'[d].dropped = gone /\ pipe'[d].ended = gone /\ pipe'[d].sent = pipe[d].sent
  <2>1. pipe[d] \in PipeType
    BY <1>3, <1>p
  <2>2. pipe'[d] = r
    BY <1>3, <1>p, <1>r
  <2>3. r.dropped = gone /\ r.ended = gone /\ r.sent = pipe[d].sent
    BY <2>1 DEF PipeType, r
  <2> QED BY <2>2, <2>3, Zenon
<1>10. Copied'
  <2>1. Copied
    BY DEF Inv
  <2>2. \A i \in Nat : Queued(Publication(i))' => Queued(Publication(i))
    BY <1>2, <1>4 DEF Queued
  <2> QED BY <1>2, <2>1, <2>2 DEF Copied
<1>11. QueuesInv'
  <2>1. QueuesInv
    BY DEF Inv
  <2>2. Once(jobs)' /\ Once(socket)'
    BY <1>2, <1>5, <2>1 DEF QueuesInv, Once
  <2>3. \A c \in Convs : Reception(c) \in ToSet(socket') => c # d
    BY <1>5
  <2>4. \A c \in Convs : conv[c].step \in {"unasked", "listed", "resolved", "posted"} => c # d
    BY <1>7
  <2> QED BY <1>2, <1>4, <1>8, <2>1, <2>2, <2>3, <2>4 DEF QueuesInv
<1>12. SelectionsInv'
  <2>1. \A i \in Nat \ {0} : (Past(i)' <=> Past(i)) /\ (Asked(i)' <=> Asked(i))
                             /\ (Queued(Publication(i))' => Queued(Publication(i)))
    BY <1>2, <1>4 DEF Past, Asked, Queued, WaylandOwner
  <2> QED BY <1>2, <2>1 DEF Inv, SelectionsInv, Coming
<1>13. PipesInv'
  <2>1. ASSUME conv[d].step = "receiving"
        PROVE  pipe[d].sent = 0 /\ 0 =< items[conv[d].offer].size
    <3>1. items[conv[d].offer].size \in Nat
      <4>1. conv[d].offer \in DOMAIN items /\ items \in Seq([mimes : Mimes, size : Nat])
        BY <1>3, <2>1 DEF Inv, Copied, TypeInv
      <4>2. conv[d].offer \in 1 .. Len(items)
        BY <4>1
      <4>3. items[conv[d].offer] \in [mimes : Mimes, size : Nat]
        BY <4>1, <4>2, ElementOfSeq
      <4> QED BY <4>3
    <3> QED BY <1>7, <2>1, <3>1 DEF FreshPipe
  <2> SUFFICES ASSUME NEW c \in Convs, conv[c].step = "receiving"
               PROVE  /\ pipe'[c].dropped => comp # conv[c].offer /\ pipe'[c].ended /\ pipe'[c].sent = 0
                      /\ ~pipe'[c].dropped => pipe'[c].sent =< items[conv[c].offer].size
                      /\ ~pipe'[c].dropped /\ pipe'[c].ended =>
                           pipe'[c].sent = items[conv[c].offer].size
    BY <1>2 DEF PipesInv
  <2>2. CASE c = d
    BY <1>6, <1>9, <2>1, <2>2
  <2>3. CASE c # d
    BY <1>8, <2>3 DEF Inv, PipesInv
  <2> QED BY <2>2, <2>3
<1>14. LooksInv'
  BY <1>2, LooksSame DEF Inv, LooksInv
<1>15. IsFiniteSet(Receiving)'
  BY <1>2, ReceivingSame DEF Inv
<1> QED BY <1>10, <1>11, <1>12, <1>13, <1>14, <1>15 DEF Inv

LEMMA CompositorStep == Inv /\ CompositorHandles /\ TypeInv' => Inv'
<1> SUFFICES ASSUME Inv, CompositorHandles, TypeInv' PROVE Inv'
  OBVIOUS
<1>1. CASE Head(socket).kind = "publish" /\ Selects(Head(socket).item) /\ UNCHANGED pipe
  BY <1>1, CompositorPublishes
<1>2. CASE /\ Head(socket).kind = "receive" /\ UNCHANGED <<comp, wire>>
           /\ \E gone \in BOOLEAN :
                /\ gone = (conv[Head(socket).conv].offer # comp)
                /\ pipe' = [pipe EXCEPT ![Head(socket).conv].dropped = gone,
                                        ![Head(socket).conv].ended = gone]
  BY <1>2, CompositorPasses
<1> QED BY <1>1, <1>2 DEF CompositorHandles

-----------------------------------------------------------------------------
(* The Wayland thread.                                                     *)

LEMMA AnnouncedStep == Inv /\ Announced /\ TypeInv' => Inv'
<1> SUFFICES ASSUME Inv, Announced, TypeInv' PROVE Inv'
  OBVIOUS
<1>1. /\ wire \in Seq(Nat) /\ wire # <<>> /\ wire' = Tail(wire) /\ Len(items) \in Nat
      /\ owner \in OwnerType
  BY DEF Inv, TypeInv, Announced
<1>2. UNCHANGED <<items, comp, socket, jobs, conv, pipe>>
  BY DEF Announced
<1>3. PICK i \in Nat : /\ i = Head(wire)
                       /\ \/ UNCHANGED <<owner, gen>> /\ owner.kind # "wayland"
                          \/ Enter(IF i = 0 THEN NoOwner ELSE WaylandOwner(i))
  <2>1. Head(wire) \in Nat
    BY <1>1, TailSet
  <2> QED BY <2>1 DEF Announced
<1>4. /\ i \in ToSet(wire) /\ ToSet(wire') \subseteq ToSet(wire)
      /\ wire' # <<>> => wire'[Len(wire')] = wire[Len(wire)]
      /\ wire' = <<>> => i = wire[Len(wire)]
  BY <1>1, <1>3, TailSet
<1>5. i =< Len(items) /\ wire[Len(wire)] = comp
  BY <1>1, <1>4 DEF Inv, Copied, SelectionsInv
<1>6. /\ owner'.kind = "x" => owner' = owner
      /\ owner'.kind = "wayland" => owner' = WaylandOwner(i) /\ owner'.item = i
  BY <1>3 DEF Enter, NoOwner, WaylandOwner
<1>7. \A j : Queued(Publication(j))' = Queued(Publication(j))
  BY <1>2 DEF Queued
<1>8. Copied'
  <2>1. owner'.kind \in {"none", "wayland", "x"}
    BY OwnerShapes DEF TypeInv
  <2>2. owner'.kind # "none" => owner'.item =< Len(items)
    BY <1>5, <1>6, <2>1 DEF Inv, Copied
  <2> QED BY <1>2, <1>4, <1>6, <1>7, <2>2 DEF Inv, Copied
<1>9. QueuesInv'
  BY <1>2 DEF Inv, QueuesInv, Once
<1>10. SelectionsInv'
  <2>1. \A j \in Nat \ {0} : Past(j)' => Past(j)
    <3>1. \A j : WaylandOwner(j) = WaylandOwner(i) => j = i
      <4> SUFFICES ASSUME NEW j, WaylandOwner(j) = WaylandOwner(i) PROVE j = i
        OBVIOUS
      <4>1. WaylandOwner(j).item = j /\ WaylandOwner(i).item = i
        BY DEF WaylandOwner
      <4> QED BY <4>1
    <3>2. \A j : WaylandOwner(j).kind = "wayland"
      BY DEF WaylandOwner
    <3> QED BY <1>2, <1>4, <1>6, <3>1, <3>2 DEF Past
  <2>2. \A j \in Nat \ {0} : (Asked(j)' => Asked(j))
    BY <1>6 DEF Asked
  <2>3. \A j \in Nat \ {0} : (Coming(j)' => Coming(j))
    BY <1>7, <2>2 DEF Coming
  <2> QED BY <1>2, <1>4, <1>5, <1>6, <1>7, <2>1, <2>2, <2>3 DEF Inv, SelectionsInv
<1>11. PipesInv'
  BY <1>2, PipesSame DEF Inv
<1>12. LooksInv'
  BY <1>2, <1>3, LooksSame, LooksEntered DEF Inv, LooksInv, Enter
<1>13. IsFiniteSet(Receiving)'
  BY <1>2, ReceivingSame DEF Inv
<1> QED BY <1>8, <1>9, <1>10, <1>11, <1>12, <1>13 DEF Inv

\* A conversion is answered, and there is nothing left of it.
LEMMA AnswerStep ==
  ASSUME Inv, TypeInv', NEW c \in Convs, NEW how \in {"refused", "served", "delivered"},
         conv' = [conv EXCEPT ![c] = Answered(how)],
         UNCHANGED <<items, owner, gen, comp, wire, socket>>,
         pipe' = pipe \/ pipe' = [pipe EXCEPT ![c] = FreshPipe],
         Once(jobs'), ToSet(jobs') \subseteq ToSet(jobs), Reception(c) \notin ToSet(jobs'),
         Reception(c) \in ToSet(socket) => how = "refused"
  PROVE  Inv'
<1>1. /\ conv'[c] = Answered(how) /\ conv'[c].step = how
      /\ conv'[c].listed = NotListed /\ conv'[c].gen = 0
      /\ \A d \in Convs : d # c => conv'[d] = conv[d] /\ pipe'[d] = pipe[d]
  <2>1. conv \in [Convs -> ConvType] /\ pipe \in [Convs -> PipeType]
    BY DEF Inv, TypeInv
  <2> QED BY <2>1, AnsweredType
<1>2. conv'[c].step \notin {"unasked", "listed", "resolved", "posted", "receiving"}
  BY <1>1
<1>3. \A i : Queued(Publication(i))' => Queued(Publication(i))
  BY DEF Queued
<1>4. \A d \in Convs : Reception(d) = Reception(c) => d = c
  BY JobKinds
<1>5. Copied'
  BY <1>1, <1>2, <1>3 DEF Inv, Copied
<1>6. QueuesInv'
  <2>1. Once(socket') /\ Once(jobs')
    BY DEF Inv, QueuesInv, Once
  <2>2. \A i \in Nat \ {0} : Publication(i) \in ToSet(jobs') => Publication(i) \notin ToSet(socket')
    BY DEF Inv, QueuesInv
  <2>3. ASSUME NEW d \in Convs
        PROVE /\ Reception(d) \in ToSet(jobs') => conv'[d].step = "posted"
              /\ Reception(d) \in ToSet(socket') => conv'[d].step \in {"receiving", "refused"}
              /\ Reception(d) \in ToSet(socket') /\ conv'[d].step = "receiving" => pipe'[d] = FreshPipe
              /\ conv'[d].step \in {"unasked", "listed", "resolved", "posted"} => pipe'[d] = FreshPipe
    <3>1. CASE d = c
      BY <1>1, <1>2, <3>1
    <3>2. CASE d # c
      BY <1>1, <3>2 DEF Inv, QueuesInv
    <3> QED BY <3>1, <3>2
  <2> QED BY <2>1, <2>2, <2>3 DEF QueuesInv
<1>7. SelectionsInv'
  <2>1. \A i \in Nat \ {0} : (Past(i)' => Past(i))
    BY <1>1, <1>2 DEF Past, WaylandOwner
  <2>2. \A i \in Nat \ {0} : (Asked(i)' <=> Asked(i)) /\ (Coming(i)' => Coming(i))
    BY <1>3 DEF Asked, Coming
  <2> QED BY <1>3, <2>1, <2>2 DEF Inv, SelectionsInv
<1>8. PipesInv'
  BY <1>1, <1>2 DEF Inv, PipesInv
<1>9. LooksInv'
  <2>1. ASSUME NEW d \in Convs, d # c PROVE Holds(d)'
    BY <1>1, <2>1, LooksSame DEF Inv, LooksInv
  <2>2. Holds(c)'
    <3>1. gen' \in Nat
      BY DEF TypeInv
    <3> QED BY <1>1, <1>2, <3>1 DEF Holds, NotListed
  <2> QED BY <2>1, <2>2 DEF LooksInv
<1>10. IsFiniteSet(Receiving)'
  <2>1. Receiving' \subseteq Receiving
    BY <1>1, <1>2 DEF Receiving
  <2> QED BY <2>1, FS_Subset DEF Inv
<1> QED BY <1>5, <1>6, <1>7, <1>8, <1>9, <1>10 DEF Inv

LEMMA RunsPublish ==
  ASSUME Inv, TypeInv', RunJob, Head(jobs).kind = "publish",
         socket' = Append(socket, Head(jobs)), UNCHANGED conv
  PROVE  Inv'
<1>1. /\ jobs \in Seq(JobType) /\ jobs # <<>> /\ jobs' = Tail(jobs) /\ socket \in Seq(JobType)
      /\ UNCHANGED <<items, owner, gen, comp, wire, pipe>>
  BY DEF Inv, TypeInv, RunJob, ownerVars
<1>2. PICK n \in Nat : Head(jobs) = Publication(n)
  BY <1>1, TailSet, JobKinds
<1>3. Publication(n) \in JobType
  BY JobKinds
<1>4. /\ ToSet(jobs) = {Publication(n)} \cup ToSet(jobs')
      /\ ToSet(socket') = ToSet(socket) \cup {Publication(n)}
  BY <1>1, <1>2, <1>3, TailSet, AppendSet
<1>5. Once(jobs') /\ (n # 0 => Publication(n) \notin ToSet(jobs'))
  <2>1. n # 0 => Publication(n) # Publication(0)
    BY JobKinds
  <2> QED BY <1>1, <1>2, <2>1, OnceTail DEF Inv, QueuesInv
<1>6. n # 0 => Publication(n) \notin ToSet(socket)
  <2>1. \A i \in Nat \ {0} : Publication(i) \in ToSet(jobs) => Publication(i) \notin ToSet(socket)
    BY DEF Inv, QueuesInv
  <2> QED BY <1>4, <2>1
<1>7. Once(socket')
  BY <1>1, <1>2, <1>3, <1>6, OnceAppend DEF Inv, QueuesInv
<1>8. \A i \in Nat : (Queued(Publication(i))' <=> Queued(Publication(i)))
  BY <1>4 DEF Queued
<1>9. QueuesInv'
  <2>1. \A c \in Convs : Reception(c) # Publication(n)
    BY JobKinds
  <2>2. \A i \in Nat : Publication(i) = Publication(n) => i = n
    BY JobKinds
  <2>3. \A i \in Nat \ {0} : Publication(i) \in ToSet(jobs') => Publication(i) \notin ToSet(socket')
    BY <1>4, <1>5, <2>2 DEF Inv, QueuesInv
  <2>4. \A c \in Convs : /\ Reception(c) \in ToSet(jobs') => Reception(c) \in ToSet(jobs)
                         /\ Reception(c) \in ToSet(socket') => Reception(c) \in ToSet(socket)
    BY <1>4, <2>1
  <2> QED BY <1>1, <1>5, <1>7, <2>3, <2>4 DEF Inv, QueuesInv, Once
<1>10. Copied'
  BY <1>1, <1>8 DEF Inv, Copied
<1>11. SelectionsInv'
  <2>1. \A i \in Nat \ {0} : (Past(i)' <=> Past(i)) /\ (Asked(i)' <=> Asked(i))
                             /\ (Coming(i)' <=> Coming(i))
    BY <1>1, <1>8 DEF Past, Asked, Coming, WaylandOwner
  <2> QED BY <1>1, <1>8, <2>1 DEF Inv, SelectionsInv
<1>12. PipesInv'
  BY <1>1, PipesSame DEF Inv
<1>13. LooksInv'
  BY <1>1, LooksSame DEF Inv, LooksInv
<1>14. IsFiniteSet(Receiving)'
  BY ReceivingSame DEF Inv
<1> QED BY <1>9, <1>10, <1>11, <1>12, <1>13, <1>14 DEF Inv

LEMMA StartsReceiving ==
  ASSUME Inv, TypeInv', NEW c \in Convs, jobs # <<>>, jobs' = Tail(jobs), Head(jobs) = Reception(c),
         offer_at(c), conv' = [conv EXCEPT ![c].step = "receiving", ![c].offer = owner.item],
         socket' = Append(socket, Reception(c)),
         UNCHANGED <<items, owner, gen, comp, wire, pipe>>
  PROVE  Inv'
<1>1. /\ jobs \in Seq(JobType) /\ socket \in Seq(JobType) /\ owner \in OwnerType
      /\ conv \in [Convs -> ConvType] /\ pipe \in [Convs -> PipeType]
      /\ items \in Seq([mimes : Mimes, size : Nat])
  BY DEF Inv, TypeInv
<1>2. Reception(c) \in JobType /\ Reception(c) # Publication(0)
  BY JobKinds
<1>3. /\ ToSet(jobs) = {Reception(c)} \cup ToSet(jobs')
      /\ ToSet(socket') = ToSet(socket) \cup {Reception(c)}
  BY <1>1, <1>2, TailSet, AppendSet
<1>4. Once(jobs') /\ Reception(c) \notin ToSet(jobs')
  BY <1>1, <1>2, OnceTail DEF Inv, QueuesInv
<1>5. conv[c].step = "posted" /\ pipe[c] = FreshPipe
  <2>1. conv[c].step = "posted"
    BY <1>3 DEF Inv, QueuesInv
  <2> QED BY <2>1 DEF Inv, QueuesInv
<1>6. Reception(c) \notin ToSet(socket)
  BY <1>5 DEF Inv, QueuesInv
<1>7. Once(socket')
  BY <1>1, <1>2, <1>6, OnceAppend DEF Inv, QueuesInv
<1>8. owner.item \in Nat \ {0} /\ owner = WaylandOwner(owner.item) /\ owner.item =< Len(items)
  BY <1>1, OwnerShapes DEF offer_at, Inv, Copied
<1>9. owner.item \in DOMAIN items /\ items[owner.item].size \in Nat
  <2>1. owner.item \in 1 .. Len(items) /\ DOMAIN items = 1 .. Len(items)
    BY <1>1, <1>8
  <2>2. items[owner.item] \in [mimes : Mimes, size : Nat]
    BY <1>1, <2>1, ElementOfSeq
  <2> QED BY <2>1, <2>2
<1>10. /\ \A d \in Convs : d # c => conv'[d] = conv[d]
       /\ conv'[c].step = "receiving" /\ conv'[c].offer = owner.item
       /\ conv'[c].listed = conv[c].listed /\ conv'[c].gen = conv[c].gen
       /\ conv'[c].mime = conv[c].mime
  <2>1. conv[c] \in ConvType
    BY <1>1
  <2> QED BY <1>1, <2>1 DEF ConvType
<1>11. \A i \in Nat : Queued(Publication(i))' <=> Queued(Publication(i))
  <2>1. \A i \in Nat : Publication(i) # Reception(c)
    BY JobKinds
  <2> QED BY <1>3, <2>1 DEF Queued
<1>12. Copied'
  BY <1>9, <1>10, <1>11 DEF Inv, Copied
<1>13. QueuesInv'
  <2>1. \A i \in Nat \ {0} : Publication(i) \in ToSet(jobs') => Publication(i) \notin ToSet(socket')
    <3>1. \A i \in Nat : Publication(i) # Reception(c)
      BY JobKinds
    <3> QED BY <1>3, <3>1 DEF Inv, QueuesInv
  <2>2. \A d \in Convs : d # c => Reception(d) # Reception(c)
    BY JobKinds
  <2>3. ASSUME NEW d \in Convs
        PROVE /\ Reception(d) \in ToSet(jobs') => conv'[d].step = "posted"
              /\ Reception(d) \in ToSet(socket') => conv'[d].step \in {"receiving", "refused"}
              /\ Reception(d) \in ToSet(socket') /\ conv'[d].step = "receiving" => pipe'[d] = FreshPipe
              /\ conv'[d].step \in {"unasked", "listed", "resolved", "posted"} => pipe'[d] = FreshPipe
    <3>1. CASE d = c
      BY <1>4, <1>5, <1>10, <3>1
    <3>2. CASE d # c
      BY <1>3, <1>10, <2>2, <3>2 DEF Inv, QueuesInv
    <3> QED BY <3>1, <3>2
  <2> QED BY <1>4, <1>7, <2>1, <2>3 DEF QueuesInv
<1>14. SelectionsInv'
  <2>1. \A i \in Nat \ {0} : (Past(i)' => Past(i))
    BY <1>8, <1>10 DEF Past, WaylandOwner
  <2>2. \A i \in Nat \ {0} : (Asked(i)' <=> Asked(i)) /\ (Coming(i)' <=> Coming(i))
    BY <1>11 DEF Asked, Coming
  <2> QED BY <1>11, <2>1, <2>2 DEF Inv, SelectionsInv
<1>15. PipesInv'
  <2>1. /\ ~pipe'[c].dropped /\ ~pipe'[c].ended /\ pipe'[c].sent = 0
        /\ 0 =< items[owner.item].size
    BY <1>5, <1>9 DEF FreshPipe
  <2>2. ASSUME NEW d \in Convs, conv'[d].step = "receiving"
        PROVE  /\ pipe'[d].dropped => comp' # conv'[d].offer /\ pipe'[d].ended /\ pipe'[d].sent = 0
               /\ ~pipe'[d].dropped => pipe'[d].sent =< items'[conv'[d].offer].size
               /\ ~pipe'[d].dropped /\ pipe'[d].ended =>
                    pipe'[d].sent = items'[conv'[d].offer].size
    <3>1. CASE d = c
      BY <1>10, <2>1, <3>1
    <3>2. CASE d # c
      BY <1>10, <2>2, <3>2, ZenonT(30) DEF Inv, PipesInv
    <3> QED BY <3>1, <3>2
  <2> QED BY <2>2 DEF PipesInv
<1>16. LooksInv'
  <2>1. ASSUME NEW d \in Convs, d # c PROVE Holds(d)'
    BY <1>10, <2>1, LooksSame DEF Inv, LooksInv
  <2>2. Holds(c)'
    <3>1. Has(owner.item, conv[c].mime) /\ conv[c].gen = gen /\ conv[c].listed =< conv[c].gen
          /\ conv[c].listed =< gen /\ conv[c].gen =< gen
      BY <1>5 DEF Inv, LooksInv, Holds, offer_at
    <3>2. Has(conv[c].offer, conv[c].mime)'
      BY <1>10, <3>1 DEF Has
    <3> QED BY <1>8, <1>10, <3>1, <3>2 DEF Holds
  <2> QED BY <2>1, <2>2 DEF LooksInv
<1>17. IsFiniteSet(Receiving)'
  <2>1. Receiving' = Receiving \cup {c}
    BY <1>10 DEF Receiving
  <2> QED BY <2>1, FS_AddElement DEF Inv
<1> QED BY <1>12, <1>13, <1>14, <1>15, <1>16, <1>17 DEF Inv

LEMMA RunJobStep == Inv /\ RunJob /\ TypeInv' => Inv'
<1> SUFFICES ASSUME Inv, RunJob, TypeInv' PROVE Inv'
  OBVIOUS
<1>1. /\ jobs \in Seq(JobType) /\ jobs # <<>> /\ jobs' = Tail(jobs)
      /\ UNCHANGED <<items, owner, gen, comp, wire, pipe>>
  BY DEF Inv, TypeInv, RunJob, ownerVars
<1>2. Head(jobs) \in JobType
  BY <1>1, TailSet
<1>3. CASE Head(jobs).kind = "publish" /\ socket' = Append(socket, Head(jobs)) /\ UNCHANGED conv
  BY <1>3, RunsPublish
<1>4. CASE Head(jobs).kind = "receive" /\ start_receive(Head(jobs).conv)
  <2>1. PICK c \in Convs : Head(jobs) = Reception(c) /\ start_receive(c)
    BY <1>2, <1>4, JobKinds
  <2>2. CASE /\ offer_at(c) /\ socket' = Append(socket, Reception(c))
             /\ conv' = [conv EXCEPT ![c].step = "receiving", ![c].offer = owner.item]
    BY <1>1, <2>1, <2>2, StartsReceiving
  <2>3. CASE conv' = [conv EXCEPT ![c] = Answered("refused")] /\ UNCHANGED socket
    <3>1. Reception(c) # Publication(0)
      BY JobKinds
    <3>2. ToSet(jobs) = {Reception(c)} \cup ToSet(jobs')
      BY <1>1, <2>1, TailSet
    <3>3. Once(jobs') /\ Reception(c) \notin ToSet(jobs')
      BY <1>1, <2>1, <3>1, OnceTail DEF Inv, QueuesInv
    <3> QED BY <1>1, <2>3, <3>2, <3>3, AnswerStep
  <2> QED BY <2>1, <2>2, <2>3 DEF start_receive
<1> QED BY <1>3, <1>4 DEF RunJob

-----------------------------------------------------------------------------
(* The X threads, and the end of a pipe.                                   *)

\* A look is taken, and nothing else moves but the job it may end in.
LEMMA LookStep ==
  ASSUME Inv, TypeInv', NEW c \in Convs, \A d \in Convs : d # c => conv'[d] = conv[d],
         conv[c].step \in {"unasked", "listed", "resolved"},
         conv'[c].step \in {"listed", "resolved", "posted"},
         \/ jobs' = jobs
         \/ jobs' = Append(jobs, Reception(c)) /\ conv'[c].step = "posted",
         UNCHANGED <<items, owner, gen, comp, wire, socket, pipe>>,
         Holds(c)'
  PROVE  Inv'
<1>1. Reception(c) \in JobType /\ jobs \in Seq(JobType)
  BY JobKinds DEF Inv, TypeInv
<1>2. /\ Reception(c) \notin ToSet(jobs) /\ Reception(c) \notin ToSet(socket)
      /\ pipe[c] = FreshPipe
  BY DEF Inv, QueuesInv
<1>3. /\ Once(jobs') /\ (Reception(c) \in ToSet(jobs') => conv'[c].step = "posted")
      /\ \A j : j \in ToSet(jobs') => j \in ToSet(jobs) \/ j = Reception(c)
      /\ ToSet(jobs) \subseteq ToSet(jobs')
  <2>1. CASE jobs' = jobs
    BY <1>2, <2>1 DEF Inv, QueuesInv, Once
  <2>2. CASE jobs' = Append(jobs, Reception(c)) /\ conv'[c].step = "posted"
    <3>1. ToSet(jobs') = ToSet(jobs) \cup {Reception(c)}
      BY <1>1, <2>2, AppendSet
    <3>2. Once(jobs')
      BY <1>1, <1>2, <2>2, OnceAppend DEF Inv, QueuesInv
    <3> QED BY <2>2, <3>1, <3>2
  <2> QED BY <2>1, <2>2
<1>4. \A i \in Nat : /\ Publication(i) \in ToSet(jobs') <=> Publication(i) \in ToSet(jobs)
                     /\ Queued(Publication(i))' <=> Queued(Publication(i))
  <2>1. \A i \in Nat : Publication(i) # Reception(c)
    BY JobKinds
  <2> QED BY <1>3, <2>1 DEF Queued
<1>5. Copied'
  BY <1>4 DEF Inv, Copied
<1>6. QueuesInv'
  <2>1. \A d \in Convs : d # c => Reception(d) # Reception(c)
    BY JobKinds
  <2>2. ASSUME NEW d \in Convs
        PROVE /\ Reception(d) \in ToSet(jobs') => conv'[d].step = "posted"
              /\ Reception(d) \in ToSet(socket') => conv'[d].step \in {"receiving", "refused"}
              /\ Reception(d) \in ToSet(socket') /\ conv'[d].step = "receiving" => pipe'[d] = FreshPipe
              /\ conv'[d].step \in {"unasked", "listed", "resolved", "posted"} => pipe'[d] = FreshPipe
    <3>1. CASE d = c
      BY <1>2, <1>3, <3>1
    <3>2. CASE d # c
      BY <1>3, <2>1, <3>2 DEF Inv, QueuesInv
    <3> QED BY <3>1, <3>2
  <2>3. Once(socket')
    BY DEF Inv, QueuesInv, Once
  <2> QED BY <1>3, <1>4, <2>2, <2>3 DEF Inv, QueuesInv
<1>7. SelectionsInv'
  <2>1. \A i \in Nat \ {0} : (Past(i)' => Past(i)) /\ (Asked(i)' <=> Asked(i))
                             /\ (Coming(i)' <=> Coming(i))
    BY <1>4 DEF Past, Asked, Coming, WaylandOwner
  <2> QED BY <1>4, <2>1 DEF Inv, SelectionsInv
<1>8. PipesInv'
  BY DEF Inv, PipesInv
<1>9. LooksInv'
  BY LooksSame DEF Inv, LooksInv
<1>10. IsFiniteSet(Receiving)'
  <2>1. Receiving' = Receiving
    BY DEF Receiving
  <2> QED BY <2>1 DEF Inv
<1> QED BY <1>5, <1>6, <1>7, <1>8, <1>9, <1>10 DEF Inv

LEMMA ConvertibleType ==
  ASSUME TypeInv, Copied
  PROVE  /\ convertible \in Seq(Names)
         /\ \A target : resolve(target, convertible) # NoMime =>
              /\ owner.kind # "none" /\ Has(owner.item, resolve(target, convertible))
              /\ owner.kind = "x" => owner.value = "here"
<1>1. owner \in OwnerType /\ items \in Seq([mimes : Mimes, size : Nat])
  BY DEF TypeInv
<1>2. <<>> \in Seq(Names) /\ ToSet(<<>>) = {}
  BY EmptySeq DEF ToSet
<1>3. owner.kind # "none" => items[owner.item].mimes \in Seq(Names)
  <2> SUFFICES ASSUME owner.kind # "none" PROVE items[owner.item] \in [mimes : Mimes, size : Nat]
    BY DEF Mimes
  <2>1. owner.item \in Nat \ {0} /\ owner.item =< Len(items) /\ Len(items) \in Nat
    BY <1>1, OwnerShapes, LenProperties DEF Copied
  <2>2. owner.item \in 1 .. Len(items)
    BY <2>1
  <2> QED BY <1>1, <2>2, ElementOfSeq
<1>4. \/ convertible = <<>>
      \/ /\ owner.kind # "none" /\ convertible = items[owner.item].mimes
         /\ owner.kind = "x" => owner.value = "here"
  BY <1>1, OwnerShapes DEF convertible, Copied
<1>5. convertible \in Seq(Names)
  BY <1>2, <1>3, <1>4
<1>6. ASSUME NEW target, resolve(target, convertible) # NoMime
      PROVE  /\ owner.kind # "none" /\ Has(owner.item, resolve(target, convertible))
             /\ owner.kind = "x" => owner.value = "here"
  <2>1. resolve(target, convertible) \in ToSet(convertible)
    BY <1>5, <1>6, ResolveFits
  <2>2. convertible # <<>>
    BY <1>2, <2>1
  <2> QED BY <1>4, <2>1, <2>2 DEF Has
<1> QED BY <1>5, <1>6

LEMMA ListsStep == \A c \in Convs : Inv /\ Lists(c) /\ TypeInv' => Inv'
<1> SUFFICES ASSUME NEW c \in Convs, Inv, Lists(c), TypeInv' PROVE Inv'
  OBVIOUS
<1>1. /\ conv \in [Convs -> ConvType] /\ conv[c] \in ConvType /\ gen \in Nat
      /\ conv[c].step = "unasked"
  BY DEF Inv, TypeInv, Lists
<1>2. UNCHANGED <<items, owner, gen, comp, wire, socket, jobs, pipe>>
  BY DEF Lists, ownerVars
<1>3. /\ \A d \in Convs : d # c => conv'[d] = conv[d]
      /\ conv'[c].step = "listed" /\ conv'[c].target = conv[c].target /\ conv'[c].gen = conv[c].gen
      /\ \/ conv'[c].listed = gen /\ conv[c].target \in advertised(convertible)
         \/ conv'[c].listed = NotListed
  BY <1>1 DEF Lists, ConvType
<1>4. convertible' = convertible
  BY <1>2 DEF convertible
<1>5. Holds(c)'
  <2>1. conv[c].gen =< gen
    BY DEF Inv, LooksInv, Holds
  <2>2. NotListed =< gen /\ NotListed # gen /\ gen =< gen
    BY <1>1 DEF NotListed
  <2> QED BY <1>2, <1>3, <1>4, <2>1, <2>2 DEF Holds
<1> QED BY <1>1, <1>2, <1>3, <1>5, LookStep

LEMMA ResolvesStep == \A c \in Convs : Inv /\ Resolves(c) /\ TypeInv' => Inv'
<1> SUFFICES ASSUME NEW c \in Convs, Inv, Resolves(c), TypeInv' PROVE Inv'
  OBVIOUS
<1> DEFINE mime == resolve(conv[c].target, convertible)
<1>1. /\ conv \in [Convs -> ConvType] /\ conv[c] \in ConvType /\ gen \in Nat
      /\ conv[c].step \in {"unasked", "listed"}
  BY DEF Inv, TypeInv, Resolves
<1>2. UNCHANGED <<items, owner, gen, comp, wire, socket, jobs, pipe>>
  BY DEF Resolves, ownerVars
<1>3. Reception(c) \notin ToSet(jobs) /\ Reception(c) \notin ToSet(socket) /\ Once(jobs)
  BY <1>1 DEF Inv, QueuesInv
<1>4. mime # NoMime => /\ owner.kind # "none" /\ Has(owner.item, mime)
                       /\ owner.kind = "x" => owner.value = "here"
  BY ConvertibleType DEF Inv
<1>5. \/ conv' = [conv EXCEPT ![c] = Answered("refused")]
      \/ /\ mime # NoMime
         /\ conv' = [conv EXCEPT ![c] = [@ EXCEPT !.step = "resolved", !.mime = mime, !.gen = gen]]
  BY DEF Resolves
<1> HIDE DEF mime
<1>6. CASE conv' = [conv EXCEPT ![c] = Answered("refused")]
  <2>1. Once(jobs') /\ ToSet(jobs') \subseteq ToSet(jobs)
    BY <1>2, <1>3
  <2> QED BY <1>2, <1>3, <1>6, <2>1, AnswerStep
<1>7. CASE /\ mime # NoMime
           /\ conv' = [conv EXCEPT ![c] = [@ EXCEPT !.step = "resolved", !.mime = mime, !.gen = gen]]
  <2>1. /\ \A d \in Convs : d # c => conv'[d] = conv[d]
        /\ conv'[c].step = "resolved" /\ conv'[c].mime = mime /\ conv'[c].gen = gen
        /\ conv'[c].listed = conv[c].listed
    BY <1>1, <1>7 DEF ConvType
  <2>2. Holds(c)'
    <3>1. conv[c].listed =< gen /\ gen =< gen
      BY <1>1 DEF Inv, LooksInv, Holds
    <3>2. Has(owner.item, conv[c].mime)'
      BY <1>2, <1>4, <1>7, <2>1 DEF Has
    <3> QED BY <1>2, <1>4, <1>7, <2>1, <3>1, <3>2 DEF Holds
  <2> QED BY <1>1, <1>2, <2>1, <2>2, LookStep
<1> QED BY <1>5, <1>6, <1>7

LEMMA ValueStep == \A c \in Convs : Inv /\ Value(c) /\ TypeInv' => Inv'
<1> SUFFICES ASSUME NEW c \in Convs, Inv, Value(c), TypeInv' PROVE Inv'
  OBVIOUS
<1>1. /\ conv \in [Convs -> ConvType] /\ conv[c] \in ConvType /\ gen \in Nat
      /\ conv[c].step = "resolved"
  BY DEF Inv, TypeInv, Value
<1>2. UNCHANGED <<items, owner, gen, comp, wire, socket, pipe>>
  BY DEF Value, ownerVars
<1>3. Reception(c) \notin ToSet(jobs) /\ Reception(c) \notin ToSet(socket) /\ Once(jobs)
  BY <1>1 DEF Inv, QueuesInv
<1>4. ASSUME NEW how \in {"refused", "served"}, UNCHANGED jobs,
             conv' = [conv EXCEPT ![c] = Answered(how)]
      PROVE  Inv'
  <2>1. Once(jobs') /\ ToSet(jobs') \subseteq ToSet(jobs) /\ Reception(c) \notin ToSet(jobs')
    BY <1>3, <1>4
  <2> QED BY <1>2, <1>3, <1>4, <2>1, AnswerStep
<1>5. CASE /\ owner.kind = "wayland" /\ conv' = [conv EXCEPT ![c].step = "posted"]
           /\ jobs' = Append(jobs, Reception(c))
  <2>1. /\ \A d \in Convs : d # c => conv'[d] = conv[d]
        /\ conv'[c].step = "posted" /\ conv'[c].mime = conv[c].mime /\ conv'[c].gen = conv[c].gen
        /\ conv'[c].listed = conv[c].listed
    BY <1>1, <1>5 DEF ConvType
  <2>2. Holds(c)'
    <3>1. conv[c].gen = gen => Has(owner.item, conv[c].mime)'
      BY <1>1, <1>2, <2>1 DEF Inv, LooksInv, Holds, Has
    <3> QED BY <1>1, <1>2, <1>5, <2>1, <3>1 DEF Inv, LooksInv, Holds
  <2> QED BY <1>1, <1>2, <1>5, <2>1, <2>2, LookStep
<1> QED BY <1>4, <1>5 DEF Value

LEMMA AppWritesStep == \A c \in Convs : Inv /\ AppWrites(c) /\ TypeInv' => Inv'
<1> SUFFICES ASSUME NEW c \in Convs, Inv, AppWrites(c), TypeInv' PROVE Inv'
  OBVIOUS
<1> DEFINE size == items[conv[c].offer].size
<1>1. UNCHANGED <<items, owner, gen, comp, wire, socket, jobs, conv>>
  BY DEF AppWrites, ownerVars
<1>2. /\ conv[c].step = "receiving" /\ ~pipe[c].ended /\ Reception(c) \notin ToSet(socket)
      /\ pipe \in [Convs -> PipeType] /\ pipe[c] \in PipeType /\ pipe[c].sent \in Nat
  BY DEF AppWrites, Writable, Inv, TypeInv, PipeType
<1>3. size \in Nat
  <2>1. conv[c].offer \in DOMAIN items /\ items \in Seq([mimes : Mimes, size : Nat])
    BY <1>2 DEF Inv, Copied, TypeInv
  <2>2. conv[c].offer \in 1 .. Len(items)
    BY <2>1
  <2>3. items[conv[c].offer] \in [mimes : Mimes, size : Nat]
    BY <2>1, <2>2, ElementOfSeq
  <2> QED BY <2>3
<1>4. ~pipe[c].dropped /\ pipe[c].sent =< size
  BY <1>2 DEF Inv, PipesInv
<1>5. \A d \in Convs : d # c => pipe'[d] = pipe[d]
  BY <1>2 DEF AppWrites
<1>6. /\ ~pipe'[c].dropped /\ pipe'[c].sent =< size
      /\ pipe'[c].ended => pipe'[c].sent = size
  <2>1. CASE pipe[c].sent < size
    <3>1. pipe' = [pipe EXCEPT ![c].sent = @ + 1]
      BY <2>1 DEF AppWrites
    <3>2. /\ pipe'[c].sent = pipe[c].sent + 1
          /\ pipe'[c].dropped = pipe[c].dropped /\ pipe'[c].ended = pipe[c].ended
      BY <1>2, <3>1 DEF PipeType
    <3> QED BY <1>2, <1>3, <1>4, <2>1, <3>2
  <2>2. CASE ~(pipe[c].sent < size)
    <3>1. pipe' = [pipe EXCEPT ![c].ended = TRUE]
      BY <2>2 DEF AppWrites
    <3>2. pipe'[c].sent = pipe[c].sent /\ pipe'[c].dropped = pipe[c].dropped
      BY <1>2, <3>1 DEF PipeType
    <3> QED BY <1>2, <1>3, <1>4, <2>2, <3>2
  <2> QED BY <2>1, <2>2
<1>7. Copied'
  BY <1>1 DEF Inv, Copied, Queued
<1>8. QueuesInv'
  BY <1>1, <1>2, <1>5 DEF Inv, QueuesInv, Once
<1>9. SelectionsInv'
  BY <1>1 DEF Inv, SelectionsInv, Past, Coming, Asked, Queued, WaylandOwner
<1>10. PipesInv'
  BY <1>1, <1>5, <1>6 DEF Inv, PipesInv
<1>11. LooksInv'
  BY <1>1, LooksSame DEF Inv, LooksInv
<1>12. IsFiniteSet(Receiving)'
  BY <1>1, ReceivingSame DEF Inv
<1> QED BY <1>7, <1>8, <1>9, <1>10, <1>11, <1>12 DEF Inv

LEMMA FinishStep == \A c \in Convs : Inv /\ Finish(c) /\ TypeInv' => Inv'
<1> SUFFICES ASSUME NEW c \in Convs, Inv, Finish(c), TypeInv' PROVE Inv'
  OBVIOUS
<1>1. UNCHANGED <<items, owner, gen, comp, wire, socket, jobs>>
  BY DEF Finish, ownerVars
<1>2. conv[c].step = "receiving" /\ pipe' = [pipe EXCEPT ![c] = FreshPipe]
  BY DEF Finish, Receiving
<1>3. PICK end \in ReadEnds(c) :
        conv' = [conv EXCEPT ![c] = Answered(IF Delivers(c, end) THEN "delivered" ELSE "refused")]
  BY DEF Finish
<1>4. Reception(c) \notin ToSet(jobs) /\ Once(jobs)
  BY <1>2 DEF Inv, QueuesInv
<1>5. ASSUME Reception(c) \in ToSet(socket) PROVE ~Delivers(c, end)
  <2>1. pipe[c] = FreshPipe
    BY <1>2, <1>5 DEF Inv, QueuesInv
  <2>2. ~pipe[c].ended
    BY <2>1 DEF FreshPipe
  <2>3. end # "Eof"
    BY <2>2 DEF ReadEnds
  <2> QED BY <2>3 DEF Delivers
<1>6. PICK how \in {"refused", "served", "delivered"} :
        /\ conv' = [conv EXCEPT ![c] = Answered(how)]
        /\ Reception(c) \in ToSet(socket) => how = "refused"
  <2>1. CASE Delivers(c, end)
    BY <1>3, <1>5, <2>1
  <2>2. CASE ~Delivers(c, end)
    BY <1>3, <2>2
  <2> QED BY <2>1, <2>2
<1>7. Once(jobs') /\ ToSet(jobs') \subseteq ToSet(jobs) /\ Reception(c) \notin ToSet(jobs')
  <2>1. jobs' = jobs
    BY <1>1
  <2> QED BY <1>4, <2>1
<1>8. UNCHANGED <<items, owner, gen, comp, wire, socket>>
  BY <1>1
<1>9. pipe' = pipe \/ pipe' = [pipe EXCEPT ![c] = FreshPipe]
  BY <1>2
<1> QED BY <1>6, <1>7, <1>8, <1>9, AnswerStep, Zenon

-----------------------------------------------------------------------------
(* The theorems.                                                           *)

LEMMA InitInv == Init => Inv
<1> SUFFICES ASSUME Init PROVE Inv
  OBVIOUS
<1>1. /\ items = <<>> /\ owner = NoOwner /\ owner.kind = "none" /\ gen = 0 /\ echoes = <<>>
      /\ shown = FALSE /\ comp = 0 /\ socket = <<>> /\ wire = <<>> /\ jobs = <<>>
      /\ pipe = [c \in Convs |-> FreshPipe]
  BY DEF Init, NoOwner
<1>2. conv \in [Convs -> {Fresh(target) : target \in Targets}]
  BY DEF Init
<1>3. \A c \in Convs : /\ conv[c] \in ConvType /\ conv[c].step = "unasked"
                       /\ conv[c].listed = NotListed /\ conv[c].gen = 0
  <2> TAKE c \in Convs
  <2>1. PICK target \in Targets : conv[c] = Fresh(target)
    BY <1>2
  <2>2. target \in Names /\ NoMime \in Names
    BY NamesHeld DEF Names
  <2> QED BY <2>1, <2>2 DEF Fresh, ConvType, Steps, NotListed
<1>4. ToSet(<<>>) = {}
  BY DEF ToSet
<1>5. TypeInv
  <2>1. conv \in [Convs -> ConvType]
    BY <1>2, <1>3
  <2>2. pipe \in [Convs -> PipeType]
    BY <1>1 DEF PipeType, FreshPipe
  <2>3. owner \in OwnerType
    BY <1>1, OwnerShapes
  <2> QED BY <1>1, <2>1, <2>2, <2>3, EmptySeq DEF TypeInv
<1>6. Copied
  BY <1>1, <1>3, <1>4 DEF Copied, Queued
<1>7. QueuesInv
  BY <1>1, <1>3, <1>4 DEF QueuesInv, Once
<1>8. SelectionsInv
  BY <1>1, <1>4 DEF SelectionsInv, Coming, Asked, Queued
<1>9. PipesInv
  BY <1>3 DEF PipesInv
<1>10. LooksInv
  BY <1>1, <1>3 DEF LooksInv, Holds, NotListed
<1>11. IsFiniteSet(Receiving)
  <2>1. Receiving = {}
    BY <1>3 DEF Receiving
  <2> QED BY <2>1, FS_EmptySet
<1> QED BY <1>5, <1>6, <1>7, <1>8, <1>9, <1>10, <1>11 DEF Inv

LEMMA StepInv == Inv /\ [Next]_vars => Inv'
<1> SUFFICES ASSUME Inv, [Next]_vars PROVE Inv'
  OBVIOUS
<1>1. TypeInv'
  BY TypeStep DEF Inv
<1>2. CASE UNCHANGED vars
  BY <1>2 DEF vars, ownerVars, Inv, TypeInv, Copied, Queued, QueuesInv, Once, SelectionsInv, Past,
              Coming, Asked, PipesInv, LooksInv, Holds, convertible, Has, Receiving
<1>3. CASE Next
  BY <1>1, <1>3, XTookStep, XFetchedStep, XFetchFailedStep, XGoneStep, AppCopiesStep,
     AppClearsStep, CompositorStep, AnnouncedStep, RunJobStep, ListsStep, ResolvesStep,
     ValueStep, AppWritesStep, FinishStep DEF Next
<1> QED BY <1>2, <1>3

\* The invariant holds throughout: what is spoken of has been copied, no
\* selection comes back once it has been replaced, and what a conversion saw at
\* the generation it noted is still so while that is the selection's.
THEOREM InvAlways == Spec => []Inv
<1> QED BY InitInv, StepInv, PTL DEF Spec

\* A conversion changes by a step of its own.
LEMMA ConvMoves ==
  ASSUME Inv, [Next]_vars, NEW c \in Convs, conv'[c] # conv[c]
  PROVE  \/ Lists(c) \/ Resolves(c) \/ Value(c) \/ Finish(c)
         \/ conv[c].step = "posted" /\ start_receive(c)
<1>1. conv \in [Convs -> ConvType] /\ jobs \in Seq(JobType)
  BY DEF Inv, TypeInv
<1>2. CASE XTook \/ XFetched \/ XFetchFailed \/ XGone \/ AppCopies \/ AppClears
           \/ CompositorHandles \/ Announced \/ UNCHANGED vars
  BY <1>2 DEF XTook, XFetched, XFetchFailed, XGone, AppCopies, AppClears, CompositorHandles,
              Announced, vars
<1>3. CASE RunJob
  <2>1. Head(jobs) \in JobType /\ ToSet(jobs) = {Head(jobs)} \cup ToSet(Tail(jobs))
    BY <1>1, <1>3, TailSet DEF RunJob
  <2>2. PICK d \in Convs : Head(jobs) = Reception(d) /\ start_receive(d)
    BY <1>3, <2>1, JobKinds DEF RunJob
  <2>3. conv[d].step = "posted"
    BY <2>1, <2>2 DEF Inv, QueuesInv
  <2>4. d = c
    BY <1>1, <2>2 DEF start_receive
  <2> QED BY <2>2, <2>3, <2>4
<1>4. ASSUME NEW d \in Convs, Lists(d) \/ Resolves(d) \/ Value(d) \/ Finish(d) PROVE d = c
  BY <1>1, <1>4 DEF Lists, Resolves, Value, Finish
<1>5. ASSUME NEW d \in Convs, AppWrites(d) PROVE FALSE
  BY <1>5 DEF AppWrites
<1> QED BY <1>2, <1>3, <1>4, <1>5 DEF Next

\* A conversion answered with a value is answered with all of one item that has
\* the mime type its target was resolved to (conn.rs, fill_selection;
\* data_control, PendingReceive::finish).
THEOREM ValueAlwaysFits == Spec => ValueFits
<1> DEFINE Fits(c) ==
      /\ Moves(c, {"resolved"}, "served") /\ gen = conv[c].gen
           => Has(owner.item, conv[c].mime)
      /\ Moves(c, {"receiving"}, "delivered")
           => /\ Has(conv[c].offer, conv[c].mime)
              /\ pipe[c].dropped => wire # <<>>
              /\ ~pipe[c].dropped => pipe[c].ended /\ pipe[c].sent = items[conv[c].offer].size
<1>1. ASSUME Inv, [Next]_vars, NEW c \in Convs PROVE Fits(c)
  <2>1. CASE Moves(c, {"resolved"}, "served") /\ gen = conv[c].gen
    <3>1. conv[c].step = "resolved"
      BY <2>1 DEF Moves
    <3> QED BY <1>1, <2>1, <3>1 DEF Inv, LooksInv, Holds, Moves
  <2>2. CASE Moves(c, {"receiving"}, "delivered")
    <3>1. conv[c].step = "receiving" /\ conv'[c].step = "delivered" /\ conv'[c] # conv[c]
      BY <2>2 DEF Moves
    <3>2. Finish(c)
      BY <1>1, <3>1, ConvMoves DEF Lists, Resolves, Value
    <3>3. PICK end \in ReadEnds(c) :
            conv' = [conv EXCEPT ![c] = Answered(IF Delivers(c, end) THEN "delivered" ELSE "refused")]
      BY <3>2 DEF Finish
    <3>4. Delivers(c, end)
      <4>1. conv'[c] = Answered(IF Delivers(c, end) THEN "delivered" ELSE "refused")
        BY <1>1, <3>3 DEF Inv, TypeInv
      <4> QED BY <3>1, <4>1, AnsweredType
    <3>5. end = "Eof" /\ pipe[c].ended
      BY <3>3, <3>4 DEF Delivers, ReadEnds
    <3>6. Has(conv[c].offer, conv[c].mime)
      BY <1>1, <3>1 DEF Inv, LooksInv, Holds
    <3>7. ~pipe[c].dropped => pipe[c].sent = items[conv[c].offer].size
      BY <1>1, <3>1, <3>5 DEF Inv, PipesInv
    <3>8. ASSUME pipe[c].dropped PROVE wire # <<>>
      <4>1. comp # conv[c].offer /\ pipe[c].sent = 0
        BY <1>1, <3>1, <3>8 DEF Inv, PipesInv
      <4>2. is_current(c)
        BY <3>4, <4>1 DEF Delivers
      <4> QED BY <1>1, <4>1, <4>2 DEF is_current, Inv, SelectionsInv
    <3> QED BY <3>1, <3>5, <3>6, <3>7, <3>8 DEF Moves
  <2> QED BY <2>1, <2>2
<1>2. Inv /\ [Next]_vars => \A c \in Convs : Fits(c)
  BY <1>1
<1> QED BY <1>2, InvAlways, PTL DEF Spec, ValueFits

\* What TARGETS listed can be converted while the selection has not changed
\* hands: it is refused for want of room or for an app's slowness or excess, and
\* for nothing else (targets.rs, advertised and resolve, "in one table").
THEOREM ListedAlwaysServed == Spec => ListedIsServed
<1> DEFINE Served(c) ==
      /\ Moves(c, {"listed", "resolved"}, "refused") => ~Kept(c)
      /\ Moves(c, {"posted"}, "refused") /\ Kept(c) => Cardinality(Receiving) >= MaxReceives
      /\ Moves(c, {"receiving"}, "refused") /\ Kept(c)
           => ~pipe[c].ended \/ pipe[c].sent > MaxBytes
<1>1. ASSUME Inv, [Next]_vars, NEW c \in Convs PROVE Served(c)
  <2>0. /\ conv \in [Convs -> ConvType] /\ conv[c] \in ConvType /\ gen \in Nat
        /\ conv[c].gen \in Nat /\ conv[c].listed \in Nat \cup {NotListed}
        /\ pipe[c].sent \in Nat
    BY <1>1 DEF Inv, TypeInv, ConvType, PipeType
  <2>1. ASSUME Kept(c), conv[c].step \in {"resolved", "posted", "receiving"}
        PROVE  conv[c].gen = gen
    <3>1. conv[c].listed = gen /\ conv[c].listed =< conv[c].gen /\ conv[c].gen =< gen
      BY <1>1, <2>1 DEF Kept, Inv, LooksInv, Holds
    <3> QED BY <2>0, <3>1
  <2>2. ASSUME Moves(c, {"listed", "resolved"}, "refused"), Kept(c) PROVE FALSE
    <3>1. conv[c].step \in {"listed", "resolved"} /\ conv'[c].step = "refused" /\ conv'[c] # conv[c]
      BY <2>2 DEF Moves
    <3>2. Resolves(c) \/ Value(c)
      BY <1>1, <3>1, ConvMoves DEF Lists, Finish, Receiving
    <3>3. CASE Resolves(c)
      <4>1. conv[c].step = "listed" /\ conv[c].listed = gen
        BY <2>2, <3>1, <3>3 DEF Resolves, Kept
      <4>2. conv[c].target \in advertised(convertible)
        BY <1>1, <4>1 DEF Inv, LooksInv, Holds
      <4>3. resolve(conv[c].target, convertible) # NoMime
        BY <1>1, <4>2, ConvertibleType, ListedIsResolved DEF Inv
      <4>4. conv'[c].step = "resolved"
        BY <2>0, <3>3, <4>3 DEF Resolves, ConvType
      <4> QED BY <3>1, <4>4
    <3>4. CASE Value(c)
      <4>1. conv[c].step = "resolved"
        BY <3>4 DEF Value
      <4>2. owner.kind # "none" /\ (owner.kind = "x" => owner.value = "here")
        BY <1>1, <2>1, <2>2, <4>1 DEF Inv, LooksInv, Holds
      <4>3. conv'[c].step # "refused"
        BY <2>0, <3>4, <4>2, AnsweredType DEF Value, ConvType
      <4> QED BY <3>1, <4>3
    <3> QED BY <3>2, <3>3, <3>4
  <2>3. ASSUME Moves(c, {"posted"}, "refused"), Kept(c) PROVE Cardinality(Receiving) >= MaxReceives
    <3>1. conv[c].step = "posted" /\ conv'[c].step = "refused" /\ conv'[c] # conv[c]
      BY <2>3 DEF Moves
    <3>2. start_receive(c)
      BY <1>1, <3>1, ConvMoves DEF Lists, Resolves, Value, Finish, Receiving
    <3>3. offer_at(c)
      BY <1>1, <2>1, <2>3, <3>1 DEF offer_at, Inv, LooksInv, Holds
    <3>4. ~(Cardinality(Receiving) < MaxReceives)
      <4> SUFFICES ASSUME Cardinality(Receiving) < MaxReceives PROVE FALSE
        OBVIOUS
      <4>1. conv' = [conv EXCEPT ![c].step = "receiving", ![c].offer = owner.item]
        BY <3>2, <3>3 DEF start_receive
      <4>2. conv'[c].step = "receiving"
        BY <2>0, <4>1 DEF ConvType
      <4> QED BY <3>1, <4>2
    <3>5. Cardinality(Receiving) \in Nat /\ MaxReceives \in Nat
      BY <1>1, FS_CardinalityType, ServingAssumption DEF Inv
    <3> QED BY <3>4, <3>5
  <2>4. ASSUME Moves(c, {"receiving"}, "refused"), Kept(c)
        PROVE  ~pipe[c].ended \/ pipe[c].sent > MaxBytes
    <3>1. conv[c].step = "receiving" /\ conv'[c].step = "refused" /\ conv'[c] # conv[c]
      BY <2>4 DEF Moves
    <3>2. Finish(c)
      BY <1>1, <3>1, ConvMoves DEF Lists, Resolves, Value
    <3>3. PICK end \in ReadEnds(c) :
            conv' = [conv EXCEPT ![c] = Answered(IF Delivers(c, end) THEN "delivered" ELSE "refused")]
      BY <3>2 DEF Finish
    <3>4. ~Delivers(c, end)
      <4>1. conv'[c] = Answered(IF Delivers(c, end) THEN "delivered" ELSE "refused")
        BY <2>0, <3>3
      <4> QED BY <3>1, <4>1, AnsweredType
    <3>5. owner = WaylandOwner(conv[c].offer)
      BY <1>1, <2>1, <2>4, <3>1 DEF Inv, LooksInv, Holds
    <3>6. is_current(c)
      BY <3>5 DEF is_current, WaylandOwner
    <3>7. end # "Eof"
      BY <3>4, <3>6 DEF Delivers
    <3> QED BY <3>3, <3>7 DEF ReadEnds
  <2> QED BY <2>2, <2>3, <2>4
<1>2. Inv /\ [Next]_vars => \A c \in Convs : Served(c)
  BY <1>1
<1> QED BY <1>2, InvAlways, PTL DEF Spec, ListedIsServed

=============================================================================

-------------------------- MODULE ConnectionProofs --------------------------
(***************************************************************************)
(* What is proved of the traffic of X clients' connections: first of the  *)
(* selection fetches, then of the outbox.                                 *)
(*                                                                        *)
(* No fetch is forgotten, resolved twice, refused for another or given    *)
(* the answer of another, for any selections, ring, table and number of   *)
(* fetches.  The invariant is about the newest fetch on each property:    *)
(* the table, the chunked receives and what lies on the properties are    *)
(* all of the newest, since start_fetch clears away the rest; and a       *)
(* client that is not late by a whole ring speaks for the newest too.     *)
(*                                                                        *)
(* A client takes no message for another, for any number of sequence      *)
(* numbers, any cap and any connection, as long as fewer than half of the *)
(* numbers go by between two answers that are due.  The invariant follows *)
(* the messages from the one read last, through the writer's hand and the *)
(* queue, to last_seq: each is about a request not before that of the     *)
(* message ahead of it, and less than half of the numbers after it.       *)
(***************************************************************************)
EXTENDS SelectionFetch, Outbox, TLAPS


-----------------------------------------------------------------------------
(* Arithmetic of the ring.                                                *)

\* Numbers less than a ring apart are on different places of it.
LEMMA RingApart ==
  ASSUME NEW f \in Nat, NEW g \in Nat, f < g, g < f + Ring
  PROVE  f % Ring # g % Ring
<1> SUFFICES ASSUME f % Ring = g % Ring PROVE FALSE
  OBVIOUS
<1> DEFINE a == f \div Ring
           b == g \div Ring
           r == f % Ring
<1>1. /\ a \in Int /\ b \in Int /\ r \in Int
      /\ f = Ring * a + r /\ g = Ring * b + r
  BY FetchAssumption
<1> HIDE DEF a, b, r
<1>2. Ring * (b - a) = g - f /\ b - a \in Int /\ Ring \in Nat \ {0}
  BY <1>1, FetchAssumption
<1>3. CASE b - a >= 1
  <2>1. Ring * (b - a) >= Ring
    BY <1>2, <1>3
  <2> QED BY <2>1, <1>2
<1>4. CASE b - a <= 0
  <2>1. Ring * (b - a) <= 0
    BY <1>2, <1>4
  <2> QED BY <2>1, <1>2
<1> QED BY <1>2, <1>3, <1>4

\* Every fetch has a property of the window.
LEMMA PropertyIsOne ==
  ASSUME NEW s \in Sels, NEW n \in Nat
  PROVE  PropertyOf(s, n) \in Properties
<1>1. n % Ring \in 0 .. Ring - 1
  BY FetchAssumption
<1> QED BY <1>1 DEF PropertyOf, Properties

-----------------------------------------------------------------------------
(* The invariant.                                                         *)

\* No later fetch is on the property of f.
Newest(f) == \A g \in Begun : g > f => Property(g) # Property(f)

NotBegun ==
  \A f \in Fetches \ Begun : outcome[f] = Pending /\ reply[f] = "unasked"

FetchesAreNewest == \A f \in fetches : Newest(f)

ReceivesAreNewest ==
  \A i \in incr : Newest(i.fetch) /\ i.from \subseteq {i.fetch}
                    /\ reply[i.fetch] = "acked"

StoredIsNewest ==
  \A p \in Properties : props[p] # Absent =>
    /\ props[p].of \in Begun
    /\ Property(props[p].of) = p
    /\ Newest(props[p].of)

Inv ==
  /\ TypeOK /\ OnePlace /\ OwnValue
  /\ NotBegun /\ FetchesAreNewest /\ ReceivesAreNewest /\ StoredIsNewest

\* There is one newest fetch on a property.
LEMMA OneNewest ==
  ASSUME TypeOK, NEW f \in Begun, NEW g \in Begun,
         Newest(f), Newest(g), Property(f) = Property(g)
  PROVE  f = g
<1>1. begun \in Nat
  BY DEF TypeOK, begun
<1> QED BY <1>1 DEF Newest, Begun

\* Those that have begun are among all.
LEMMA FetchesBegun ==
  ASSUME TypeOK
  PROVE  Begun \subseteq Fetches /\ begun \in Nat /\ Takes \in Nat
<1>1. begun \in Nat /\ begun <= Takes /\ Takes \in Nat
  BY FetchAssumption DEF TypeOK, begun
<1> QED BY <1>1 DEF Begun, Fetches

\* A client that is not late by a ring speaks for the newest.
LEMMA NotLate ==
  ASSUME TypeOK, NEW f \in Begun, StillIts(f)
  PROVE  Newest(f)
<1> SUFFICES ASSUME NEW g \in Begun, g > f
             PROVE  Property(g) # Property(f)
  BY DEF Newest
<1>1. begun \in Nat
  BY DEF TypeOK, begun
<1>2. f \in Nat /\ g \in Nat /\ g < f + Ring
  BY <1>1, FetchAssumption DEF Begun, StillIts
<1>3. f % Ring # g % Ring
  BY <1>2, RingApart
<1> QED BY <1>3 DEF Property, PropertyOf

\* The client speaks of fetches that have begun.
LEMMA AskedHasBegun ==
  ASSUME Inv, NEW f \in Fetches, reply[f] # "unasked"
  PROVE  f \in Begun
BY DEF Inv, NotBegun

\* What Resolve does to one fetch.
LEMMA ResolveOne ==
  ASSUME NEW gone, NEW what, outcome' = Resolve(gone, what), NEW f \in Fetches
  PROVE  outcome'[f] = IF f \in gone THEN what ELSE outcome[f]
BY DEF Resolve

\* An outcome has its type.
LEMMA OutcomeTypes ==
  ASSUME TypeOK, NEW gone, NEW what, outcome' = Resolve(gone, what),
         \/ what \in {Unanswered, Refused}
         \/ \E from \in SUBSET Fetches : what = Value(from)
  PROVE  outcome' \in [Fetches -> Outcomes]
BY DEF TypeOK, Outcomes, Resolve, Unanswered, Refused, Value

\* While nothing begins, what is newest stays so.
LEMMA SameFetches ==
  ASSUME sel' = sel
  PROVE  /\ begun' = begun /\ Begun' = Begun
         /\ \A f : Property(f)' = Property(f) /\ (Newest(f)' <=> Newest(f))
<1>1. begun' = begun /\ Begun' = Begun
  BY DEF begun, Begun
<1>2. \A f : Property(f)' = Property(f)
  BY DEF Property, PropertyOf
<1> QED BY <1>1, <1>2 DEF Newest

-----------------------------------------------------------------------------
(* The steps.                                                             *)

LEMMA InitInv == Init => Inv
<1> SUFFICES ASSUME Init PROVE Inv
  OBVIOUS
<1>1. begun = 0 /\ Begun = {} /\ sel \in Seq(Sels)
  BY DEF Init, begun, Begun
<1>2. TypeOK
  BY <1>1, FetchAssumption
     DEF Init, Outcomes, Replies, TypeOK, Contents, Properties, Pending, Fetches
<1> QED BY <1>1, <1>2
     DEF Inv, Init, OnePlace, OwnValue, NotBegun, FetchesAreNewest,
         ReceivesAreNewest, StoredIsNewest

\* Whatever is taken out of the table or of the receives is resolved, and
\* nothing else: then every fetch is still in one place.
LEMMA Removal ==
  ASSUME Inv, sel' = sel, fetches' \subseteq fetches, incr' \subseteq incr,
         NEW gone, NEW what,
         gone = (fetches \ fetches') \cup {i.fetch : i \in incr \ incr'},
         outcome' = Resolve(gone, what),
         \/ what \in {Unanswered, Refused}
         \/ \E from \in SUBSET Fetches :
               what = Value(from) /\ \A f \in gone : from \subseteq {f}
  PROVE  /\ outcome' \in [Fetches -> Outcomes]
         /\ OnePlace' /\ OwnValue'
         /\ \A f \in Fetches \ Begun : outcome'[f] = outcome[f]
         /\ \A f \in Fetches : outcome[f] # Pending => outcome'[f] = outcome[f]
<1>1. Begun' = Begun /\ Begun \subseteq Fetches
  BY SameFetches, FetchesBegun DEF Inv
<1>2. gone \subseteq Begun
  BY DEF Inv, TypeOK, Receives
<1>3. what # Pending
  BY DEF Unanswered, Refused, Value, Pending
<1>4. \A f \in Fetches : outcome'[f] = IF f \in gone THEN what ELSE outcome[f]
  BY ResolveOne
<1>5. \A f \in gone : outcome[f] = Pending
  BY <1>2 DEF Inv, OnePlace
<1>6. OnePlace'
  <2> SUFFICES ASSUME NEW f \in Begun
               PROVE  /\ outcome'[f] = Pending <=>
                           f \in fetches' \/ \E i \in incr' : i.fetch = f
                      /\ f \in fetches' => \A i \in incr' : i.fetch # f
                      /\ \A i, j \in incr' : i.fetch = f /\ j.fetch = f => i = j
    BY <1>1 DEF OnePlace
  <2>1. /\ outcome[f] = Pending <=> f \in fetches \/ \E i \in incr : i.fetch = f
        /\ f \in fetches => \A i \in incr : i.fetch # f
        /\ \A i, j \in incr : i.fetch = f /\ j.fetch = f => i = j
    BY DEF Inv, OnePlace
  <2>2. CASE f \in gone
    BY <1>1, <1>3, <1>4, <2>1, <2>2
  <2>3. CASE f \notin gone
    BY <1>1, <1>4, <2>1, <2>3
  <2> QED BY <2>2, <2>3
<1>7. OwnValue'
  <2> SUFFICES ASSUME NEW f \in Begun, outcome'[f].how = "value"
               PROVE  outcome'[f].from \subseteq {f}
    BY <1>1 DEF OwnValue
  <2>1. CASE f \in gone
    BY <1>1, <1>4, <2>1 DEF Unanswered, Refused, Value
  <2>2. CASE f \notin gone
    BY <1>1, <1>4, <2>2 DEF Inv, OwnValue
  <2> QED BY <2>1, <2>2
<1>8. outcome' \in [Fetches -> Outcomes]
  BY OutcomeTypes DEF Inv
<1> QED BY <1>2, <1>4, <1>5, <1>6, <1>7, <1>8

\* The new fetch, and what it does to those before it.
LEMMA TakeBegins ==
  ASSUME TypeOK, begun < Takes, NEW s \in Sels, sel' = Append(sel, s),
         NEW f, NEW p, f = begun + 1, p = PropertyOf(s, f)
  PROVE  /\ begun' = f /\ Begun' = Begun \cup {f} /\ f \notin Begun
         /\ f \in Fetches /\ Begun \subseteq Fetches
         /\ sel' \in Seq(Sels) /\ begun' <= Takes
         /\ p \in Properties
         /\ Property(f)' = p /\ Newest(f)'
         /\ \A g \in Begun : /\ g < f /\ Property(g)' = Property(g)
                             /\ Newest(g)' <=> Newest(g) /\ Property(g) # p
<1>1. begun \in Nat /\ sel \in Seq(Sels) /\ Takes \in Nat
  BY FetchAssumption DEF TypeOK, begun
<1>2. /\ begun' = f /\ sel' \in Seq(Sels)
      /\ sel'[f] = s /\ \A g \in Begun : sel'[g] = sel[g]
  BY <1>1 DEF begun, Begun
<1>3. /\ Begun' = Begun \cup {f} /\ f \notin Begun /\ f \in Fetches
      /\ Begun \subseteq Fetches /\ \A g \in Begun : g < f
  BY <1>1, <1>2 DEF Begun, Fetches
<1>4. Property(f)' = p
  BY <1>2 DEF Property, PropertyOf
<1>5. \A g \in Begun : Property(g)' = Property(g)
  BY <1>2 DEF Property, PropertyOf
<1>6. Newest(f)'
  BY <1>1, <1>3 DEF Newest, Begun
<1>7. ASSUME NEW g \in Begun
      PROVE  Newest(g)' <=> Newest(g) /\ Property(g) # p
  BY <1>1, <1>3, <1>4, <1>5 DEF Newest, Begun
<1>8. p \in Properties
  BY <1>1, PropertyIsOne
<1>9. \A g \in Begun : /\ g < f /\ Property(g)' = Property(g)
                       /\ Newest(g)' <=> Newest(g) /\ Property(g) # p
  BY <1>3, <1>5, <1>7
<1>10. begun' <= Takes
  BY <1>1, <1>2
<1> QED BY <1>2, <1>3, <1>4, <1>6, <1>8, <1>9, <1>10

LEMMA TakeInv == ASSUME Inv, Take PROVE Inv'
<1> USE DEF Inv
<1>0. PICK s \in Sels : \E f, p :
        /\ f = begun + 1 /\ p = PropertyOf(s, f) /\ begun < Takes
        /\ sel' = Append(sel, s)
        /\ props' = [props EXCEPT ![p] = Absent]
        /\ fetches' = Kept(p) \cup {f}
        /\ incr' = {i \in incr : ~On(i.fetch, p)}
        /\ outcome' = Resolve(Displaced(p), Unanswered)
        /\ reply' = [reply EXCEPT ![f] = "asked"]
  BY DEF Take
<1>1. PICK f, p :
        /\ f = begun + 1 /\ p = PropertyOf(s, f) /\ begun < Takes
        /\ sel' = Append(sel, s)
        /\ props' = [props EXCEPT ![p] = Absent]
        /\ fetches' = Kept(p) \cup {f}
        /\ incr' = {i \in incr : ~On(i.fetch, p)}
        /\ outcome' = Resolve(Displaced(p), Unanswered)
        /\ reply' = [reply EXCEPT ![f] = "asked"]
  BY <1>0
<1>2. /\ begun' = f /\ Begun' = Begun \cup {f} /\ f \notin Begun
      /\ f \in Fetches /\ Begun \subseteq Fetches
      /\ sel' \in Seq(Sels) /\ begun' <= Takes
      /\ p \in Properties
      /\ Property(f)' = p /\ Newest(f)'
      /\ \A g \in Begun : /\ g < f /\ Property(g)' = Property(g)
                          /\ Newest(g)' <=> Newest(g) /\ Property(g) # p
  BY <1>1, TakeBegins
<1>3. /\ fetches \subseteq Begun /\ \A i \in incr : i.fetch \in Begun
      /\ Kept(p) \subseteq {g \in fetches : Property(g) # p}
      /\ incr' = {i \in incr : Property(i.fetch) # p}
  BY <1>1 DEF TypeOK, Receives, Kept, On
<1>4. \A g \in Fetches :
        outcome'[g] = IF g \in Displaced(p) THEN Unanswered ELSE outcome[g]
  BY <1>1, ResolveOne
<1>5. TypeOK'
  <2>1. outcome' \in [Fetches -> Outcomes]
    BY <1>1, OutcomeTypes
  <2>2. fetches' \subseteq Begun'
    BY <1>1, <1>2, <1>3
  <2>3. incr' \subseteq Receives'
    BY <1>2, <1>3 DEF TypeOK, Receives
  <2>4. props' \in [Properties -> Contents]
    BY <1>1 DEF TypeOK, Receives, Contents
  <2>5. reply' \in [Fetches -> Replies]
    BY <1>1 DEF TypeOK, Replies
  <2> QED BY <1>2, <2>1, <2>2, <2>3, <2>4, <2>5 DEF TypeOK, Receives
<1>6. Displaced(p) \subseteq Begun
  BY <1>3 DEF Displaced
<1>7. OnePlace'
  <2> SUFFICES ASSUME NEW g \in Begun'
               PROVE  /\ outcome'[g] = Pending <=>
                           g \in fetches' \/ \E i \in incr' : i.fetch = g
                      /\ g \in fetches' => \A i \in incr' : i.fetch # g
                      /\ \A i, j \in incr' : i.fetch = g /\ j.fetch = g => i = j
    BY DEF OnePlace
  <2>1. CASE g = f
    <3>1. outcome'[g] = Pending
      BY <1>2, <1>4, <1>6, <2>1 DEF NotBegun
    <3>2. \A i \in incr' : i.fetch # g
      BY <1>2, <1>3, <2>1
    <3> QED BY <1>1, <2>1, <3>1, <3>2
  <2>2. CASE g # f
    <3>1. g \in Begun /\ g \in Fetches
      BY <1>2, <2>2
    <3>2. /\ outcome[g] = Pending <=> g \in fetches \/ \E i \in incr : i.fetch = g
          /\ g \in fetches => \A i \in incr : i.fetch # g
          /\ \A i, j \in incr : i.fetch = g /\ j.fetch = g => i = j
      BY <3>1 DEF OnePlace
    <3>3. g \in fetches' <=> g \in Kept(p)
      BY <1>1, <2>2
    <3>4. g \in Displaced(p) <=>
            \/ g \in fetches /\ g \notin Kept(p)
            \/ \E i \in incr : i.fetch = g /\ Property(g) = p
      BY DEF Displaced, On
    <3>5. Kept(p) \subseteq fetches /\ Unanswered # Pending
      BY <1>3 DEF Unanswered, Pending
    <3>6. \A i : i \in incr' /\ i.fetch = g <=>
                    i \in incr /\ i.fetch = g /\ Property(g) # p
      BY <1>3
    <3> HIDE DEF Inv
    <3>7. outcome'[g] = Pending <=>
            g \in fetches' \/ \E i \in incr' : i.fetch = g
      BY <1>4, <3>1, <3>2, <3>3, <3>4, <3>5, <3>6
    <3> QED BY <3>2, <3>3, <3>5, <3>6, <3>7
  <2> QED BY <2>1, <2>2
<1>8. OwnValue'
  <2> SUFFICES ASSUME NEW g \in Begun', outcome'[g].how = "value"
               PROVE  outcome'[g].from \subseteq {g}
    BY DEF OwnValue
  <2>1. g \in Fetches /\ outcome'[g] = outcome[g]
    BY <1>2, <1>4 DEF Unanswered
  <2>2. g \in Begun
    BY <1>2, <2>1 DEF NotBegun, Pending
  <2> QED BY <2>1, <2>2 DEF OwnValue
<1>9. NotBegun'
  <2> SUFFICES ASSUME NEW g \in Fetches \ Begun'
               PROVE  outcome'[g] = Pending /\ reply'[g] = "unasked"
    BY DEF NotBegun
  <2>1. g \notin Begun /\ g # f
    BY <1>2
  <2> QED BY <1>1, <1>4, <1>6, <2>1 DEF NotBegun, TypeOK
<1>10. FetchesAreNewest'
  BY <1>1, <1>2, <1>3 DEF FetchesAreNewest
<1>11. ReceivesAreNewest'
  <2> SUFFICES ASSUME NEW i \in incr'
               PROVE  /\ Newest(i.fetch)' /\ i.from \subseteq {i.fetch}
                      /\ reply'[i.fetch] = "acked"
    BY DEF ReceivesAreNewest
  <2>1. /\ i \in incr /\ i.fetch \in Begun /\ Property(i.fetch) # p
        /\ i.fetch # f /\ i.fetch \in Fetches
    BY <1>2, <1>3
  <2> QED BY <1>1, <1>2, <2>1 DEF ReceivesAreNewest, TypeOK
<1>12. StoredIsNewest'
  <2> SUFFICES ASSUME NEW q \in Properties, props'[q] # Absent,
                      NEW g, g = props'[q].of
               PROVE  g \in Begun' /\ Property(g)' = q /\ Newest(g)'
    BY DEF StoredIsNewest
  <2>1. q # p /\ props'[q] = props[q]
    BY <1>1, <1>2 DEF TypeOK, Receives
  <2>2. g \in Begun /\ Property(g) = q /\ Newest(g)
    BY <2>1 DEF StoredIsNewest
  <2> QED BY <1>2, <2>1, <2>2
<1> QED BY <1>5, <1>7, <1>8, <1>9, <1>10, <1>11, <1>12

\* What a step that begins nothing has to show of the rest.
LEMMA SameBegun ==
  ASSUME Inv, sel' = sel, fetches' \subseteq fetches,
         incr' \subseteq Receives,
         \A i \in incr' : /\ Newest(i.fetch) /\ i.from \subseteq {i.fetch}
                         /\ reply'[i.fetch] = "acked",
         props' \in [Properties -> Contents],
         \A p \in Properties :
           \/ props'[p] = props[p] \/ props'[p] = Absent
           \/ /\ props'[p].of \in Begun /\ Property(props'[p].of) = p
              /\ Newest(props'[p].of),
         outcome' \in [Fetches -> Outcomes],
         OnePlace', OwnValue',
         reply' \in [Fetches -> Replies],
         \A f \in Fetches \ Begun : outcome'[f] = outcome[f] /\ reply'[f] = reply[f]
  PROVE  Inv'
<1>1. /\ begun' = begun /\ Begun' = Begun
      /\ \A f : Property(f)' = Property(f) /\ (Newest(f)' <=> Newest(f))
  BY SameFetches
<1>2. TypeOK'
  BY <1>1 DEF Inv, TypeOK, Receives
<1>3. NotBegun'
  BY <1>1 DEF Inv, NotBegun
<1>4. FetchesAreNewest'
  BY <1>1 DEF Inv, FetchesAreNewest
<1>5. ReceivesAreNewest'
  BY <1>1 DEF ReceivesAreNewest
<1>6. StoredIsNewest'
  <2> SUFFICES ASSUME NEW q \in Properties, props'[q] # Absent,
                      NEW g, g = props'[q].of
               PROVE  g \in Begun /\ Property(g) = q /\ Newest(g)
    BY <1>1 DEF StoredIsNewest
  <2> QED BY DEF Inv, StoredIsNewest
<1> QED BY <1>2, <1>3, <1>4, <1>5, <1>6 DEF Inv

\* Nothing is resolved and nothing moves.
LEMMA NothingResolved ==
  ASSUME Inv, UNCHANGED <<sel, fetches, incr, outcome>>
  PROVE  /\ outcome' \in [Fetches -> Outcomes]
         /\ OnePlace' /\ OwnValue'
<1>1. Begun' = Begun
  BY SameFetches
<1> QED BY <1>1 DEF Inv, TypeOK, Receives, OnePlace, OwnValue

LEMMA SweepInv == ASSUME Inv, Sweep PROVE Inv'
<1>1. PICK late \in SUBSET fetches, idle \in SUBSET incr :
        /\ fetches' = fetches \ late /\ incr' = incr \ idle
        /\ outcome' = Resolve(late \cup {i.fetch : i \in idle}, Unanswered)
        /\ UNCHANGED <<sel, props, reply>>
  BY DEF Sweep, UpTo
<1>2. late = fetches \ fetches' /\ idle = incr \ incr'
  BY <1>1
<1>3. /\ outcome' \in [Fetches -> Outcomes]
      /\ OnePlace' /\ OwnValue'
      /\ \A f \in Fetches \ Begun : outcome'[f] = outcome[f]
  BY <1>1, <1>2, Removal
<1>4. \A i \in incr' : /\ Newest(i.fetch) /\ i.from \subseteq {i.fetch}
                      /\ reply'[i.fetch] = "acked"
  BY <1>1 DEF Inv, ReceivesAreNewest
<1>5. /\ props' \in [Properties -> Contents]
      /\ reply' \in [Fetches -> Replies]
      /\ incr' \subseteq Receives
  BY <1>1 DEF Inv, TypeOK, Receives
<1> QED BY <1>1, <1>3, <1>4, <1>5, SameBegun

\* Once the client has answered for f there is no chunk of it to come, unless
\* it said so.
LEMMA NoReceiveOf ==
  ASSUME Inv, NEW f \in Fetches, reply[f] # "acked"
  PROVE  \A i \in incr : i.fetch # f
BY DEF Inv, ReceivesAreNewest

\* The client's step for f changes what it has come to with f.
LEMMA ReplyOf ==
  ASSUME Inv, NEW f \in Begun, NEW x, reply' = [reply EXCEPT ![f] = x],
         x \in Replies
  PROVE  /\ reply' \in [Fetches -> Replies]
         /\ \A g \in Fetches : g # f => reply'[g] = reply[g]
         /\ \A g \in Fetches \ Begun : reply'[g] = reply[g]
         /\ reply'[f] = x /\ f \in Fetches
BY FetchesBegun DEF Inv, TypeOK, Receives

\* Its property is one of the window's.
LEMMA PropertyThere ==
  ASSUME TypeOK, NEW f \in Begun
  PROVE  Property(f) \in Properties
<1>1. f \in Nat /\ sel[f] \in Sels
  BY FetchesBegun DEF TypeOK, Receives, Begun, begun
<1> QED BY <1>1, PropertyIsOne DEF Property

LEMMA StoreInv == ASSUME Inv, NEW f \in Fetches, Store(f) PROVE Inv'
<1>1. PICK chunked \in BOOLEAN :
        /\ props' = [props EXCEPT ![Property(f)] = [of |-> f, incr |-> chunked]]
        /\ reply' = [reply EXCEPT ![f] = "stored"]
        /\ UNCHANGED <<sel, fetches, incr, outcome>>
        /\ reply[f] = "asked" /\ StillIts(f)
  BY DEF Store
<1>2. f \in Begun /\ Newest(f) /\ Property(f) \in Properties
  BY <1>1, AskedHasBegun, NotLate, PropertyThere DEF Inv
<1>3. /\ reply' \in [Fetches -> Replies]
      /\ \A g \in Fetches : g # f => reply'[g] = reply[g]
      /\ \A g \in Fetches \ Begun : reply'[g] = reply[g]
  BY <1>1, <1>2, ReplyOf DEF Replies
<1>4. /\ props' \in [Properties -> Contents]
      /\ \A p \in Properties :
           \/ props'[p] = props[p] \/ props'[p] = Absent
           \/ /\ props'[p].of \in Begun /\ Property(props'[p].of) = p
              /\ Newest(props'[p].of)
  BY <1>1, <1>2 DEF Inv, TypeOK, Receives, Contents
<1>5. \A i \in incr' : /\ Newest(i.fetch) /\ i.from \subseteq {i.fetch}
                      /\ reply'[i.fetch] = "acked"
  <2> SUFFICES ASSUME NEW i \in incr
               PROVE  /\ Newest(i.fetch) /\ i.from \subseteq {i.fetch}
                      /\ reply'[i.fetch] = "acked"
    BY <1>1
  <2>1. i.fetch \in Fetches /\ i.fetch # f
    BY <1>1, NoReceiveOf, FetchesBegun DEF Inv, TypeOK, Receives
  <2> QED BY <1>3, <2>1 DEF Inv, ReceivesAreNewest
<1>6. incr' \subseteq Receives
  BY <1>1 DEF Inv, TypeOK, Receives
<1> QED BY <1>1, <1>3, <1>4, <1>5, <1>6, NothingResolved, SameBegun

\* The receives of other fetches are as they were.
LEMMA ReceivesKept ==
  ASSUME Inv, NEW f, \A g \in Fetches : g # f => reply'[g] = reply[g],
         NEW i \in incr, i.fetch # f
  PROVE  /\ Newest(i.fetch) /\ i.from \subseteq {i.fetch}
         /\ reply'[i.fetch] = "acked"
<1>1. i.fetch \in Fetches
  BY FetchesBegun DEF Inv, TypeOK, Receives
<1> QED BY <1>1 DEF Inv, ReceivesAreNewest

\* A property that is read goes.
LEMMA PropertyRead ==
  ASSUME Inv, NEW f \in Begun, NEW refusal \in BOOLEAN,
         props' = IF refusal THEN props ELSE [props EXCEPT ![Property(f)] = Absent]
  PROVE  /\ props' \in [Properties -> Contents]
         /\ \A p \in Properties : props'[p] = props[p] \/ props'[p] = Absent
BY DEF Inv, TypeOK, Receives, Contents

LEMMA NotWantedInv ==
  ASSUME Inv, NEW f \in Begun, NEW refusal \in BOOLEAN,
         reply[f] \in {"asked", "stored"}, NotWanted(f, refusal), sel' = sel
  PROVE  Inv'
<1>1. /\ UNCHANGED <<sel, fetches, incr, outcome>>
      /\ props' = IF refusal THEN props ELSE [props EXCEPT ![Property(f)] = Absent]
      /\ \E x \in {"waiting", "done"} : reply' = [reply EXCEPT ![f] = x]
  BY DEF NotWanted
<1>2. /\ reply' \in [Fetches -> Replies]
      /\ \A g \in Fetches : g # f => reply'[g] = reply[g]
      /\ \A g \in Fetches \ Begun : reply'[g] = reply[g]
      /\ f \in Fetches
  BY <1>1, ReplyOf DEF Replies
<1>3. \A i \in incr' : /\ Newest(i.fetch) /\ i.from \subseteq {i.fetch}
                      /\ reply'[i.fetch] = "acked"
  <2>1. \A i \in incr : i.fetch # f
    BY <1>2, NoReceiveOf
  <2>2. \A i \in incr : /\ Newest(i.fetch) /\ i.from \subseteq {i.fetch}
                       /\ reply'[i.fetch] = "acked"
    BY <1>2, <2>1, ReceivesKept
  <2> QED BY <1>1, <2>2
<1>4. incr' \subseteq Receives
  BY <1>1 DEF Inv, TypeOK, Receives
<1> QED BY <1>1, <1>2, <1>3, <1>4, PropertyRead, NothingResolved, SameBegun

\* What is read as the answer of g was stored for g: both are the newest on
\* that property.
LEMMA OwnContent ==
  ASSUME Inv, NEW f \in Begun, NEW g \in Matching(f, FALSE),
         props[Property(f)] # Absent
  PROVE  props[Property(f)].of = g
<1>1. g \in Begun /\ Newest(g) /\ Property(g) = Property(f)
  BY DEF Matching, On, Inv, TypeOK, Receives, FetchesAreNewest
<1>2. /\ props[Property(f)].of \in Begun
      /\ Property(props[Property(f)].of) = Property(f)
      /\ Newest(props[Property(f)].of)
  BY PropertyThere DEF Inv, StoredIsNewest
<1> QED BY <1>1, <1>2, OneNewest DEF Inv

LEMMA AnswersInv ==
  ASSUME Inv, NEW f \in Begun, NEW refusal \in BOOLEAN, NEW g \in fetches,
         reply[f] \in {"asked", "stored"}, Answers(f, g, refusal), sel' = sel,
         refusal \/ StillIts(f)
  PROVE  Inv'
<1> DEFINE content == props[Property(f)]
<1>1. /\ g \in Matching(f, refusal) /\ fetches' = fetches \ {g}
      /\ props' = IF refusal THEN props ELSE [props EXCEPT ![Property(f)] = Absent]
  BY DEF Answers
<1>2. /\ props' \in [Properties -> Contents]
      /\ \A p \in Properties : props'[p] = props[p] \/ props'[p] = Absent
  BY <1>1, PropertyRead
<1>3. f \in Fetches /\ g \in Begun /\ \A i \in incr : i.fetch # f
  BY FetchesBegun, NoReceiveOf DEF Inv, TypeOK, Receives
<1>4. CASE ~refusal /\ content.incr
  <2>1. /\ incr' = incr \cup {[fetch |-> g, from |-> {}, size |-> 0]}
        /\ reply' = [reply EXCEPT ![f] = "acked"]
        /\ outcome' = outcome
    BY <1>4 DEF Answers
  <2>2. g = f /\ Newest(f)
    <3>1. Newest(f) /\ Newest(g) /\ Property(g) = Property(f)
      BY <1>1, <1>4, NotLate DEF Matching, On, Inv, FetchesAreNewest
    <3> QED BY <1>3, <3>1, OneNewest DEF Inv
  <2>3. /\ reply' \in [Fetches -> Replies]
        /\ \A h \in Fetches : h # f => reply'[h] = reply[h]
        /\ \A h \in Fetches \ Begun : reply'[h] = reply[h]
        /\ reply'[f] = "acked"
    BY <2>1, ReplyOf DEF Replies
  <2>4. \A i \in incr : /\ Newest(i.fetch) /\ i.from \subseteq {i.fetch}
                       /\ reply'[i.fetch] = "acked"
    BY <1>3, <2>3, ReceivesKept
  <2>5. incr' \subseteq Receives
    BY <1>3, <2>1, FetchAssumption DEF Inv, TypeOK, Receives
  <2>6. Begun' = Begun
    BY SameFetches
  <2>7. OnePlace'
    <3> SUFFICES ASSUME NEW h \in Begun
                 PROVE  /\ outcome[h] = Pending <=>
                             h \in fetches' \/ \E i \in incr' : i.fetch = h
                        /\ h \in fetches' => \A i \in incr' : i.fetch # h
                        /\ \A i, j \in incr' : i.fetch = h /\ j.fetch = h => i = j
      BY <2>1, <2>6 DEF OnePlace
    <3>1. /\ outcome[h] = Pending <=> h \in fetches \/ \E i \in incr : i.fetch = h
          /\ h \in fetches => \A i \in incr : i.fetch # h
          /\ \A i, j \in incr : i.fetch = h /\ j.fetch = h => i = j
      BY DEF Inv, OnePlace
    <3>2. CASE h = f
      <4>1. /\ h \notin fetches' /\ h \in fetches
            /\ \A i \in incr' : i.fetch = h <=> i = [fetch |-> g, from |-> {}, size |-> 0]
            /\ [fetch |-> g, from |-> {}, size |-> 0] \in incr'
        BY <1>1, <1>3, <2>1, <2>2, <3>2
      <4> QED BY <3>1, <4>1
    <3>3. CASE h # f
      BY <1>1, <2>1, <2>2, <3>1, <3>3
    <3> QED BY <3>2, <3>3
  <2>8. /\ OwnValue'
        /\ outcome' \in [Fetches -> Outcomes]
    BY <2>1, <2>6 DEF Inv, OwnValue, TypeOK
  <2>9. \A i \in incr' : /\ Newest(i.fetch) /\ i.from \subseteq {i.fetch}
                        /\ reply'[i.fetch] = "acked"
    BY <2>1, <2>2, <2>3, <2>4
  <2> QED BY <1>1, <1>2, <2>1, <2>3, <2>5, <2>7, <2>8, <2>9, SameBegun
<1>5. CASE ~(~refusal /\ content.incr)
  <2>1. PICK what :
          /\ what = IF refusal THEN Refused
                    ELSE IF content = Absent THEN Unanswered ELSE Value({content.of})
          /\ outcome' = Resolve({g}, what)
          /\ reply' = [reply EXCEPT ![f] = "done"] /\ incr' = incr
    BY <1>5 DEF Answers
  <2>2. \/ what \in {Unanswered, Refused}
        \/ \E from \in SUBSET Fetches :
              what = Value(from) /\ \A h \in {g} : from \subseteq {h}
    <3>1. CASE refusal \/ content = Absent
      BY <2>1, <3>1
    <3>2. CASE ~refusal /\ content # Absent
      <4>1. content.of = g /\ g \in Fetches
        BY <1>1, <1>3, <3>2, OwnContent, FetchesBegun DEF Inv
      <4>2. what = Value({g}) /\ {g} \in SUBSET Fetches
        BY <2>1, <3>2, <4>1
      <4> QED BY <4>2
    <3> QED BY <3>1, <3>2
  <2>3. {g} = (fetches \ fetches') \cup {i.fetch : i \in incr \ incr'}
    BY <1>1, <2>1
  <2>4. /\ outcome' \in [Fetches -> Outcomes]
        /\ OnePlace' /\ OwnValue'
        /\ \A h \in Fetches \ Begun : outcome'[h] = outcome[h]
    <3> HIDE DEF content
    <3> QED BY <1>1, <2>1, <2>2, <2>3, Removal
  <2>5. /\ reply' \in [Fetches -> Replies]
        /\ \A h \in Fetches : h # f => reply'[h] = reply[h]
        /\ \A h \in Fetches \ Begun : reply'[h] = reply[h]
    BY <2>1, ReplyOf DEF Replies
  <2>6. \A i \in incr' : /\ Newest(i.fetch) /\ i.from \subseteq {i.fetch}
                        /\ reply'[i.fetch] = "acked"
    BY <1>3, <2>1, <2>5, ReceivesKept
  <2>7. incr' \subseteq Receives
    BY <2>1 DEF Inv, TypeOK, Receives
  <2> QED BY <1>1, <1>2, <2>4, <2>5, <2>6, <2>7, SameBegun
<1> QED BY <1>4, <1>5

\* A chunk comes for the receive of its own fetch.
LEMMA OwnReceive ==
  ASSUME Inv, NEW f \in Begun, StillIts(f), NEW i \in incr, On(i.fetch, Property(f))
  PROVE  i.fetch = f
<1>1. i.fetch \in Begun /\ Newest(i.fetch) /\ Newest(f)
  BY NotLate DEF Inv, TypeOK, Receives, ReceivesAreNewest
<1> QED BY <1>1, OneNewest DEF Inv, On

LEMMA PushedInv ==
  ASSUME Inv, NEW f \in Begun, NEW empty \in BOOLEAN, reply[f] = "acked",
         StillIts(f), Pushed(f, empty), UNCHANGED <<sel, fetches>>
  PROVE  Inv'
<1> DEFINE Acked(i) == /\ Newest(i.fetch) /\ i.from \subseteq {i.fetch}
                       /\ reply'[i.fetch] = "acked"
<1>1. /\ Newest(f) /\ Property(f) \in Properties /\ f \in Fetches
      /\ Begun' = Begun
  BY NotLate, PropertyThere, FetchesBegun, SameFetches DEF Inv
<1>2. CASE /\ \A i \in incr : ~On(i.fetch, Property(f))
           /\ props' = [props EXCEPT ![Property(f)] = [of |-> f, incr |-> FALSE]]
           /\ reply' = [reply EXCEPT ![f] = "done"]
           /\ UNCHANGED <<incr, outcome>>
  <2>1. \A i \in incr : i.fetch # f
    BY <1>2 DEF On
  <2>2. /\ reply' \in [Fetches -> Replies]
        /\ \A g \in Fetches : g # f => reply'[g] = reply[g]
        /\ \A g \in Fetches \ Begun : reply'[g] = reply[g]
    BY <1>2, ReplyOf DEF Replies
  <2>3. \A i \in incr : Acked(i)
    BY <2>1, <2>2, ReceivesKept
  <2>4. /\ props' \in [Properties -> Contents]
        /\ \A p \in Properties :
             \/ props'[p] = props[p] \/ props'[p] = Absent
             \/ /\ props'[p].of \in Begun /\ Property(props'[p].of) = p
                /\ Newest(props'[p].of)
    BY <1>1, <1>2 DEF Inv, TypeOK, Receives, Contents
  <2>5. incr' \subseteq Receives
    BY <1>2 DEF Inv, TypeOK, Receives
  <2> QED BY <1>2, <2>2, <2>3, <2>4, <2>5, NothingResolved, SameBegun
<1>3. ASSUME NEW i \in incr, On(i.fetch, Property(f)), incr' = incr \ {i},
             NEW what \in {Value(i.from), Unanswered},
             outcome' = Resolve({i.fetch}, what),
             NEW x \in {"waiting", "done"}, reply' = [reply EXCEPT ![f] = x],
             UNCHANGED props
      PROVE  Inv'
  <2>1. i.fetch = f /\ i.from \subseteq {f} /\ i.from \in SUBSET Fetches
    BY <1>3, OwnReceive DEF Inv, ReceivesAreNewest, TypeOK, Receives
  <2>2. \A j \in incr' : j \in incr /\ j.fetch # f
    BY <1>3, <2>1 DEF Inv, OnePlace
  <2>3. {i.fetch} = (fetches \ fetches') \cup {j.fetch : j \in incr \ incr'}
    BY <1>3
  <2>4. \/ what \in {Unanswered, Refused}
        \/ \E from \in SUBSET Fetches :
              what = Value(from) /\ \A g \in {i.fetch} : from \subseteq {g}
    BY <1>3, <2>1
  <2>5. /\ outcome' \in [Fetches -> Outcomes]
        /\ OnePlace' /\ OwnValue'
        /\ \A g \in Fetches \ Begun : outcome'[g] = outcome[g]
    BY <1>3, <2>3, <2>4, Removal
  <2>6. /\ reply' \in [Fetches -> Replies]
        /\ \A g \in Fetches : g # f => reply'[g] = reply[g]
        /\ \A g \in Fetches \ Begun : reply'[g] = reply[g]
    BY <1>3, ReplyOf DEF Replies
  <2>7. \A j \in incr' : Acked(j)
    BY <2>2, <2>6, ReceivesKept
  <2>8. /\ props' \in [Properties -> Contents]
        /\ incr' \subseteq Receives
    BY <1>3 DEF Inv, TypeOK, Receives
  <2> QED BY <1>3, <2>5, <2>6, <2>7, <2>8, SameBegun
<1>4. ASSUME NEW i \in incr, On(i.fetch, Property(f)), ~TooBig(i),
             incr' = (incr \ {i}) \cup
                       {[i EXCEPT !.size = @ + 1, !.from = @ \cup {f}]},
             UNCHANGED <<props, outcome, reply>>
      PROVE  Inv'
  <2> DEFINE more == [i EXCEPT !.size = @ + 1, !.from = @ \cup {f}]
  <2>1. /\ i.fetch = f /\ i.from \subseteq {f}
        /\ i \in Receives
    BY <1>4, OwnReceive DEF Inv, ReceivesAreNewest, TypeOK
  <2>2. i.size + 1 \in 0 .. MaxChunks
    BY <1>4, <2>1, FetchAssumption DEF TooBig, Receives
  <2>3. /\ more \in Receives
        /\ more.fetch = f /\ more.from \subseteq {f}
    BY <1>1, <2>1, <2>2 DEF Receives
  <2> HIDE DEF more
  <2>4. incr' = (incr \ {i}) \cup {more}
    BY <1>4 DEF more
  <2>5. \A j \in incr' : Acked(j)
    BY <1>1, <1>4, <2>3, <2>4 DEF Inv, ReceivesAreNewest
  <2>6. OnePlace'
    <3> SUFFICES ASSUME NEW h \in Begun
                 PROVE  /\ outcome[h] = Pending <=>
                             h \in fetches \/ \E j \in incr' : j.fetch = h
                        /\ h \in fetches => \A j \in incr' : j.fetch # h
                        /\ \A j, k \in incr' : j.fetch = h /\ k.fetch = h => j = k
      BY <1>1, <1>4 DEF OnePlace
    <3>1. /\ outcome[h] = Pending <=> h \in fetches \/ \E j \in incr : j.fetch = h
          /\ h \in fetches => \A j \in incr : j.fetch # h
          /\ \A j, k \in incr : j.fetch = h /\ k.fetch = h => j = k
      BY DEF Inv, OnePlace
    <3>2. CASE h = f
      <4>1. \A j \in incr' : j.fetch = h <=> j = more
        BY <2>1, <2>3, <2>4, <3>1, <3>2
      <4> QED BY <2>1, <2>4, <3>1, <3>2, <4>1
    <3>3. CASE h # f
      <4>1. \A j : j \in incr' /\ j.fetch = h <=> j \in incr /\ j.fetch = h
        BY <2>1, <2>3, <2>4, <3>3
      <4> QED BY <3>1, <4>1
    <3> QED BY <3>2, <3>3
  <2>7. OwnValue'
    BY <1>1, <1>4 DEF Inv, OwnValue
  <2>8. /\ props' \in [Properties -> Contents]
        /\ outcome' \in [Fetches -> Outcomes]
        /\ reply' \in [Fetches -> Replies]
        /\ incr' \subseteq Receives
    BY <1>4, <2>3, <2>4 DEF Inv, TypeOK, Receives
  <2> QED BY <1>4, <2>5, <2>6, <2>7, <2>8, SameBegun
<1> QED BY <1>2, <1>3, <1>4 DEF Pushed

LEMMA StepInv == Inv /\ [Next]_vars => Inv'
<1> SUFFICES ASSUME Inv, [Next]_vars PROVE Inv'
  OBVIOUS
<1>1. CASE Take
  BY <1>1, TakeInv
<1>2. CASE Sweep
  BY <1>2, SweepInv
<1>3. ASSUME NEW f \in Fetches, Store(f) PROVE Inv'
  BY <1>3, StoreInv
<1>4. ASSUME NEW f \in Fetches, Notify(f) PROVE Inv'
  <2>1. f \in Begun
    BY <1>4, AskedHasBegun DEF Notify
  <2> QED BY <1>4, <2>1, NotWantedInv, AnswersInv DEF Notify, Answered
<1>5. ASSUME NEW f \in Fetches, Refuse(f) PROVE Inv'
  <2>1. f \in Begun
    BY <1>5, AskedHasBegun DEF Refuse
  <2> QED BY <1>5, <2>1, NotWantedInv, AnswersInv DEF Refuse, Answered
<1>6. ASSUME NEW f \in Fetches, Chunk(f) PROVE Inv'
  <2>1. f \in Begun
    BY <1>6, AskedHasBegun DEF Chunk
  <2> QED BY <1>6, <2>1, PushedInv DEF Chunk
<1>7. CASE UNCHANGED vars
  <2>1. /\ begun' = begun /\ Begun' = Begun
        /\ \A f : Property(f)' = Property(f) /\ (Newest(f)' <=> Newest(f))
    BY <1>7, SameFetches DEF vars
  <2> QED BY <1>7, <2>1
        DEF vars, Inv, TypeOK, Receives, OnePlace, OwnValue, NotBegun, FetchesAreNewest,
            ReceivesAreNewest, StoredIsNewest
<1> QED BY <1>1, <1>2, <1>3, <1>4, <1>5, <1>6, <1>7 DEF Next

LEMMA InvAlways == Spec => []Inv
BY InitInv, StepInv, PTL DEF Spec

-----------------------------------------------------------------------------
(* The theorems.                                                          *)

\* Every variable of the fetches keeps its type; no chunked value grows past
\* MAX_SELECTION_BYTES (incr_push).
THEOREM TypeCorrect == Spec => []TypeOK
<1>1. Inv => TypeOK
  BY DEF Inv
<1> QED BY <1>1, InvAlways, PTL

\* Every fetch begun is waiting, receiving or resolved, and one of these only:
\* none is merely forgotten (Selection::fetches).
THEOREM NoneForgotten == Spec => []OnePlace
<1>1. Inv => OnePlace
  BY DEF Inv
<1> QED BY <1>1, InvAlways, PTL

\* A fetch is only given what was sent in answer to it, however often its
\* property is used again (start_fetch).
THEOREM ValueIsItsOwn == Spec => []OwnValue
<1>1. Inv => OwnValue
  BY DEF Inv
<1> QED BY <1>1, InvAlways, PTL

\* What is in the table or receives has not been resolved.
LEMMA OnlyPending ==
  ASSUME Inv, NEW gone, NEW what, outcome' = Resolve(gone, what),
         gone \subseteq fetches \cup {i.fetch : i \in incr}
  PROVE  \A f \in Fetches : outcome[f] # Pending => outcome'[f] = outcome[f]
<1> SUFFICES ASSUME NEW f \in Fetches, outcome[f] # Pending
             PROVE  outcome'[f] = outcome[f]
  OBVIOUS
<1>1. f \in Begun
  BY DEF Inv, NotBegun
<1>2. f \notin gone
  BY <1>1 DEF Inv, OnePlace
<1> QED BY <1>2, ResolveOne

\* Each step resolves with one outcome some of what is in the table or
\* receives, or resolves nothing; it is a refusal only when the client refuses.
LEMMA WhatStepsResolve ==
  ASSUME Inv, [Next]_vars
  PROVE  \/ outcome' = outcome
         \/ \E what : \E gone \in SUBSET (fetches \cup {i.fetch : i \in incr}) :
              /\ outcome' = Resolve(gone, what)
              /\ \/ what # Refused
                 \/ \E f \in Fetches, g \in fetches :
                      Refuse(f) /\ Answers(f, g, TRUE) /\ gone = {g}
<1> DEFINE Places == fetches \cup {i.fetch : i \in incr}
           Resolves == \E what : \E gone \in SUBSET Places :
              /\ outcome' = Resolve(gone, what)
              /\ \/ what # Refused
                 \/ \E f \in Fetches, g \in fetches :
                      Refuse(f) /\ Answers(f, g, TRUE) /\ gone = {g}
<1>0. /\ Unanswered # Refused
      /\ \A from : Value(from) # Refused
  BY DEF Unanswered, Refused, Value
<1>1. CASE Take
  <2>1. PICK p : outcome' = Resolve(Displaced(p), Unanswered)
    BY <1>1 DEF Take
  <2>2. Displaced(p) \in SUBSET Places
    BY DEF Displaced
  <2> QED BY <1>0, <2>1, <2>2
<1>2. CASE Sweep
  <2>1. PICK late \in SUBSET fetches, idle \in SUBSET incr :
          outcome' = Resolve(late \cup {i.fetch : i \in idle}, Unanswered)
    BY <1>2 DEF Sweep, UpTo
  <2>2. late \cup {i.fetch : i \in idle} \in SUBSET Places
    OBVIOUS
  <2> QED BY <1>0, <2>1, <2>2
<1>3. ASSUME NEW f \in Fetches, Notify(f), outcome' # outcome PROVE Resolves
  <2>1. PICK g \in fetches : Answers(f, g, FALSE)
    BY <1>3 DEF Notify, Answered, NotWanted
  <2>2. PICK what : outcome' = Resolve({g}, what) /\ what # Refused
    BY <1>0, <1>3, <2>1 DEF Answers
  <2>3. {g} \in SUBSET Places
    OBVIOUS
  <2> QED BY <2>2, <2>3
<1>4. ASSUME NEW f \in Fetches, Refuse(f), outcome' # outcome PROVE Resolves
  <2>1. PICK g \in fetches : Answers(f, g, TRUE)
    BY <1>4 DEF Refuse, Answered, NotWanted
  <2>2. outcome' = Resolve({g}, Refused)
    BY <2>1 DEF Answers
  <2>3. {g} \in SUBSET Places
    OBVIOUS
  <2> QED BY <1>4, <2>1, <2>2, <2>3
<1>5. ASSUME NEW f \in Fetches, Chunk(f), outcome' # outcome PROVE Resolves
  <2>1. PICK i \in incr : \E what :
          outcome' = Resolve({i.fetch}, what) /\ what # Refused
    BY <1>0, <1>5 DEF Chunk, Pushed
  <2>2. {i.fetch} \in SUBSET Places
    OBVIOUS
  <2> QED BY <2>1, <2>2
<1>6. ASSUME NEW f \in Fetches, Store(f) PROVE outcome' = outcome
  BY <1>6 DEF Store
<1> QED BY <1>1, <1>2, <1>3, <1>4, <1>5, <1>6 DEF Next, vars

\* A fetch is resolved once (fetched).
THEOREM OnceResolved == Spec => ResolvedOnce
<1>1. Inv /\ [Next]_vars =>
        [\A f \in Fetches : outcome[f] # Pending => outcome'[f] = outcome[f]]_outcome
  BY WhatStepsResolve, OnlyPending
<1> QED BY <1>1, InvAlways, PTL DEF Spec, ResolvedOnce

\* The one refused was refused, or a client that is late or out of turn
\* refused another (take_fetch).
LEMMA RefusedStep ==
  ASSUME Inv, [Next]_vars, NEW g \in Begun, outcome[g] = Pending, outcome'[g] = Refused
  PROVE  \E f \in Begun :
           /\ sel[f] = sel[g] /\ reply[f] # "done" /\ reply'[f] = "done"
           /\ f = g \/ f > g \/ outcome[f] # Pending
<1>1. Pending # Refused /\ g \in Fetches
  BY FetchesBegun DEF Pending, Refused, Inv
<1>2. PICK f \in Fetches, h \in fetches :
        /\ Refuse(f) /\ Answers(f, h, TRUE)
        /\ \E what : outcome' = Resolve({h}, what)
  <2>1. PICK what, gone :
          /\ outcome' = Resolve(gone, what)
          /\ \/ what # Refused
             \/ \E f \in Fetches, h \in fetches :
                  Refuse(f) /\ Answers(f, h, TRUE) /\ gone = {h}
    BY <1>1, WhatStepsResolve
  <2>2. outcome'[g] = IF g \in gone THEN what ELSE outcome[g]
    BY <1>1, <2>1, ResolveOne
  <2>3. what = Refused
    BY <1>1, <2>2
  <2> QED BY <2>1, <2>3
<1>3. h = g
  BY <1>1, <1>2, ResolveOne
<1>4. f \in Begun /\ reply[f] = "asked"
  BY <1>2, AskedHasBegun DEF Refuse
<1>5. reply' = [reply EXCEPT ![f] = "done"] /\ sel[g] = sel[f]
      /\ \A k \in Matching(f, TRUE) : g <= k
  BY <1>2, <1>3 DEF Answers, Matching
<1>6. reply'[f] = "done"
  BY <1>5 DEF Inv, TypeOK, Receives
<1>7. f = g \/ f > g \/ outcome[f] # Pending
  <2> SUFFICES ASSUME outcome[f] = Pending PROVE f >= g
    BY <1>4 DEF Begun
  <2>1. f \in fetches
    BY <1>4, NoReceiveOf DEF Inv, OnePlace
  <2>2. f \in Matching(f, TRUE)
    BY <2>1 DEF Matching
  <2> QED BY <1>4, <1>5, <2>2 DEF Begun
<1> QED BY <1>4, <1>5, <1>6, <1>7

\* Nobody is refused for another, but by a client late or out of turn
\* (take_fetch).
THEOREM RefusalsMatched == Spec => RefusedAsAsked
<1>1. Inv /\ [Next]_vars =>
        [\A f \in Begun :
           outcome[f] = Pending /\ outcome'[f] = Refused =>
             \E g \in Begun :
               /\ sel[g] = sel[f] /\ reply[g] # "done" /\ reply'[g] = "done"
               /\ g = f \/ g > f \/ outcome[g] # Pending]_vars
  BY RefusedStep
<1> QED BY <1>1, InvAlways, PTL DEF Spec, RefusedAsAsked

-----------------------------------------------------------------------------
(* The outbox: arithmetic of the wrap.                                    *)

\* Every integer has a remainder, which is what % gives.
LEMMA DivMod ==
  ASSUME NEW W \in Nat \ {0}, NEW x \in Int
  PROVE  \E q \in Int, r \in 0 .. W - 1 : x = W * q + r /\ x % W = r
<1>1. /\ x % W \in 0 .. W - 1
      /\ x = W * (x \div W) + (x % W)
      /\ x \div W \in Int
  OBVIOUS
<1> QED BY <1>1

\* It has only one.
LEMMA OneRemainder ==
  ASSUME NEW W \in Nat \ {0}, NEW p \in Int, NEW q \in Int,
         NEW r \in 0 .. W - 1, NEW s \in 0 .. W - 1, W * p + r = W * q + s
  PROVE  r = s
<1>1. W * (p - q) = s - r
  OBVIOUS
<1>2. ~(p - q >= 1)
  <2> SUFFICES ASSUME p - q >= 1 PROVE FALSE
    OBVIOUS
  <2>1. W * (p - q) >= W
    OBVIOUS
  <2> QED BY <1>1, <2>1
<1>3. ~(q - p >= 1)
  <2> SUFFICES ASSUME q - p >= 1 PROVE FALSE
    OBVIOUS
  <2>1. W * (q - p) >= W
    OBVIOUS
  <2>2. W * (q - p) = r - s
    BY <1>1
  <2> QED BY <2>1, <2>2
<1> QED BY <1>1, <1>2, <1>3

\* So a number written as a multiple and a rest has that rest.
LEMMA ModIs ==
  ASSUME NEW W \in Nat \ {0}, NEW q \in Int, NEW r \in 0 .. W - 1
  PROVE  (W * q + r) % W = r
<1> DEFINE x == W * q + r
<1>1. x \in Int
  OBVIOUS
<1> HIDE DEF x
<1>2. PICK p \in Int, s \in 0 .. W - 1 : x = W * p + s /\ x % W = s
  BY <1>1, DivMod
<1>3. W * p + s = W * q + r
  BY <1>2 DEF x
<1>4. s = r
  BY <1>3, OneRemainder
<1> QED BY <1>2, <1>4 DEF x

\* The difference of two wrapped numbers is that of the numbers, if it is
\* less than a wrap (wrapping_sub).
LEMMA WrappedDifference ==
  ASSUME NEW W \in Nat \ {0}, NEW a \in Nat, NEW d \in 0 .. W - 1
  PROVE  (((a + d) % W) - (a % W)) % W = d
<1>0. a \in Int /\ a + d \in Int
  OBVIOUS
<1>1. PICK p \in Int, r \in 0 .. W - 1 : a = W * p + r /\ a % W = r
  BY <1>0, DivMod
<1>2. PICK q \in Int, s \in 0 .. W - 1 : a + d = W * q + s /\ (a + d) % W = s
  BY <1>0, DivMod
<1>3. s - r = W * (p - q) + d
  <2>1. s - r = (a + d - W * q) - (a - W * p)
    BY <1>1, <1>2
  <2>2. W * (p - q) = W * p - W * q
    OBVIOUS
  <2> QED BY <2>1, <2>2
<1>4. p - q \in Int
  OBVIOUS
<1>5. (W * (p - q) + d) % W = d
  BY <1>4, ModIs
<1> QED BY <1>1, <1>2, <1>3, <1>5

\* Widening a wrapped number gives it back, if it is less than a wrap after
\* the one widened last.
LEMMA WidensBack ==
  ASSUME NEW W \in Nat \ {0}, NEW a \in Nat, NEW d \in 0 .. W - 1
  PROVE  LET near == (a - (a % W)) + ((a + d) % W)
         IN  (IF near < a THEN near + W ELSE near) = a + d
<1>0. a \in Int
  OBVIOUS
<1>1. PICK p \in Int, r \in 0 .. W - 1 : a = W * p + r /\ a % W = r
  BY <1>0, DivMod
<1>2. CASE r + d < W
  <2>1. a + d = W * p + (r + d)
    BY <1>1
  <2>2. r + d \in 0 .. W - 1
    BY <1>2
  <2>3. (a + d) % W = r + d
    BY <2>1, <2>2, ModIs
  <2> QED BY <1>1, <2>3
<1>3. CASE r + d >= W
  <2>1. a + d = W * (p + 1) + (r + d - W)
    BY <1>1
  <2>2. r + d - W \in 0 .. W - 1 /\ p + 1 \in Int
    BY <1>1, <1>3
  <2>3. (a + d) % W = r + d - W
    BY <2>2, <2>1, ModIs
  <2> QED BY <1>1, <2>3
<1> QED BY <1>1, <1>2, <1>3

-----------------------------------------------------------------------------
(* The invariant.                                                         *)

Gap == MaxSilent + 1

\* The assumption of what follows: libxcb's clients do not keep it, see the
\* run outbox_silent.
HalfNeverPasses == Gap < Wrap \div 2

NumberTypes ==
  /\ outbox \in [queue : Seq(Messages), bytes : Int, last : Wire,
                 closed : BOOLEAN]
  /\ conn \in {"handshake", "register", "reading", "dispatch", "closing", "ended"}
  /\ writer \in [at : {"awake", "waiting", "writing", "done"},
                 hand : Messages \cup {Nothing}]
  /\ handled \in 0 .. MaxRequests /\ asked \in 0 .. handled
  /\ full \in Nat
  /\ heard \in Messages \cup {Nothing}

\* The request of the message read last or in the writer's hand,
Foremost == IF writer.at = "writing" THEN writer.hand.of ELSE full
\* of the message ahead of the i-th in the queue,
Before(i) == IF i = 1 THEN Foremost ELSE outbox.queue[i - 1].of
\* and of the newest of all.
NewestSent == Before(Len(outbox.queue) + 1)

Follows(m, n) ==
  /\ m \in Messages
  /\ m.seq = m.of % Wrap
  /\ n <= m.of /\ m.of <= n + Gap
  /\ m.of <= handled
  /\ m.kind = "setup" => m.of = 0

HandFollows == writer.at = "writing" => Follows(writer.hand, full)

QueueFollows ==
  \A i \in 1 .. Len(outbox.queue) : Follows(outbox.queue[i], Before(i))

LastIsNewest ==
  ~outbox.closed =>
    /\ outbox.last = NewestSent % Wrap
    /\ NewestSent <= handled /\ handled <= NewestSent + Gap
    /\ asked <= NewestSent \/ (conn = "dispatch" /\ asked = handled)

Quiet ==
  /\ handled - asked <= MaxSilent
  /\ conn \in {"handshake", "register"} => handled = 0

InStep == full = heard.of /\ full <= handled

NumbersInv ==
  /\ NumberTypes /\ HandFollows /\ QueueFollows /\ LastIsNewest /\ Quiet /\ InStep

\* The newest request is a number, whatever is empty.
LEMMA NewestIsNat ==
  ASSUME NumbersInv
  PROVE  /\ Foremost \in Nat /\ NewestSent \in Nat
         /\ \A i \in 1 .. Len(outbox.queue) : Before(i) \in Nat
<1>1. Foremost \in Nat
  BY OutboxAssumption DEF NumbersInv, NumberTypes, Foremost, HandFollows, Follows, Messages
<1>2. \A i \in 1 .. Len(outbox.queue) : outbox.queue[i].of \in Nat
  BY OutboxAssumption DEF NumbersInv, QueueFollows, Follows, Messages
<1>3. Len(outbox.queue) \in Nat
  BY DEF NumbersInv, NumberTypes
<1> QED BY <1>1, <1>2, <1>3 DEF NewestSent, Before

\* As long as the outbox takes messages, monotonic changes no number.
LEMMA StampIsCurrent ==
  ASSUME NumbersInv, HalfNeverPasses
  PROVE  /\ CurrentSeq \in Wire
         /\ Monotonic(CurrentSeq, outbox.last) \in Wire
         /\ ~outbox.closed => Monotonic(CurrentSeq, outbox.last) = CurrentSeq
<1>1. CurrentSeq \in Wire /\ outbox.last \in Wire
  BY OutboxAssumption DEF CurrentSeq, Wire, NumbersInv, NumberTypes
<1>2. ASSUME ~outbox.closed
      PROVE  Monotonic(CurrentSeq, outbox.last) = CurrentSeq
  <2> DEFINE d == handled - NewestSent
  <2>1. /\ outbox.last = NewestSent % Wrap
        /\ NewestSent <= handled /\ handled <= NewestSent + Gap
        /\ handled \in Nat
    BY <1>2 DEF NumbersInv, LastIsNewest, NumberTypes
  <2>2. d \in 0 .. Wrap - 1 /\ d < Wrap \div 2 /\ handled = NewestSent + d
    BY <2>1, NewestIsNat, OutboxAssumption DEF HalfNeverPasses, Gap
  <2>3. (CurrentSeq - outbox.last) % Wrap = d
    <3> HIDE DEF d
    <3> QED BY <2>1, <2>2, NewestIsNat, WrappedDifference, OutboxAssumption
            DEF CurrentSeq
  <2> QED BY <2>2, <2>3 DEF Monotonic
<1> QED BY <1>1, <1>2 DEF Monotonic

\* Queueing a message about the current request, correctly stamped.
LEMMA EnqueueKeeps ==
  ASSUME NumbersInv, NEW m \in Messages, NEW last \in Wire,
         Enqueue(m, last),
         UNCHANGED <<handled, asked, clientVars>>,
         m.of = handled, m.kind = "setup" => m.of = 0,
         ~outbox.closed => m.seq = handled % Wrap /\ last = handled % Wrap,
         conn' \in {"handshake", "register", "reading", "dispatch", "closing", "ended"},
         conn' \in {"handshake", "register"} => handled = 0
  PROVE  NumbersInv'
<1> USE DEF clientVars
<1>1. /\ outbox.queue \in Seq(Messages) /\ outbox.last \in Wire
      /\ outbox.bytes \in Int /\ outbox.closed \in BOOLEAN
      /\ handled \in Nat /\ asked \in 0 .. handled
  BY OutboxAssumption DEF NumbersInv, NumberTypes
<1>0. m.size \in Int
  <2>1. m.size \in Sizes \cup {1}
    BY DEF Messages
  <2>2. Sizes \subseteq Int /\ 1 \in Int
    BY OutboxAssumption
  <2> QED BY <2>1, <2>2, Zenon
<1>2. /\ writer'.hand = writer.hand
      /\ writer'.at = "writing" <=> writer.at = "writing"
      /\ writer' \in [at : {"awake", "waiting", "writing", "done"},
                      hand : Messages \cup {Nothing}]
  BY DEF Enqueue, Notified, NumbersInv, NumberTypes
<1>3. /\ outbox' \in [queue : Seq(Messages), bytes : Int, last : Wire,
                      closed : BOOLEAN]
      /\ \/ outbox'.queue = outbox.queue /\ outbox'.closed
         \/ outbox'.queue = <<>> /\ outbox'.closed
         \/ /\ outbox'.queue = Append(outbox.queue, m)
            /\ outbox'.last = last /\ ~outbox.closed
  <2>1. CASE outbox' = [outbox EXCEPT !.last = last] /\ outbox.closed
    BY <1>1, <2>1 DEF NumbersInv, NumberTypes
  <2>2. CASE outbox' = [queue |-> <<>>, bytes |-> 0, last |-> last, closed |-> TRUE]
    BY <2>2
  <2>3. CASE /\ ~outbox.closed
             /\ outbox' = [outbox EXCEPT !.queue = Append(@, m), !.last = last,
                                         !.bytes = @ + m.size]
    <3>1. Append(outbox.queue, m) \in Seq(Messages)
      BY <1>1
    <3>2. outbox.bytes + m.size \in Int
      BY <1>0, <1>1
    <3> QED BY <2>3, <3>1, <3>2 DEF NumbersInv, NumberTypes
  <2> QED BY <2>1, <2>2, <2>3 DEF Enqueue
<1>4. NumberTypes' /\ Quiet' /\ InStep'
  BY <1>2, <1>3 DEF NumbersInv, NumberTypes, Quiet, InStep
<1>5. HandFollows' /\ Foremost' = Foremost
  BY <1>2 DEF NumbersInv, HandFollows, Follows, Foremost
<1>6. CASE outbox'.queue = outbox.queue /\ outbox'.closed
  <2>1. QueueFollows'
    BY <1>5, <1>6 DEF NumbersInv, QueueFollows, Follows, Before
  <2>2. LastIsNewest'
    BY <1>6 DEF LastIsNewest
  <2> QED BY <1>4, <1>5, <2>1, <2>2 DEF NumbersInv
<1>7. CASE outbox'.queue = <<>> /\ outbox'.closed
  <2>1. QueueFollows' /\ LastIsNewest'
    BY <1>7 DEF QueueFollows, LastIsNewest
  <2> QED BY <1>4, <1>5, <2>1 DEF NumbersInv
<1>8. CASE /\ outbox'.queue = Append(outbox.queue, m)
           /\ outbox'.last = last /\ ~outbox.closed
  <2>0. PICK n \in Nat : n = Len(outbox.queue)
    BY <1>1
  <2>1. /\ n \in Nat /\ Len(outbox'.queue) = n + 1
        /\ outbox'.queue[n + 1] = m
        /\ \A i \in 1 .. n : outbox'.queue[i] = outbox.queue[i]
    BY <1>1, <1>8, <2>0
  <2>2. \A i \in 1 .. n + 1 : Before(i)' = Before(i)
    <3> QED BY <1>2, <2>1 DEF Before, Foremost
  <2>3. Before(n + 2)' = handled
    <3>1. n + 2 # 1 /\ (n + 2) - 1 = n + 1
      BY <2>1
    <3> QED BY <2>1, <3>1 DEF Before
  <2>4. QueueFollows'
    <3> SUFFICES ASSUME NEW i \in 1 .. n + 1
                 PROVE  Follows(outbox.queue[i], Before(i))'
      BY <2>1 DEF QueueFollows
    <3>1. CASE i \in 1 .. n
      <4>1. Follows(outbox.queue[i], Before(i))
        BY <2>0, <3>1 DEF NumbersInv, QueueFollows
      <4>2. outbox'.queue[i] = outbox.queue[i] /\ Before(i)' = Before(i)
        BY <2>1, <2>2, <3>1
      <4> QED BY <4>1, <4>2 DEF Follows
    <3>2. CASE i = n + 1
      <4>1. /\ Before(n + 1) <= handled /\ handled <= Before(n + 1) + Gap
        BY <1>8, <2>0 DEF NumbersInv, LastIsNewest, NewestSent
      <4>2. outbox'.queue[i] = m /\ Before(i)' = Before(n + 1)
        BY <2>1, <2>2, <3>2
      <4>3. /\ m \in Messages /\ m.of = handled /\ handled' = handled
            /\ m.kind = "setup" => m.of = 0
            /\ m.seq = m.of % Wrap
        BY <1>8
      <4>4. Follows(m, Before(n + 1))
        BY <1>1, <4>1, <4>3 DEF Follows
      <4> QED BY <4>2, <4>3, <4>4 DEF Follows
    <3> QED BY <2>1, <3>1, <3>2
  <2>5. LastIsNewest'
    <3>0. NewestSent' = Before(n + 2)'
      <4>1. Len(outbox'.queue) + 1 = n + 2
        BY <2>1
      <4> QED BY <4>1 DEF NewestSent
    <3>1. NewestSent' = handled
      BY <2>3, <3>0
    <3> QED BY <1>1, <1>8, <3>1, OutboxAssumption DEF LastIsNewest, Gap
  <2> QED BY <1>4, <1>5, <2>4, <2>5 DEF NumbersInv
<1> QED BY <1>3, <1>6, <1>7, <1>8

\* Where the queue and what is ahead of it stay, so does its order.
LEMMA QueueKept ==
  ASSUME NumbersInv, outbox'.queue = outbox.queue, Foremost' = Foremost,
         handled' \in Nat, handled <= handled'
  PROVE  QueueFollows' /\ NewestSent' = NewestSent
<1>1. PICK n \in Nat : n = Len(outbox.queue)
  BY DEF NumbersInv, NumberTypes
<1>2. \A i \in 1 .. n + 1 : Before(i)' = Before(i)
  BY <1>1 DEF Before
<1>3. QueueFollows'
  <2> SUFFICES ASSUME NEW i \in 1 .. n
               PROVE  Follows(outbox.queue[i], Before(i))'
    BY <1>1 DEF QueueFollows
  <2>1. Follows(outbox.queue[i], Before(i))
    BY <1>1 DEF NumbersInv, QueueFollows
  <2>2. outbox'.queue[i] = outbox.queue[i] /\ Before(i)' = Before(i)
    BY <1>2
  <2>3. outbox.queue[i].of \in Nat /\ handled \in Nat
    BY <2>1, OutboxAssumption DEF NumbersInv, NumberTypes, Follows, Messages
  <2>4. outbox.queue[i].of <= handled'
    BY <2>1, <2>3 DEF Follows
  <2> QED BY <2>1, <2>2, <2>4 DEF Follows
<1>4. NewestSent' = NewestSent
  BY <1>1, <1>2 DEF NewestSent
<1> QED BY <1>3, <1>4

LEMMA NumbersStart == OutboxInit => NumbersInv
<1> SUFFICES ASSUME OutboxInit PROVE NumbersInv
  OBVIOUS
<1>1. NumberTypes /\ Quiet /\ InStep
  BY OutboxAssumption DEF OutboxInit, NumberTypes, Quiet, InStep, Nothing, Wire
<1>2. HandFollows /\ QueueFollows
  BY DEF OutboxInit, HandFollows, QueueFollows
<1>3. LastIsNewest
  <2>1. NewestSent = 0
    BY DEF OutboxInit, NewestSent, Before, Foremost
  <2>2. 0 % Wrap = 0
    BY OutboxAssumption
  <2> QED BY <2>1, <2>2, OutboxAssumption DEF OutboxInit, LastIsNewest, Gap
<1> QED BY <1>1, <1>2, <1>3 DEF NumbersInv

\* A reply or an event is stamped with the current number and queued last.
LEMMA StampedKeeps ==
  ASSUME NumbersInv, HalfNeverPasses,
         NEW kind \in {"reply", "event"}, NEW size \in Sizes \cup {1},
         Stamped(kind, size),
         UNCHANGED <<handled, asked, clientVars>>,
         conn' \in {"reading", "closing"} \/ conn' = conn
  PROVE  NumbersInv'
<1> DEFINE seq == Monotonic(CurrentSeq, outbox.last)
           m == [kind |-> kind, seq |-> seq, of |-> handled, size |-> size]
<1>1. seq \in Wire /\ (~outbox.closed => seq = handled % Wrap)
  BY StampIsCurrent DEF CurrentSeq
<1>2. m \in Messages /\ m.of = handled /\ m.seq = seq /\ m.kind # "setup"
  BY <1>1 DEF Messages, NumbersInv, NumberTypes
<1>3. Enqueue(m, seq)
  BY DEF Stamped
<1>4. /\ conn' \in {"handshake", "register", "reading", "dispatch", "closing", "ended"}
      /\ conn' \in {"handshake", "register"} => handled = 0
  BY DEF NumbersInv, NumberTypes, Quiet
<1> HIDE DEF m, seq
<1> QED BY <1>1, <1>2, <1>3, <1>4, EnqueueKeeps

-----------------------------------------------------------------------------
(* The steps.                                                             *)

LEMMA NumbersStep ==
  ASSUME HalfNeverPasses
  PROVE  NumbersInv /\ [OutboxNext]_outboxVars => NumbersInv'
<1> SUFFICES ASSUME NumbersInv, [OutboxNext]_outboxVars PROVE NumbersInv'
  OBVIOUS
<1> USE DEF clientVars
<1>1. CASE WriteSetup
  <2> DEFINE m == [kind |-> "setup", seq |-> 0, of |-> 0, size |-> 1]
  <2>1. m \in Messages /\ m.of = 0 /\ m.seq = 0
    <3>1. 0 \in Wire /\ 0 \in 0 .. MaxRequests
      BY OutboxAssumption DEF Wire
    <3> QED BY <3>1 DEF Messages
  <2>2. handled = 0 /\ 0 % Wrap = 0 /\ outbox.last \in Wire
    BY <1>1, OutboxAssumption DEF WriteSetup, NumbersInv, NumberTypes, Quiet
  <2>3. ~outbox.closed => outbox.last = 0
    <3>1. ASSUME ~outbox.closed PROVE NewestSent = 0 /\ outbox.last = NewestSent % Wrap
      BY <2>2, <3>1, NewestIsNat DEF NumbersInv, LastIsNewest
    <3> QED BY <2>2, <3>1
  <2>4. conn' \in {"closing", "register"}
    BY <1>1 DEF WriteSetup
  <2>5. Enqueue(m, outbox.last) /\ UNCHANGED <<handled, asked, clientVars>>
    BY <1>1 DEF WriteSetup
  <2> HIDE DEF m
  <2> QED BY <2>1, <2>2, <2>3, <2>4, <2>5, EnqueueKeeps
<1>2. CASE Register
  <2>1. /\ UNCHANGED <<outbox, writer, handled, asked, full, heard>>
        /\ conn = "register" /\ conn' = "reading"
    BY <1>2 DEF Register
  <2>2. Foremost' = Foremost /\ handled' \in Nat /\ handled <= handled'
    BY <2>1 DEF Foremost, NumbersInv, NumberTypes
  <2>3. QueueFollows' /\ NewestSent' = NewestSent
    BY <2>1, <2>2, QueueKept
  <2> QED BY <2>1, <2>3
      DEF NumbersInv, NumberTypes, HandFollows, Follows, LastIsNewest, Quiet, InStep
<1>3. CASE ReadRequest
  <2>1. /\ UNCHANGED <<outbox, writer, full, heard>>
        /\ conn = "reading" /\ conn' = "dispatch"
        /\ handled' = handled + 1 /\ handled < MaxRequests
        /\ \/ asked' = handled'
           \/ handled' - asked <= MaxSilent /\ asked' = asked
        /\ handled \in Nat /\ asked \in 0 .. handled
        /\ handled - asked <= MaxSilent /\ full \in Nat
    BY <1>3 DEF ReadRequest, NumbersInv, NumberTypes, Quiet
  <2>2. Foremost' = Foremost /\ handled' \in Nat /\ handled <= handled'
    BY <2>1 DEF Foremost
  <2>3. QueueFollows' /\ NewestSent' = NewestSent
    BY <2>1, <2>2, QueueKept
  <2>4. handled' \in 0 .. MaxRequests /\ asked' \in 0 .. handled'
    BY <2>1, OutboxAssumption
  <2>5. NumberTypes'
    BY <2>1, <2>4 DEF NumbersInv, NumberTypes
  <2>6. HandFollows'
    <3>1. writer.at = "writing" => writer.hand.of \in Nat
      BY OutboxAssumption DEF NumbersInv, HandFollows, Follows, Messages
    <3> QED BY <2>1, <3>1 DEF NumbersInv, HandFollows, Follows
  <2>7. LastIsNewest'
    <3> SUFFICES ASSUME ~outbox.closed PROVE LastIsNewest'
      BY <2>1 DEF LastIsNewest
    <3>1. /\ outbox.last = NewestSent % Wrap
          /\ NewestSent <= handled /\ asked <= NewestSent
      BY <2>1 DEF NumbersInv, LastIsNewest
    <3>2. /\ NewestSent <= handled' /\ handled' <= NewestSent + Gap
          /\ asked' <= NewestSent \/ asked' = handled'
      BY <2>1, <3>1, NewestIsNat, OutboxAssumption DEF Gap
    <3> QED BY <2>1, <2>3, <3>1, <3>2 DEF LastIsNewest
  <2>8. Quiet'
    <3>1. handled' - asked' <= MaxSilent
      BY <2>1, OutboxAssumption
    <3> QED BY <2>1, <3>1 DEF Quiet
  <2>9. InStep'
    <3>1. full = heard.of /\ full <= handled
      BY DEF NumbersInv, InStep
    <3> QED BY <2>1, <3>1 DEF InStep
  <2> QED BY <2>3, <2>5, <2>6, <2>7, <2>8, <2>9 DEF NumbersInv
<1>4. CASE SendReply
  <2>1. PICK size \in Sizes : Stamped("reply", size)
    BY <1>4 DEF SendReply
  <2>2. /\ conn = "dispatch" /\ conn' \in {"closing", "reading"}
        /\ UNCHANGED <<handled, asked, clientVars>>
    BY <1>4 DEF SendReply
  <2> QED BY <2>1, <2>2, StampedKeeps
<1>5. CASE Silently
  <2>1. /\ UNCHANGED <<outbox, writer, handled, asked, full, heard>>
        /\ conn' = "reading" /\ handled # asked
    BY <1>5 DEF Silently
  <2>2. Foremost' = Foremost /\ handled' \in Nat /\ handled <= handled'
    BY <2>1 DEF Foremost, NumbersInv, NumberTypes
  <2>3. QueueFollows' /\ NewestSent' = NewestSent
    BY <2>1, <2>2, QueueKept
  <2> QED BY <2>1, <2>3
      DEF NumbersInv, NumberTypes, HandFollows, Follows, LastIsNewest, Quiet, InStep
<1>6. CASE ReadEnds \/ Close
  <2>1. /\ UNCHANGED <<writer.hand, handled, asked, full, heard>>
        /\ outbox'.queue = outbox.queue /\ outbox'.last = outbox.last
        /\ outbox' \in [queue : Seq(Messages), bytes : Int, last : Wire,
                        closed : BOOLEAN]
        /\ ~outbox'.closed => ~outbox.closed
        /\ conn \notin {"dispatch", "ended"} /\ conn' \in {"closing", "ended"}
        /\ writer'.at = "writing" <=> writer.at = "writing"
        /\ writer' \in [at : {"awake", "waiting", "writing", "done"},
                        hand : Messages \cup {Nothing}]
    BY <1>6 DEF ReadEnds, Close, Notified, NumbersInv, NumberTypes
  <2>2. Foremost' = Foremost /\ handled' \in Nat /\ handled <= handled'
    BY <2>1 DEF Foremost, NumbersInv, NumberTypes
  <2>3. QueueFollows' /\ NewestSent' = NewestSent
    BY <2>1, <2>2, QueueKept
  <2> QED BY <2>1, <2>3
      DEF NumbersInv, NumberTypes, HandFollows, Follows, LastIsNewest, Quiet, InStep
<1>7. CASE SendEvent
  <2>1. /\ Stamped("event", 1) /\ conn' = conn
        /\ UNCHANGED <<handled, asked, clientVars>>
    BY <1>7 DEF SendEvent
  <2> QED BY <2>1, StampedKeeps
<1>8. CASE Pop
  <2>0. PICK n \in Nat : n = Len(outbox.queue)
    BY DEF NumbersInv, NumberTypes
  <2>1. /\ writer.at = "awake" /\ n > 0
        /\ writer' = [at |-> "writing", hand |-> outbox.queue[1]]
        /\ outbox'.queue = Tail(outbox.queue) /\ outbox'.last = outbox.last
        /\ outbox'.closed = outbox.closed
        /\ UNCHANGED <<conn, handled, asked, full, heard>>
    BY <1>8, <2>0 DEF Pop, NumbersInv, NumberTypes
  <2>2. /\ Len(outbox'.queue) = n - 1
        /\ \A i \in 1 .. n - 1 : outbox'.queue[i] = outbox.queue[i + 1]
    BY <2>0, <2>1 DEF NumbersInv, NumberTypes
  <2>3. \A i \in 1 .. n : Before(i)' = Before(i + 1)
    BY <2>1, <2>2 DEF Before, Foremost
  <2>4. NumberTypes'
    <3>1. outbox.queue[1] \in Messages /\ outbox.queue[1].size \in Int
      <4>1. outbox.queue[1] \in Messages
        BY <2>0, <2>1 DEF NumbersInv, NumberTypes
      <4>2. Sizes \subseteq Int /\ 1 \in Int
        BY OutboxAssumption
      <4>3. outbox.queue[1].size \in Sizes \cup {1}
        BY <4>1 DEF Messages
      <4> QED BY <4>1, <4>2, <4>3, Zenon
    <3>2. Tail(outbox.queue) \in Seq(Messages) /\ Head(outbox.queue) = outbox.queue[1]
      BY <2>0, <2>1 DEF NumbersInv, NumberTypes
    <3>3. outbox.bytes - outbox.queue[1].size \in Int
      BY <3>1 DEF NumbersInv, NumberTypes
    <3>4. outbox' \in [queue : Seq(Messages), bytes : Int, last : Wire,
                       closed : BOOLEAN]
      BY <1>8, <3>2, <3>3 DEF Pop, NumbersInv, NumberTypes
    <3> QED BY <2>1, <3>1, <3>4 DEF NumbersInv, NumberTypes
  <2>5. HandFollows'
    <3>1. Follows(outbox.queue[1], Before(1)) /\ Before(1) = full
      BY <2>0, <2>1 DEF NumbersInv, QueueFollows, Before, Foremost
    <3> QED BY <2>1, <3>1 DEF HandFollows, Follows
  <2>6. QueueFollows'
    <3> SUFFICES ASSUME NEW i \in 1 .. n - 1
                 PROVE  Follows(outbox.queue[i], Before(i))'
      BY <2>2 DEF QueueFollows
    <3>1. Follows(outbox.queue[i + 1], Before(i + 1))
      BY <2>0 DEF NumbersInv, QueueFollows
    <3>2. outbox'.queue[i] = outbox.queue[i + 1] /\ Before(i)' = Before(i + 1)
      BY <2>2, <2>3
    <3> QED BY <2>1, <3>1, <3>2 DEF Follows
  <2>7. NewestSent' = NewestSent
    <3>1. NewestSent' = Before(n)' /\ NewestSent = Before(n + 1)
      BY <2>0, <2>2 DEF NewestSent
    <3> QED BY <2>1, <2>3, <3>1
  <2>8. LastIsNewest' /\ Quiet' /\ InStep'
    BY <2>1, <2>7 DEF NumbersInv, LastIsNewest, Quiet, InStep
  <2> QED BY <2>4, <2>5, <2>6, <2>8 DEF NumbersInv
<1>9. CASE Wait \/ Exit
  <2>1. /\ UNCHANGED <<outbox, conn, handled, asked, full, heard>>
        /\ writer.at = "awake" /\ writer'.at \in {"waiting", "done"}
        /\ writer' \in [at : {"awake", "waiting", "writing", "done"},
                        hand : Messages \cup {Nothing}]
    BY <1>9 DEF Wait, Exit, NumbersInv, NumberTypes
  <2>2. Foremost' = Foremost /\ handled' \in Nat /\ handled <= handled'
    BY <2>1 DEF Foremost, NumbersInv, NumberTypes
  <2>3. QueueFollows' /\ NewestSent' = NewestSent
    BY <2>1, <2>2, QueueKept
  <2> QED BY <2>1, <2>3
      DEF NumbersInv, NumberTypes, HandFollows, LastIsNewest, Quiet, InStep
<1>10. CASE Write
  <2>1. /\ UNCHANGED <<outbox, conn, handled, asked>>
        /\ writer.at = "writing"
        /\ writer' = [at |-> "awake", hand |-> Nothing]
        /\ heard' = writer.hand
        /\ full' = IF writer.hand.kind = "setup" THEN full
                   ELSE Widened(writer.hand.seq)
        /\ Follows(writer.hand, full) /\ full \in Nat
    BY <1>10 DEF Write, NumbersInv, NumberTypes, HandFollows
  <2>2. writer.hand.of \in Nat
    BY <2>1, OutboxAssumption DEF Follows, Messages
  <2>3. full' = writer.hand.of
    <3>1. CASE writer.hand.kind = "setup"
      BY <2>1, <2>2, <3>1 DEF Follows
    <3>2. CASE writer.hand.kind # "setup"
      <4>1. PICK d \in 0 .. Wrap - 1 : writer.hand.of = full + d
        <5>1. writer.hand.of - full \in 0 .. Wrap - 1
          BY <2>1, <2>2, OutboxAssumption DEF Follows, HalfNeverPasses, Gap
        <5> QED BY <2>1, <2>2, <5>1
      <4>2. writer.hand.seq = (full + d) % Wrap
        BY <2>1, <4>1 DEF Follows
      <4>3. LET near == (full - (full % Wrap)) + ((full + d) % Wrap)
            IN  (IF near < full THEN near + Wrap ELSE near) = full + d
        BY <2>1, <4>1, WidensBack, OutboxAssumption
      <4>4. Widened(writer.hand.seq) = full + d
        BY <4>2, <4>3 DEF Widened
      <4> QED BY <2>1, <3>2, <4>1, <4>4
    <3> QED BY <3>1, <3>2
  <2>4. Foremost' = Foremost /\ handled' \in Nat /\ handled <= handled'
    BY <2>1, <2>3 DEF Foremost, NumbersInv, NumberTypes
  <2>5. QueueFollows' /\ NewestSent' = NewestSent
    BY <2>1, <2>4, QueueKept
  <2>6. NumberTypes' /\ HandFollows' /\ Quiet'
    BY <2>1, <2>2, <2>3
       DEF NumbersInv, NumberTypes, HandFollows, Quiet, Follows
  <2>7. InStep' /\ LastIsNewest'
    BY <2>1, <2>3, <2>5 DEF NumbersInv, InStep, LastIsNewest, Follows
  <2> QED BY <2>5, <2>6, <2>7 DEF NumbersInv
<1>11. CASE WriteFails
  <2>1. /\ UNCHANGED <<conn, handled, asked, full, heard>>
        /\ writer' = [at |-> "done", hand |-> Nothing]
        /\ outbox' = [outbox EXCEPT !.queue = <<>>, !.bytes = 0, !.closed = TRUE]
    BY <1>11 DEF WriteFails
  <2>2. outbox'.queue = <<>> /\ outbox'.closed
    BY <2>1 DEF NumbersInv, NumberTypes
  <2>3. NumberTypes'
    <3>1. <<>> \in Seq(Messages) /\ 0 \in Int
      OBVIOUS
    <3> QED BY <2>1, <3>1 DEF NumbersInv, NumberTypes
  <2>4. HandFollows' /\ QueueFollows' /\ LastIsNewest'
    BY <2>1, <2>2 DEF HandFollows, QueueFollows, LastIsNewest
  <2>5. Quiet' /\ InStep'
    BY <2>1 DEF NumbersInv, Quiet, InStep
  <2> QED BY <2>3, <2>4, <2>5 DEF NumbersInv
<1>12. CASE PeerStalls \/ PeerLeaves \/ UNCHANGED outboxVars
  <2>1. UNCHANGED <<outbox, conn, writer, handled, asked, full, heard>>
    BY <1>12 DEF PeerStalls, PeerLeaves, outboxVars
  <2>2. Foremost' = Foremost /\ handled' \in Nat /\ handled <= handled'
    BY <2>1 DEF Foremost, NumbersInv, NumberTypes
  <2>3. QueueFollows' /\ NewestSent' = NewestSent
    BY <2>1, <2>2, QueueKept
  <2> QED BY <2>1, <2>3
      DEF NumbersInv, NumberTypes, HandFollows, Follows, LastIsNewest, Quiet, InStep
<1> QED BY <1>1, <1>2, <1>3, <1>4, <1>5, <1>6, <1>7, <1>8, <1>9, <1>10, <1>11,
           <1>12 DEF OutboxNext

-----------------------------------------------------------------------------
(* The theorems.                                                          *)

LEMMA NumbersAlways == ASSUME HalfNeverPasses PROVE OutboxSpec => []NumbersInv
<1>1. NumbersInv /\ [OutboxNext]_outboxVars => NumbersInv'
  BY NumbersStep
<1> QED BY <1>1, NumbersStart, PTL DEF OutboxSpec

\* For any number of sequence numbers and any backlog, libxcb never widens one
\* past the last request (the comment on Outbox).
THEOREM NeverLost == ASSUME HalfNeverPasses PROVE OutboxSpec => []SequenceNeverLost
<1>1. NumbersInv => SequenceNeverLost
  BY DEF NumbersInv, InStep, SequenceNeverLost
<1> QED BY <1>1, NumbersAlways, PTL

\* For any number of sequence numbers and any backlog, a client finds the
\* request of every reply (send_reply, monotonic).
THEOREM RepliesFound == ASSUME HalfNeverPasses PROVE OutboxSpec => []ReplyFindsItsRequest
<1>1. NumbersInv => ReplyFindsItsRequest
  BY DEF NumbersInv, InStep, ReplyFindsItsRequest
<1> QED BY <1>1, NumbersAlways, PTL
=============================================================================

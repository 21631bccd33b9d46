----------------------------- MODULE StcpProofs -----------------------------
(***************************************************************************)
(* Listening, introducing connections and giving out ephemeral ports, for  *)
(* every range and set of ports and any number of listeners and dials.     *)
(***************************************************************************)
EXTENDS Stcp, FiniteSetTheorems, WellFoundedInduction, TLAPS

ListenerType == [port : ListenPorts \cup {None},
                 st : {"none", "checked", "reserved", "refused", "open"},
                 close : {"no", "done", "accept", "freed"}]
DialType == [st : {"none", "connected", "frame1", "up", "failed", "closed"},
             port : ListenPorts \cup {None}, eph : MinEph..MaxPort \cup {None}]
Free == MinEph..MaxPort \ Occupied

\* A Listener that has its port in the Porter and has not given it back.
Holds(l) == lis[l].st \in {"reserved", "open"} /\ lis[l].close # "freed"

\* The Porter has a port once: what makes lMap's entry the open listener's.
PortsAreHeldOnce ==
    /\ lis \in [Listens -> ListenerType] /\ lMap \in [ListenPorts -> Listens \cup {None}]
    /\ \A l \in Listens : lis[l].st # "none" => lis[l].port \in ListenPorts
    /\ \A l \in Listens : lis[l].close # "no" => lis[l].st = "open"
    /\ \A l \in Listens : Holds(l) => lis[l].port \in ports
    /\ \A l, m \in Listens : Holds(l) /\ Holds(m) /\ lis[l].port = lis[m].port => l = m

\* What the serving goroutine has in hand: the connection it shakes hands with, and from
\* frame 3 on the listener it found.
ServeHolds ==
    /\ serve.at \in {"frame2", "frame3", "introduce", "lock", "send"} =>
          serve.dial \in Dials /\ end[serve.dial] # "none"
    /\ serve.at \in {"frame3", "introduce", "lock", "send"} => serve.lis \in Listens
    /\ end \in [Dials -> {"none", "backlog", "frame1", "frame2", "ok", "refused", "closed",
                          "accepted", "abandoned"}]
    /\ \A d \in Dials : end[d] # "none" => dial[d].port \in ListenPorts

\* Between Introduce's check and its send, the accept channel of the listener is closed
\* only by a Close that overtook it before the lock.
SendIsSafe ==
    /\ serve.at = "send" /\ ~crashed => lmx = serve.lis
    /\ (serve.at \in {"lock", "send"} /\ lis[serve.lis].close \in {"accept", "freed"})
          => overtaken
    /\ overtaken \in BOOLEAN /\ crashed \in BOOLEAN

ListenInv == PortsAreHeldOnce /\ OpenListenersAreMapped
ServeInv == ServeHolds /\ SendIsSafe /\ PanicNeedsOvertaking

\* How far b is after a, going up and round from MaxPort to MinEph: size for a itself.
Distance(a, b) == IF a < b THEN b - a ELSE b - a + (MaxPort - MinEph + 1)

\* Dials are used in order, and the last one has the port of the counter.
DialsInOrder ==
    /\ eph \in MinEph..MaxPort /\ dial \in [Dials -> DialType]
    /\ \A d \in Dials : dial[d].st = "none" => dial[d].eph = None
    /\ \A d \in Dials : dial[d].st # "none" => dial[d].eph \in Free
    /\ \A c, d \in Dials : c < d /\ dial[d].st # "none" => dial[c].st # "none"
    /\ \A d \in Dials : (/\ dial[d].st # "none"
                         /\ (d + 1 \in Dials => dial[d + 1].st = "none")) => eph = dial[d].eph

\* Between two dials every free port up to the second's was given out.
NoneIsPassedOver ==
    \A c, d \in Dials : c < d /\ dial[d].st # "none" =>
        \A p \in Free :
            \/ \E k \in (c + 1)..d : dial[k].eph = p
            \/ Distance(dial[c].eph, dial[d].eph) < Distance(dial[c].eph, p)

EphInv == DialsInOrder /\ NoneIsPassedOver

StcpInv == ListenInv /\ ServeInv /\ EphInv

-----------------------------------------------------------------------------
(* Ephemeral ports                                                         *)

\* A set of natural numbers has a least one.
LEMMA LeastNat ==
    ASSUME NEW T \in SUBSET Nat, T # {}
    PROVE  \E k \in T : \A j \in T : k <= j
<1> DEFINE Less == OpToRel(<, Nat)
<1>1. \A j, k \in Nat : j < k => <<j, k>> \in Less
  BY DEF OpToRel
<1>2. IsWellFoundedOn(Less, Nat)
  BY NatLessThanWellFounded, Zenon
<1> HIDE DEF Less
<1>3. PICK k \in T : \A j \in T : ~(<<j, k>> \in Less)
  BY <1>2, WFMin, Zenon
<1>4. ASSUME NEW j \in T
      PROVE  k <= j
  <2>1. j \in Nat /\ k \in Nat
    OBVIOUS
  <2>2. ~(j < k)
    BY <1>1, <1>3, <2>1, Zenon
  <2>3. QED
    BY <2>1, <2>2
<1>5. QED
  BY <1>4

\* ReserveEphemeral returns a port that is free, and passes over no free one.
LEMMA NextEphIsNext ==
    ASSUME NEW e \in MinEph..MaxPort
    PROVE  /\ NextEph(e) \in Free
           /\ \A p \in Free : Distance(e, NextEph(e)) <= Distance(e, p)
<1> DEFINE size == MaxPort - MinEph + 1
           After(k) == MinEph + (((e - MinEph) + k) % size)
           steps == {k \in 1..size : After(k) \notin Occupied}
<1>1. size \in Nat \ {0} /\ e - MinEph \in 0..(size - 1)
  BY StcpAssumption
<1>2. \A k \in Nat : After(k) \in MinEph..MaxPort
  <2> SUFFICES ASSUME NEW k \in Nat PROVE After(k) \in MinEph..MaxPort
    OBVIOUS
  <2> DEFINE a == (e - MinEph) + k
  <2>1. a \in Nat
    BY <1>1
  <2>2. a % size \in 0..(size - 1)
    BY <1>1, <2>1
  <2>3. QED
    BY <2>2, StcpAssumption
<1>3. ASSUME NEW p \in MinEph..MaxPort
      PROVE  Distance(e, p) \in 1..size /\ After(Distance(e, p)) = p
  <2> DEFINE k == Distance(e, p)
             a == p - MinEph
  <2>1. k \in 1..size
    BY <1>1, StcpAssumption DEF Distance
  <2>2. a \in 0..(size - 1) /\ a % size = a /\ (a + size) % size = a
    <3>1. a \in 0..(size - 1)
      BY StcpAssumption
    <3> HIDE DEF size, a
    <3>2. QED
      BY <1>1, <3>1
  <2>3. (e - MinEph) + k \in {a, a + size}
    BY StcpAssumption DEF Distance
  <2>4. ((e - MinEph) + k) % size = p - MinEph
    BY <2>2, <2>3
  <2>5. QED
    BY <2>1, <2>4, StcpAssumption
<1>4. ASSUME NEW k \in 1..size
      PROVE  Distance(e, After(k)) = k
  <2> DEFINE a == (e - MinEph) + k
  <2>1. a \in Nat /\ a < size + size
    BY <1>1
  <2>2. a % size = IF a < size THEN a ELSE a - size
    <3>1. CASE a < size
      <4> HIDE DEF a, size
      <4>1. QED
        BY <1>1, <2>1, <3>1
    <3>2. CASE a >= size
      <4> DEFINE b == a - size
      <4>1. b \in 0..(size - 1) /\ a = b + size
        BY <1>1, <2>1, <3>2
      <4>2. (b + size) % size = b
        <5> HIDE DEF b, size
        <5>1. QED
          BY <1>1, <4>1
      <4> HIDE DEF a, b, size
      <4>3. QED
        BY <1>1, <2>1, <3>2, <4>1, <4>2
    <3> HIDE DEF a, size
    <3>3. QED
      BY <1>1, <2>1, <3>1, <3>2
  <2>3. QED
    BY <1>1, <2>2, StcpAssumption DEF Distance
<1>5. steps # {}
  <2>1. PICK p \in MinEph..MaxPort : p \notin Occupied
    BY StcpAssumption
  <2>2. QED
    BY <1>3, <2>1
<1>6. \E k \in steps : \A j \in steps : k <= j
  <2>1. steps \in SUBSET Nat
    OBVIOUS
  <2> HIDE DEF steps
  <2>2. QED
    BY <1>5, <2>1, LeastNat
<1> DEFINE least == CHOOSE k \in steps : \A j \in steps : k <= j
<1>7. least \in steps /\ \A j \in steps : least <= j
  <2> HIDE DEF steps
  <2>1. QED
    BY <1>6
<1>8. NextEph(e) = After(least)
  BY Zenon DEF NextEph
<1>9. /\ least \in 1..size /\ After(least) \notin Occupied
      /\ \A j \in 1..size : After(j) \notin Occupied => least <= j
  <2> HIDE DEF least
  <2>1. QED
    BY <1>7
<1> HIDE DEF least, After, size
<1>10. NextEph(e) \in Free /\ Distance(e, NextEph(e)) = least
  BY <1>1, <1>2, <1>4, <1>8, <1>9 DEF Free
<1>11. ASSUME NEW p \in Free
       PROVE  least <= Distance(e, p)
  BY <1>3, <1>9 DEF Free
<1>12. QED
  BY <1>10, <1>11

\* Two distances add up while they stay below the whole round.
LEMMA DistanceAdds ==
    ASSUME NEW a \in MinEph..MaxPort, NEW b \in MinEph..MaxPort, NEW q \in MinEph..MaxPort,
           NEW p \in MinEph..MaxPort,
           Distance(a, b) < Distance(a, p), Distance(b, q) < Distance(b, p)
    PROVE  Distance(a, q) < Distance(a, p)
  BY StcpAssumption DEF Distance

\* Different ports are at different distances.
LEMMA DistanceTells ==
    ASSUME NEW a \in MinEph..MaxPort, NEW p \in MinEph..MaxPort, NEW q \in MinEph..MaxPort,
           Distance(a, p) <= Distance(a, q), p # q
    PROVE  Distance(a, p) < Distance(a, q)
  BY StcpAssumption DEF Distance

\* Giving a dial the next port keeps the order; the other steps of a dial keep its port.
LEMMA EphStep ==
    ASSUME EphInv, NEW d \in Dials, NEW p \in ListenPorts, Dial(d, p)
    PROVE  EphInv'
<1> USE DEF EphInv
<1> DEFINE q == NextEph(eph)
<1>1. q \in Free /\ \A f \in Free : Distance(eph, q) <= Distance(eph, f)
  BY NextEphIsNext DEF DialsInOrder
<1>2. /\ dial[d].st = "none" /\ \A c \in 1..(d - 1) : dial[c].st # "none"
      /\ eph' = q /\ dial' = [dial EXCEPT ![d] = [st |-> "connected", port |-> p, eph |-> q]]
  BY DEF Dial
<1> HIDE DEF q
<1>3. /\ dial' \in [Dials -> DialType]
      /\ dial'[d].st # "none" /\ dial'[d].eph = q
      /\ \A c \in Dials : c # d => dial'[c] = dial[c]
  BY <1>1, <1>2 DEF DialsInOrder, DialType, Free
<1>4. \A c \in Dials : d < c => dial[c].st = "none"
  BY <1>2 DEF DialsInOrder
<1>5. \A c \in Dials : c < d => dial[c].st # "none"
  BY <1>2 DEF Dials
<1>6. DialsInOrder'
  <2>1. eph' \in MinEph..MaxPort
    BY <1>1, <1>2 DEF Free
  <2>2. \A c \in Dials : /\ dial'[c].st = "none" => dial'[c].eph = None
                         /\ dial'[c].st # "none" => dial'[c].eph \in Free
    BY <1>1, <1>3 DEF DialsInOrder
  <2>3. \A b, c \in Dials : b < c /\ dial'[c].st # "none" => dial'[b].st # "none"
    BY <1>3, <1>4, <1>5 DEF DialsInOrder, Dials
  <2>4. \A c \in Dials : (/\ dial'[c].st # "none"
                          /\ (c + 1 \in Dials => dial'[c + 1].st = "none")) => c = d
    <3> SUFFICES ASSUME NEW c \in Dials, dial'[c].st # "none", c # d
                 PROVE  c + 1 \in Dials /\ dial'[c + 1].st # "none"
      OBVIOUS
    <3>1. c < d
      BY <1>3, <1>4 DEF Dials
    <3>2. c + 1 \in Dials /\ (c + 1 = d \/ c + 1 < d)
      BY <3>1, StcpAssumption DEF Dials
    <3>3. QED
      BY <1>3, <1>5, <3>2
  <2>5. QED
    BY <1>2, <1>3, <2>1, <2>2, <2>3, <2>4 DEF DialsInOrder
<1>7. NoneIsPassedOver'
  <2> SUFFICES ASSUME NEW b \in Dials, NEW c \in Dials, b < c, dial'[c].st # "none",
                      NEW f \in Free, \A k \in (b + 1)..c : dial'[k].eph # f
               PROVE  Distance(dial'[b].eph, dial'[c].eph) < Distance(dial'[b].eph, f)
    BY DEF NoneIsPassedOver
  <2>1. CASE c # d
    <3>1. b # d /\ c < d
      BY <1>3, <1>4, <2>1 DEF Dials
    <3>2. ASSUME NEW k \in (b + 1)..c
          PROVE  dial[k].eph # f
      <4>1. k \in Dials /\ k # d
        BY <3>1, StcpAssumption DEF Dials
      <4>2. QED
        BY <1>3, <4>1
    <3>3. dial'[b] = dial[b] /\ dial'[c] = dial[c]
      BY <1>3, <2>1, <3>1
    <3>4. QED
      BY <3>2, <3>3 DEF NoneIsPassedOver
  <2>2. CASE c = d
    <3>1. f # q
      BY <1>3, <2>2 DEF Dials
    <3>2. d - 1 \in Dials /\ dial[d - 1].st # "none" /\ eph = dial[d - 1].eph
      <4>1. d - 1 \in Dials /\ d - 1 < d /\ (d - 1) + 1 = d
        BY <2>2, StcpAssumption DEF Dials
      <4>2. dial[d - 1].st # "none"
        BY <1>5, <4>1
      <4>3. QED
        BY <1>2, <4>1, <4>2 DEF DialsInOrder
    <3>3. eph \in MinEph..MaxPort /\ q \in MinEph..MaxPort /\ f \in MinEph..MaxPort
      BY <1>1, <3>2 DEF DialsInOrder, Free
    <3>4. Distance(eph, q) < Distance(eph, f)
      BY <1>1, <3>1, <3>3, DistanceTells
    <3>5. CASE b = d - 1
      BY <1>3, <2>2, <3>2, <3>4, <3>5 DEF Dials
    <3>6. CASE b # d - 1
      <4>1. b < d - 1 /\ b # d
        BY <2>2, <3>6 DEF Dials
      <4>2. ASSUME NEW k \in (b + 1)..(d - 1)
            PROVE  dial[k].eph # f
        <5>1. k \in Dials /\ k # d /\ k \in (b + 1)..c
          BY <2>2, StcpAssumption DEF Dials
        <5>2. QED
          BY <1>3, <5>1
      <4>3. Distance(dial[b].eph, eph) < Distance(dial[b].eph, f)
        BY <3>2, <4>1, <4>2 DEF NoneIsPassedOver
      <4>4. dial[b].eph \in MinEph..MaxPort
        BY <1>5, <2>2 DEF DialsInOrder, Free
      <4>5. Distance(dial[b].eph, q) < Distance(dial[b].eph, f)
        BY <3>3, <3>4, <4>3, <4>4, DistanceAdds
      <4>6. QED
        BY <1>3, <2>2, <4>1, <4>5
    <3>7. QED
      BY <3>5, <3>6
  <2>3. QED
    BY <2>1, <2>2
<1>8. QED
  BY <1>6, <1>7

\* When two dials have the same port, the round between them gave out every free port.
LEMMA EphReuse == EphInv => EphemeralReuse
<1> SUFFICES ASSUME EphInv, NEW c \in Dials, NEW d \in Dials, c < d,
                    dial[c].eph # None, dial[c].eph = dial[d].eph
             PROVE  d - c >= Cardinality(Free)
  BY DEF EphemeralReuse, Free
<1>1. dial[d].st # "none" /\ dial[c].eph \in MinEph..MaxPort
  BY DEF EphInv, DialsInOrder, DialType
<1>2. ASSUME NEW p \in Free
      PROVE  \E k \in (c + 1)..d : dial[k].eph = p
  <2>1. ~(Distance(dial[c].eph, dial[d].eph) < Distance(dial[c].eph, p))
    BY <1>1, StcpAssumption DEF Distance, Free
  <2>2. QED
    BY <1>1, <2>1 DEF EphInv, NoneIsPassedOver
<1> DEFINE n == d - c
           f == [k \in 1..n |-> dial[c + k].eph]
<1>3. n \in Nat
  BY DEF Dials
<1>4. f \in [1..n -> Free]
  <2> SUFFICES ASSUME NEW k \in 1..n PROVE dial[c + k].eph \in Free
    OBVIOUS
  <2>1. c + k \in Dials /\ c + k <= d
    BY StcpAssumption DEF Dials
  <2>2. dial[c + k].st # "none"
    <3>1. c + k = d \/ c + k < d
      BY <2>1, StcpAssumption DEF Dials
    <3>2. QED
      BY <1>1, <2>1, <3>1 DEF EphInv, DialsInOrder
  <2>3. QED
    BY <2>1, <2>2 DEF EphInv, DialsInOrder
<1>5. \A p \in Free : \E k \in 1..n : f[k] = p
  <2> SUFFICES ASSUME NEW p \in Free PROVE \E k \in 1..n : f[k] = p
    OBVIOUS
  <2>1. PICK k \in (c + 1)..d : dial[k].eph = p
    BY <1>2
  <2>2. k - c \in 1..n /\ c + (k - c) = k
    BY DEF Dials
  <2>3. QED
    BY <2>1, <2>2
<1>6. ExistsSurjection(1..n, Free)
  <2> HIDE DEF f, n
  <2>1. f \in Surjection(1..n, Free)
    BY <1>4, <1>5 DEF Surjection
  <2>2. QED
    BY <2>1, Zenon DEF ExistsSurjection
<1>7. Cardinality(Free) <= n
  BY <1>3, <1>6, FS_SurjCardinalityBound
<1>8. IsFiniteSet(Free) /\ Cardinality(Free) \in Nat
  <2>1. IsFiniteSet(MinEph..MaxPort)
    BY StcpAssumption, FS_Interval
  <2>2. Free \in SUBSET (MinEph..MaxPort)
    BY DEF Free
  <2>3. IsFiniteSet(Free)
    BY <2>1, <2>2, FS_Subset
  <2>4. QED
    BY <2>3, FS_CardinalityType
<1>9. QED
  BY <1>3, <1>7, <1>8

\* A dial that goes on keeps its port.
LEMMA EphFrame ==
    ASSUME EphInv, NEW d \in Dials, dial[d].st # "none", eph' = eph,
           NEW st \in {"connected", "frame1", "up", "failed", "closed"},
           dial' = [dial EXCEPT ![d].st = st]
    PROVE  EphInv' /\ \A c \in Dials : dial'[c].port = dial[c].port
<1>1. [dial[d] EXCEPT !.st = st] \in DialType /\ [dial[d] EXCEPT !.st = st].st = st
      /\ [dial[d] EXCEPT !.st = st].eph = dial[d].eph
      /\ [dial[d] EXCEPT !.st = st].port = dial[d].port
  BY DEF EphInv, DialsInOrder, DialType
<1>2. /\ dial' \in [Dials -> DialType]
      /\ \A c \in Dials : /\ dial'[c].eph = dial[c].eph /\ dial'[c].port = dial[c].port
                          /\ dial'[c].st = "none" <=> dial[c].st = "none"
  BY <1>1 DEF EphInv, DialsInOrder
<1>3. DialsInOrder'
  BY <1>2 DEF EphInv, DialsInOrder
<1>4. NoneIsPassedOver'
  <2> SUFFICES ASSUME NEW b \in Dials, NEW c \in Dials, b < c, dial'[c].st # "none",
                      NEW f \in Free, \A k \in (b + 1)..c : dial'[k].eph # f
               PROVE  Distance(dial'[b].eph, dial'[c].eph) < Distance(dial'[b].eph, f)
    BY DEF NoneIsPassedOver
  <2>1. (b + 1)..c \subseteq Dials
    BY StcpAssumption DEF Dials
  <2>2. QED
    BY <1>2, <2>1 DEF EphInv, NoneIsPassedOver
<1>5. QED
  BY <1>2, <1>3, <1>4 DEF EphInv

\* Steps that leave the dials alone.
LEMMA EphStutter ==
    ASSUME EphInv, UNCHANGED <<dial, eph>>
    PROVE  EphInv'
  BY DEF EphInv, DialsInOrder, NoneIsPassedOver

-----------------------------------------------------------------------------
(* Listening and serving                                                   *)

\* Steps that leave the listeners alone.
LEMMA ListenStutter ==
    ASSUME ListenInv, UNCHANGED lisVars
    PROVE  ListenInv'
  BY DEF ListenInv, PortsAreHeldOnce, Holds, OpenListenersAreMapped, lisVars

\* The initiator's side of a connection.
LEMMA DialStep ==
    ASSUME StcpInv, NEW d \in Dials, UNCHANGED crashed,
           \/ \E p \in ListenPorts : Dial(d, p)
           \/ InitiatorFrame2(d) \/ InitiatorFrame3(d) \/ InitiatorTimeout(d) \/ CloseConn(d)
    PROVE  StcpInv'
<1>1. UNCHANGED <<lisVars, serve, lmx, overtaken, crashed>>
  BY DEF Dial, InitiatorFrame2, InitiatorFrame3, InitiatorTimeout, CloseConn
<1>2. ListenInv' /\ SendIsSafe' /\ PanicNeedsOvertaking'
  BY <1>1, ListenStutter DEF StcpInv, ServeInv, SendIsSafe, PanicNeedsOvertaking, lisVars
<1>3. ASSUME NEW p \in ListenPorts, Dial(d, p)
      PROVE  StcpInv'
  <2>1. EphInv'
    BY <1>3, EphStep DEF StcpInv
  <2>2. end' = [end EXCEPT ![d] = "backlog"] /\ dial'[d].port = p
        /\ \A c \in Dials : c # d => dial'[c] = dial[c]
    BY <1>3 DEF Dial, StcpInv, EphInv, DialsInOrder
  <2>3. ServeHolds'
    BY <1>1, <2>2 DEF StcpInv, ServeInv, ServeHolds
  <2>4. QED
    BY <1>2, <2>1, <2>3 DEF StcpInv, ServeInv
<1>4. ASSUME NEW st \in {"connected", "frame1", "up", "failed", "closed"},
             dial[d].st # "none", dial' = [dial EXCEPT ![d].st = st], eph' = eph,
             \/ end' = end
             \/ end[d] = "frame1" /\ end' = [end EXCEPT ![d] = "frame2"]
      PROVE  StcpInv'
  <2>1. EphInv' /\ \A c \in Dials : dial'[c].port = dial[c].port
    BY <1>4, EphFrame DEF StcpInv
  <2>2. ServeHolds'
    BY <1>1, <1>4, <2>1 DEF StcpInv, ServeInv, ServeHolds
  <2>3. QED
    BY <1>2, <2>1, <2>2 DEF StcpInv, ServeInv
<1>5. CASE InitiatorFrame2(d)
  BY <1>4, <1>5 DEF InitiatorFrame2
<1>6. CASE InitiatorFrame3(d)
  <2>1. PICK st \in {"failed", "up"} : dial' = [dial EXCEPT ![d].st = st]
    BY <1>6 DEF InitiatorFrame3
  <2>2. QED
    BY <1>4, <1>6, <2>1 DEF InitiatorFrame3
<1>7. CASE InitiatorTimeout(d) \/ CloseConn(d)
  BY <1>4, <1>7 DEF InitiatorTimeout, CloseConn
<1>8. QED
  BY <1>3, <1>5, <1>6, <1>7

\* The serving goroutine: what it may look up, lock and send on.
LEMMA ServeStep ==
    ASSUME StcpInv, ~crashed,
           \/ /\ UNCHANGED crashed
              /\ \/ ServeCheck \/ AcceptTCP \/ ResponderFrame2 \/ ResponderFails
                 \/ ResponderFrame3 \/ IntroduceCheck \/ IntroduceLock \/ AcceptConn
           \/ IntroduceDone
    PROVE  StcpInv'
<1> USE DEF StcpInv, ServeInv, ServeHolds, SendIsSafe, PanicNeedsOvertaking
<1>1. UNCHANGED <<lisVars, dial, eph, overtaken>>
  BY DEF ServeCheck, AcceptTCP, ResponderFrame2, ResponderFails, ResponderFrame3,
         IntroduceCheck, IntroduceLock, AcceptConn, IntroduceDone, dialVars
<1>2. ListenInv' /\ EphInv'
  BY <1>1, ListenStutter, EphStutter
<1>3. lis' = lis /\ lMap' = lMap
  BY <1>1 DEF lisVars
<1>4. \A at, c, l : Serve(at, c, l) => serve'.at = at /\ serve'.dial = c /\ serve'.lis = l
  BY DEF Serve
<1>5. CASE ServeCheck /\ UNCHANGED crashed
  <2>1. PICK at \in {"accept", "stopped"} : Serve(at, None, None)
    BY <1>5 DEF ServeCheck
  <2>2. UNCHANGED end
    BY <1>5 DEF ServeCheck, dialVars
  <2>3. QED
    BY <1>1, <1>2, <1>4, <1>5, <2>1, <2>2
<1>6. CASE AcceptTCP /\ UNCHANGED crashed
  BY <1>1, <1>2, <1>4, <1>6 DEF AcceptTCP
<1>7. CASE ResponderFrame2 /\ UNCHANGED crashed
  <2> DEFINE l == lMap[dial[serve.dial].port]
  <2>1. serve.dial \in Dials /\ l \in Listens \cup {None}
    BY <1>7 DEF ResponderFrame2, ListenInv, PortsAreHeldOnce
  <2>2. CASE l # None /\ Serve("frame3", serve.dial, l) /\ UNCHANGED end
    <3>1. serve'.at = "frame3" /\ serve'.dial = serve.dial /\ serve'.lis \in Listens
      BY <1>4, <2>1, <2>2
    <3>2. end[serve.dial] # "none"
      BY <1>7 DEF ResponderFrame2
    <3>3. QED
      BY <1>1, <1>2, <1>7, <2>1, <2>2, <3>1, <3>2
  <2>3. CASE end' = [end EXCEPT ![serve.dial] = "refused"] /\ Serve("check", None, None)
    BY <1>1, <1>2, <1>4, <1>7, <2>1, <2>3 DEF ResponderFrame2
  <2>4. QED
    BY <1>7, <2>2, <2>3 DEF ResponderFrame2
<1>8. CASE ResponderFails /\ UNCHANGED crashed
  BY <1>1, <1>2, <1>4, <1>8 DEF ResponderFails
<1>9. CASE ResponderFrame3 /\ UNCHANGED crashed
  BY <1>1, <1>2, <1>4, <1>9 DEF ResponderFrame3
<1>10. CASE IntroduceCheck /\ UNCHANGED crashed
  BY <1>1, <1>2, <1>3, <1>4, <1>10 DEF IntroduceCheck, Abandon
<1>11. CASE IntroduceLock /\ UNCHANGED crashed
  <2>1. UNCHANGED end
    BY <1>11 DEF IntroduceLock, dialVars
  <2>2. QED
    BY <1>1, <1>2, <1>3, <1>4, <1>11, <2>1 DEF IntroduceLock
<1>12. CASE AcceptConn /\ UNCHANGED crashed
  BY <1>1, <1>2, <1>4, <1>12 DEF AcceptConn
<1>13. CASE IntroduceDone
  <2>1. serve.dial \in Dials /\ end[serve.dial] # "none" /\ serve.lis \in Listens
    BY <1>13 DEF IntroduceDone
  <2>2. CASE Abandon /\ UNCHANGED crashed
    BY <1>1, <1>2, <1>4, <2>1, <2>2 DEF Abandon
  <2>3. CASE /\ lis[serve.lis].close \in {"accept", "freed"}
             /\ crashed' = TRUE /\ UNCHANGED <<serve, end>>
    <3>1. overtaken
      BY <1>13, <2>3 DEF IntroduceDone
    <3>2. QED
      BY <1>1, <1>2, <2>3, <3>1
  <2>4. QED
    BY <1>13, <2>2, <2>3 DEF IntroduceDone
<1>14. QED
  BY <1>5, <1>6, <1>7, <1>8, <1>9, <1>10, <1>11, <1>12, <1>13

\* The calls of Listen and Close.  Reserve refuses a port that is held, and Close takes
\* the mx that Introduce holds over its send.
LEMMA ListenStep ==
    ASSUME StcpInv, ~crashed, UNCHANGED crashed, NEW l \in Listens,
           \/ \E p \in ListenPorts : ListenCheck(l, p)
           \/ Reserve(l) \/ ListenMap(l) \/ UserCloses(l) \/ CloseNext(l)
           \/ CloseAccept(l) \/ FreePort(l)
    PROVE  StcpInv'
<1>1. UNCHANGED <<serve, lmx, dial, end, eph, crashed>>
  BY DEF ListenCheck, Reserve, ListenMap, UserCloses, CloseNext, CloseAccept, FreePort, dialVars
<1>2. EphInv' /\ ServeHolds'
  BY <1>1, EphStutter DEF StcpInv, ServeInv, ServeHolds
<1>3. lis \in [Listens -> ListenerType] /\ lis[l] \in ListenerType
  BY DEF StcpInv, ListenInv, PortsAreHeldOnce
<1>4. ASSUME NEW r \in ListenerType, lis' = [lis EXCEPT ![l] = r],
             r.close = lis[l].close \/ r.close \in {"no", "done"}
                \/ (r.close = "freed" /\ lis[l].close = "accept"),
             UNCHANGED overtaken
      PROVE  SendIsSafe' /\ PanicNeedsOvertaking'
  <2>1. lis'[l] = r /\ \A m \in Listens : m # l => lis'[m] = lis[m]
    BY <1>3, <1>4
  <2>2. QED
    BY <1>1, <1>4, <2>1 DEF StcpInv, ServeInv, ServeHolds, SendIsSafe, PanicNeedsOvertaking
<1>5. ASSUME NEW p \in ListenPorts, ListenCheck(l, p)
      PROVE  StcpInv'
  <2> DEFINE r == [lis[l] EXCEPT !.port = p, !.st = "checked"]
  <2>1. r \in ListenerType /\ r.port = p /\ r.st = "checked" /\ r.close = lis[l].close
    BY <1>3 DEF ListenerType
  <2>2. lis' = [lis EXCEPT ![l] = r] /\ lis[l].st = "none" /\ UNCHANGED <<lMap, ports, overtaken>>
    BY <1>5 DEF ListenCheck
  <2> HIDE DEF r
  <2>3. lis' \in [Listens -> ListenerType] /\ lis'[l] = r /\ \A m \in Listens : m # l => lis'[m] = lis[m]
    BY <1>3, <2>1, <2>2
  <2>4. ListenInv'
    BY <2>1, <2>2, <2>3 DEF StcpInv, ListenInv, PortsAreHeldOnce, Holds, OpenListenersAreMapped
  <2>5. QED
    BY <1>2, <1>4, <2>1, <2>2, <2>4 DEF StcpInv, ServeInv
<1>6. ASSUME Reserve(l)
      PROVE  StcpInv'
  <2> DEFINE st == IF lis[l].port \in ports THEN "refused" ELSE "reserved"
             r == [lis[l] EXCEPT !.st = st]
  <2>1. st \in {"refused", "reserved"} /\ (st = "reserved" => lis[l].port \notin ports)
    OBVIOUS
  <2>2. /\ lis' = [lis EXCEPT ![l] = r] /\ lis[l].st = "checked" /\ UNCHANGED <<lMap, overtaken>>
        /\ ports' = ports \cup {lis[l].port}
    BY <1>6 DEF Reserve
  <2> HIDE DEF st
  <2>3. r \in ListenerType /\ r.port = lis[l].port /\ r.st = st /\ r.close = lis[l].close
    BY <1>3, <2>1 DEF ListenerType
  <2> HIDE DEF r
  <2>4. lis' \in [Listens -> ListenerType] /\ lis'[l] = r /\ \A m \in Listens : m # l => lis'[m] = lis[m]
    BY <1>3, <2>2, <2>3
  <2>5. ListenInv'
    BY <2>1, <2>2, <2>3, <2>4 DEF StcpInv, ListenInv, PortsAreHeldOnce, Holds, OpenListenersAreMapped
  <2>6. QED
    BY <1>2, <1>4, <2>2, <2>3, <2>5 DEF StcpInv, ServeInv
<1>7. ASSUME ListenMap(l)
      PROVE  StcpInv'
  <2> DEFINE r == [lis[l] EXCEPT !.st = "open"]
  <2>1. r \in ListenerType /\ r.port = lis[l].port /\ r.st = "open" /\ r.close = lis[l].close
    BY <1>3 DEF ListenerType
  <2>2. /\ lis' = [lis EXCEPT ![l] = r] /\ lis[l].st = "reserved" /\ UNCHANGED <<ports, overtaken>>
        /\ lMap' = [lMap EXCEPT ![lis[l].port] = l]
    BY <1>7 DEF ListenMap
  <2> HIDE DEF r
  <2>3. lis' \in [Listens -> ListenerType] /\ lis'[l] = r /\ \A m \in Listens : m # l => lis'[m] = lis[m]
    BY <1>3, <2>1, <2>2
  <2>4. PortsAreHeldOnce'
    BY <2>1, <2>2, <2>3 DEF StcpInv, ListenInv, PortsAreHeldOnce, Holds
  <2>5. OpenListenersAreMapped'
    BY <2>1, <2>2, <2>3 DEF StcpInv, ListenInv, PortsAreHeldOnce, Holds, OpenListenersAreMapped
  <2>6. QED
    BY <1>2, <1>4, <2>1, <2>2, <2>4, <2>5 DEF StcpInv, ServeInv, ListenInv
<1>8. ASSUME UserCloses(l) \/ CloseNext(l)
      PROVE  StcpInv'
  <2> DEFINE r == [lis[l] EXCEPT !.close = "done"]
  <2>1. r \in ListenerType /\ r.port = lis[l].port /\ r.st = lis[l].st /\ r.close = "done"
    BY <1>3 DEF ListenerType
  <2>2. /\ lis' = [lis EXCEPT ![l] = r] /\ lis[l].st = "open" /\ lis[l].close = "no"
        /\ UNCHANGED <<lMap, ports, overtaken>>
    BY <1>8 DEF UserCloses, CloseNext, CloseListener
  <2> HIDE DEF r
  <2>3. lis' \in [Listens -> ListenerType] /\ lis'[l] = r /\ \A m \in Listens : m # l => lis'[m] = lis[m]
    BY <1>3, <2>1, <2>2
  <2>4. ListenInv'
    BY <2>1, <2>2, <2>3 DEF StcpInv, ListenInv, PortsAreHeldOnce, Holds, OpenListenersAreMapped
  <2>5. QED
    BY <1>2, <1>4, <2>1, <2>2, <2>4 DEF StcpInv, ServeInv
<1>9. ASSUME CloseAccept(l)
      PROVE  StcpInv'
  <2> DEFINE r == [lis[l] EXCEPT !.close = "accept"]
  <2>1. r \in ListenerType /\ r.port = lis[l].port /\ r.st = lis[l].st /\ r.close = "accept"
    BY <1>3 DEF ListenerType
  <2>2. /\ lis' = [lis EXCEPT ![l] = r] /\ lis[l].close = "done" /\ lmx # l
        /\ UNCHANGED <<lMap, ports>>
    BY <1>9 DEF CloseAccept
  <2>3. /\ overtaken' \in BOOLEAN /\ (overtaken => overtaken')
        /\ serve.at = "lock" /\ serve.lis = l => overtaken'
    BY <1>9 DEF CloseAccept, StcpInv, ServeInv, SendIsSafe
  <2> HIDE DEF r
  <2>4. lis' \in [Listens -> ListenerType] /\ lis'[l] = r /\ \A m \in Listens : m # l => lis'[m] = lis[m]
    BY <1>3, <2>1, <2>2
  <2>5. ListenInv'
    BY <2>1, <2>2, <2>4 DEF StcpInv, ListenInv, PortsAreHeldOnce, Holds, OpenListenersAreMapped
  <2>6. SendIsSafe' /\ PanicNeedsOvertaking'
    BY <1>1, <2>2, <2>3, <2>4 DEF StcpInv, ServeInv, ServeHolds, SendIsSafe, PanicNeedsOvertaking
  <2>7. QED
    BY <1>2, <2>5, <2>6 DEF StcpInv, ServeInv
<1>10. ASSUME FreePort(l)
       PROVE  StcpInv'
  <2> DEFINE r == [lis[l] EXCEPT !.close = "freed"]
  <2>1. r \in ListenerType /\ r.port = lis[l].port /\ r.st = lis[l].st /\ r.close = "freed"
    BY <1>3 DEF ListenerType
  <2>2. /\ lis' = [lis EXCEPT ![l] = r] /\ lis[l].close = "accept"
        /\ ports' = ports \ {lis[l].port} /\ UNCHANGED <<lMap, overtaken>>
    BY <1>10 DEF FreePort
  <2> HIDE DEF r
  <2>3. lis' \in [Listens -> ListenerType] /\ lis'[l] = r /\ \A m \in Listens : m # l => lis'[m] = lis[m]
    BY <1>3, <2>1, <2>2
  <2>4. ListenInv'
    BY <2>1, <2>2, <2>3 DEF StcpInv, ListenInv, PortsAreHeldOnce, Holds, OpenListenersAreMapped
  <2>5. QED
    BY <1>2, <1>4, <2>1, <2>2, <2>4 DEF StcpInv, ServeInv
<1>11. QED
  BY <1>5, <1>6, <1>7, <1>8, <1>9, <1>10

\* Closing the network changes no listener by itself; it resets the connections of the
\* backlog.
LEMMA NetworkStep ==
    ASSUME StcpInv,
           \/ /\ CloseNetwork \/ DmsgCloses \/ CloseTCP \/ ClientClosed \/ NetworkClosed
              /\ UNCHANGED crashed
           \/ UNCHANGED vars
    PROVE  StcpInv'
<1>1. UNCHANGED <<lisVars, serve, lmx, dial, eph, crashed, overtaken>>
  BY DEF CloseNetwork, DmsgCloses, CloseTCP, ClientClosed, NetworkClosed, dialVars, vars
<1>2. /\ end' \in [Dials -> {"none", "backlog", "frame1", "frame2", "ok", "refused", "closed",
                             "accepted", "abandoned"}]
      /\ \A d \in Dials : end'[d] = "none" <=> end[d] = "none"
  BY DEF CloseNetwork, DmsgCloses, CloseTCP, ClientClosed, NetworkClosed, dialVars, vars,
         StcpInv, ServeInv, ServeHolds
<1>3. ListenInv' /\ EphInv'
  BY <1>1, ListenStutter, EphStutter DEF StcpInv
<1>4. ServeInv'
  BY <1>1, <1>2 DEF lisVars, StcpInv, ServeInv, ServeHolds, SendIsSafe, PanicNeedsOvertaking
<1>5. QED
  BY <1>3, <1>4 DEF StcpInv

\* The invariant of all behaviours.
LEMMA StcpInvariant == Spec => []StcpInv
<1>1. Init => StcpInv
  <2> SUFFICES ASSUME Init PROVE StcpInv
    OBVIOUS
  <2>1. lis \in [Listens -> ListenerType] /\ lMap \in [ListenPorts -> Listens \cup {None}]
        /\ \A l \in Listens : lis[l].st = "none" /\ lis[l].close = "no"
    BY DEF Init, ListenerType
  <2>2. dial \in [Dials -> DialType] /\ \A d \in Dials : dial[d].st = "none" /\ dial[d].eph = None
    BY DEF Init, DialType
  <2>3. /\ serve.at = "check" /\ eph \in MinEph..MaxPort /\ crashed = FALSE /\ overtaken = FALSE
        /\ \A d \in Dials : end[d] = "none"
        /\ end \in [Dials -> {"none", "backlog", "frame1", "frame2", "ok", "refused", "closed",
                             "accepted", "abandoned"}]
    BY StcpAssumption DEF Init
  <2>4. ListenInv
    BY <2>1 DEF ListenInv, PortsAreHeldOnce, Holds, OpenListenersAreMapped
  <2>5. ServeInv
    BY <2>3 DEF ServeInv, ServeHolds, SendIsSafe, PanicNeedsOvertaking
  <2>6. EphInv
    BY <2>2, <2>3 DEF EphInv, DialsInOrder, NoneIsPassedOver
  <2>7. QED
    BY <2>4, <2>5, <2>6 DEF StcpInv
<1>2. StcpInv /\ [Next]_vars => StcpInv'
  <2> SUFFICES ASSUME StcpInv, [Next]_vars PROVE StcpInv'
    OBVIOUS
  <2>1. CASE System
    BY <2>1, DialStep, ServeStep, ListenStep, NetworkStep DEF System
  <2>2. CASE Environment
    BY <2>2, DialStep, ServeStep, ListenStep, NetworkStep DEF Environment
  <2>3. QED
    BY <2>1, <2>2, NetworkStep DEF Next
<1>3. QED
  BY <1>1, <1>2, PTL DEF Spec

\* The panic on the closed accept channel needs a Close between Introduce's check of done
\* and its lock: Introduce holds mx over its send and Close takes mx.
THEOREM PanicTheorem == Spec => []PanicNeedsOvertaking
  BY StcpInvariant, PTL DEF StcpInv, ServeInv

\* An open listener is the one lMap has for its port, however Listen and Close overlap:
\* the Porter has given the port to no other.
THEOREM MappedTheorem == Spec => []OpenListenersAreMapped
  BY StcpInvariant, PTL DEF StcpInv, ListenInv

\* An ephemeral port is given out again only after every free one, for every range of
\* ports and every set of occupied ones, the wrap of the counter included.
THEOREM ReuseTheorem == Spec => []EphemeralReuse
<1>1. StcpInv => EphemeralReuse
  BY EphReuse DEF StcpInv
<1>2. QED
  BY <1>1, StcpInvariant, PTL
=============================================================================

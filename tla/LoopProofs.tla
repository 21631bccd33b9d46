----------------------------- MODULE LoopProofs -----------------------------
(***************************************************************************)
(* Proofs about the rules of a loop (LoopRules) and about setting loops up *)
(* and closing them (LoopSetup), for any visors, loops and routes.         *)
(***************************************************************************)
EXTENDS LoopSetup, MCLoopRules, FiniteSetTheorems, SequenceTheorems, NaturalsInduction,
        WellFoundedInduction, TLAPS

-----------------------------------------------------------------------------
(* Recursive functions and induction, from the least counterexample.       *)

\* A set of natural numbers has a least one.
LEMMA LeastNat ==
    ASSUME NEW T \in SUBSET Nat, T # {}
    PROVE  \E k \in T : \A j \in T : k <= j
<1> DEFINE Less == OpToRel(<, Nat)
<1>1. \A j, k \in Nat : j < k => <<j, k>> \in Less
  BY DEF OpToRel
<1>2. IsWellFoundedOn(Less, Nat)
  BY NatLessThanWellFounded, Zenon
<1> HIDE DEF Less
<1>3. PICK k \in T : \A j \in T : ~(<<j, k>> \in Less)
  BY <1>2, WFMin, Zenon
<1>4. ASSUME NEW j \in T
      PROVE  k <= j
  <2>1. j \in Nat /\ k \in Nat
    OBVIOUS
  <2>2. ~(j < k)
    BY <1>1, <1>3, <2>1, Zenon
  <2>3. QED
    BY <2>1, <2>2
<1>5. QED
  BY <1>4

\* A set that has 0 and, up to N, the successor of each of its members, has them all.
LEMMA InductionTo ==
    ASSUME NEW N \in Nat, NEW T,
           0 \in T,
           \A n \in 0..(N - 1) : n \in T => n + 1 \in T
    PROVE  \A n \in 0..N : n \in T
<1> DEFINE Out == {n \in 0..N : n \notin T}
<1>1. SUFFICES ASSUME Out # {}
               PROVE  FALSE
  OBVIOUS
<1>2. PICK k \in Out : \A j \in Out : k <= j
  <2>1. Out \in SUBSET Nat
    OBVIOUS
  <2> HIDE DEF Out
  <2>2. QED
    BY <1>1, <2>1, LeastNat
<1>3. k \in 1..N
  BY <1>2
<1>4. k - 1 \notin Out
  BY <1>2, <1>3
<1>5. k - 1 \in 0..(N - 1) /\ k - 1 \in T
  BY <1>3, <1>4
<1>6. (k - 1) + 1 \in T
  BY <1>5
<1>7. (k - 1) + 1 = k
  BY <1>3
<1>8. QED
  BY <1>2, <1>6, <1>7

\* g starts from x and goes on by F.
Follows(g, x, N, F) == g[0] = x /\ \A n \in 1..N : g[n] = F[n][g[n - 1]]

\* There is such a function.
LEMMA Recursion ==
    ASSUME NEW S, NEW x \in S, NEW N \in Nat, NEW F \in [1..N -> [S -> S]]
    PROVE  \E g \in [0..N -> S] : Follows(g, x, N, F)
<1> DEFINE T == {k \in 0..N : \E g \in [0..k -> S] : Follows(g, x, k, F)}
<1>1. 0 \in T
  <2> DEFINE g == [n \in 0..0 |-> x]
  <2>1. g \in [0..0 -> S] /\ g[0] = x /\ 1..0 = {}
    OBVIOUS
  <2> HIDE DEF g
  <2>2. QED
    BY <2>1 DEF Follows
<1>2. ASSUME NEW k \in 0..(N - 1), k \in T
      PROVE  k + 1 \in T
  <2>1. PICK g \in [0..k -> S] : Follows(g, x, k, F)
    BY <1>2
  <2> DEFINE h == [n \in 0..(k + 1) |-> IF n = k + 1 THEN F[k + 1][g[k]] ELSE g[n]]
  <2>2. F[k + 1][g[k]] \in S
    OBVIOUS
  <2>3. h \in [0..(k + 1) -> S]
    BY <2>2
  <2>4. h[0] = x
    BY <2>1 DEF Follows
  <2>5. ASSUME NEW n \in 1..(k + 1)
        PROVE  h[n] = F[n][h[n - 1]]
    <3>1. CASE n = k + 1
      BY <3>1
    <3>2. CASE n # k + 1
      <4>1. n \in 1..k /\ h[n] = g[n] /\ h[n - 1] = g[n - 1]
        BY <3>2
      <4>2. QED
        BY <2>1, <4>1 DEF Follows
    <3>3. QED
      BY <3>1, <3>2
  <2>6. k + 1 \in 0..N
    OBVIOUS
  <2> HIDE DEF h
  <2>7. QED
    BY <2>3, <2>4, <2>5, <2>6 DEF Follows
<1>3. N \in T
  <2> HIDE DEF T
  <2>1. \A n \in 0..N : n \in T
    BY <1>1, <1>2, InductionTo
  <2>2. QED
    BY <2>1
<1>4. QED
  BY <1>3

-----------------------------------------------------------------------------
(* The rules GenerateRules makes.                                          *)

FwdRules == [type : {"fwd"}, key : Nat, next : Nat, to : Visors \cup {NoVisor}]
AppRules ==
    [type : {"app"}, key : Nat, resp : Nat, remote : Visors, lport : Nat, rport : Nat]

Reservoirs == [Visors -> Seq(Nat)]
States == [ids : Reservoirs, rules : [Visors -> SUBSET FwdRules], rid : Nat, ok : BOOLEAN]

Hops == [from : Visors, to : Visors]

Els(q) == {q[i] : i \in 1..Len(q)}
Distinct(q) == \A i, j \in 1..Len(q) : q[i] = q[j] => i = j

\* No visor reserved an id twice.
AllDistinct(f) == \A v \in Visors : Distinct(f[v])

\* Taking the first of a sequence of distinct ids.
LEMMA TailFacts ==
    ASSUME NEW q \in Seq(Nat), q # <<>>
    PROVE  /\ Head(q) \in Nat /\ Tail(q) \in Seq(Nat)
           /\ Els(q) = {Head(q)} \cup Els(Tail(q))
           /\ Distinct(q) => Distinct(Tail(q)) /\ Head(q) \notin Els(Tail(q))
           /\ Len(Tail(q)) = Len(q) - 1
<1> DEFINE t == Tail(q)
<1>1. /\ Len(q) \in Nat /\ Len(q) > 0 /\ q[1] = Head(q) /\ Head(q) \in Nat
      /\ t \in Seq(Nat) /\ Len(t) = Len(q) - 1
      /\ \A i \in 1..Len(t) : t[i] = q[i + 1]
  OBVIOUS
<1> HIDE DEF t
<1>2. Els(q) = {Head(q)} \cup Els(t)
  <2>1. ASSUME NEW x \in Els(q)
        PROVE  x \in {Head(q)} \cup Els(t)
    <3>1. PICK i \in 1..Len(q) : x = q[i]
      BY DEF Els
    <3>2. CASE i = 1
      BY <1>1, <3>1, <3>2
    <3>3. CASE i # 1
      <4>1. i - 1 \in 1..Len(t) /\ t[i - 1] = q[i]
        BY <1>1, <3>3
      <4>2. QED
        BY <3>1, <4>1 DEF Els
    <3>4. QED
      BY <3>2, <3>3
  <2>2. ASSUME NEW x \in Els(t)
        PROVE  x \in Els(q)
    <3>1. PICK i \in 1..Len(t) : x = t[i]
      BY DEF Els
    <3>2. i + 1 \in 1..Len(q) /\ x = q[i + 1]
      BY <1>1, <3>1
    <3>3. QED
      BY <3>2 DEF Els
  <2>3. Head(q) \in Els(q)
    BY <1>1 DEF Els
  <2>4. QED
    BY <2>1, <2>2, <2>3
<1>3. ASSUME Distinct(q)
      PROVE  Distinct(t) /\ Head(q) \notin Els(t)
  <2>1. ASSUME NEW i \in 1..Len(t), NEW j \in 1..Len(t), t[i] = t[j]
        PROVE  i = j
    <3>1. i + 1 \in 1..Len(q) /\ j + 1 \in 1..Len(q) /\ q[i + 1] = q[j + 1]
      BY <1>1, <2>1
    <3>2. i + 1 = j + 1
      BY <1>3, <3>1 DEF Distinct
    <3>3. QED
      BY <3>2
  <2>2. ASSUME NEW i \in 1..Len(t)
        PROVE  t[i] # Head(q)
    <3>1. i + 1 \in 1..Len(q) /\ 1 \in 1..Len(q) /\ i + 1 # 1
      BY <1>1
    <3>2. q[i + 1] # q[1]
      BY <1>3, <3>1 DEF Distinct
    <3>3. QED
      BY <1>1, <3>2
  <2>3. QED
    BY <2>1, <2>2 DEF Distinct, Els
<1>4. QED
  BY <1>1, <1>2, <1>3 DEF t

\* What PopID leaves of the reservoir, and what it pops.
LEMMA PopFields ==
    ASSUME NEW st \in States, NEW v \in Visors
    PROVE  /\ PopID(st, v) \in States
           /\ PopID(st, v).rules = st.rules
           /\ PopID(st, v).ok <=> st.ok /\ st.ids[v] # <<>>
           /\ st.ids[v] # <<>> =>
                /\ PopID(st, v).rid = Head(st.ids[v])
                /\ PopID(st, v).ids = [st.ids EXCEPT ![v] = Tail(st.ids[v])]
           /\ st.ids[v] = <<>> => PopID(st, v).ids = st.ids
<1>1. /\ st.ids \in Reservoirs /\ st.rules \in [Visors -> SUBSET FwdRules]
      /\ st.rid \in Nat /\ st.ok \in BOOLEAN
      /\ st = [ids |-> st.ids, rules |-> st.rules, rid |-> st.rid, ok |-> st.ok]
  BY DEF States
<1>2. CASE st.ids[v] = <<>>
  <2>1. PopID(st, v) = [ids |-> st.ids, rules |-> st.rules, rid |-> 0, ok |-> FALSE]
    BY <1>1, <1>2 DEF PopID, NoID
  <2>2. PopID(st, v) \in States
    BY <1>1, <2>1 DEF States
  <2>3. QED
    BY <1>2, <2>1, <2>2
<1>3. CASE st.ids[v] # <<>>
  <2>1. st.ids[v] \in Seq(Nat)
    BY <1>1 DEF Reservoirs
  <2>2. Head(st.ids[v]) \in Nat /\ Tail(st.ids[v]) \in Seq(Nat)
    BY <1>3, <2>1, TailFacts
  <2>3. [st.ids EXCEPT ![v] = Tail(st.ids[v])] \in Reservoirs
    BY <1>1, <2>2 DEF Reservoirs
  <2>4. PopID(st, v) = [ids |-> [st.ids EXCEPT ![v] = Tail(st.ids[v])], rules |-> st.rules,
                        rid |-> Head(st.ids[v]), ok |-> st.ok]
    BY <1>1, <1>3 DEF PopID
  <2>5. PopID(st, v) \in States
    BY <1>1, <2>2, <2>3, <2>4 DEF States
  <2>6. QED
    BY <1>3, <2>4, <2>5
<1>4. QED
  BY <1>2, <1>3

\* From a to b an id of v is popped: it is one that a has and b has no more.
Pops(a, b, v) ==
    /\ AllDistinct(b.ids)
    /\ \A w \in Visors : Els(b.ids[w]) \subseteq Els(a.ids[w])
    /\ b.ok => a.ok /\ b.rid \in Els(a.ids[v]) /\ b.rid \notin Els(b.ids[v])

LEMMA PopIDPops ==
    ASSUME NEW st \in States, NEW v \in Visors, AllDistinct(st.ids)
    PROVE  Pops(st, PopID(st, v), v)
<1> DEFINE p == PopID(st, v)
<1>1. st.ids \in Reservoirs
  BY DEF States
<1>2. CASE st.ids[v] = <<>>
  <2>1. p.ids = st.ids /\ ~p.ok
    BY <1>2, PopFields
  <2>2. QED
    BY <2>1 DEF Pops
<1>3. CASE st.ids[v] # <<>>
  <2>1. /\ p.ids = [st.ids EXCEPT ![v] = Tail(st.ids[v])]
        /\ p.rid = Head(st.ids[v])
        /\ p.ok => st.ok
    BY <1>3, PopFields
  <2>2. st.ids[v] \in Seq(Nat) /\ Distinct(st.ids[v])
    BY <1>1 DEF Reservoirs, AllDistinct
  <2>3. /\ Els(st.ids[v]) = {p.rid} \cup Els(Tail(st.ids[v]))
        /\ Distinct(Tail(st.ids[v])) /\ p.rid \notin Els(Tail(st.ids[v]))
    BY <1>3, <2>1, <2>2, TailFacts
  <2>4. p.ids[v] = Tail(st.ids[v]) /\ \A w \in Visors : w # v => p.ids[w] = st.ids[w]
    BY <1>1, <2>1 DEF Reservoirs
  <2>5. AllDistinct(p.ids)
    BY <2>3, <2>4 DEF AllDistinct
  <2>6. \A w \in Visors : Els(p.ids[w]) \subseteq Els(st.ids[w])
    BY <2>3, <2>4
  <2>7. p.rid \in Els(st.ids[v]) /\ p.rid \notin Els(p.ids[v])
    BY <2>3, <2>4
  <2> HIDE DEF p
  <2>8. QED
    BY <2>1, <2>5, <2>6, <2>7 DEF Pops, p
<1>4. QED
  BY <1>2, <1>3

\* SaveHop pops an id of the far end and adds one rule at the near one.
LEMMA SaveHopFields ==
    ASSUME NEW st \in States, NEW h \in Hops
    PROVE  /\ SaveHop(st, h) \in States
           /\ SaveHop(st, h).ids = PopID(st, h.to).ids
           /\ SaveHop(st, h).rid = PopID(st, h.to).rid
           /\ SaveHop(st, h).ok <=> PopID(st, h.to).ok
           /\ SaveHop(st, h).rules =
                [st.rules EXCEPT ![h.from] =
                   @ \cup {ForwardRule(st.rid, SaveHop(st, h).rid, h.to)}]
<1>1. h.from \in Visors /\ h.to \in Visors
  BY DEF Hops
<1>2. PICK p : p = PopID(st, h.to)
  OBVIOUS
<1>3. p \in States /\ p.rules = st.rules
  BY <1>1, <1>2, PopFields
<1>4. /\ p.ids \in Reservoirs /\ p.rules \in [Visors -> SUBSET FwdRules]
      /\ p.rid \in Nat /\ p.ok \in BOOLEAN /\ st.rid \in Nat
      /\ p = [ids |-> p.ids, rules |-> p.rules, rid |-> p.rid, ok |-> p.ok]
  BY <1>3 DEF States
<1>5. PICK new : new = ForwardRule(st.rid, p.rid, h.to)
  OBVIOUS
<1>6. new \in FwdRules
  BY <1>1, <1>4, <1>5 DEF FwdRules, ForwardRule
<1>7. PICK rules : rules = [p.rules EXCEPT ![h.from] = @ \cup {new}]
  OBVIOUS
<1>8. rules \in [Visors -> SUBSET FwdRules]
  BY <1>1, <1>4, <1>6, <1>7
<1>9. SaveHop(st, h) = [p EXCEPT !.rules[h.from] = @ \cup {new}]
  BY <1>2, <1>5 DEF SaveHop
<1>10. SaveHop(st, h) = [ids |-> p.ids, rules |-> rules, rid |-> p.rid, ok |-> p.ok]
  BY <1>4, <1>7, <1>9
<1>11. SaveHop(st, h) \in States
  BY <1>4, <1>8, <1>10 DEF States
<1>12. QED
  BY <1>2, <1>3, <1>5, <1>7, <1>10, <1>11

\* The visor a packet is at after i hops of a route.
VisorAt(route, i) == IF i = 0 THEN route[1].from ELSE route[i].to

LEMMA RouteFacts ==
    ASSUME NEW route \in Seq(Hops), route # <<>>
    PROVE  /\ Len(route) \in Nat /\ 1 \in 1..Len(route)
           /\ \A i \in 1..Len(route) :
                route[i].from \in Visors /\ route[i].to \in Visors /\ route[i] \in Hops
<1>1. Len(route) \in Nat /\ 1 \in 1..Len(route) /\ \A i \in 1..Len(route) : route[i] \in Hops
  OBVIOUS
<1>2. \A h \in Hops : h.from \in Visors /\ h.to \in Visors
  BY DEF Hops
<1>3. QED
  BY <1>1, <1>2

\* The states of SaveForwardRules follow one another.
LEMMA AfterHopsDef ==
    ASSUME NEW st \in States, NEW route \in Seq(Hops), route # <<>>
    PROVE  /\ AfterHops(st, route) \in [0..Len(route) -> States]
           /\ AfterHops(st, route)[0] = PopID(st, route[1].from)
           /\ \A n \in 1..Len(route) :
                AfterHops(st, route)[n] = SaveHop(AfterHops(st, route)[n - 1], route[n])
<1> DEFINE N == Len(route)
           x == PopID(st, route[1].from)
           F == [n \in 1..N |-> [s \in States |-> SaveHop(s, route[n])]]
           IsAfter(f) == f = [n \in 0..N |->
                                IF n = 0 THEN x ELSE SaveHop(f[n - 1], route[n])]
<1>1. N \in Nat /\ \A n \in 1..N : route[n] \in Hops
  OBVIOUS
<1>2. 1 \in 1..N
  OBVIOUS
<1>3. x \in States
  <2>1. route[1].from \in Visors
    BY <1>1, <1>2 DEF Hops
  <2>2. QED
    BY <2>1, PopFields
<1>4. ASSUME NEW n \in 1..N, NEW s \in States
      PROVE  SaveHop(s, route[n]) \in States
  BY <1>1, SaveHopFields
<1>5. F \in [1..N -> [States -> States]]
  BY <1>4
<1> HIDE DEF N, x, F
<1>6. PICK g \in [0..N -> States] : Follows(g, x, N, F)
  BY <1>1, <1>3, <1>5, Recursion, Zenon
<1>7. \A n \in 0..N : g[n] = IF n = 0 THEN x ELSE SaveHop(g[n - 1], route[n])
  <2>1. ASSUME NEW n \in 0..N
        PROVE  g[n] = IF n = 0 THEN x ELSE SaveHop(g[n - 1], route[n])
    <3>1. CASE n = 0
      BY <1>6, <3>1 DEF Follows
    <3>2. CASE n # 0
      <4>1. n \in 1..N /\ n - 1 \in 0..N
        BY <1>1, <3>2
      <4>2. g[n] = F[n][g[n - 1]]
        BY <1>6, <4>1 DEF Follows
      <4>3. F[n][g[n - 1]] = SaveHop(g[n - 1], route[n])
        BY <4>1 DEF F
      <4>4. QED
        BY <3>2, <4>2, <4>3
    <3>3. QED
      BY <3>1, <3>2
  <2>2. QED
    BY <2>1
<1>8. IsAfter(g)
  BY <1>7
<1>9. AfterHops(st, route) = CHOOSE f : IsAfter(f)
  BY DEF AfterHops, x, N
<1>10. PICK a : a = AfterHops(st, route)
  OBVIOUS
<1>11. IsAfter(a)
  <2> HIDE DEF IsAfter
  <2>1. QED
    BY <1>8, <1>9, <1>10, Zenon
<1>12. /\ DOMAIN a = 0..N
       /\ \A n \in 0..N : a[n] = IF n = 0 THEN x ELSE SaveHop(a[n - 1], route[n])
  BY <1>11
<1> DEFINE T == {n \in 0..N : a[n] \in States}
<1>13. 0 \in T
  BY <1>1, <1>3, <1>12
<1>14. ASSUME NEW n \in 0..(N - 1), n \in T
       PROVE  n + 1 \in T
  <2>1. n + 1 \in 1..N /\ n + 1 \in 0..N /\ (n + 1) - 1 = n
    BY <1>1
  <2>2. a[n + 1] = SaveHop(a[n], route[n + 1])
    BY <1>12, <2>1
  <2>3. QED
    BY <1>4, <1>14, <2>1, <2>2
<1>15. \A n \in 0..N : n \in T
  <2> HIDE DEF T
  <2>1. QED
    BY <1>1, <1>13, <1>14, InductionTo
<1>16. a \in [0..N -> States]
  BY <1>11, <1>15
<1>17. a[0] = x
  BY <1>1, <1>12
<1>18. \A n \in 1..N : a[n] = SaveHop(a[n - 1], route[n])
  BY <1>1, <1>12
<1>19. QED
  BY <1>10, <1>16, <1>17, <1>18 DEF N, x

\* What n hops leave of the reservoir st.ids, and the ids they popped: each was in
\* the reservoir, none is in it any more, and no two at one visor are the same.
HopInv(st, s, route, n) ==
    /\ AllDistinct(s[n].ids)
    /\ \A w \in Visors : Els(s[n].ids[w]) \subseteq Els(st.ids[w])
    /\ s[n].ok =>
         /\ st.ok
         /\ \A i \in 0..n : /\ s[i].rid \in Els(st.ids[VisorAt(route, i)])
                            /\ s[i].rid \notin Els(s[n].ids[VisorAt(route, i)])
         /\ \A i, j \in 0..n :
              i # j /\ VisorAt(route, i) = VisorAt(route, j) => s[i].rid # s[j].rid

LEMMA HopsPop ==
    ASSUME NEW st \in States, NEW route \in Seq(Hops), route # <<>>, AllDistinct(st.ids),
           NEW s, s = AfterHops(st, route)
    PROVE  \A n \in 0..Len(route) : HopInv(st, s, route, n)
<1> DEFINE N == Len(route)
           T == {n \in 0..N : HopInv(st, s, route, n)}
<1>1. /\ N \in Nat /\ 1 \in 1..N
      /\ \A i \in 1..N : route[i].from \in Visors /\ route[i].to \in Visors /\ route[i] \in Hops
  BY RouteFacts
<1>2. /\ s \in [0..N -> States]
      /\ s[0] = PopID(st, route[1].from)
      /\ \A n \in 1..N : s[n] = SaveHop(s[n - 1], route[n])
  BY AfterHopsDef
<1>3. \A i \in 0..N : VisorAt(route, i) \in Visors
  BY <1>1 DEF VisorAt
<1> HIDE DEF N
<1>4. 0 \in T
  <2>1. Pops(st, s[0], VisorAt(route, 0))
    BY <1>1, <1>2, PopIDPops DEF VisorAt
  <2>2. HopInv(st, s, route, 0)
    <3>1. \A i \in 0..0 : i = 0
      OBVIOUS
    <3>2. QED
      BY <2>1, <3>1 DEF Pops, HopInv
  <2>3. QED
    BY <1>1, <2>2
<1>5. ASSUME NEW n \in 0..(N - 1), n \in T
      PROVE  n + 1 \in T
  <2>1. n \in 0..N /\ n + 1 \in 1..N /\ n + 1 \in 0..N /\ (n + 1) - 1 = n
    BY <1>1
  <2>2. HopInv(st, s, route, n)
    BY <1>5
  <2>3. PICK v \in Visors : v = VisorAt(route, n + 1)
    BY <1>3, <2>1
  <2>4. v = route[n + 1].to
    BY <2>1, <2>3 DEF VisorAt
  <2>5. s[n] \in States /\ s[n + 1] = SaveHop(s[n], route[n + 1]) /\ route[n + 1] \in Hops
    BY <1>1, <1>2, <2>1
  <2>6. Pops(s[n], PopID(s[n], v), v)
    BY <2>2, <2>5, PopIDPops DEF HopInv
  <2>7. /\ s[n + 1].ids = PopID(s[n], v).ids
        /\ s[n + 1].rid = PopID(s[n], v).rid
        /\ s[n + 1].ok <=> PopID(s[n], v).ok
    <3>1. PICK a \in States, h \in Hops : a = s[n] /\ h = route[n + 1]
      BY <2>5
    <3>2. /\ SaveHop(a, h).ids = PopID(a, h.to).ids
          /\ SaveHop(a, h).rid = PopID(a, h.to).rid
          /\ SaveHop(a, h).ok <=> PopID(a, h.to).ok
      BY SaveHopFields
    <3>3. QED
      BY <2>4, <2>5, <3>1, <3>2
  <2>8. Pops(s[n], s[n + 1], v)
    BY <2>6, <2>7 DEF Pops
  <2>9. AllDistinct(s[n + 1].ids)
    BY <2>8 DEF Pops
  <2>10. \A w \in Visors : Els(s[n + 1].ids[w]) \subseteq Els(s[n].ids[w])
    BY <2>8 DEF Pops
  <2>11. \A w \in Visors : Els(s[n].ids[w]) \subseteq Els(st.ids[w])
    BY <2>2 DEF HopInv
  <2>12. ASSUME s[n + 1].ok
         PROVE  /\ st.ok
                /\ \A i \in 0..(n + 1) :
                     /\ s[i].rid \in Els(st.ids[VisorAt(route, i)])
                     /\ s[i].rid \notin Els(s[n + 1].ids[VisorAt(route, i)])
                /\ \A i, j \in 0..(n + 1) :
                     i # j /\ VisorAt(route, i) = VisorAt(route, j) => s[i].rid # s[j].rid
    <3>1. /\ s[n].ok /\ s[n + 1].rid \in Els(s[n].ids[v])
          /\ s[n + 1].rid \notin Els(s[n + 1].ids[v])
      BY <2>8, <2>12 DEF Pops
    <3>2. /\ st.ok
          /\ \A i \in 0..n : /\ s[i].rid \in Els(st.ids[VisorAt(route, i)])
                             /\ s[i].rid \notin Els(s[n].ids[VisorAt(route, i)])
          /\ \A i, j \in 0..n :
               i # j /\ VisorAt(route, i) = VisorAt(route, j) => s[i].rid # s[j].rid
      BY <2>2, <3>1 DEF HopInv
    <3>3. \A i \in 0..(n + 1) : i \in 0..n \/ i = n + 1
      BY <2>1
    <3>4. \A i \in 0..n : i \in 0..N
      BY <1>1, <2>1
    <3>5. ASSUME NEW i \in 0..(n + 1)
          PROVE  /\ s[i].rid \in Els(st.ids[VisorAt(route, i)])
                 /\ s[i].rid \notin Els(s[n + 1].ids[VisorAt(route, i)])
      <4>1. CASE i = n + 1
        BY <2>3, <2>11, <3>1, <4>1
      <4>2. CASE i \in 0..n
        BY <1>3, <2>10, <3>2, <3>4, <4>2
      <4>3. QED
        BY <3>3, <4>1, <4>2
    <3>6. ASSUME NEW i \in 0..n, VisorAt(route, i) = v
          PROVE  s[i].rid # s[n + 1].rid
      BY <3>1, <3>2, <3>6
    <3>7. ASSUME NEW i \in 0..(n + 1), NEW j \in 0..(n + 1), i # j,
                 VisorAt(route, i) = VisorAt(route, j)
          PROVE  s[i].rid # s[j].rid
      <4>1. CASE i \in 0..n /\ j \in 0..n
        BY <3>2, <3>7, <4>1
      <4>2. CASE i = n + 1 /\ j \in 0..n
        BY <2>3, <3>6, <3>7, <4>2
      <4>3. CASE i \in 0..n /\ j = n + 1
        BY <2>3, <3>6, <3>7, <4>3
      <4>4. QED
        BY <3>3, <3>7, <4>1, <4>2, <4>3
    <3>8. QED
      BY <3>2, <3>5, <3>7
  <2>13. HopInv(st, s, route, n + 1)
    BY <2>9, <2>10, <2>11, <2>12 DEF HopInv
  <2>14. QED
    BY <2>1, <2>13
<1>6. \A n \in 0..N : n \in T
  <2> HIDE DEF T
  <2>1. QED
    BY <1>1, <1>4, <1>5, InductionTo
<1>7. QED
  BY <1>6 DEF N

\* The rule of the i-th hop.
HopRule(s, route, i) == ForwardRule(s[i - 1].rid, s[i].rid, route[i].to)

HopRules(s, route, n, v) == {HopRule(s, route, i) : i \in {i \in 1..n : route[i].from = v}}

\* SaveForwardRules adds the rules of the hops to those it was given, and no others.
LEMMA HopsAddRules ==
    ASSUME NEW st \in States, NEW route \in Seq(Hops), route # <<>>,
           NEW s, s = AfterHops(st, route)
    PROVE  \A n \in 0..Len(route) : \A v \in Visors :
             s[n].rules[v] = st.rules[v] \cup HopRules(s, route, n, v)
<1> DEFINE N == Len(route)
           Added(n, v) == HopRules(s, route, n, v)
           T == {n \in 0..N : \A v \in Visors : s[n].rules[v] = st.rules[v] \cup Added(n, v)}
<1>1. /\ N \in Nat /\ 1 \in 1..N
      /\ \A i \in 1..N : route[i].from \in Visors /\ route[i].to \in Visors /\ route[i] \in Hops
  BY RouteFacts
<1>2. /\ s \in [0..N -> States]
      /\ s[0] = PopID(st, route[1].from)
      /\ \A n \in 1..N : s[n] = SaveHop(s[n - 1], route[n])
  BY AfterHopsDef
<1> HIDE DEF N
<1>3. 0 \in T
  <2>1. PICK v \in Visors : v = route[1].from
    BY <1>1
  <2>2. PopID(st, v).rules = st.rules
    BY PopFields
  <2>3. s[0].rules = st.rules
    BY <1>2, <2>1, <2>2
  <2>4. \A w \in Visors : Added(0, w) = {}
    BY DEF HopRules
  <2> HIDE DEF Added
  <2>5. QED
    BY <1>1, <2>3, <2>4
<1>4. ASSUME NEW n \in 0..(N - 1), n \in T
      PROVE  n + 1 \in T
  <2>1. n \in 0..N /\ n + 1 \in 1..N /\ n + 1 \in 0..N /\ (n + 1) - 1 = n
    BY <1>1
  <2>2. s[n] \in States /\ s[n + 1] = SaveHop(s[n], route[n + 1]) /\ route[n + 1] \in Hops
    BY <1>1, <1>2, <2>1
  <2>3. s[n + 1].rules = [s[n].rules EXCEPT ![route[n + 1].from] =
                            @ \cup {ForwardRule(s[n].rid, s[n + 1].rid, route[n + 1].to)}]
    <3>1. PICK a \in States, h \in Hops : a = s[n] /\ h = route[n + 1]
      BY <2>2
    <3>2. SaveHop(a, h).rules =
            [a.rules EXCEPT ![h.from] = @ \cup {ForwardRule(a.rid, SaveHop(a, h).rid, h.to)}]
      BY SaveHopFields
    <3>3. QED
      BY <2>2, <3>1, <3>2
  <2>4. HopRule(s, route, n + 1) = ForwardRule(s[n].rid, s[n + 1].rid, route[n + 1].to)
    BY <2>1 DEF HopRule
  <2>5. s[n].rules \in [Visors -> SUBSET FwdRules]
    BY <2>2 DEF States
  <2>6. \A i \in 1..(n + 1) : i \in 1..n \/ i = n + 1
    BY <2>1
  <2>7. \A i \in 1..n : i \in 1..(n + 1)
    BY <2>1
  <2>8. n + 1 \in 1..(n + 1)
    BY <2>1
  <2>9. ASSUME NEW v \in Visors
        PROVE  s[n + 1].rules[v] = st.rules[v] \cup Added(n + 1, v)
    <3>1. s[n].rules[v] = st.rules[v] \cup Added(n, v)
      BY <1>4
    <3>2. CASE route[n + 1].from = v
      <4>1. s[n + 1].rules[v] = s[n].rules[v] \cup {HopRule(s, route, n + 1)}
        BY <2>3, <2>4, <2>5, <3>2
      <4>2. Added(n + 1, v) = Added(n, v) \cup {HopRule(s, route, n + 1)}
        <5> HIDE DEF HopRule
        <5>1. QED
          BY <2>6, <2>7, <2>8, <3>2 DEF HopRules
      <4> HIDE DEF Added
      <4>3. QED
        BY <3>1, <4>1, <4>2
    <3>3. CASE route[n + 1].from # v
      <4>1. s[n + 1].rules[v] = s[n].rules[v]
        BY <2>3, <2>5, <3>3
      <4>2. Added(n + 1, v) = Added(n, v)
        BY <2>6, <2>7, <3>3 DEF HopRules
      <4> HIDE DEF Added
      <4>3. QED
        BY <3>1, <4>1, <4>2
    <3>4. QED
      BY <3>2, <3>3
  <2> HIDE DEF Added
  <2>10. QED
    BY <2>1, <2>9
<1>5. \A n \in 0..N : n \in T
  <2> HIDE DEF T
  <2>1. QED
    BY <1>1, <1>3, <1>4, InductionTo
<1>6. QED
  BY <1>5 DEF N

\* A loop descriptor, and the positions of its packets: a visor and a route id.
IsDescriptor(d) ==
    /\ d.src \in Visors /\ d.dst \in Visors /\ d.src # d.dst
    /\ d.lport \in Nat /\ d.rport \in Nat
    /\ IsRoute(d.fwd, d.src, d.dst) /\ IsRoute(d.rev, d.dst, d.src)

Positions == [visor : Visors, id : Nat]

\* The states of GenerateRules on the forward and on the reverse route.
FwdStates(res, d) == AfterHops(NothingPopped(res), d.fwd)
RevStates(res, d) == AfterHops(FwdStates(res, d)[Len(d.fwd)], d.rev)

Along(s, route) == [i \in 0..Len(route) |-> [visor |-> VisorAt(route, i), id |-> s[i].rid]]

\* The way of a packet from the source to the destination, and of one back.
Outward(res, d) == Along(FwdStates(res, d), d.fwd)
Homeward(res, d) == Along(RevStates(res, d), d.rev)

\* The forward rules along a way, and the app rules at the ends.
Leading(f, n, v) ==
    {ForwardRule(f[i - 1].id, f[i].id, f[i].visor) : i \in {i \in 1..n : f[i - 1].visor = v}}
SrcRule(d, f, b) == AppRule(b[Len(d.rev)].id, f[0].id, d.dst, d.lport, d.rport)
DstRule(d, f, b) == AppRule(f[Len(d.fwd)].id, b[0].id, d.src, d.rport, d.lport)

LEMMA IsRouteFacts ==
    ASSUME NEW route, NEW a, NEW b, IsRoute(route, a, b)
    PROVE  /\ route \in Seq(Hops) /\ route # <<>>
           /\ Len(route) \in Nat /\ Len(route) > 0
           /\ VisorAt(route, 0) = a /\ VisorAt(route, Len(route)) = b
           /\ \A i \in 0..Len(route) : VisorAt(route, i) \in Visors
           /\ \A i \in 1..Len(route) : route[i].from = VisorAt(route, i - 1)
<1>1. route \in Seq(Hops) /\ route # <<>>
  BY DEF IsRoute, Hops
<1>2. Len(route) \in Nat /\ Len(route) > 0
  BY <1>1
<1>3. /\ \A i \in 1..Len(route) : route[i].from \in Visors /\ route[i].to \in Visors
      /\ 1 \in 1..Len(route)
  BY <1>1, RouteFacts
<1>4. VisorAt(route, 0) = a /\ VisorAt(route, Len(route)) = b
  BY <1>2 DEF IsRoute, VisorAt
<1>5. \A i \in 0..Len(route) : VisorAt(route, i) \in Visors
  BY <1>2, <1>3 DEF VisorAt
<1>6. ASSUME NEW i \in 1..Len(route)
      PROVE  route[i].from = VisorAt(route, i - 1)
  <2>1. CASE i = 1
    BY <2>1 DEF VisorAt
  <2>2. CASE i # 1
    <3>1. i - 1 \in 1..(Len(route) - 1) /\ (i - 1) + 1 = i /\ i - 1 # 0
      BY <1>2, <2>2
    <3>2. route[i - 1].to = route[i].from
      BY <3>1 DEF IsRoute
    <3>3. QED
      BY <3>1, <3>2 DEF VisorAt
  <2>3. QED
    BY <2>1, <2>2
<1>7. QED
  BY <1>1, <1>2, <1>4, <1>5, <1>6

\* The states and the result of GenerateRules.
LEMMA GenerateRulesFields ==
    ASSUME NEW res \in Reservoirs, NEW d, IsDescriptor(d),
           NEW F, F = FwdStates(res, d), NEW R, R = RevStates(res, d),
           NEW g, g = GenerateRules(res, d)
    PROVE  /\ NothingPopped(res) \in States
           /\ F \in [0..Len(d.fwd) -> States]
           /\ R \in [0..Len(d.rev) -> States]
           /\ F[Len(d.fwd)] \in States
           /\ g.ok <=> R[Len(d.rev)].ok
           /\ g.srcFwdRID = F[0].rid
           /\ g.dstFwdRID = R[0].rid
           /\ g.rules \in [Visors -> SUBSET (FwdRules \cup AppRules)]
           /\ \A v \in Visors :
                g.rules[v] = R[Len(d.rev)].rules[v]
                  \cup (IF v = d.src THEN {AppRule(R[Len(d.rev)].rid, F[0].rid,
                                                   d.dst, d.lport, d.rport)} ELSE {})
                  \cup (IF v = d.dst THEN {AppRule(F[Len(d.fwd)].rid, R[0].rid,
                                                   d.src, d.rport, d.lport)} ELSE {})
<1> DEFINE N == Len(d.fwd)
           M == Len(d.rev)
<1>1. /\ d.fwd \in Seq(Hops) /\ d.fwd # <<>> /\ N \in Nat
      /\ d.rev \in Seq(Hops) /\ d.rev # <<>> /\ M \in Nat
  BY IsRouteFacts DEF IsDescriptor
<1>2. NothingPopped(res) \in States
  <2>1. [v \in Visors |-> {}] \in [Visors -> SUBSET FwdRules]
    OBVIOUS
  <2>2. QED
    BY <2>1 DEF NothingPopped, States, NoID
<1>3. F \in [0..N -> States]
  BY <1>1, <1>2, AfterHopsDef DEF FwdStates
<1>4. N \in 0..N /\ M \in 0..M /\ 0 \in 0..N /\ 0 \in 0..M
  BY <1>1
<1>5. F[N] \in States /\ F[0] \in States
  BY <1>3, <1>4
<1>6. R = AfterHops(F[N], d.rev)
  BY DEF RevStates
<1>7. R \in [0..M -> States]
  BY <1>1, <1>5, <1>6, AfterHopsDef
<1>8. R[M] \in States /\ R[0] \in States
  BY <1>4, <1>7
<1>9. /\ F[0].rid \in Nat /\ F[N].rid \in Nat /\ R[0].rid \in Nat /\ R[M].rid \in Nat
      /\ R[M].rules \in [Visors -> SUBSET FwdRules]
  BY <1>5, <1>8 DEF States
<1> DEFINE srcApp == AppRule(R[M].rid, F[0].rid, d.dst, d.lport, d.rport)
           dstApp == AppRule(F[N].rid, R[0].rid, d.src, d.rport, d.lport)
<1>10. SaveForwardRules(NothingPopped(res), d.fwd) = [first |-> F[0].rid, st |-> F[N]]
  BY DEF SaveForwardRules, FwdStates
<1>11. SaveForwardRules(F[N], d.rev) = [first |-> R[0].rid, st |-> R[M]]
  BY <1>6 DEF SaveForwardRules
<1>12. /\ g.ok <=> R[M].ok
       /\ g.srcFwdRID = F[0].rid
       /\ g.dstFwdRID = R[0].rid
       /\ g.rules = [R[M].rules EXCEPT ![d.src] = @ \cup {srcApp}, ![d.dst] = @ \cup {dstApp}]
  <2>1. PICK there : there = SaveForwardRules(NothingPopped(res), d.fwd)
    OBVIOUS
  <2>2. PICK back : back = SaveForwardRules(there.st, d.rev)
    OBVIOUS
  <2>3. /\ there.first = F[0].rid /\ there.st = F[N]
        /\ back.first = R[0].rid /\ back.st = R[M]
    BY <1>10, <1>11, <2>1, <2>2
  <2>4. PICK sa, da : sa = srcApp /\ da = dstApp
    OBVIOUS
  <2>5. /\ sa = AppRule(back.st.rid, there.first, d.dst, d.lport, d.rport)
        /\ da = AppRule(there.st.rid, back.first, d.src, d.rport, d.lport)
    BY <2>3, <2>4
  <2>6. g = [ok |-> back.st.ok,
             rules |-> [back.st.rules EXCEPT ![d.src] = @ \cup {sa}, ![d.dst] = @ \cup {da}],
             srcFwdRID |-> there.first, dstFwdRID |-> back.first]
    BY <2>1, <2>2, <2>5 DEF GenerateRules
  <2>7. PICK rules : rules = [back.st.rules EXCEPT ![d.src] = @ \cup {sa}, ![d.dst] = @ \cup {da}]
    OBVIOUS
  <2>8. g = [ok |-> back.st.ok, rules |-> rules,
             srcFwdRID |-> there.first, dstFwdRID |-> back.first]
    BY <2>6, <2>7
  <2>9. /\ g.ok <=> back.st.ok
        /\ g.rules = rules /\ g.srcFwdRID = there.first /\ g.dstFwdRID = back.first
    BY <2>8
  <2> HIDE DEF srcApp, dstApp
  <2>10. QED
    BY <2>3, <2>4, <2>7, <2>9
<1>13. srcApp \in AppRules /\ dstApp \in AppRules
  BY <1>9 DEF AppRules, AppRule, IsDescriptor
<1>14. d.src \in Visors /\ d.dst \in Visors /\ d.src # d.dst
  BY DEF IsDescriptor
<1> HIDE DEF srcApp, dstApp, N, M
<1>15. g.rules \in [Visors -> SUBSET (FwdRules \cup AppRules)]
  BY <1>9, <1>13, <1>14, <1>12
<1>16. \A v \in Visors : g.rules[v] = R[M].rules[v] \cup (IF v = d.src THEN {srcApp} ELSE {})
                                                    \cup (IF v = d.dst THEN {dstApp} ELSE {})
  BY <1>9, <1>14, <1>12
<1>17. QED
  BY <1>2, <1>3, <1>5, <1>7, <1>12, <1>15, <1>16 DEF srcApp, dstApp, N, M

\* What GenerateRules promises: the way f leads from the source to the destination and
\* the way b back, over ids that were reserved, no position occurs twice, and the rules
\* are those along the two ways and the two at their ends.
Ways(g, res, d, f, b) ==
    /\ f \in [0..Len(d.fwd) -> Positions] /\ b \in [0..Len(d.rev) -> Positions]
    /\ f[0] = [visor |-> d.src, id |-> g.srcFwdRID] /\ f[Len(d.fwd)].visor = d.dst
    /\ b[0] = [visor |-> d.dst, id |-> g.dstFwdRID] /\ b[Len(d.rev)].visor = d.src
WithinReservoir(res, d, f, b) ==
    /\ \A i \in 0..Len(d.fwd) : f[i].id \in Els(res[f[i].visor])
    /\ \A i \in 0..Len(d.rev) : b[i].id \in Els(res[b[i].visor])
NoCrossing(d, f, b) ==
    /\ \A i, j \in 0..Len(d.fwd) : f[i] = f[j] => i = j
    /\ \A i, j \in 0..Len(d.rev) : b[i] = b[j] => i = j
    /\ \A i \in 0..Len(d.fwd), j \in 0..Len(d.rev) : f[i] # b[j]
RulesAlong(g, d, f, b) ==
    /\ g.rules \in [Visors -> SUBSET (FwdRules \cup AppRules)]
    /\ \A v \in Visors :
         g.rules[v] = Leading(f, Len(d.fwd), v) \cup Leading(b, Len(d.rev), v)
                        \cup (IF v = d.src THEN {SrcRule(d, f, b)} ELSE {})
                        \cup (IF v = d.dst THEN {DstRule(d, f, b)} ELSE {})

LEMMA AlongFacts ==
    ASSUME NEW route, NEW a, NEW z, IsRoute(route, a, z),
           NEW s \in [0..Len(route) -> States], NEW f, f = Along(s, route)
    PROVE  /\ f \in [0..Len(route) -> Positions]
           /\ \A i \in 0..Len(route) : f[i].visor = VisorAt(route, i) /\ f[i].id = s[i].rid
<1>1. \A i \in 0..Len(route) : VisorAt(route, i) \in Visors
  BY IsRouteFacts
<1>2. \A i \in 0..Len(route) : s[i].rid \in Nat
  BY DEF States
<1>3. \A i \in 0..Len(route) :
        [visor |-> VisorAt(route, i), id |-> s[i].rid] \in Positions
  BY <1>1, <1>2 DEF Positions
<1>4. f \in [0..Len(route) -> Positions]
  BY <1>3 DEF Along
<1>5. QED
  BY <1>4 DEF Along

LEMMA LeadingIsHopRules ==
    ASSUME NEW route, NEW a, NEW z, IsRoute(route, a, z), NEW s, NEW v
    PROVE  Leading(Along(s, route), Len(route), v) = HopRules(s, route, Len(route), v)
<1> DEFINE f == Along(s, route)
           N == Len(route)
<1>1. N \in Nat /\ \A i \in 1..N : route[i].from = VisorAt(route, i - 1)
  BY IsRouteFacts
<1>2. \A i \in 0..N : f[i].visor = VisorAt(route, i) /\ f[i].id = s[i].rid
  BY DEF Along
<1> HIDE DEF f, N
<1>3. ASSUME NEW i \in 1..N
      PROVE  /\ f[i - 1].visor = route[i].from
             /\ f[i - 1].id = s[i - 1].rid /\ f[i].id = s[i].rid /\ f[i].visor = route[i].to
  <2>1. i - 1 \in 0..N /\ i \in 0..N /\ i # 0
    BY <1>1
  <2>2. VisorAt(route, i) = route[i].to
    BY <2>1 DEF VisorAt
  <2>3. QED
    BY <1>1, <1>2, <2>1, <2>2
<1>4. \A i \in 1..N : ForwardRule(f[i - 1].id, f[i].id, f[i].visor) = HopRule(s, route, i)
  BY <1>3 DEF HopRule
<1>5. Leading(f, N, v) = HopRules(s, route, N, v)
  <2> HIDE DEF HopRule, ForwardRule
  <2>1. QED
    BY <1>3, <1>4 DEF Leading, HopRules
<1>6. QED
  BY <1>5 DEF f, N

LEMMA GenerateRulesJoins ==
    ASSUME NEW res \in Reservoirs, AllDistinct(res), NEW d, IsDescriptor(d),
           GenerateRules(res, d).ok,
           NEW f, f = Outward(res, d), NEW b, b = Homeward(res, d),
           NEW g, g = GenerateRules(res, d)
    PROVE  /\ Ways(g, res, d, f, b) /\ WithinReservoir(res, d, f, b)
           /\ NoCrossing(d, f, b) /\ RulesAlong(g, d, f, b)
<1>1. PICK F, R : F = FwdStates(res, d) /\ R = RevStates(res, d)
  OBVIOUS
<1>2. PICK N, M : N = Len(d.fwd) /\ M = Len(d.rev)
  OBVIOUS
<1>3. PICK st : st = NothingPopped(res)
  OBVIOUS
<1>4. /\ st \in States
      /\ F \in [0..N -> States]
      /\ R \in [0..M -> States]
      /\ F[N] \in States
      /\ g.ok <=> R[M].ok
      /\ g.srcFwdRID = F[0].rid
      /\ g.dstFwdRID = R[0].rid
      /\ g.rules \in [Visors -> SUBSET (FwdRules \cup AppRules)]
      /\ \A v \in Visors :
           g.rules[v] = R[M].rules[v]
             \cup (IF v = d.src THEN {AppRule(R[M].rid, F[0].rid, d.dst, d.lport, d.rport)} ELSE {})
             \cup (IF v = d.dst THEN {AppRule(F[N].rid, R[0].rid, d.src, d.rport, d.lport)} ELSE {})
  BY <1>1, <1>2, <1>3, GenerateRulesFields
<1>5. st.ids = res /\ \A v \in Visors : st.rules[v] = {}
  BY <1>3 DEF NothingPopped
<1>6. F = AfterHops(st, d.fwd) /\ R = AfterHops(F[N], d.rev)
  BY <1>1, <1>2, <1>3 DEF FwdStates, RevStates
<1>7. IsRoute(d.fwd, d.src, d.dst) /\ IsRoute(d.rev, d.dst, d.src) /\ d.src # d.dst
  BY DEF IsDescriptor
<1>8. /\ d.fwd \in Seq(Hops) /\ d.fwd # <<>> /\ N \in Nat
      /\ VisorAt(d.fwd, 0) = d.src /\ VisorAt(d.fwd, N) = d.dst
      /\ \A i \in 0..N : VisorAt(d.fwd, i) \in Visors
  BY <1>2, <1>7, IsRouteFacts
<1>9. /\ d.rev \in Seq(Hops) /\ d.rev # <<>> /\ M \in Nat
      /\ VisorAt(d.rev, 0) = d.dst /\ VisorAt(d.rev, M) = d.src
      /\ \A i \in 0..M : VisorAt(d.rev, i) \in Visors
  BY <1>2, <1>7, IsRouteFacts
<1>10. 0 \in 0..N /\ N \in 0..N /\ 0 \in 0..M /\ M \in 0..M
  BY <1>8, <1>9
<1>11. HopInv(st, F, d.fwd, N)
  BY <1>2, <1>4, <1>5, <1>6, <1>8, <1>10, HopsPop
<1>12. HopInv(F[N], R, d.rev, M)
  <2>1. AllDistinct(F[N].ids)
    BY <1>11 DEF HopInv
  <2>2. QED
    BY <1>2, <1>4, <1>6, <1>9, <1>10, <2>1, HopsPop
<1>13. R[M].ok
  BY <1>4
<1>14. F[N].ok
  BY <1>12, <1>13 DEF HopInv
<1>15. /\ f = Along(F, d.fwd) /\ b = Along(R, d.rev)
  BY <1>1 DEF Outward, Homeward
<1>16. /\ f \in [0..N -> Positions]
       /\ \A i \in 0..N : f[i].visor = VisorAt(d.fwd, i) /\ f[i].id = F[i].rid
       /\ b \in [0..M -> Positions]
       /\ \A i \in 0..M : b[i].visor = VisorAt(d.rev, i) /\ b[i].id = R[i].rid
  BY <1>2, <1>4, <1>7, <1>15, AlongFacts
<1>17. Ways(g, res, d, f, b)
  <2>1. \A p \in Positions : p = [visor |-> p.visor, id |-> p.id]
    BY DEF Positions
  <2>2. /\ f[0] \in Positions /\ f[0].visor = d.src /\ f[0].id = g.srcFwdRID
        /\ b[0] \in Positions /\ b[0].visor = d.dst /\ b[0].id = g.dstFwdRID
    BY <1>4, <1>8, <1>9, <1>10, <1>16
  <2>3. f[N].visor = d.dst /\ b[M].visor = d.src
    BY <1>8, <1>9, <1>10, <1>16
  <2>4. /\ f[0] = [visor |-> d.src, id |-> g.srcFwdRID]
        /\ b[0] = [visor |-> d.dst, id |-> g.dstFwdRID]
    BY <2>1, <2>2
  <2>5. QED
    BY <1>2, <1>16, <2>3, <2>4 DEF Ways
<1>18. /\ \A i \in 0..N : F[i].rid \in Els(res[VisorAt(d.fwd, i)])
       /\ \A i \in 0..N : F[i].rid \notin Els(F[N].ids[VisorAt(d.fwd, i)])
       /\ \A i, j \in 0..N :
            i # j /\ VisorAt(d.fwd, i) = VisorAt(d.fwd, j) => F[i].rid # F[j].rid
       /\ \A w \in Visors : Els(F[N].ids[w]) \subseteq Els(res[w])
  BY <1>5, <1>11, <1>14 DEF HopInv
<1>19. /\ \A i \in 0..M : R[i].rid \in Els(F[N].ids[VisorAt(d.rev, i)])
       /\ \A i, j \in 0..M :
            i # j /\ VisorAt(d.rev, i) = VisorAt(d.rev, j) => R[i].rid # R[j].rid
  BY <1>12, <1>13 DEF HopInv
<1>20. WithinReservoir(res, d, f, b)
  <2>1. \A i \in 0..N : f[i].id \in Els(res[f[i].visor])
    BY <1>16, <1>18
  <2>2. \A i \in 0..M : b[i].id \in Els(res[b[i].visor])
    BY <1>9, <1>16, <1>18, <1>19
  <2>3. QED
    BY <1>2, <2>1, <2>2 DEF WithinReservoir
<1>21. NoCrossing(d, f, b)
  <2>1. \A i, j \in 0..N : f[i] = f[j] => i = j
    BY <1>16, <1>18
  <2>2. \A i, j \in 0..M : b[i] = b[j] => i = j
    BY <1>16, <1>19
  <2>3. \A i \in 0..N, j \in 0..M : f[i] # b[j]
    BY <1>16, <1>18, <1>19
  <2>4. QED
    BY <1>2, <2>1, <2>2, <2>3 DEF NoCrossing
<1>22. RulesAlong(g, d, f, b)
  <2>1. /\ SrcRule(d, f, b) = AppRule(R[M].rid, F[0].rid, d.dst, d.lport, d.rport)
        /\ DstRule(d, f, b) = AppRule(F[N].rid, R[0].rid, d.src, d.rport, d.lport)
    <3>1. b[M].id = R[M].rid /\ f[0].id = F[0].rid /\ f[N].id = F[N].rid /\ b[0].id = R[0].rid
      BY <1>10, <1>16
    <3>2. QED
      BY <1>2, <3>1 DEF SrcRule, DstRule
  <2>2. ASSUME NEW v \in Visors
        PROVE  R[M].rules[v] = Leading(f, N, v) \cup Leading(b, M, v)
    <3>1. F[N].rules[v] = st.rules[v] \cup HopRules(F, d.fwd, N, v)
      BY <1>2, <1>4, <1>6, <1>8, <1>10, HopsAddRules
    <3>2. R[M].rules[v] = F[N].rules[v] \cup HopRules(R, d.rev, M, v)
      BY <1>2, <1>4, <1>6, <1>9, <1>10, HopsAddRules
    <3>3. Leading(f, N, v) = HopRules(F, d.fwd, N, v)
      BY <1>2, <1>7, <1>15, LeadingIsHopRules
    <3>4. Leading(b, M, v) = HopRules(R, d.rev, M, v)
      BY <1>2, <1>7, <1>15, LeadingIsHopRules
    <3>5. QED
      BY <1>5, <3>1, <3>2, <3>3, <3>4
  <2>3. QED
    BY <1>2, <1>4, <2>1, <2>2 DEF RulesAlong
<1>23. QED
  BY <1>17, <1>20, <1>21, <1>22

-----------------------------------------------------------------------------
(* Following the rules of a loop.                                          *)

\* r leads, at visor w, from one position of f to the next; or it ends f.
Leads(f, n, w, r) ==
    \E i \in 0..(n - 1) :
        w = f[i].visor /\ r = ForwardRule(f[i].id, f[i + 1].id, f[i + 1].visor)

\* A rule is on one of the two ways or at the end of one.
LEMMA RuleCases ==
    ASSUME NEW g, NEW d, NEW f, NEW b, IsDescriptor(d), RulesAlong(g, d, f, b),
           NEW w \in Visors, NEW r \in g.rules[w]
    PROVE  \/ Leads(f, Len(d.fwd), w, r)
           \/ Leads(b, Len(d.rev), w, r)
           \/ w = d.src /\ r = SrcRule(d, f, b)
           \/ w = d.dst /\ r = DstRule(d, f, b)
<1>1. Len(d.fwd) \in Nat /\ Len(d.rev) \in Nat
  BY IsRouteFacts DEF IsDescriptor
<1>2. ASSUME NEW h, NEW n \in Nat, r \in Leading(h, n, w)
      PROVE  Leads(h, n, w, r)
  <2>1. PICK i \in 1..n :
          /\ h[i - 1].visor = w
          /\ r = ForwardRule(h[i - 1].id, h[i].id, h[i].visor)
    BY <1>2 DEF Leading
  <2>2. i - 1 \in 0..(n - 1) /\ (i - 1) + 1 = i
    OBVIOUS
  <2>3. QED
    BY <2>1, <2>2 DEF Leads
<1>3. \/ r \in Leading(f, Len(d.fwd), w)
      \/ r \in Leading(b, Len(d.rev), w)
      \/ w = d.src /\ r = SrcRule(d, f, b)
      \/ w = d.dst /\ r = DstRule(d, f, b)
  BY DEF RulesAlong
<1>4. QED
  BY <1>1, <1>2, <1>3

\* A rule of the loop that is stored where a packet on the way out is looks as it should,
LEMMA RuleOutward ==
    ASSUME NEW g, NEW res, NEW d, NEW f, NEW b, IsDescriptor(d), Ways(g, res, d, f, b),
           NoCrossing(d, f, b), RulesAlong(g, d, f, b),
           NEW w \in Visors, NEW r \in g.rules[w],
           NEW j \in 0..Len(d.fwd), f[j].visor = w, f[j].id = r.key
    PROVE  \/ /\ j < Len(d.fwd)
              /\ r = ForwardRule(f[j].id, f[j + 1].id, f[j + 1].visor)
           \/ j = Len(d.fwd) /\ w = d.dst /\ r = DstRule(d, f, b)
<1> DEFINE N == Len(d.fwd)
           M == Len(d.rev)
<1>1. N \in Nat /\ M \in Nat
  BY IsRouteFacts DEF IsDescriptor
<1>2. \A p, q \in Positions : p.visor = q.visor /\ p.id = q.id => p = q
  BY DEF Positions
<1>3. /\ \A i \in 0..N : f[i] \in Positions
      /\ \A i \in 0..M : b[i] \in Positions
      /\ f[N].visor = d.dst /\ b[M].visor = d.src
  BY DEF Ways
<1>4. /\ \A i \in 0..N : f[i].visor = w /\ f[i].id = r.key => i = j
      /\ \A i \in 0..M : ~(b[i].visor = w /\ b[i].id = r.key)
  BY <1>2, <1>3 DEF NoCrossing
<1> HIDE DEF N, M
<1>5. CASE Leads(f, N, w, r)
  <2>1. PICK i \in 0..(N - 1) :
          w = f[i].visor /\ r = ForwardRule(f[i].id, f[i + 1].id, f[i + 1].visor)
    BY <1>5 DEF Leads
  <2>2. r.key = f[i].id /\ i \in 0..N /\ i < N
    BY <1>1, <2>1 DEF ForwardRule
  <2>3. i = j
    BY <1>4, <2>1, <2>2
  <2>4. QED
    BY <2>1, <2>2, <2>3 DEF N
<1>6. CASE Leads(b, M, w, r)
  <2>1. PICK i \in 0..(M - 1) :
          w = b[i].visor /\ r = ForwardRule(b[i].id, b[i + 1].id, b[i + 1].visor)
    BY <1>6 DEF Leads
  <2>2. r.key = b[i].id /\ i \in 0..M
    BY <1>1, <2>1 DEF ForwardRule
  <2>3. QED
    BY <1>4, <2>1, <2>2
<1>7. CASE w = d.src /\ r = SrcRule(d, f, b)
  <2>1. r.key = b[M].id /\ M \in 0..M
    BY <1>1, <1>7 DEF SrcRule, AppRule, M
  <2>2. QED
    BY <1>3, <1>4, <1>7, <2>1
<1>8. CASE w = d.dst /\ r = DstRule(d, f, b)
  <2>1. r.key = f[N].id /\ N \in 0..N
    BY <1>1, <1>8 DEF DstRule, AppRule, N
  <2>2. N = j
    BY <1>3, <1>4, <1>8, <2>1
  <2>3. QED
    BY <1>8, <2>2 DEF N
<1>9. QED
  BY <1>5, <1>6, <1>7, <1>8, RuleCases DEF N, M

\* ... and so does one that is stored where a packet on the way back is.
LEMMA RuleHomeward ==
    ASSUME NEW g, NEW res, NEW d, NEW f, NEW b, IsDescriptor(d), Ways(g, res, d, f, b),
           NoCrossing(d, f, b), RulesAlong(g, d, f, b),
           NEW w \in Visors, NEW r \in g.rules[w],
           NEW j \in 0..Len(d.rev), b[j].visor = w, b[j].id = r.key
    PROVE  \/ /\ j < Len(d.rev)
              /\ r = ForwardRule(b[j].id, b[j + 1].id, b[j + 1].visor)
           \/ j = Len(d.rev) /\ w = d.src /\ r = SrcRule(d, f, b)
<1> DEFINE N == Len(d.fwd)
           M == Len(d.rev)
<1>1. N \in Nat /\ M \in Nat
  BY IsRouteFacts DEF IsDescriptor
<1>2. \A p, q \in Positions : p.visor = q.visor /\ p.id = q.id => p = q
  BY DEF Positions
<1>3. /\ \A i \in 0..N : f[i] \in Positions
      /\ \A i \in 0..M : b[i] \in Positions
      /\ f[N].visor = d.dst /\ b[M].visor = d.src
  BY DEF Ways
<1>4. /\ \A i \in 0..M : b[i].visor = w /\ b[i].id = r.key => i = j
      /\ \A i \in 0..N : ~(f[i].visor = w /\ f[i].id = r.key)
  BY <1>2, <1>3 DEF NoCrossing
<1> HIDE DEF N, M
<1>5. CASE Leads(b, M, w, r)
  <2>1. PICK i \in 0..(M - 1) :
          w = b[i].visor /\ r = ForwardRule(b[i].id, b[i + 1].id, b[i + 1].visor)
    BY <1>5 DEF Leads
  <2>2. r.key = b[i].id /\ i \in 0..M /\ i < M
    BY <1>1, <2>1 DEF ForwardRule
  <2>3. i = j
    BY <1>4, <2>1, <2>2
  <2>4. QED
    BY <2>1, <2>2, <2>3 DEF M
<1>6. CASE Leads(f, N, w, r)
  <2>1. PICK i \in 0..(N - 1) :
          w = f[i].visor /\ r = ForwardRule(f[i].id, f[i + 1].id, f[i + 1].visor)
    BY <1>6 DEF Leads
  <2>2. r.key = f[i].id /\ i \in 0..N
    BY <1>1, <2>1 DEF ForwardRule
  <2>3. QED
    BY <1>4, <2>1, <2>2
<1>7. CASE w = d.dst /\ r = DstRule(d, f, b)
  <2>1. r.key = f[N].id /\ N \in 0..N
    BY <1>1, <1>7 DEF DstRule, AppRule, N
  <2>2. QED
    BY <1>3, <1>4, <1>7, <2>1
<1>8. CASE w = d.src /\ r = SrcRule(d, f, b)
  <2>1. r.key = b[M].id /\ M \in 0..M
    BY <1>1, <1>8 DEF SrcRule, AppRule, M
  <2>2. M = j
    BY <1>3, <1>4, <1>8, <2>1
  <2>3. QED
    BY <1>8, <2>2 DEF M
<1>9. QED
  BY <1>5, <1>6, <1>7, <1>8, RuleCases DEF N, M

\* Every rule of the loop is under an id of the two ways.
LEMMA RulePosition ==
    ASSUME NEW g, NEW res, NEW d, NEW f, NEW b, IsDescriptor(d), Ways(g, res, d, f, b),
           RulesAlong(g, d, f, b), NEW w \in Visors, NEW r \in g.rules[w]
    PROVE  \/ \E j \in 0..Len(d.fwd) : f[j].visor = w /\ f[j].id = r.key
           \/ \E j \in 0..Len(d.rev) : b[j].visor = w /\ b[j].id = r.key
<1>1. Len(d.fwd) \in Nat /\ Len(d.rev) \in Nat
  BY IsRouteFacts DEF IsDescriptor
<1>2. ASSUME NEW h, NEW n \in Nat, Leads(h, n, w, r)
      PROVE  \E j \in 0..n : h[j].visor = w /\ h[j].id = r.key
  <2>1. PICK i \in 0..(n - 1) :
          w = h[i].visor /\ r = ForwardRule(h[i].id, h[i + 1].id, h[i + 1].visor)
    BY <1>2 DEF Leads
  <2>2. r.key = h[i].id /\ i \in 0..n
    BY <2>1 DEF ForwardRule
  <2>3. QED
    BY <2>1, <2>2
<1>3. CASE Leads(f, Len(d.fwd), w, r)
  BY <1>1, <1>2, <1>3
<1>4. CASE Leads(b, Len(d.rev), w, r)
  BY <1>1, <1>2, <1>4
<1>5. CASE w = d.src /\ r = SrcRule(d, f, b)
  <2>1. r.key = b[Len(d.rev)].id /\ Len(d.rev) \in 0..Len(d.rev)
    BY <1>1, <1>5 DEF SrcRule, AppRule
  <2>2. QED
    BY <1>5, <2>1 DEF Ways
<1>6. CASE w = d.dst /\ r = DstRule(d, f, b)
  <2>1. r.key = f[Len(d.fwd)].id /\ Len(d.fwd) \in 0..Len(d.fwd)
    BY <1>1, <1>6 DEF DstRule, AppRule
  <2>2. QED
    BY <1>6, <2>1 DEF Ways
<1>7. QED
  BY <1>3, <1>4, <1>5, <1>6, RuleCases

\* No visor gets two rules under one id, and every rule is under an id it reserved.
LEMMA RuleKeys ==
    ASSUME NEW g, NEW res, NEW d, NEW f, NEW b, IsDescriptor(d), Ways(g, res, d, f, b),
           WithinReservoir(res, d, f, b), NoCrossing(d, f, b), RulesAlong(g, d, f, b),
           NEW w \in Visors, NEW r \in g.rules[w]
    PROVE  /\ r.key \in Els(res[w])
           /\ \A s \in g.rules[w] : s.key = r.key => s = r
<1>1. CASE \E j \in 0..Len(d.fwd) : f[j].visor = w /\ f[j].id = r.key
  <2>1. PICK j \in 0..Len(d.fwd) : f[j].visor = w /\ f[j].id = r.key
    BY <1>1
  <2>2. r.key \in Els(res[w])
    BY <2>1 DEF WithinReservoir
  <2>3. ASSUME NEW s \in g.rules[w], s.key = r.key
        PROVE  s = r
    <3>1. \/ j < Len(d.fwd) /\ r = ForwardRule(f[j].id, f[j + 1].id, f[j + 1].visor)
          \/ j = Len(d.fwd) /\ r = DstRule(d, f, b)
      BY <2>1, RuleOutward
    <3>2. \/ j < Len(d.fwd) /\ s = ForwardRule(f[j].id, f[j + 1].id, f[j + 1].visor)
          \/ j = Len(d.fwd) /\ s = DstRule(d, f, b)
      BY <2>1, <2>3, RuleOutward
    <3>3. Len(d.fwd) \in Nat
      BY IsRouteFacts DEF IsDescriptor
    <3>4. QED
      BY <3>1, <3>2, <3>3
  <2>4. QED
    BY <2>2, <2>3
<1>2. CASE \E j \in 0..Len(d.rev) : b[j].visor = w /\ b[j].id = r.key
  <2>1. PICK j \in 0..Len(d.rev) : b[j].visor = w /\ b[j].id = r.key
    BY <1>2
  <2>2. r.key \in Els(res[w])
    BY <2>1 DEF WithinReservoir
  <2>3. ASSUME NEW s \in g.rules[w], s.key = r.key
        PROVE  s = r
    <3>1. \/ j < Len(d.rev) /\ r = ForwardRule(b[j].id, b[j + 1].id, b[j + 1].visor)
          \/ j = Len(d.rev) /\ r = SrcRule(d, f, b)
      BY <2>1, RuleHomeward
    <3>2. \/ j < Len(d.rev) /\ s = ForwardRule(b[j].id, b[j + 1].id, b[j + 1].visor)
          \/ j = Len(d.rev) /\ s = SrcRule(d, f, b)
      BY <2>1, <2>3, RuleHomeward
    <3>3. Len(d.rev) \in Nat
      BY IsRouteFacts DEF IsDescriptor
    <3>4. QED
      BY <3>1, <3>2, <3>3
  <2>4. QED
    BY <2>2, <2>3
<1>3. QED
  BY <1>1, <1>2, RulePosition

\* A packet that no rule leads out of S stays in S.
LEMMA TravelStays ==
    ASSUME NEW tbl, NEW S, NEW p \in S, \A q \in S : Forwarded(tbl, q) \in S, MaxHops \in Nat
    PROVE  /\ Travel(tbl, p) \in [0..MaxHops -> S]
           /\ Travel(tbl, p)[0] = p
           /\ \A n \in 1..MaxHops : Travel(tbl, p)[n] = Forwarded(tbl, Travel(tbl, p)[n - 1])
<1> DEFINE N == MaxHops
           F == [n \in 1..N |-> [q \in S |-> Forwarded(tbl, q)]]
           IsTravel(f) == f = [n \in 0..N |-> IF n = 0 THEN p ELSE Forwarded(tbl, f[n - 1])]
<1>1. F \in [1..N -> [S -> S]]
  OBVIOUS
<1> HIDE DEF F
<1>2. PICK g \in [0..N -> S] : Follows(g, p, N, F)
  BY <1>1, Recursion, Zenon
<1>3. IsTravel(g)
  <2>1. ASSUME NEW n \in 0..N
        PROVE  g[n] = IF n = 0 THEN p ELSE Forwarded(tbl, g[n - 1])
    <3>1. CASE n = 0
      BY <1>2, <3>1 DEF Follows
    <3>2. CASE n # 0
      <4>1. n \in 1..N /\ n - 1 \in 0..N
        BY <3>2
      <4>2. g[n] = F[n][g[n - 1]]
        BY <1>2, <4>1 DEF Follows
      <4>3. F[n][g[n - 1]] = Forwarded(tbl, g[n - 1])
        BY <4>1 DEF F
      <4>4. QED
        BY <3>2, <4>2, <4>3
    <3>3. QED
      BY <3>1, <3>2
  <2>2. QED
    BY <2>1
<1>4. Travel(tbl, p) = CHOOSE f : IsTravel(f)
  BY DEF Travel
<1>5. PICK a : a = Travel(tbl, p)
  OBVIOUS
<1>6. IsTravel(a)
  <2> HIDE DEF IsTravel
  <2>1. QED
    BY <1>3, <1>4, <1>5, Zenon
<1>7. \A n \in 0..N : a[n] = IF n = 0 THEN p ELSE Forwarded(tbl, a[n - 1])
  BY <1>6
<1> DEFINE T == {n \in 0..N : a[n] \in S}
<1>8. 0 \in T
  BY <1>7
<1>9. ASSUME NEW n \in 0..(N - 1), n \in T
      PROVE  n + 1 \in T
  <2>1. n + 1 \in 0..N /\ n + 1 # 0 /\ (n + 1) - 1 = n
    OBVIOUS
  <2>2. a[n + 1] = Forwarded(tbl, a[n])
    BY <1>7, <2>1
  <2>3. QED
    BY <1>9, <2>1, <2>2
<1>10. \A n \in 0..N : n \in T
  <2> HIDE DEF T
  <2>1. QED
    BY <1>8, <1>9, InductionTo
<1>11. a \in [0..N -> S]
  BY <1>6, <1>10
<1>12. a[0] = p /\ \A n \in 1..N : a[n] = Forwarded(tbl, a[n - 1])
  BY <1>7
<1>13. QED
  BY <1>5, <1>11, <1>12

-----------------------------------------------------------------------------
(* The inductive invariant of LoopSetup.                                   *)

Phases == {"idle", "reserve", "add", "confirmDst", "confirmSrc", "ok", "failed"}
Kinds == {"reserve", "add", "confirmDst", "confirmSrc"}
Ports == StaticPorts \cup DynamicPorts
LoopEntries ==
    [lport : Ports, remote : Visors, rport : Nat, to : Visors \cup {NoVisor}, id : Nat]

VisorTypes ==
    /\ table \in [Visors -> SUBSET (FwdRules \cup AppRules)]
    /\ live \in [Visors -> SUBSET Nat]
    /\ nextID \in [Visors -> Nat]
    /\ ports \in [Visors -> SUBSET Ports]
    /\ loops \in [Visors -> SUBSET LoopEntries]

SetupTypes ==
    /\ lport \in [Loops -> DynamicPorts \cup {NoPort}]
    /\ dial \in [Loops -> {"none", "wait", "ok", "err"}]
    /\ phase \in [Loops -> Phases]
    /\ await \in [Loops -> SUBSET Visors]
    /\ bad \in [Loops -> BOOLEAN]
    /\ ids \in [Loops -> Reservoirs]
    /\ gen = [l \in Loops |-> gen[l]]
    /\ events \in Nat
    /\ stored \in [Loops -> [Visors -> {"no", "yes", "wiped"}]]

MessageTypes ==
    /\ msgs \subseteq [kind : Kinds, loop : Loops, at : Visors]
    /\ confirming \subseteq [loop : Loops, at : Visors, rule : AppRules]
    /\ closings \subseteq [at : Visors, lport : Nat, remote : {NoVisor}, rport : Nat]

\* A loop has rules once GenerateRules has made them.
Generated(l) == gen[l].ok

\* Where the packets that v sends on loop l may be.
OutWay(l) == Outward(ids[l], LoopDescriptor(l))
BackWay(l) == Homeward(ids[l], LoopDescriptor(l))
Way(l, v) ==
    IF v = Desc[l].src THEN {OutWay(l)[i] : i \in 0..Len(Desc[l].fwd)}
                       ELSE {BackWay(l)[i] : i \in 0..Len(Desc[l].rev)}

\* confirmLoop changes nothing of a rule but the reverse id.
Alike(r, s) ==
    /\ r.type = s.type /\ r.key = s.key
    /\ s.type = "fwd" => r.next = s.next /\ r.to = s.to
    /\ s.type = "app" => r.remote = s.remote /\ r.lport = s.lport /\ r.rport = s.rport

IsPlaceholder(r) == r.type = "fwd" /\ r.to = NoVisor
FromLoop(l, v, r) == Generated(l) /\ \E s \in gen[l].rules[v] : Alike(r, s)
Known(v, r) == IsPlaceholder(r) \/ \E l \in Loops : FromLoop(l, v, r)

\* An entry of v's port manager belongs to loop l, and leads onto its way.
EntryOf(l, v, e) ==
    /\ Generated(l) /\ v \in Ends(l)
    /\ e.lport = LocalPort(l, v) /\ e.remote = RemotePK(l, v) /\ e.rport = RemotePort(l, v)
    /\ [visor |-> e.to, id |-> e.id] \in Way(l, v)

\* The ids reserved for a loop are distinct, were assigned, and are no other loop's.
OwnIDs ==
    /\ \A l \in Loops : AllDistinct(ids[l])
    /\ \A l \in Loops, v \in Visors : Els(ids[l][v]) \subseteq 1..nextID[v]
    /\ \A l, m \in Loops : l # m =>
         \A v \in Visors : Els(ids[l][v]) \cap Els(ids[m][v]) = {}

\* The rules of a loop are those of its ids, from the time they are made.
GenInv ==
    \A l \in Loops :
        /\ Generated(l) => gen[l] = GenerateRules(ids[l], LoopDescriptor(l))
        /\ phase[l] \in {"idle", "reserve"} => ~Generated(l)
        /\ phase[l] \in {"add", "confirmDst", "confirmSrc", "ok"} => Generated(l)

MsgInv ==
    \A m \in msgs :
        /\ m.kind # "reserve" => Generated(m.loop)
        /\ m.kind = "confirmDst" => m.at = Desc[m.loop].dst
        /\ m.kind = "confirmSrc" => m.at = Desc[m.loop].src

TableInv == \A v \in Visors : \A r \in table[v] : Known(v, r)
ConfirmInv == \A c \in confirming : \E l \in Loops : FromLoop(l, c.at, c.rule)
EntryInv == \A v \in Visors : \A e \in loops[v] :
                e.to \in Visors => \E l \in Loops : EntryOf(l, v, e)

\* No visor has two rules under one id, or a loop on a port that is not bound.
UniqueKeys(T) == \A r, s \in T : r.key = s.key => r = s
PlaceInv ==
    \A v \in Visors :
        /\ UniqueKeys(table[v])
        /\ \A e \in loops[v] : e.lport \in ports[v]

Inv ==
    /\ VisorTypes /\ SetupTypes /\ MessageTypes
    /\ OwnIDs /\ GenInv /\ MsgInv /\ TableInv /\ ConfirmInv /\ EntryInv
    /\ PlaceInv

-----------------------------------------------------------------------------
(* What the invariant says of a loop, and that it keeps packets on their way. *)

LEMMA DescriptorFacts ==
    ASSUME NEW l \in Loops, lport[l] \in DynamicPorts \cup {NoPort}
    PROVE  IsDescriptor(LoopDescriptor(l))
<1>1. lport[l] \in Nat
  <2>1. \A p \in DynamicPorts : p \in Nat
    BY LoopAssumption, Zenon
  <2>2. NoPort \in Nat
    BY DEF NoPort
  <2>3. QED
    BY <2>1, <2>2, Zenon
<1>2. PICK d : d = LoopDescriptor(l)
  OBVIOUS
<1>3. /\ d.src = Desc[l].src /\ d.dst = Desc[l].dst /\ d.lport = lport[l]
      /\ d.rport = Desc[l].rport /\ d.fwd = Desc[l].fwd /\ d.rev = Desc[l].rev
  BY <1>2 DEF LoopDescriptor
<1>4. IsDescriptor(d)
  BY <1>1, <1>3, LoopAssumption DEF IsDescriptor
<1>5. QED
  BY <1>2, <1>4

\* The ways of a generated loop, and its rules along them.
LEMMA GeneratedFacts ==
    ASSUME Inv, NEW l \in Loops, Generated(l)
    PROVE  LET d == LoopDescriptor(l) IN
           /\ IsDescriptor(d)
           /\ Ways(gen[l], ids[l], d, OutWay(l), BackWay(l))
           /\ WithinReservoir(ids[l], d, OutWay(l), BackWay(l))
           /\ NoCrossing(d, OutWay(l), BackWay(l))
           /\ RulesAlong(gen[l], d, OutWay(l), BackWay(l))
<1>1. PICK d, res, g, f, b :
        /\ d = LoopDescriptor(l) /\ res = ids[l] /\ g = gen[l]
        /\ f = OutWay(l) /\ b = BackWay(l)
  OBVIOUS
<1>2. IsDescriptor(d)
  <2>1. lport[l] \in DynamicPorts \cup {NoPort}
    BY DEF Inv, SetupTypes
  <2>2. QED
    BY <1>1, <2>1, DescriptorFacts
<1>3. res \in Reservoirs /\ AllDistinct(res)
  BY <1>1 DEF Inv, SetupTypes, OwnIDs
<1>4. g = GenerateRules(res, d) /\ g.ok
  BY <1>1 DEF Inv, GenInv, Generated
<1>5. f = Outward(res, d) /\ b = Homeward(res, d)
  BY <1>1 DEF OutWay, BackWay
<1>6. /\ Ways(g, res, d, f, b) /\ WithinReservoir(res, d, f, b)
      /\ NoCrossing(d, f, b) /\ RulesAlong(g, d, f, b)
  BY <1>2, <1>3, <1>4, <1>5, GenerateRulesJoins
<1>7. QED
  BY <1>1, <1>2, <1>6

\* Where a rule of loop l that a packet of end v may meet leads it.
LeadsOn(l, v, p, r) ==
    /\ r.type = "fwd" /\ r.to \in Visors
    /\ [visor |-> r.to, id |-> r.next] \in Way(l, v)
Ending(l, v, p, r) ==
    /\ r.type = "app" /\ p.visor = RemotePK(l, v)
    /\ r.remote = v /\ r.lport = RemotePort(l, v) /\ r.rport = LocalPort(l, v)

LEMMA WayFacts ==
    ASSUME Inv, NEW l \in Loops, Generated(l), NEW v \in Ends(l)
    PROVE  /\ Way(l, v) \subseteq Positions
           /\ \A p \in Way(l, v) : p.id \in Els(ids[l][p.visor])
           /\ [visor |-> v, id |-> FwdRID(l, v)] \in Way(l, v)
           /\ \A p \in Way(l, v) : \A r \in gen[l].rules[p.visor] :
                r.key = p.id => LeadsOn(l, v, p, r) \/ Ending(l, v, p, r)
<1>1. PICK d, res, g, f, b, W :
        /\ d = LoopDescriptor(l) /\ res = ids[l] /\ g = gen[l]
        /\ f = OutWay(l) /\ b = BackWay(l) /\ W = Way(l, v)
  OBVIOUS
<1>2. /\ IsDescriptor(d) /\ Ways(g, res, d, f, b) /\ WithinReservoir(res, d, f, b)
      /\ NoCrossing(d, f, b) /\ RulesAlong(g, d, f, b)
  BY <1>1, GeneratedFacts
<1>3. /\ d.src = Desc[l].src /\ d.dst = Desc[l].dst /\ d.lport = lport[l]
      /\ d.rport = Desc[l].rport /\ d.fwd = Desc[l].fwd /\ d.rev = Desc[l].rev
  BY <1>1 DEF LoopDescriptor
<1>4. d.src # d.dst /\ (v = d.src \/ v = d.dst)
  BY <1>2, <1>3 DEF IsDescriptor, Ends
<1>5. Len(d.fwd) \in Nat /\ Len(d.rev) \in Nat
  BY <1>2, IsRouteFacts DEF IsDescriptor
<1>6. ASSUME NEW h, NEW n \in Nat, h \in [0..n -> Positions], W = {h[i] : i \in 0..n},
             NEW p \in W, NEW i \in 0..n, p = h[i],
             NEW r, r = ForwardRule(h[i].id, h[i + 1].id, h[i + 1].visor), i < n
      PROVE  LeadsOn(l, v, p, r)
  <2>1. i + 1 \in 0..n
    BY <1>6
  <2>2. h[i + 1] \in Positions /\ h[i + 1] \in W
    BY <1>6, <2>1
  <2>3. PICK q \in Positions : q = h[i + 1]
    BY <2>2
  <2>4. q.visor \in Visors /\ q = [visor |-> q.visor, id |-> q.id]
    BY DEF Positions
  <2>5. r.type = "fwd" /\ r.to = q.visor /\ r.next = q.id
    BY <1>6, <2>3 DEF ForwardRule
  <2>6. QED
    BY <1>1, <2>2, <2>3, <2>4, <2>5 DEF LeadsOn
<1>7. CASE v = d.src
  <2>1. W = {f[i] : i \in 0..Len(d.fwd)}
    BY <1>1, <1>3, <1>7 DEF Way
  <2>2. /\ f \in [0..Len(d.fwd) -> Positions]
        /\ f[0] = [visor |-> d.src, id |-> g.srcFwdRID]
        /\ \A i \in 0..Len(d.fwd) : f[i].id \in Els(res[f[i].visor])
    BY <1>2 DEF Ways, WithinReservoir
  <2>3. W \subseteq Positions
    BY <2>1, <2>2
  <2>4. \A p \in W : p.id \in Els(res[p.visor])
    BY <2>1, <2>2
  <2>5. [visor |-> v, id |-> FwdRID(l, v)] \in W
    <3>1. FwdRID(l, v) = g.srcFwdRID
      BY <1>1, <1>3, <1>4, <1>7 DEF FwdRID
    <3>2. 0 \in 0..Len(d.fwd)
      BY <1>5
    <3>3. QED
      BY <1>7, <2>1, <2>2, <3>1, <3>2
  <2>6. ASSUME NEW p \in W, NEW r \in g.rules[p.visor], r.key = p.id
        PROVE  LeadsOn(l, v, p, r) \/ Ending(l, v, p, r)
    <3>1. PICK i \in 0..Len(d.fwd) : p = f[i]
      BY <2>1
    <3>2. p.visor \in Visors
      BY <2>3 DEF Positions
    <3>3. PICK w \in Visors : w = p.visor
      BY <3>2
    <3>4. r \in g.rules[w] /\ f[i].visor = w /\ f[i].id = r.key
      BY <2>6, <3>1, <3>3
    <3>5. \/ i < Len(d.fwd) /\ r = ForwardRule(f[i].id, f[i + 1].id, f[i + 1].visor)
          \/ i = Len(d.fwd) /\ w = d.dst /\ r = DstRule(d, f, b)
      BY <1>2, <3>4, RuleOutward
    <3>6. CASE i < Len(d.fwd) /\ r = ForwardRule(f[i].id, f[i + 1].id, f[i + 1].visor)
      BY <1>5, <1>6, <2>1, <2>2, <3>1, <3>6
    <3>7. CASE w = d.dst /\ r = DstRule(d, f, b)
      <4>1. /\ r.type = "app" /\ r.remote = d.src
            /\ r.lport = d.rport /\ r.rport = d.lport
        BY <3>7 DEF DstRule, AppRule
      <4>2. RemotePK(l, v) = d.dst /\ RemotePort(l, v) = d.rport /\ LocalPort(l, v) = d.lport
        BY <1>3, <1>7 DEF RemotePK, RemotePort, LocalPort
      <4>3. QED
        BY <1>7, <3>3, <3>7, <4>1, <4>2 DEF Ending
    <3>8. QED
      BY <3>5, <3>6, <3>7
  <2>7. QED
    BY <1>1, <2>3, <2>4, <2>5, <2>6
<1>8. CASE v = d.dst
  <2>1. W = {b[i] : i \in 0..Len(d.rev)}
    BY <1>1, <1>3, <1>4, <1>8 DEF Way
  <2>2. /\ b \in [0..Len(d.rev) -> Positions]
        /\ b[0] = [visor |-> d.dst, id |-> g.dstFwdRID]
        /\ \A i \in 0..Len(d.rev) : b[i].id \in Els(res[b[i].visor])
    BY <1>2 DEF Ways, WithinReservoir
  <2>3. W \subseteq Positions
    BY <2>1, <2>2
  <2>4. \A p \in W : p.id \in Els(res[p.visor])
    BY <2>1, <2>2
  <2>5. [visor |-> v, id |-> FwdRID(l, v)] \in W
    <3>1. FwdRID(l, v) = g.dstFwdRID
      BY <1>1, <1>3, <1>8 DEF FwdRID
    <3>2. 0 \in 0..Len(d.rev)
      BY <1>5
    <3>3. QED
      BY <1>8, <2>1, <2>2, <3>1, <3>2
  <2>6. ASSUME NEW p \in W, NEW r \in g.rules[p.visor], r.key = p.id
        PROVE  LeadsOn(l, v, p, r) \/ Ending(l, v, p, r)
    <3>1. PICK i \in 0..Len(d.rev) : p = b[i]
      BY <2>1
    <3>2. p.visor \in Visors
      BY <2>3 DEF Positions
    <3>3. PICK w \in Visors : w = p.visor
      BY <3>2
    <3>4. r \in g.rules[w] /\ b[i].visor = w /\ b[i].id = r.key
      BY <2>6, <3>1, <3>3
    <3>5. \/ i < Len(d.rev) /\ r = ForwardRule(b[i].id, b[i + 1].id, b[i + 1].visor)
          \/ i = Len(d.rev) /\ w = d.src /\ r = SrcRule(d, f, b)
      BY <1>2, <3>4, RuleHomeward
    <3>6. CASE i < Len(d.rev) /\ r = ForwardRule(b[i].id, b[i + 1].id, b[i + 1].visor)
      BY <1>5, <1>6, <2>1, <2>2, <3>1, <3>6
    <3>7. CASE w = d.src /\ r = SrcRule(d, f, b)
      <4>1. /\ r.type = "app" /\ r.remote = d.dst
            /\ r.lport = d.lport /\ r.rport = d.rport
        BY <3>7 DEF SrcRule, AppRule
      <4>2. RemotePK(l, v) = d.src /\ RemotePort(l, v) = d.lport /\ LocalPort(l, v) = d.rport
        BY <1>3, <1>4, <1>8 DEF RemotePK, RemotePort, LocalPort
      <4>3. QED
        BY <1>8, <3>3, <3>7, <4>1, <4>2 DEF Ending
    <3>8. QED
      BY <3>5, <3>6, <3>7
  <2>7. QED
    BY <1>1, <2>3, <2>4, <2>5, <2>6
<1>9. QED
  BY <1>4, <1>7, <1>8

\* The rules of a generated loop are under its own ids, one under each.
LEMMA GeneratedKeys ==
    ASSUME Inv, NEW l \in Loops, Generated(l), NEW w \in Visors, NEW r \in gen[l].rules[w]
    PROVE  /\ r \in FwdRules \cup AppRules
           /\ r.key \in Els(ids[l][w])
           /\ \A s \in gen[l].rules[w] : s.key = r.key => s = r
<1>1. PICK d, res, g, f, b :
        /\ d = LoopDescriptor(l) /\ res = ids[l] /\ g = gen[l]
        /\ f = OutWay(l) /\ b = BackWay(l)
  OBVIOUS
<1>2. /\ IsDescriptor(d) /\ Ways(g, res, d, f, b) /\ WithinReservoir(res, d, f, b)
      /\ NoCrossing(d, f, b) /\ RulesAlong(g, d, f, b)
  BY <1>1, GeneratedFacts
<1>3. r \in g.rules[w] /\ g.rules \in [Visors -> SUBSET (FwdRules \cup AppRules)]
  BY <1>1, <1>2 DEF RulesAlong
<1>4. /\ r.key \in Els(res[w])
      /\ \A s \in g.rules[w] : s.key = r.key => s = r
  BY <1>2, <1>3, RuleKeys
<1>5. QED
  BY <1>1, <1>3, <1>4

\* A rule that a packet on the way of loop l meets is a placeholder or one of l's.
LEMMA RulesMet ==
    ASSUME Inv, NEW l \in Loops, Generated(l), NEW v \in Ends(l),
           NEW p \in Way(l, v), NEW r \in table[p.visor], r.key = p.id
    PROVE  IsPlaceholder(r) \/ LeadsOn(l, v, p, r) \/ Ending(l, v, p, r)
<1>1. PICK w \in Visors : w = p.visor
  BY WayFacts DEF Positions
<1>2. CASE IsPlaceholder(r)
  BY <1>2
<1>3. CASE \E m \in Loops : FromLoop(m, w, r)
  <2>1. PICK m \in Loops : FromLoop(m, w, r)
    BY <1>3
  <2>2. PICK s \in gen[m].rules[w] : Generated(m) /\ Alike(r, s)
    BY <2>1 DEF FromLoop
  <2>3. s.key \in Els(ids[m][w])
    BY <2>2, GeneratedKeys
  <2>4. s.key = p.id /\ p.id \in Els(ids[l][w])
    BY <1>1, <2>2, WayFacts DEF Alike
  <2>5. m = l
    BY <2>3, <2>4 DEF Inv, OwnIDs
  <2>6. LeadsOn(l, v, p, s) \/ Ending(l, v, p, s)
    BY <1>1, <2>2, <2>4, <2>5, WayFacts
  <2>7. CASE LeadsOn(l, v, p, s)
    <3>1. s.type = "fwd" /\ s.to \in Visors /\ [visor |-> s.to, id |-> s.next] \in Way(l, v)
      BY <2>7 DEF LeadsOn
    <3>2. r.type = "fwd" /\ r.to = s.to /\ r.next = s.next
      BY <2>2, <3>1 DEF Alike
    <3>3. LeadsOn(l, v, p, r)
      BY <3>1, <3>2 DEF LeadsOn
    <3>4. QED
      BY <3>3
  <2>8. CASE Ending(l, v, p, s)
    BY <2>2, <2>8 DEF Ending, Alike
  <2>9. QED
    BY <2>6, <2>7, <2>8
<1>4. QED
  BY <1>1, <1>2, <1>3 DEF Inv, TableInv, Known

\* The invariant implies that packets reach the other end of their loop or nobody.
LEMMA InvNoMisdelivery ==
    ASSUME Inv
    PROVE  NoMisdelivery
<1>1. SUFFICES ASSUME NEW v \in Visors, NEW e \in loops[v], e.to \in Visors,
                      NEW c \in Consumed(Served, e.to, e.id)
               PROVE  /\ c.visor = e.remote
                      /\ c.rule.remote = v
                      /\ c.rule.lport = e.rport
                      /\ c.rule.rport = e.lport
  BY DEF NoMisdelivery
<1>2. PICK l \in Loops : EntryOf(l, v, e)
  BY <1>1 DEF Inv, EntryInv
<1>3. Generated(l) /\ v \in Ends(l)
  BY <1>2 DEF EntryOf
<1>4. PICK tbl, W, start :
        /\ tbl = Served /\ W = Way(l, v) /\ start = [visor |-> e.to, id |-> e.id]
  OBVIOUS
<1>5. start \in W /\ W \subseteq Positions
  BY <1>2, <1>3, <1>4, WayFacts DEF EntryOf
<1>6. ASSUME NEW p \in W, NEW r \in RulesAt(tbl, p)
      PROVE  IsPlaceholder(r) \/ LeadsOn(l, v, p, r) \/ Ending(l, v, p, r)
  <2>1. p.visor \in Visors
    BY <1>5 DEF Positions
  <2>2. r \in table[p.visor] /\ r.key = p.id
    BY <1>4, <1>6, <2>1 DEF RulesAt, Served
  <2>3. QED
    BY <1>3, <1>4, <2>2, RulesMet
<1>7. ASSUME NEW p \in W
      PROVE  Forwarded(tbl, p) \in W
  <2>1. PICK fwd : fwd = {r \in RulesAt(tbl, p) : r.type = "fwd" /\ r.to \in Visors}
    OBVIOUS
  <2>2. CASE fwd = {}
    <3>1. Forwarded(tbl, p) = p
      BY <2>1, <2>2 DEF Forwarded
    <3>2. QED
      BY <3>1
  <2>3. CASE fwd # {}
    <3>1. PICK r : r = CHOOSE x \in fwd : TRUE
      OBVIOUS
    <3>2. r \in fwd
      BY <2>3, <3>1
    <3>3. Forwarded(tbl, p) = [visor |-> r.to, id |-> r.next]
      BY <2>1, <2>3, <3>1 DEF Forwarded
    <3>4. r \in RulesAt(tbl, p) /\ r.type = "fwd" /\ r.to \in Visors
      BY <2>1, <3>2
    <3>5. NoVisor \notin Visors
      BY LoopAssumption
    <3>6. ~IsPlaceholder(r)
      BY <3>4, <3>5 DEF IsPlaceholder
    <3>7. ~Ending(l, v, p, r)
      BY <3>4 DEF Ending
    <3>8. LeadsOn(l, v, p, r)
      BY <1>6, <3>4, <3>6, <3>7
    <3>9. QED
      BY <1>4, <3>3, <3>8 DEF LeadsOn
  <2>4. QED
    BY <2>2, <2>3
<1>8. MaxHops \in Nat
  BY LoopAssumption
<1>9. PICK end : end = Travel(tbl, start)[MaxHops]
  OBVIOUS
<1>10. end \in W
  <2>1. Travel(tbl, start) \in [0..MaxHops -> W]
    BY <1>5, <1>7, <1>8, TravelStays
  <2>2. QED
    BY <1>8, <1>9, <2>1
<1>11. PICK r \in RulesAt(tbl, end) : r.type = "app" /\ c = [visor |-> end.visor, rule |-> r]
  BY <1>1, <1>4, <1>9 DEF Consumed
<1>12. ~IsPlaceholder(r) /\ ~LeadsOn(l, v, end, r)
  BY <1>11 DEF IsPlaceholder, LeadsOn
<1>13. Ending(l, v, end, r)
  BY <1>6, <1>10, <1>11, <1>12
<1>14. c.visor = end.visor /\ c.rule = r
  BY <1>11
<1>15. QED
  BY <1>2, <1>13, <1>14 DEF Ending, EntryOf

-----------------------------------------------------------------------------
(* The invariant is inductive.                                             *)

\* What a step may never do to a loop that has its rules.
Keeps ==
    \A l \in Loops :
        Generated(l) => gen'[l] = gen[l] /\ ids'[l] = ids[l] /\ lport'[l] = lport[l]

LEMMA KeepsGenerated ==
    ASSUME Keeps, NEW l \in Loops, Generated(l)
    PROVE  /\ Generated(l)'
           /\ \A v : LocalPort(l, v)' = LocalPort(l, v)
           /\ \A v : RemotePort(l, v)' = RemotePort(l, v)
           /\ \A v : Way(l, v)' = Way(l, v)
           /\ LoopDescriptor(l)' = LoopDescriptor(l)
<1>1. gen'[l] = gen[l] /\ ids'[l] = ids[l] /\ lport'[l] = lport[l]
  BY DEF Keeps
<1>2. Generated(l)'
  BY <1>1 DEF Generated
<1>3. LoopDescriptor(l)' = LoopDescriptor(l)
  BY <1>1 DEF LoopDescriptor
<1>4. OutWay(l)' = OutWay(l) /\ BackWay(l)' = BackWay(l)
  BY <1>1, <1>3 DEF OutWay, BackWay
<1>5. \A v : Way(l, v)' = Way(l, v)
  BY <1>4 DEF Way
<1>6. \A v : LocalPort(l, v)' = LocalPort(l, v) /\ RemotePort(l, v)' = RemotePort(l, v)
  BY <1>1 DEF LocalPort, RemotePort
<1>7. QED
  BY <1>2, <1>3, <1>5, <1>6

LEMMA KeepsKnown ==
    ASSUME Keeps, NEW v, NEW r
    PROVE  /\ \A l \in Loops : FromLoop(l, v, r) => FromLoop(l, v, r)'
           /\ Known(v, r) => Known(v, r)'
<1>1. ASSUME NEW l \in Loops, FromLoop(l, v, r)
      PROVE  FromLoop(l, v, r)'
  <2>1. Generated(l) /\ \E s \in gen[l].rules[v] : Alike(r, s)
    BY <1>1 DEF FromLoop
  <2>2. Generated(l)'
    BY <2>1, KeepsGenerated
  <2>3. gen'[l] = gen[l]
    BY <2>1 DEF Keeps
  <2>4. QED
    BY <2>1, <2>2, <2>3 DEF FromLoop
<1>2. QED
  BY <1>1 DEF Known

LEMMA KeepsEntry ==
    ASSUME Keeps, NEW l \in Loops, NEW v, NEW e, EntryOf(l, v, e)
    PROVE  EntryOf(l, v, e)'
<1>1. Generated(l)
  BY DEF EntryOf
<1>2. /\ Generated(l)' /\ LocalPort(l, v)' = LocalPort(l, v)
      /\ RemotePort(l, v)' = RemotePort(l, v) /\ Way(l, v)' = Way(l, v)
  BY <1>1, KeepsGenerated
<1>3. RemotePK(l, v)' = RemotePK(l, v) /\ Ends(l)' = Ends(l)
  BY DEF RemotePK, Ends
<1>4. QED
  BY <1>2, <1>3 DEF EntryOf

MsgOK(m) ==
    /\ m.kind # "reserve" => Generated(m.loop)
    /\ m.kind = "confirmDst" => m.at = Desc[m.loop].dst
    /\ m.kind = "confirmSrc" => m.at = Desc[m.loop].src

\* What is left to show of a step: everything new is well formed.
LEMMA InvFrame ==
    ASSUME Inv, Keeps, VisorTypes', SetupTypes', MessageTypes', OwnIDs', GenInv', PlaceInv',
           \A m \in msgs' : m \in msgs \/ MsgOK(m)',
           \A v \in Visors : \A r \in table'[v] : r \in table[v] \/ Known(v, r)',
           \A c \in confirming' :
             c \in confirming \/ \E l \in Loops : FromLoop(l, c.at, c.rule)',
           \A v \in Visors : \A e \in loops'[v] :
             e \in loops[v] \/ e.to \notin Visors \/ \E l \in Loops : EntryOf(l, v, e)'
    PROVE  Inv'
<1>1. MsgInv'
  <2>1. ASSUME NEW m \in msgs'
        PROVE  MsgOK(m)'
    <3>1. CASE m \in msgs
      <4>1. m.loop \in Loops /\ MsgOK(m)
        BY <3>1 DEF Inv, MessageTypes, MsgInv, MsgOK
      <4>2. QED
        BY <4>1, KeepsGenerated DEF MsgOK
    <3>2. QED
      BY <3>1
  <2>2. QED
    BY <2>1 DEF MsgInv, MsgOK
<1>2. TableInv'
  <2>1. ASSUME NEW v \in Visors, NEW r \in table'[v]
        PROVE  Known(v, r)'
    <3>1. CASE r \in table[v]
      BY <3>1, KeepsKnown DEF Inv, TableInv
    <3>2. QED
      BY <3>1
  <2>2. QED
    BY <2>1 DEF TableInv
<1>3. ConfirmInv'
  <2>1. ASSUME NEW c \in confirming'
        PROVE  \E l \in Loops : FromLoop(l, c.at, c.rule)'
    <3>1. CASE c \in confirming
      <4>1. PICK l \in Loops : FromLoop(l, c.at, c.rule)
        BY <3>1 DEF Inv, ConfirmInv
      <4>2. FromLoop(l, c.at, c.rule)'
        BY <4>1, KeepsKnown
      <4>3. QED
        BY <4>2
    <3>2. QED
      BY <3>1
  <2>2. QED
    BY <2>1 DEF ConfirmInv
<1>4. EntryInv'
  <2>1. ASSUME NEW v \in Visors, NEW e \in loops'[v], e.to \in Visors
        PROVE  \E l \in Loops : EntryOf(l, v, e)'
    <3>1. CASE e \in loops[v]
      <4>1. PICK l \in Loops : EntryOf(l, v, e)
        BY <2>1, <3>1 DEF Inv, EntryInv
      <4>2. EntryOf(l, v, e)'
        BY <4>1, KeepsEntry
      <4>3. QED
        BY <4>2
    <3>2. QED
      BY <2>1, <3>1
  <2>2. QED
    BY <2>1 DEF EntryInv
<1>5. QED
  BY <1>1, <1>2, <1>3, <1>4 DEF Inv

LEMMA InitInv == Init => Inv
<1>1. SUFFICES ASSUME Init
               PROVE  Inv
  OBVIOUS
<1>2. VisorTypes
  BY <1>1 DEF Init, VisorTypes, Ports
<1>3. SetupTypes
  <2>1. /\ lport \in [Loops -> DynamicPorts \cup {NoPort}]
        /\ dial \in [Loops -> {"none", "wait", "ok", "err"}]
        /\ phase \in [Loops -> Phases]
        /\ await \in [Loops -> SUBSET Visors]
        /\ events \in Nat
        /\ stored \in [Loops -> [Visors -> {"no", "yes", "wiped"}]]
    BY <1>1 DEF Init, Phases
  <2>2. bad \in [Loops -> BOOLEAN]
    BY <1>1 DEF Init
  <2>3. ids \in [Loops -> Reservoirs]
    <3>1. <<>> \in Seq(Nat)
      OBVIOUS
    <3>2. [v \in Visors |-> <<>>] \in Reservoirs
      BY <3>1 DEF Reservoirs
    <3>3. QED
      BY <1>1, <3>2 DEF Init
  <2>4. gen = [l \in Loops |-> gen[l]]
    BY <1>1 DEF Init
  <2>5. QED
    BY <2>1, <2>2, <2>3, <2>4 DEF SetupTypes
<1>4. MessageTypes
  BY <1>1 DEF Init, MessageTypes
<1>5. OwnIDs
  <2>1. \A l \in Loops, v \in Visors : ids[l][v] = <<>>
    BY <1>1 DEF Init
  <2>2. Els(<<>>) = {} /\ Distinct(<<>>)
    BY DEF Els, Distinct
  <2>3. QED
    BY <2>1, <2>2 DEF OwnIDs, AllDistinct
<1>6. \A l \in Loops : ~Generated(l) /\ phase[l] = "idle"
  BY <1>1 DEF Init, Generated, NotGenerated
<1>7. GenInv
  BY <1>6 DEF GenInv
<1>8. MsgInv /\ TableInv /\ ConfirmInv /\ EntryInv /\ PlaceInv
  BY <1>1 DEF Init, MsgInv, TableInv, ConfirmInv, EntryInv, PlaceInv, UniqueKeys
<1>9. QED
  BY <1>2, <1>3, <1>4, <1>5, <1>7, <1>8 DEF Inv

\* A step of the setup node or of the dialling router that makes no rules.
LEMMA SetupFrame ==
    ASSUME Inv, UNCHANGED <<visorVars, ids, gen, lport, confirming, closings, events, stored>>,
           dial' \in [Loops -> {"none", "wait", "ok", "err"}],
           phase' \in [Loops -> Phases],
           await' \in [Loops -> SUBSET Visors],
           bad' \in [Loops -> BOOLEAN],
           msgs' \subseteq [kind : Kinds, loop : Loops, at : Visors],
           \A m \in msgs' : m \in msgs \/ MsgOK(m)',
           \A l \in Loops : \/ phase'[l] = phase[l]
                            \/ phase'[l] = "failed"
                            \/ phase'[l] \in {"add", "confirmDst", "confirmSrc", "ok"} /\ Generated(l)
    PROVE  Inv'
<1>1. Keeps
  BY DEF Keeps
<1>2. VisorTypes' /\ PlaceInv'
  BY DEF Inv, VisorTypes, PlaceInv, visorVars
<1>3. SetupTypes'
  BY DEF Inv, SetupTypes
<1>4. MessageTypes'
  BY DEF Inv, MessageTypes
<1>5. OwnIDs'
  BY DEF Inv, OwnIDs, visorVars
<1>6. GenInv'
  <2>1. ASSUME NEW l \in Loops
        PROVE  /\ Generated(l)' => gen'[l] = GenerateRules(ids[l], LoopDescriptor(l))'
               /\ phase'[l] \in {"idle", "reserve"} => ~Generated(l)'
               /\ phase'[l] \in {"add", "confirmDst", "confirmSrc", "ok"} => Generated(l)'
    <3>1. Generated(l)' <=> Generated(l)
      BY DEF Generated
    <3>2. GenerateRules(ids[l], LoopDescriptor(l))' = GenerateRules(ids[l], LoopDescriptor(l))
      BY DEF LoopDescriptor
    <3>3. /\ Generated(l) => gen[l] = GenerateRules(ids[l], LoopDescriptor(l))
          /\ phase[l] \in {"idle", "reserve"} => ~Generated(l)
          /\ phase[l] \in {"add", "confirmDst", "confirmSrc", "ok"} => Generated(l)
      BY DEF Inv, GenInv
    <3>4. /\ phase'[l] \in {"idle", "reserve"} => ~Generated(l)
          /\ phase'[l] \in {"add", "confirmDst", "confirmSrc", "ok"} => Generated(l)
      BY <3>3
    <3>5. QED
      BY <3>1, <3>2, <3>3, <3>4
  <2>2. QED
    BY <2>1 DEF GenInv
<1>7. /\ \A v \in Visors : \A r \in table'[v] : r \in table[v]
      /\ \A c \in confirming' : c \in confirming
      /\ \A v \in Visors : \A e \in loops'[v] : e \in loops[v]
  BY DEF visorVars
<1>8. QED
  BY <1>1, <1>2, <1>3, <1>4, <1>5, <1>6, <1>7, InvFrame

LEMMA ReplyTypes ==
    ASSUME SetupTypes, NEW k, NEW l \in Loops, NEW v, NEW ok \in BOOLEAN, Reply(k, l, v, ok)
    PROVE  await' \in [Loops -> SUBSET Visors] /\ bad' \in [Loops -> BOOLEAN]
<1>1. await \in [Loops -> SUBSET Visors] /\ bad \in [Loops -> BOOLEAN]
  BY DEF SetupTypes
<1>2. CASE phase[l] = k /\ v \in await[l]
  <2>1. /\ await' = [await EXCEPT ![l] = @ \ {v}]
        /\ bad' = [bad EXCEPT ![l] = @ \/ ~ok]
    BY <1>2 DEF Reply
  <2>2. await' \in [Loops -> SUBSET Visors]
    BY <1>1, <2>1
  <2>3. bad' \in [Loops -> BOOLEAN]
    BY <1>1, <2>1
  <2>4. QED
    BY <2>2, <2>3
<1>3. CASE ~(phase[l] = k /\ v \in await[l])
  BY <1>1, <1>3 DEF Reply
<1>4. QED
  BY <1>2, <1>3

LEMMA RequestsFacts ==
    ASSUME NEW k, NEW l, NEW S
    PROVE  /\ \A m \in Requests(k, l, S) : m.kind = k /\ m.loop = l /\ m.at \in S
           /\ k \in Kinds /\ l \in Loops /\ S \subseteq Visors =>
                Requests(k, l, S) \subseteq [kind : Kinds, loop : Loops, at : Visors]
           /\ \A v \in S : [kind |-> k, loop |-> l, at |-> v] \in Requests(k, l, S)
BY DEF Requests

\* The requests of the next phase are about a loop with rules, at its ends.
LEMMA ProceedInv ==
    ASSUME Inv, NEW l \in Loops, Generated(l), NEW p \in {"confirmDst", "confirmSrc"},
           NEW at \in Visors, p = "confirmDst" => at = Desc[l].dst,
           p = "confirmSrc" => at = Desc[l].src,
           Proceed(l, p, {at}), UNCHANGED gen
    PROVE  Inv'
<1>1. /\ phase' = [phase EXCEPT ![l] = p]
      /\ await' = [await EXCEPT ![l] = {at}]
      /\ msgs' = msgs \cup Requests(p, l, {at})
      /\ UNCHANGED <<visorVars, bad, ids, lport, dial, confirming, closings, events, stored>>
  BY DEF Proceed
<1>2. SetupTypes /\ MessageTypes
  BY DEF Inv
<1>3. phase' \in [Loops -> Phases]
  BY <1>1, <1>2 DEF SetupTypes, Phases
<1>4. await' \in [Loops -> SUBSET Visors]
  BY <1>1, <1>2 DEF SetupTypes
<1>5. msgs' \subseteq [kind : Kinds, loop : Loops, at : Visors]
  <2>1. Requests(p, l, {at}) \subseteq [kind : Kinds, loop : Loops, at : Visors]
    BY RequestsFacts DEF Kinds
  <2>2. QED
    BY <1>1, <1>2, <2>1 DEF MessageTypes
<1>6. ASSUME NEW m \in msgs'
      PROVE  m \in msgs \/ MsgOK(m)'
  <2>1. CASE m \in Requests(p, l, {at})
    <3>1. m.kind = p /\ m.loop = l /\ m.at = at
      BY <2>1, RequestsFacts
    <3>2. Generated(l)'
      BY DEF Generated
    <3>3. QED
      BY <3>1, <3>2 DEF MsgOK
  <2>2. QED
    BY <1>1, <2>1
<1>7. \A k \in Loops : phase'[k] = phase[k] \/ (phase'[k] \in {"confirmDst", "confirmSrc"} /\ k = l)
  BY <1>1, <1>2 DEF SetupTypes
<1>8. \A k \in Loops : \/ phase'[k] = phase[k]
                       \/ phase'[k] = "failed"
                       \/ phase'[k] \in {"add", "confirmDst", "confirmSrc", "ok"} /\ Generated(k)
  BY <1>7
<1>9. dial' \in [Loops -> {"none", "wait", "ok", "err"}] /\ bad' \in [Loops -> BOOLEAN]
  BY <1>1, <1>2 DEF SetupTypes
<1>10. QED
  BY <1>1, <1>3, <1>4, <1>5, <1>6, <1>8, <1>9, SetupFrame

LEMMA DialEndsInv ==
    ASSUME Inv, NEW l \in Loops, NEW outcome \in {"ok", "err"}, DialEnds(l, outcome)
    PROVE  Inv'
<1>1. /\ dial' = [dial EXCEPT ![l] = outcome]
      /\ UNCHANGED <<visorVars, setupVars, lport, msgs, confirming, closings, events, stored>>
  BY DEF DialEnds
<1>2. SetupTypes /\ MessageTypes
  BY DEF Inv
<1>3. dial' \in [Loops -> {"none", "wait", "ok", "err"}]
  BY <1>1, <1>2 DEF SetupTypes
<1>4. /\ phase' \in [Loops -> Phases] /\ await' \in [Loops -> SUBSET Visors]
      /\ bad' \in [Loops -> BOOLEAN] /\ msgs' \subseteq [kind : Kinds, loop : Loops, at : Visors]
  BY <1>1, <1>2 DEF SetupTypes, MessageTypes, setupVars
<1>5. UNCHANGED <<visorVars, ids, gen, lport, confirming, closings, events, stored, phase, msgs>>
  BY <1>1 DEF setupVars
<1>6. QED
  BY <1>3, <1>4, <1>5, SetupFrame

LEMMA GiveUpInv ==
    ASSUME Inv, NEW l \in Loops, NEW v \in Visors, GiveUp(l, v)
    PROVE  Inv'
<1>1. /\ await' = [await EXCEPT ![l] = @ \ {v}]
      /\ bad' = [bad EXCEPT ![l] = TRUE]
      /\ msgs' \subseteq msgs
      /\ UNCHANGED <<visorVars, phase, ids, gen, lport, dial, confirming, closings, events, stored>>
  BY DEF GiveUp
<1>2. SetupTypes /\ MessageTypes
  BY DEF Inv
<1>3. bad' \in [Loops -> BOOLEAN]
  BY <1>1, <1>2 DEF SetupTypes
<1>4. await' \in [Loops -> SUBSET Visors]
  BY <1>1, <1>2 DEF SetupTypes
<1>5. /\ phase' \in [Loops -> Phases] /\ dial' \in [Loops -> {"none", "wait", "ok", "err"}]
      /\ msgs' \subseteq [kind : Kinds, loop : Loops, at : Visors]
  BY <1>1, <1>2 DEF SetupTypes, MessageTypes
<1>6. QED
  BY <1>1, <1>3, <1>4, <1>5, SetupFrame

LEMMA FinishInv ==
    ASSUME Inv, NEW l \in Loops, NEW p \in {"ok", "failed"}, Finish(l, p), p = "ok" => Generated(l)
    PROVE  Inv'
<1>1. /\ phase' = [phase EXCEPT ![l] = p]
      /\ UNCHANGED <<visorVars, await, bad, ids, gen, lport, dial, msgs, confirming, closings,
                     events, stored>>
  BY DEF Finish
<1>2. SetupTypes /\ MessageTypes
  BY DEF Inv
<1>3. /\ phase' \in [Loops -> Phases]
      /\ \A k \in Loops : \/ phase'[k] = phase[k]
                          \/ phase'[k] = "failed"
                          \/ phase'[k] = "ok" /\ Generated(k)
  <2>1. p \in Phases
    BY DEF Phases
  <2>2. phase' \in [Loops -> Phases] /\ phase'[l] = p
    BY <1>1, <1>2, <2>1 DEF SetupTypes
  <2>3. \A k \in Loops : k # l => phase'[k] = phase[k]
    BY <1>1, <1>2 DEF SetupTypes
  <2>4. QED
    BY <2>2, <2>3
<1>4. /\ await' \in [Loops -> SUBSET Visors] /\ bad' \in [Loops -> BOOLEAN]
      /\ dial' \in [Loops -> {"none", "wait", "ok", "err"}]
      /\ msgs' \subseteq [kind : Kinds, loop : Loops, at : Visors]
  BY <1>1, <1>2 DEF SetupTypes, MessageTypes
<1>5. QED
  BY <1>1, <1>3, <1>4, SetupFrame

LEMMA LoopCreatedInv ==
    ASSUME Inv, NEW l \in Loops, LoopCreated(l)
    PROVE  Inv'
<1>1. phase[l] = "confirmSrc" /\ Finish(l, "ok")
  BY DEF LoopCreated, PhaseOver
<1>2. Generated(l)
  BY <1>1 DEF Inv, GenInv
<1>3. QED
  BY <1>1, <1>2, FinishInv

LEMMA ConfirmPhasesInv ==
    ASSUME Inv, NEW l \in Loops, ConfirmWithDst(l) \/ ConfirmWithSrc(l)
    PROVE  Inv'
<1>1. Desc[l].src \in Visors /\ Desc[l].dst \in Visors
  BY LoopAssumption
<1>2. Generated(l)
  BY DEF Inv, GenInv, ConfirmWithDst, ConfirmWithSrc, PhaseOver
<1>3. CASE ConfirmWithDst(l)
  <2>1. Proceed(l, "confirmDst", {Desc[l].dst}) /\ UNCHANGED gen
    BY <1>3 DEF ConfirmWithDst
  <2>2. QED
    BY <1>1, <1>2, <2>1, ProceedInv
<1>4. CASE ConfirmWithSrc(l)
  <2>1. Proceed(l, "confirmSrc", {Desc[l].src}) /\ UNCHANGED gen
    BY <1>4 DEF ConfirmWithSrc
  <2>2. QED
    BY <1>1, <1>2, <2>1, ProceedInv
<1>5. QED
  BY <1>3, <1>4

\* A step of a visor that assigns no ids.
LEMMA VisorFrame ==
    ASSUME Inv, UNCHANGED <<nextID, phase, ids, gen, lport>>, VisorTypes', PlaceInv',
           dial' \in [Loops -> {"none", "wait", "ok", "err"}],
           await' \in [Loops -> SUBSET Visors],
           bad' \in [Loops -> BOOLEAN],
           events' \in Nat,
           stored' \in [Loops -> [Visors -> {"no", "yes", "wiped"}]],
           MessageTypes', msgs' \subseteq msgs,
           \A v \in Visors : \A r \in table'[v] : r \in table[v] \/ Known(v, r),
           \A c \in confirming' :
             c \in confirming \/ \E l \in Loops : FromLoop(l, c.at, c.rule),
           \A v \in Visors : \A e \in loops'[v] :
             e \in loops[v] \/ e.to \notin Visors \/ \E l \in Loops : EntryOf(l, v, e)
    PROVE  Inv'
<1>1. Keeps
  BY DEF Keeps
<1>2. SetupTypes'
  BY DEF Inv, SetupTypes
<1>3. OwnIDs'
  BY DEF Inv, OwnIDs
<1>4. GenInv'
  <2>1. \A l \in Loops : Generated(l)' <=> Generated(l)
    BY DEF Generated
  <2>2. \A l \in Loops :
          GenerateRules(ids[l], LoopDescriptor(l))' = GenerateRules(ids[l], LoopDescriptor(l))
    BY DEF LoopDescriptor
  <2>3. QED
    BY <2>1, <2>2 DEF Inv, GenInv
<1>5. \A m \in msgs' : m \in msgs
  OBVIOUS
<1>6. \A v \in Visors : \A r \in table'[v] : r \in table[v] \/ Known(v, r)'
  BY <1>1, KeepsKnown
<1>7. \A c \in confirming' : c \in confirming \/ \E l \in Loops : FromLoop(l, c.at, c.rule)'
  BY <1>1, KeepsKnown
<1>8. \A v \in Visors : \A e \in loops'[v] :
        e \in loops[v] \/ e.to \notin Visors \/ \E l \in Loops : EntryOf(l, v, e)'
  BY <1>1, KeepsEntry
<1>9. QED
  BY <1>1, <1>2, <1>3, <1>4, <1>5, <1>6, <1>7, <1>8, InvFrame

LEMMA SetRulesFacts ==
    ASSUME NEW T, NEW new
    PROVE  /\ \A r \in SetRules(T, new) : r \in T \/ r \in new
           /\ new \subseteq SetRules(T, new)
           /\ \A r \in T : r \in SetRules(T, new) \/ \E s \in new : s.key = r.key
           /\ UniqueKeys(T) /\ UniqueKeys(new) => UniqueKeys(SetRules(T, new))
BY DEF SetRules, UniqueKeys

LEMMA RequestLoopInv ==
    ASSUME Inv, NEW l \in Loops, RequestLoop(l)
    PROVE  Inv'
<1>1. PICK v, p : /\ v = Desc[l].src
                  /\ p = CHOOSE x \in DynamicPorts \ ports[v] :
                           \A y \in DynamicPorts \ ports[v] : x <= y
  OBVIOUS
<1>2. /\ phase[l] = "idle" /\ DynamicPorts \ ports[v] # {}
      /\ lport' = [lport EXCEPT ![l] = p]
      /\ ports' = [ports EXCEPT ![v] = @ \cup {p}]
      /\ loops' = [loops EXCEPT ![v] = SetLoop(@, p, Desc[l].dst, Desc[l].rport, NoLoop)]
      /\ UNCHANGED <<table, live, nextID, bad, ids, gen, confirming, closings, events, stored>>
  BY <1>1 DEF RequestLoop
<1>3. \/ /\ phase' = [phase EXCEPT ![l] = "failed"]
         /\ dial' = [dial EXCEPT ![l] = "err"]
         /\ UNCHANGED <<await, msgs>>
      \/ /\ phase' = [phase EXCEPT ![l] = "reserve"]
         /\ dial' = [dial EXCEPT ![l] = "wait"]
         /\ await' = [await EXCEPT ![l] = Path(l)]
         /\ msgs' = msgs \cup Requests("reserve", l, Path(l))
  BY <1>1 DEF RequestLoop
<1>4. VisorTypes /\ SetupTypes /\ MessageTypes /\ GenInv /\ OwnIDs /\ PlaceInv
  BY DEF Inv
<1>5. v \in Visors /\ Desc[l].dst \in Visors /\ Desc[l].rport \in Nat
  BY <1>1, LoopAssumption
<1>6. p \in DynamicPorts
  <2>1. PICK free : free = DynamicPorts \ ports[v]
    OBVIOUS
  <2>2. DynamicPorts \subseteq Nat
    BY LoopAssumption
  <2>3. free \in SUBSET Nat /\ free # {}
    BY <1>2, <2>1, <2>2
  <2>4. \E k \in free : \A q \in free : k <= q
    BY <2>3, LeastNat
  <2>5. p \in free
    BY <1>1, <2>1, <2>4
  <2>6. QED
    BY <2>1, <2>5
<1>7. ~Generated(l) /\ ~Generated(l)'
  <2>1. ~Generated(l)
    BY <1>2, <1>4 DEF GenInv
  <2>2. QED
    BY <1>2, <2>1 DEF Generated
<1>8. /\ lport' \in [Loops -> DynamicPorts \cup {NoPort}]
      /\ \A k \in Loops : k # l => lport'[k] = lport[k]
  BY <1>2, <1>4, <1>6 DEF SetupTypes
<1>9. Keeps
  BY <1>2, <1>7, <1>8 DEF Keeps
<1>10. PICK new : new = [lport |-> p, remote |-> Desc[l].dst, rport |-> Desc[l].rport,
                         to |-> NoVisor, id |-> NoID]
  OBVIOUS
<1>11. /\ new \in LoopEntries /\ new.to = NoVisor /\ new.lport = p
       /\ \A w \in Visors : \A e \in loops'[w] : e \in loops[w] \/ (w = v /\ e = new)
  <2>1. new \in LoopEntries
    BY <1>5, <1>6, <1>10 DEF LoopEntries, Ports, NoID
  <2>2. new.to = NoVisor /\ new.lport = p
    BY <1>10
  <2>3. \A e \in SetLoop(loops[v], p, Desc[l].dst, Desc[l].rport, NoLoop) :
          e \in loops[v] \/ e = new
    BY <1>10 DEF SetLoop, RemoveLoop, NoLoop
  <2>4. QED
    BY <1>2, <1>4, <2>1, <2>2, <2>3 DEF VisorTypes
<1>12. VisorTypes'
  <2>1. SetLoop(loops[v], p, Desc[l].dst, Desc[l].rport, NoLoop) \subseteq LoopEntries
    BY <1>4, <1>5, <1>10, <1>11 DEF SetLoop, RemoveLoop, NoLoop, VisorTypes
  <2>2. loops' \in [Visors -> SUBSET LoopEntries]
    BY <1>2, <1>4, <1>5, <2>1 DEF VisorTypes
  <2>3. ports' \in [Visors -> SUBSET Ports]
    BY <1>2, <1>4, <1>5, <1>6 DEF VisorTypes, Ports
  <2>4. QED
    BY <1>2, <1>4, <2>2, <2>3 DEF VisorTypes
<1>13. PlaceInv'
  <2>1. \A w \in Visors : ports[w] \subseteq ports'[w] /\ (w = v => p \in ports'[w])
    BY <1>2, <1>4 DEF VisorTypes
  <2>2. QED
    BY <1>2, <1>4, <1>11, <2>1 DEF PlaceInv
<1>14. Path(l) \subseteq Visors
  BY DEF Path
<1>15. /\ phase' \in [Loops -> Phases]
       /\ \A k \in Loops : k # l => phase'[k] = phase[k]
       /\ phase'[l] \in {"failed", "reserve"}
  BY <1>3, <1>4 DEF SetupTypes, Phases
<1>16. dial' \in [Loops -> {"none", "wait", "ok", "err"}]
  BY <1>3, <1>4 DEF SetupTypes
<1>17. await' \in [Loops -> SUBSET Visors]
  BY <1>3, <1>4, <1>14 DEF SetupTypes
<1>18. SetupTypes'
  BY <1>2, <1>4, <1>8, <1>15, <1>16, <1>17 DEF SetupTypes
<1>19. /\ msgs' \subseteq [kind : Kinds, loop : Loops, at : Visors]
       /\ \A m \in msgs' : m \in msgs \/ MsgOK(m)'
  <2>1. /\ Requests("reserve", l, Path(l)) \subseteq [kind : Kinds, loop : Loops, at : Visors]
        /\ \A m \in Requests("reserve", l, Path(l)) : m.kind = "reserve"
    BY <1>14, RequestsFacts DEF Kinds
  <2>2. \A m \in Requests("reserve", l, Path(l)) : MsgOK(m)'
    BY <2>1 DEF MsgOK
  <2>3. QED
    BY <1>3, <1>4, <2>1, <2>2 DEF MessageTypes
<1>20. MessageTypes'
  BY <1>2, <1>4, <1>19 DEF MessageTypes
<1>21. OwnIDs'
  BY <1>2, <1>4 DEF OwnIDs
<1>22. GenInv'
  <2>1. ASSUME NEW k \in Loops, k # l
        PROVE  /\ Generated(k)' <=> Generated(k)
               /\ gen'[k] = gen[k] /\ phase'[k] = phase[k]
               /\ GenerateRules(ids[k], LoopDescriptor(k))' = GenerateRules(ids[k], LoopDescriptor(k))
    <3>1. lport'[k] = lport[k]
      BY <1>8, <2>1
    <3>2. LoopDescriptor(k)' = LoopDescriptor(k)
      BY <3>1 DEF LoopDescriptor
    <3>3. QED
      BY <1>2, <1>15, <2>1, <3>2 DEF Generated
  <2>2. QED
    BY <1>4, <1>7, <1>15, <2>1 DEF GenInv
<1>23. \A w \in Visors : \A e \in loops'[w] : e \in loops[w] \/ e.to \notin Visors
  <2>1. NoVisor \notin Visors
    BY LoopAssumption
  <2>2. QED
    BY <1>11, <2>1
<1>24. QED
  BY <1>2, <1>9, <1>12, <1>13, <1>18, <1>19, <1>20, <1>21, <1>22, <1>23, InvFrame

LEMMA AddRulesInv ==
    ASSUME Inv, NEW l \in Loops, AddRules(l)
    PROVE  Inv'
<1>1. PICK g : g = GenerateRules(ids[l], LoopDescriptor(l))
  OBVIOUS
<1>2. phase[l] = "reserve"
  BY DEF AddRules, PhaseOver
<1>3. CASE ~g.ok
  <2>1. Finish(l, "failed")
    BY <1>1, <1>3 DEF AddRules
  <2>2. QED
    BY <2>1, FinishInv
<1>4. CASE g.ok
  <2>1. PICK to : to = {v \in Visors : g.rules[v] # {}}
    OBVIOUS
  <2>2. /\ gen' = [gen EXCEPT ![l] = g]
        /\ Proceed(l, "add", to)
    BY <1>1, <1>4, <2>1 DEF AddRules
  <2>3. /\ phase' = [phase EXCEPT ![l] = "add"]
        /\ await' = [await EXCEPT ![l] = to]
        /\ msgs' = msgs \cup Requests("add", l, to)
        /\ UNCHANGED <<visorVars, bad, ids, lport, dial, confirming, closings, events, stored>>
    BY <2>2 DEF Proceed
  <2>4. SetupTypes /\ MessageTypes /\ GenInv /\ OwnIDs /\ VisorTypes /\ PlaceInv
    BY DEF Inv
  <2>5. ~Generated(l)
    BY <1>2, <2>4 DEF GenInv
  <2>6. gen'[l] = g /\ \A k \in Loops : k # l => gen'[k] = gen[k]
    BY <2>2, <2>4 DEF SetupTypes
  <2>7. Generated(l)'
    BY <1>4, <2>6 DEF Generated
  <2>8. Keeps
    BY <2>3, <2>5, <2>6 DEF Keeps
  <2>9. /\ phase' \in [Loops -> Phases] /\ phase'[l] = "add"
        /\ \A k \in Loops : k # l => phase'[k] = phase[k]
    BY <2>3, <2>4 DEF SetupTypes, Phases
  <2>10. await' \in [Loops -> SUBSET Visors]
    BY <2>1, <2>3, <2>4 DEF SetupTypes
  <2>11. gen' = [k \in Loops |-> gen'[k]]
    BY <2>2, <2>4 DEF SetupTypes
  <2>12. SetupTypes'
    BY <2>3, <2>4, <2>9, <2>10, <2>11 DEF SetupTypes
  <2>13. /\ msgs' \subseteq [kind : Kinds, loop : Loops, at : Visors]
         /\ \A m \in msgs' : m \in msgs \/ MsgOK(m)'
    <3>1. /\ Requests("add", l, to) \subseteq [kind : Kinds, loop : Loops, at : Visors]
          /\ \A m \in Requests("add", l, to) : m.kind = "add" /\ m.loop = l
      BY <2>1, RequestsFacts DEF Kinds
    <3>2. \A m \in Requests("add", l, to) : MsgOK(m)'
      BY <2>7, <3>1 DEF MsgOK
    <3>3. QED
      BY <2>3, <2>4, <3>1, <3>2 DEF MessageTypes
  <2>14. MessageTypes'
    BY <2>3, <2>4, <2>13 DEF MessageTypes
  <2>15. OwnIDs' /\ VisorTypes' /\ PlaceInv'
    BY <2>3, <2>4 DEF OwnIDs, VisorTypes, PlaceInv, visorVars
  <2>16. GenInv'
    <3>1. \A k \in Loops :
            GenerateRules(ids[k], LoopDescriptor(k))' = GenerateRules(ids[k], LoopDescriptor(k))
      BY <2>3 DEF LoopDescriptor
    <3>2. \A k \in Loops : k # l => (Generated(k)' <=> Generated(k))
      BY <2>6 DEF Generated
    <3>3. QED
      BY <1>1, <2>4, <2>6, <2>7, <2>9, <3>1, <3>2 DEF GenInv
  <2>17. /\ \A v \in Visors : \A r \in table'[v] : r \in table[v]
         /\ \A c \in confirming' : c \in confirming
         /\ \A v \in Visors : \A e \in loops'[v] : e \in loops[v]
    BY <2>3 DEF visorVars
  <2>18. QED
    BY <2>8, <2>12, <2>13, <2>14, <2>15, <2>16, <2>17, InvFrame
<1>5. QED
  BY <1>3, <1>4

\* A visor is asked for a natural number of ids.
LEMMA ReservedNat ==
    ASSUME NEW l \in Loops, NEW v \in Visors
    PROVE  Reserved(l)[v] \in Nat
<1>1. ASSUME NEW route, NEW a, NEW z, IsRoute(route, a, z)
      PROVE  VisorsOn(route) \in Seq(Visors)
  <2>1. /\ route \in Seq(Hops) /\ route # <<>>
        /\ Len(route) \in Nat /\ 1 \in 1..Len(route)
        /\ \A i \in 1..Len(route) : route[i].from \in Visors /\ route[i].to \in Visors
    BY <1>1, IsRouteFacts, RouteFacts
  <2>2. DOMAIN route = 1..Len(route)
    BY <2>1
  <2>3. [i \in 1..Len(route) |-> route[i].to] \in Seq(Visors)
    BY <2>1, IsASeq
  <2>4. <<route[1].from>> \in Seq(Visors)
    BY <2>1
  <2>5. VisorsOn(route) = <<route[1].from>> \o [i \in 1..Len(route) |-> route[i].to]
    BY <2>1, <2>2 DEF VisorsOn
  <2>6. QED
    BY <2>3, <2>4, <2>5, ConcatProperties
<1>2. PICK path : path = VisorsOn(Desc[l].fwd) \o VisorsOn(Desc[l].rev)
  OBVIOUS
<1>3. path \in Seq(Visors)
  BY <1>1, <1>2, LoopAssumption, ConcatProperties
<1>4. PICK S : S = {i \in DOMAIN path : path[i] = v}
  OBVIOUS
<1>5. S \subseteq 1..Len(path) /\ Len(path) \in Nat
  BY <1>3, <1>4
<1>6. Cardinality(S) \in Nat
  <2>1. IsFiniteSet(1..Len(path))
    BY <1>5, FS_Interval
  <2>2. IsFiniteSet(S)
    BY <1>5, <2>1, FS_Subset
  <2>3. QED
    BY <2>2, FS_CardinalityType
<1>7. Reserved(l)[v] = Cardinality(S) % 256
  BY <1>2, <1>4 DEF Reserved, NewIDReservoir
<1>8. QED
  BY <1>6, <1>7

LEMMA OccupyRouteIDInv ==
    ASSUME Inv, NEW l \in Loops, NEW v \in Visors, OccupyRouteID(l, v)
    PROVE  Inv'
<1>1. PICK n, new : n = Reserved(l)[v] /\ new = {nextID[v] + i : i \in 1..n}
  OBVIOUS
<1>2. /\ msgs' = msgs \ Requests("reserve", l, {v})
      /\ nextID' = [nextID EXCEPT ![v] = @ + n]
      /\ table' = [table EXCEPT ![v] = SetRules(@, {Placeholder(id) : id \in new})]
      /\ live' = [live EXCEPT ![v] = @ \cup new]
      /\ Reply("reserve", l, v, TRUE)
      /\ UNCHANGED <<ports, loops, phase, gen, lport, dial, confirming, closings, events, stored>>
  BY <1>1 DEF OccupyRouteID
<1>3. ids' = IF phase[l] = "reserve" /\ v \in await[l]
               THEN [ids EXCEPT ![l][v] = [i \in 1..n |-> nextID[v] + i]] ELSE ids
  BY <1>1 DEF OccupyRouteID
<1>4. VisorTypes /\ SetupTypes /\ MessageTypes /\ GenInv /\ OwnIDs /\ PlaceInv
  BY DEF Inv
<1>5. n \in Nat
  BY <1>1, ReservedNat
<1>6. PICK last : last = nextID[v]
  OBVIOUS
<1>7. last \in Nat /\ nextID \in [Visors -> Nat]
  BY <1>4, <1>6 DEF VisorTypes
<1>8. new \subseteq Nat
  BY <1>1, <1>5, <1>6, <1>7
<1>9. PICK q : q = [i \in 1..n |-> last + i]
  OBVIOUS
<1>10. q \in Seq(Nat) /\ Len(q) = n /\ \A i \in 1..n : q[i] = last + i
  <2>1. \A i \in 1..n : last + i \in Nat
    BY <1>5, <1>7
  <2>2. q \in Seq(Nat) /\ Len(q) = n
    BY <1>5, <1>9, <2>1, IsASeq
  <2>3. QED
    BY <1>9, <2>2
<1>11. Distinct(q) /\ Els(q) \subseteq 1..(last + n) /\ \A x \in Els(q) : x > last
  BY <1>5, <1>7, <1>10 DEF Distinct, Els
<1>12. /\ ids' \in [Loops -> Reservoirs]
       /\ \A k \in Loops, w \in Visors : ids'[k][w] = ids[k][w] \/ (k = l /\ w = v /\ ids'[k][w] = q)
       /\ \A k \in Loops : k # l => ids'[k] = ids[k]
       /\ phase[l] # "reserve" => ids' = ids
  <2>1. ids \in [Loops -> [Visors -> Seq(Nat)]]
    BY <1>4 DEF SetupTypes, Reservoirs
  <2>2. ids' = ids \/ (phase[l] = "reserve" /\ ids' = [ids EXCEPT ![l][v] = q])
    BY <1>3, <1>6, <1>9
  <2>3. CASE ids' = ids
    BY <1>4, <2>3 DEF SetupTypes
  <2>4. CASE phase[l] = "reserve" /\ ids' = [ids EXCEPT ![l][v] = q]
    <3>1. ids' \in [Loops -> [Visors -> Seq(Nat)]]
      BY <1>10, <2>1, <2>4
    <3>2. /\ \A k \in Loops : k # l => ids'[k] = ids[k]
          /\ ids'[l] = [ids[l] EXCEPT ![v] = q]
      BY <2>1, <2>4
    <3>3. \A w \in Visors : ids'[l][w] = IF w = v THEN q ELSE ids[l][w]
      BY <2>1, <3>2
    <3>4. QED
      BY <2>4, <3>1, <3>2, <3>3 DEF Reservoirs
  <2>5. QED
    BY <2>2, <2>3, <2>4
<1>13. /\ nextID' \in [Visors -> Nat] /\ nextID'[v] = last + n
       /\ \A w \in Visors : w # v => nextID'[w] = nextID[w]
  BY <1>2, <1>5, <1>6, <1>7
<1>14. OwnIDs'
  <2>1. \A k \in Loops : AllDistinct(ids'[k])
    BY <1>4, <1>11, <1>12 DEF OwnIDs, AllDistinct
  <2>2. ASSUME NEW k \in Loops, NEW w \in Visors
        PROVE  Els(ids'[k][w]) \subseteq 1..nextID'[w]
    <3>1. Els(ids[k][w]) \subseteq 1..nextID[w]
      BY <1>4 DEF OwnIDs
    <3>2. 1..nextID[w] \subseteq 1..nextID'[w]
      BY <1>5, <1>6, <1>7, <1>13
    <3>3. QED
      BY <1>11, <1>12, <1>13, <3>1, <3>2
  <2>3. ASSUME NEW k \in Loops, NEW m \in Loops, k # m, NEW w \in Visors
        PROVE  Els(ids'[k][w]) \cap Els(ids'[m][w]) = {}
    <3>1. Els(ids[k][w]) \cap Els(ids[m][w]) = {}
      BY <1>4, <2>3 DEF OwnIDs
    <3>2. \A j \in Loops : Els(ids[j][v]) \cap Els(q) = {}
      <4>1. ASSUME NEW j \in Loops, NEW x \in Els(ids[j][v]), x \in Els(q)
            PROVE  FALSE
        <5>1. x \in 1..last
          BY <1>4, <1>6 DEF OwnIDs
        <5>2. QED
          BY <1>7, <1>11, <4>1, <5>1
      <4>2. QED
        BY <4>1
    <3>3. QED
      BY <1>12, <2>3, <3>1, <3>2
  <2>4. QED
    BY <2>1, <2>2, <2>3 DEF OwnIDs
<1>15. \A k \in Loops : Generated(k) => ids'[k] = ids[k]
  BY <1>4, <1>12 DEF GenInv
<1>16. Keeps
  BY <1>2, <1>15 DEF Keeps
<1>17. GenInv'
  <2>1. \A k \in Loops : Generated(k)' <=> Generated(k)
    BY <1>2 DEF Generated
  <2>2. \A k \in Loops : LoopDescriptor(k)' = LoopDescriptor(k)
    BY <1>2 DEF LoopDescriptor
  <2>3. \A k \in Loops : Generated(k) =>
          GenerateRules(ids[k], LoopDescriptor(k))' = GenerateRules(ids[k], LoopDescriptor(k))
    BY <1>15, <2>2
  <2>4. QED
    BY <1>2, <1>4, <2>1, <2>3 DEF GenInv
<1>18. PICK ph : ph = {Placeholder(id) : id \in new}
  OBVIOUS
<1>19. /\ ph \subseteq FwdRules /\ UniqueKeys(ph) /\ \A r \in ph : IsPlaceholder(r)
  <2>1. \A id \in new : /\ Placeholder(id) \in FwdRules /\ IsPlaceholder(Placeholder(id))
                        /\ Placeholder(id).key = id
    BY <1>8 DEF Placeholder, ForwardRule, FwdRules, IsPlaceholder, NoID
  <2> HIDE DEF Placeholder
  <2>2. QED
    BY <1>18, <2>1 DEF UniqueKeys
<1>20. table'[v] = SetRules(table[v], ph) /\ \A w \in Visors : w # v => table'[w] = table[w]
  BY <1>2, <1>4, <1>18 DEF VisorTypes
<1>21. SetRules(table[v], ph) \subseteq FwdRules \cup AppRules
  BY <1>4, <1>19, SetRulesFacts DEF VisorTypes
<1>22. VisorTypes'
  <2>1. table' \in [Visors -> SUBSET (FwdRules \cup AppRules)]
    BY <1>2, <1>4, <1>18, <1>21 DEF VisorTypes
  <2>2. live' \in [Visors -> SUBSET Nat]
    BY <1>2, <1>4, <1>8 DEF VisorTypes
  <2>3. QED
    BY <1>2, <1>4, <1>13, <2>1, <2>2 DEF VisorTypes
<1>23. PlaceInv'
  <2>1. \A w \in Visors : UniqueKeys(table'[w])
    BY <1>4, <1>19, <1>20, SetRulesFacts DEF PlaceInv
  <2>2. QED
    BY <1>2, <1>4, <2>1 DEF PlaceInv
<1>24. await' \in [Loops -> SUBSET Visors] /\ bad' \in [Loops -> BOOLEAN]
  BY <1>2, <1>4, ReplyTypes
<1>25. SetupTypes'
  BY <1>2, <1>4, <1>12, <1>24 DEF SetupTypes
<1>26. MessageTypes' /\ msgs' \subseteq msgs
  BY <1>2, <1>4 DEF MessageTypes
<1>27. \A w \in Visors : \A r \in table'[w] : r \in table[w] \/ Known(w, r)'
  BY <1>19, <1>20, SetRulesFacts DEF Known
<1>28. \A m \in msgs' : m \in msgs
  BY <1>26
<1>29. /\ \A c \in confirming' : c \in confirming
       /\ \A w \in Visors : \A e \in loops'[w] : e \in loops[w]
  BY <1>2
<1>30. QED
  BY <1>14, <1>16, <1>17, <1>22, <1>23, <1>25, <1>26, <1>27, <1>28, <1>29, InvFrame

LEMMA MsgFacts ==
    ASSUME Inv, NEW k, NEW l \in Loops, NEW v \in Visors, Requests(k, l, {v}) \subseteq msgs
    PROVE  /\ k # "reserve" => Generated(l)
           /\ k = "confirmDst" => v = Desc[l].dst
           /\ k = "confirmSrc" => v = Desc[l].src
<1>1. PICK m : m = [kind |-> k, loop |-> l, at |-> v]
  OBVIOUS
<1>2. m \in msgs
  BY <1>1, RequestsFacts
<1>3. m.kind = k /\ m.loop = l /\ m.at = v
  BY <1>1
<1>4. QED
  BY <1>2, <1>3 DEF Inv, MsgInv

LEMMA SetRoutingRulesInv ==
    ASSUME Inv, NEW l \in Loops, NEW v \in Visors, SetRoutingRules(l, v)
    PROVE  Inv'
<1>1. /\ Requests("add", l, {v}) \subseteq msgs
      /\ msgs' \subseteq msgs
      /\ table' = [table EXCEPT ![v] = SetRules(@, gen[l].rules[v])]
      /\ \E x \in {"yes", "wiped"} : stored' = [stored EXCEPT ![l][v] = x]
      /\ Reply("add", l, v, TRUE)
      /\ UNCHANGED <<live, nextID, ports, loops, phase, ids, gen, lport, dial, confirming,
                     closings, events>>
  BY DEF SetRoutingRules
<1>2. VisorTypes /\ SetupTypes /\ MessageTypes /\ PlaceInv
  BY DEF Inv
<1>3. Generated(l)
  BY <1>1, MsgFacts
<1>4. PICK new : new = gen[l].rules[v]
  OBVIOUS
<1>5. new \subseteq FwdRules \cup AppRules /\ UniqueKeys(new)
  BY <1>3, <1>4, GeneratedKeys DEF UniqueKeys
<1>6. ASSUME NEW r \in new
      PROVE  Known(v, r)
  <2>1. Alike(r, r)
    BY DEF Alike
  <2>2. FromLoop(l, v, r)
    BY <1>3, <1>4, <2>1 DEF FromLoop
  <2>3. QED
    BY <2>2 DEF Known
<1>7. table'[v] = SetRules(table[v], new) /\ \A w \in Visors : w # v => table'[w] = table[w]
  BY <1>1, <1>2, <1>4 DEF VisorTypes
<1>8. SetRules(table[v], new) \subseteq FwdRules \cup AppRules
  BY <1>2, <1>5, SetRulesFacts DEF VisorTypes
<1>9. VisorTypes'
  BY <1>1, <1>2, <1>4, <1>8 DEF VisorTypes
<1>10. PlaceInv'
  <2>1. \A w \in Visors : UniqueKeys(table'[w])
    BY <1>2, <1>5, <1>7, SetRulesFacts DEF PlaceInv
  <2>2. QED
    BY <1>1, <1>2, <2>1 DEF PlaceInv
<1>11. await' \in [Loops -> SUBSET Visors] /\ bad' \in [Loops -> BOOLEAN]
  BY <1>1, <1>2, ReplyTypes
<1>12. stored' \in [Loops -> [Visors -> {"no", "yes", "wiped"}]]
  BY <1>1, <1>2 DEF SetupTypes
<1>13. dial' \in [Loops -> {"none", "wait", "ok", "err"}] /\ events' \in Nat /\ MessageTypes'
  BY <1>1, <1>2 DEF SetupTypes, MessageTypes
<1>14. \A w \in Visors : \A r \in table'[w] : r \in table[w] \/ Known(w, r)
  BY <1>6, <1>7, SetRulesFacts
<1>15. QED
  BY <1>1, <1>9, <1>10, <1>11, <1>12, <1>13, <1>14, VisorFrame

\* A visor that has been asked to confirm a loop is an end of it.
LEMMA ConfirmsAtEnd ==
    ASSUME Inv, NEW l \in Loops, NEW v \in Visors, Requests(ConfirmKind(l, v), l, {v}) \subseteq msgs
    PROVE  Generated(l) /\ v \in Ends(l)
<1>1. \/ ConfirmKind(l, v) = "confirmDst"
      \/ ConfirmKind(l, v) = "confirmSrc"
  BY DEF ConfirmKind
<1>2. v = Desc[l].dst \/ v = Desc[l].src
  BY <1>1, MsgFacts
<1>3. Generated(l)
  BY <1>1, MsgFacts
<1>4. QED
  BY <1>2, <1>3 DEF Ends

LEMMA ConfirmLoopInv ==
    ASSUME Inv, NEW l \in Loops, NEW v \in Visors, ConfirmLoop(l, v)
    PROVE  Inv'
<1>1. PICK lp, rem, rp, rid : /\ lp = LocalPort(l, v) /\ rem = RemotePK(l, v)
                              /\ rp = RemotePort(l, v) /\ rid = FwdRID(l, v)
  OBVIOUS
<1>2. /\ Requests(ConfirmKind(l, v), l, {v}) \subseteq msgs
      /\ lp \in ports[v]
      /\ msgs' \subseteq msgs
      /\ UNCHANGED <<table, live, nextID, ports, setupVars, lport, dial, closings, events, stored>>
  BY <1>1 DEF ConfirmLoop
<1>3. PICK app \in LoopRulesAt(v, lp, rem, rp),
           fwd \in {r \in Served[v] : r.key = rid /\ r.type = "fwd"} :
        /\ loops' = [loops EXCEPT ![v] =
                       SetLoop(@, lp, rem, rp, [to |-> fwd.to, id |-> fwd.next])]
        /\ confirming' = confirming \cup
             {[loop |-> l, at |-> v, rule |-> [app EXCEPT !.resp = rid]]}
  BY <1>1 DEF ConfirmLoop
<1>4. VisorTypes /\ SetupTypes /\ MessageTypes /\ PlaceInv
  BY DEF Inv
<1>5. Generated(l) /\ v \in Ends(l)
  BY <1>2, ConfirmsAtEnd
<1>6. /\ app \in table[v] /\ app.type = "app"
      /\ fwd \in table[v] /\ fwd.key = rid /\ fwd.type = "fwd"
  BY <1>3 DEF LoopRulesAt, Served
<1>7. app \in AppRules /\ fwd \in FwdRules
  <2>1. app \in FwdRules \cup AppRules /\ fwd \in FwdRules \cup AppRules
    BY <1>4, <1>6 DEF VisorTypes
  <2>2. (\A r \in FwdRules : r.type = "fwd") /\ (\A r \in AppRules : r.type = "app")
    BY DEF FwdRules, AppRules
  <2>3. QED
    BY <1>6, <2>1, <2>2
<1>8. [visor |-> v, id |-> rid] \in Way(l, v) /\ Way(l, v) \subseteq Positions
  BY <1>1, <1>5, WayFacts
<1>9. PICK new : new = [app EXCEPT !.resp = rid]
  OBVIOUS
<1>10. /\ new \in AppRules /\ new.type = "app" /\ new.key = app.key
       /\ new.remote = app.remote /\ new.lport = app.lport /\ new.rport = app.rport
  <2>1. rid \in Nat
    BY <1>8 DEF Positions
  <2>2. QED
    BY <1>7, <1>9, <2>1 DEF AppRules
<1>11. \E k \in Loops : FromLoop(k, v, new)
  <2>1. Known(v, app) /\ ~IsPlaceholder(app)
    BY <1>6 DEF Inv, TableInv, IsPlaceholder
  <2>2. PICK k \in Loops : FromLoop(k, v, app)
    BY <2>1 DEF Known
  <2>3. PICK s \in gen[k].rules[v] : Generated(k) /\ Alike(app, s)
    BY <2>2 DEF FromLoop
  <2>4. Alike(new, s)
    BY <1>6, <1>10, <2>3 DEF Alike
  <2>5. FromLoop(k, v, new)
    BY <2>3, <2>4 DEF FromLoop
  <2>6. QED
    BY <2>5
<1>12. PICK e : e = [lport |-> lp, remote |-> rem, rport |-> rp, to |-> fwd.to, id |-> fwd.next]
  OBVIOUS
<1>13. /\ loops' = [loops EXCEPT ![v] = RemoveLoop(@, lp, rem, rp) \cup {e}]
       /\ RemoveLoop(loops[v], lp, rem, rp) \subseteq loops[v]
  BY <1>3, <1>12 DEF SetLoop, RemoveLoop
<1>14. e.to \in Visors => EntryOf(l, v, e)
  <2>1. ASSUME e.to \in Visors
        PROVE  EntryOf(l, v, e)
    <3>1. e.to = fwd.to /\ e.id = fwd.next /\ e.lport = lp /\ e.remote = rem /\ e.rport = rp
      BY <1>12
    <3>2. PICK p : p = [visor |-> v, id |-> rid]
      OBVIOUS
    <3>3. p \in Way(l, v) /\ p.visor = v /\ p.id = rid
      BY <1>8, <3>2
    <3>4. IsPlaceholder(fwd) \/ LeadsOn(l, v, p, fwd) \/ Ending(l, v, p, fwd)
      BY <1>5, <1>6, <3>3, RulesMet
    <3>5. NoVisor \notin Visors
      BY LoopAssumption
    <3>6. LeadsOn(l, v, p, fwd)
      BY <1>6, <2>1, <3>1, <3>4, <3>5 DEF IsPlaceholder, Ending
    <3>7. [visor |-> e.to, id |-> e.id] \in Way(l, v)
      BY <3>1, <3>6 DEF LeadsOn
    <3>8. QED
      BY <1>1, <1>5, <3>1, <3>7 DEF EntryOf
  <2>2. QED
    BY <2>1
<1>15. e \in LoopEntries
  <2>1. lp \in Ports
    BY <1>2, <1>4 DEF VisorTypes
  <2>2. rem \in Visors
    BY <1>1, LoopAssumption DEF RemotePK
  <2>3. rp \in Nat
    <3>1. lport[l] \in DynamicPorts \cup {NoPort}
      BY <1>4 DEF SetupTypes
    <3>2. IsDescriptor(LoopDescriptor(l))
      BY <3>1, DescriptorFacts
    <3>3. LoopDescriptor(l).lport = lport[l] /\ LoopDescriptor(l).rport = Desc[l].rport
      BY DEF LoopDescriptor
    <3>4. QED
      BY <1>1, <3>2, <3>3 DEF IsDescriptor, RemotePort
  <2>4. fwd.to \in Visors \cup {NoVisor} /\ fwd.next \in Nat
    BY <1>7 DEF FwdRules
  <2>5. QED
    BY <1>12, <2>1, <2>2, <2>3, <2>4 DEF LoopEntries
<1>16. /\ loops' \in [Visors -> SUBSET LoopEntries]
       /\ \A w \in Visors : \A x \in loops'[w] : x \in loops[w] \/ (w = v /\ x = e)
  BY <1>4, <1>13, <1>15 DEF VisorTypes
<1>17. VisorTypes'
  BY <1>2, <1>4, <1>16 DEF VisorTypes
<1>18. PlaceInv'
  <2>1. e.lport \in ports[v]
    BY <1>2, <1>12
  <2>2. QED
    BY <1>2, <1>4, <1>16, <2>1 DEF PlaceInv
<1>19. PICK c : c = [loop |-> l, at |-> v, rule |-> new]
  OBVIOUS
<1>20. confirming' = confirming \cup {c} /\ c.at = v /\ c.rule = new
  BY <1>3, <1>9, <1>19
<1>21. MessageTypes'
  <2>1. c \in [loop : Loops, at : Visors, rule : AppRules]
    BY <1>10, <1>19
  <2>2. QED
    BY <1>2, <1>4, <1>20, <2>1 DEF MessageTypes
<1>22. /\ dial' \in [Loops -> {"none", "wait", "ok", "err"}]
       /\ await' \in [Loops -> SUBSET Visors]
       /\ bad' \in [Loops -> BOOLEAN]
       /\ events' \in Nat
       /\ stored' \in [Loops -> [Visors -> {"no", "yes", "wiped"}]]
  BY <1>2, <1>4 DEF SetupTypes, setupVars
<1>23. UNCHANGED <<nextID, phase, ids, gen, lport, table>>
  BY <1>2 DEF setupVars
<1>24. \A x \in confirming' : x \in confirming \/ \E k \in Loops : FromLoop(k, x.at, x.rule)
  BY <1>11, <1>20
<1>25. \A w \in Visors : \A x \in loops'[w] :
         x \in loops[w] \/ x.to \notin Visors \/ \E k \in Loops : EntryOf(k, w, x)
  BY <1>14, <1>16
<1>26. QED
  BY <1>2, <1>17, <1>18, <1>21, <1>22, <1>23, <1>24, <1>25, VisorFrame

LEMMA ConfirmLoopFailsInv ==
    ASSUME Inv, NEW l \in Loops, NEW v \in Visors, ConfirmLoopFails(l, v)
    PROVE  Inv'
<1>1. /\ msgs' \subseteq msgs
      /\ Reply(ConfirmKind(l, v), l, v, FALSE)
      /\ UNCHANGED <<visorVars, phase, ids, gen, lport, dial, confirming, closings, events, stored>>
  BY DEF ConfirmLoopFails
<1>2. SetupTypes /\ MessageTypes
  BY DEF Inv
<1>3. await' \in [Loops -> SUBSET Visors] /\ bad' \in [Loops -> BOOLEAN]
  BY <1>1, <1>2, ReplyTypes
<1>4. /\ phase' \in [Loops -> Phases] /\ dial' \in [Loops -> {"none", "wait", "ok", "err"}]
      /\ msgs' \subseteq [kind : Kinds, loop : Loops, at : Visors]
  BY <1>1, <1>2 DEF SetupTypes, MessageTypes
<1>5. QED
  BY <1>1, <1>3, <1>4, SetupFrame

LEMMA ConfirmLoopSetInv ==
    ASSUME Inv, NEW c \in confirming, ConfirmLoopSet(c)
    PROVE  Inv'
<1>1. /\ confirming' \subseteq confirming
      /\ table' = [table EXCEPT ![c.at] = SetRules(@, {c.rule})]
      /\ Reply(ConfirmKind(c.loop, c.at), c.loop, c.at, TRUE)
      /\ UNCHANGED <<live, nextID, ports, loops, phase, ids, gen, lport, dial, msgs, closings,
                     events, stored>>
  BY DEF ConfirmLoopSet
<1>2. VisorTypes /\ SetupTypes /\ MessageTypes /\ PlaceInv
  BY DEF Inv
<1>3. c.loop \in Loops /\ c.at \in Visors /\ c.rule \in AppRules
  BY <1>2 DEF MessageTypes
<1>4. PICK v \in Visors, r \in AppRules : v = c.at /\ r = c.rule
  BY <1>3
<1>5. Known(v, r)
  BY <1>4 DEF Inv, ConfirmInv, Known
<1>6. table'[v] = SetRules(table[v], {r}) /\ \A w \in Visors : w # v => table'[w] = table[w]
  BY <1>1, <1>2, <1>4 DEF VisorTypes
<1>7. SetRules(table[v], {r}) \subseteq FwdRules \cup AppRules
  BY <1>2, <1>4, SetRulesFacts DEF VisorTypes
<1>8. VisorTypes'
  BY <1>1, <1>2, <1>4, <1>7 DEF VisorTypes
<1>9. PlaceInv'
  <2>1. UniqueKeys({r})
    BY DEF UniqueKeys
  <2>2. \A w \in Visors : UniqueKeys(table'[w])
    BY <1>2, <1>6, <2>1, SetRulesFacts DEF PlaceInv
  <2>3. QED
    BY <1>1, <1>2, <2>2 DEF PlaceInv
<1>10. await' \in [Loops -> SUBSET Visors] /\ bad' \in [Loops -> BOOLEAN]
  BY <1>1, <1>2, <1>3, ReplyTypes
<1>11. /\ dial' \in [Loops -> {"none", "wait", "ok", "err"}] /\ events' \in Nat /\ MessageTypes'
       /\ stored' \in [Loops -> [Visors -> {"no", "yes", "wiped"}]]
  BY <1>1, <1>2 DEF SetupTypes, MessageTypes
<1>12. \A w \in Visors : \A x \in table'[w] : x \in table[w] \/ Known(w, x)
  BY <1>5, <1>6, SetRulesFacts
<1>13. QED
  BY <1>1, <1>8, <1>9, <1>10, <1>11, <1>12, VisorFrame

\* A step of a visor that only takes rules, loops and ports away.
Shrinks ==
    \A w \in Visors : table'[w] \subseteq table[w] /\ loops'[w] \subseteq loops[w]

LEMMA ShrinksInv ==
    ASSUME Inv, UNCHANGED <<nextID, phase, ids, gen, lport>>, VisorTypes', PlaceInv', Shrinks,
           dial' \in [Loops -> {"none", "wait", "ok", "err"}], UNCHANGED <<await, bad>>,
           events' \in Nat,
           stored' \in [Loops -> [Visors -> {"no", "yes", "wiped"}]],
           UNCHANGED msgs, confirming' \subseteq confirming,
           closings' \subseteq [at : Visors, lport : Nat, remote : {NoVisor}, rport : Nat]
    PROVE  Inv'
<1>1. SetupTypes /\ MessageTypes
  BY DEF Inv
<1>2. await' \in [Loops -> SUBSET Visors] /\ bad' \in [Loops -> BOOLEAN]
  BY <1>1 DEF SetupTypes
<1>3. MessageTypes'
  BY <1>1 DEF MessageTypes
<1>4. /\ \A w \in Visors : \A r \in table'[w] : r \in table[w] \/ Known(w, r)
      /\ \A w \in Visors : \A e \in loops'[w] :
           e \in loops[w] \/ e.to \notin Visors \/ \E l \in Loops : EntryOf(l, w, e)
  BY DEF Shrinks
<1>5. \A c \in confirming' : c \in confirming \/ \E l \in Loops : FromLoop(l, c.at, c.rule)
  OBVIOUS
<1>6. QED
  BY <1>2, <1>3, <1>4, <1>5, VisorFrame

\* A port goes together with its loops.
LEMMA DestroyLoopFacts ==
    ASSUME VisorTypes, PlaceInv, UNCHANGED <<live, nextID>>,
           NEW v \in Visors, NEW lp, NEW remote, NEW rp, DestroyLoop(v, lp, remote, rp)
    PROVE  Shrinks /\ VisorTypes' /\ PlaceInv'
<1>1. /\ table' \in [Visors -> SUBSET (FwdRules \cup AppRules)]
      /\ \A w \in Visors : table'[w] \subseteq table[w]
  <2>1. CASE UNCHANGED table
    BY <2>1 DEF VisorTypes
  <2>2. CASE \E r \in LoopRulesAt(v, lp, remote, rp) : table' = [table EXCEPT ![v] = @ \ {r}]
    BY <2>2 DEF VisorTypes
  <2>3. QED
    BY <2>1, <2>2 DEF DestroyLoop, RemoveLoopRule
<1>2. /\ ports' \in [Visors -> SUBSET Ports]
      /\ loops' \in [Visors -> SUBSET LoopEntries]
      /\ \A w \in Visors : loops'[w] \subseteq loops[w]
      /\ \A w \in Visors : \A e \in loops'[w] : e.lport \in ports'[w]
  <2>1. CASE lp \in StaticPorts
    <3>1. loops' = [loops EXCEPT ![v] = RemoveLoop(@, lp, remote, rp)] /\ UNCHANGED ports
      BY <2>1 DEF DestroyLoop
    <3>2. RemoveLoop(loops[v], lp, remote, rp) \subseteq loops[v]
      BY DEF RemoveLoop
    <3>3. QED
      BY <3>1, <3>2 DEF VisorTypes, PlaceInv
  <2>2. CASE lp \notin StaticPorts
    <3>1. /\ loops' = [loops EXCEPT ![v] = {e \in @ : e.lport # lp}]
          /\ ports' = [ports EXCEPT ![v] = @ \ {lp}]
      BY <2>2 DEF DestroyLoop
    <3>2. QED
      BY <3>1 DEF VisorTypes, PlaceInv
  <2>3. QED
    BY <2>1, <2>2
<1>3. PlaceInv'
  <2>1. \A w \in Visors : UniqueKeys(table'[w])
    BY <1>1 DEF PlaceInv, UniqueKeys
  <2>2. QED
    BY <1>2, <2>1 DEF PlaceInv
<1>4. QED
  BY <1>1, <1>2, <1>3 DEF Shrinks, VisorTypes

LEMMA CloseLoopInv ==
    ASSUME Inv, NEW l \in Loops, NEW v \in Visors, CloseLoop(l, v)
    PROVE  Inv'
<1>1. /\ DestroyLoop(v, LocalPort(l, v), RemotePK(l, v), RemotePort(l, v))
      /\ HandleCloseLoop(l, v)
      /\ events' = events + 1
      /\ UNCHANGED <<live, nextID, phase, await, bad, ids, gen, lport, dial, msgs, confirming,
                     stored>>
  BY DEF CloseLoop, setupVars
<1>2. VisorTypes /\ SetupTypes /\ MessageTypes /\ PlaceInv
  BY DEF Inv
<1>3. Shrinks /\ VisorTypes' /\ PlaceInv'
  BY <1>1, <1>2, DestroyLoopFacts
<1>4. /\ RemotePK(l, v) \in Visors /\ LocalPort(l, v) \in Nat /\ RemotePort(l, v) \in Nat
  <2>1. Desc[l].src \in Visors /\ Desc[l].dst \in Visors /\ Desc[l].rport \in Nat
    BY LoopAssumption
  <2>2. lport[l] \in Nat
    BY <1>2, LoopAssumption DEF SetupTypes, NoPort
  <2>3. QED
    BY <2>1, <2>2 DEF RemotePK, LocalPort, RemotePort
<1>5. closings' \subseteq [at : Visors, lport : Nat, remote : {NoVisor}, rport : Nat]
  <2>1. closings \subseteq [at : Visors, lport : Nat, remote : {NoVisor}, rport : Nat]
    BY <1>2 DEF MessageTypes
  <2>2. [at |-> RemotePK(l, v), lport |-> RemotePort(l, v), remote |-> NoVisor,
         rport |-> LocalPort(l, v)]
          \in [at : Visors, lport : Nat, remote : {NoVisor}, rport : Nat]
    BY <1>4
  <2>3. QED
    BY <1>1, <2>1, <2>2 DEF HandleCloseLoop
<1>6. /\ dial' \in [Loops -> {"none", "wait", "ok", "err"}] /\ events' \in Nat
      /\ stored' \in [Loops -> [Visors -> {"no", "yes", "wiped"}]]
      /\ confirming' \subseteq confirming
  BY <1>1, <1>2 DEF SetupTypes
<1>7. QED
  BY <1>1, <1>3, <1>5, <1>6, ShrinksInv

LEMMA LoopClosedInv ==
    ASSUME Inv, NEW m \in closings, LoopClosed(m)
    PROVE  Inv'
<1>1. /\ closings' \subseteq closings
      /\ \/ DestroyLoop(m.at, m.lport, m.remote, m.rport)
         \/ UNCHANGED <<table, ports, loops>>
      /\ UNCHANGED <<live, nextID, phase, await, bad, ids, gen, lport, dial, msgs, confirming,
                     events, stored>>
  BY DEF LoopClosed, setupVars
<1>2. VisorTypes /\ SetupTypes /\ MessageTypes /\ PlaceInv
  BY DEF Inv
<1>3. m.at \in Visors
  BY <1>2 DEF MessageTypes
<1>4. Shrinks /\ VisorTypes' /\ PlaceInv'
  <2>1. CASE DestroyLoop(m.at, m.lport, m.remote, m.rport)
    BY <1>1, <1>2, <1>3, <2>1, DestroyLoopFacts
  <2>2. CASE UNCHANGED <<table, ports, loops>>
    BY <1>1, <1>2, <2>2 DEF Shrinks, VisorTypes, PlaceInv
  <2>3. QED
    BY <1>1, <2>1, <2>2
<1>5. closings' \subseteq [at : Visors, lport : Nat, remote : {NoVisor}, rport : Nat]
  BY <1>1, <1>2 DEF MessageTypes
<1>6. /\ dial' \in [Loops -> {"none", "wait", "ok", "err"}] /\ events' \in Nat
      /\ stored' \in [Loops -> [Visors -> {"no", "yes", "wiped"}]]
      /\ confirming' \subseteq confirming
  BY <1>1, <1>2 DEF SetupTypes
<1>7. QED
  BY <1>1, <1>4, <1>5, <1>6, ShrinksInv

\* A visor that keeps its table in BoltDB resumes its route ids where they were.
LEMMA RestartInv ==
    ASSUME Inv, Persistent \/ MaxEvents = 0, NEW v \in Visors, Restart(v)
    PROVE  Inv'
<1>1. VisorTypes /\ SetupTypes /\ MessageTypes /\ PlaceInv
  BY DEF Inv
<1>2. Persistent
  BY <1>1, LoopAssumption DEF Restart, SetupTypes
<1>3. /\ events' = events + 1
      /\ table' = [table EXCEPT ![v] = @]
      /\ live' = [live EXCEPT ![v] = {}]
      /\ nextID' = [nextID EXCEPT ![v] = @]
      /\ ports' = [ports EXCEPT ![v] = StaticPorts]
      /\ loops' = [loops EXCEPT ![v] = {}]
      /\ confirming' \subseteq confirming
      /\ dial' = [l \in Loops |->
                    IF Desc[l].src = v /\ dial[l] = "wait" THEN "err" ELSE dial[l]]
      /\ stored' = [l \in Loops |-> [stored[l] EXCEPT ![v] = IF @ = "yes" THEN "wiped" ELSE @]]
      /\ UNCHANGED <<phase, await, bad, ids, gen, lport, msgs, closings>>
  BY <1>2 DEF Restart, setupVars
<1>4. UNCHANGED <<nextID, table>>
  BY <1>1, <1>3 DEF VisorTypes
<1>5. VisorTypes'
  BY <1>1, <1>3, <1>4 DEF VisorTypes, Ports
<1>6. PlaceInv'
  BY <1>1, <1>3, <1>4 DEF PlaceInv, VisorTypes
<1>7. Shrinks
  BY <1>1, <1>3, <1>4 DEF Shrinks, VisorTypes
<1>8. /\ dial' \in [Loops -> {"none", "wait", "ok", "err"}] /\ events' \in Nat
  BY <1>1, <1>3 DEF SetupTypes
<1>9. stored' \in [Loops -> [Visors -> {"no", "yes", "wiped"}]]
  BY <1>1, <1>3 DEF SetupTypes
<1>10. closings' \subseteq [at : Visors, lport : Nat, remote : {NoVisor}, rport : Nat]
  BY <1>1, <1>3 DEF MessageTypes
<1>11. QED
  BY <1>3, <1>4, <1>5, <1>6, <1>7, <1>8, <1>9, <1>10, ShrinksInv

LEMMA CleanupInv ==
    ASSUME Inv, NEW v \in Visors, Cleanup(v)
    PROVE  Inv'
<1>1. /\ table' = [table EXCEPT ![v] = Served[v]]
      /\ UNCHANGED <<live, nextID, ports, loops, phase, await, bad, ids, gen, lport, dial, msgs,
                     confirming, closings, events, stored>>
  BY DEF Cleanup, setupVars
<1>2. VisorTypes /\ SetupTypes /\ MessageTypes /\ PlaceInv
  BY DEF Inv
<1>3. Served[v] \subseteq table[v]
  BY DEF Served
<1>4. VisorTypes'
  BY <1>1, <1>2, <1>3 DEF VisorTypes
<1>5. Shrinks
  BY <1>1, <1>2, <1>3 DEF Shrinks, VisorTypes
<1>6. PlaceInv'
  BY <1>1, <1>2, <1>5 DEF PlaceInv, UniqueKeys, Shrinks
<1>7. /\ dial' \in [Loops -> {"none", "wait", "ok", "err"}] /\ events' \in Nat
      /\ stored' \in [Loops -> [Visors -> {"no", "yes", "wiped"}]]
      /\ confirming' \subseteq confirming
      /\ closings' \subseteq [at : Visors, lport : Nat, remote : {NoVisor}, rport : Nat]
  BY <1>1, <1>2 DEF SetupTypes, MessageTypes
<1>8. QED
  BY <1>1, <1>4, <1>5, <1>6, <1>7, ShrinksInv

LEMMA StutterInv ==
    ASSUME Inv, UNCHANGED vars
    PROVE  Inv'
<1>1. VisorTypes /\ SetupTypes /\ MessageTypes /\ PlaceInv
  BY DEF Inv
<1>2. UNCHANGED <<table, live, nextID, ports, loops, phase, await, bad, ids, gen, lport, dial,
                  msgs, confirming, closings, events, stored>>
  BY DEF vars, visorVars, setupVars
<1>3. VisorTypes'
  BY <1>1, <1>2 DEF VisorTypes
<1>4. PlaceInv'
  BY <1>1, <1>2 DEF PlaceInv
<1>5. /\ dial' \in [Loops -> {"none", "wait", "ok", "err"}] /\ events' \in Nat
      /\ stored' \in [Loops -> [Visors -> {"no", "yes", "wiped"}]]
      /\ confirming' \subseteq confirming
      /\ closings' \subseteq [at : Visors, lport : Nat, remote : {NoVisor}, rport : Nat]
  BY <1>1, <1>2 DEF SetupTypes, MessageTypes
<1>6. QED
  BY <1>2, <1>3, <1>4, <1>5, ShrinksInv DEF Shrinks

\* The visors' route ids start over only in a restart that loses the table.
LEMMA NextInv ==
    ASSUME Persistent \/ MaxEvents = 0, Inv, [Next]_vars
    PROVE  Inv'
<1>1. CASE UNCHANGED vars
  BY <1>1, StutterInv
<1>2. ASSUME NEW l \in Loops,
             RequestLoop(l) \/ DialTimeout(l) \/ DialReply(l) \/ SetupStep(l)
      PROVE  Inv'
  <2>1. CASE RequestLoop(l)
    BY <2>1, RequestLoopInv
  <2>2. CASE DialTimeout(l) \/ DialReply(l)
    BY <2>2, DialEndsInv DEF DialTimeout, DialReply
  <2>3. CASE PhaseFailed(l)
    BY <2>3, FinishInv DEF PhaseFailed
  <2>4. CASE AddRules(l)
    BY <2>4, AddRulesInv
  <2>5. CASE ConfirmWithDst(l) \/ ConfirmWithSrc(l)
    BY <2>5, ConfirmPhasesInv
  <2>6. CASE LoopCreated(l)
    BY <2>6, LoopCreatedInv
  <2>7. QED
    BY <1>2, <2>1, <2>2, <2>3, <2>4, <2>5, <2>6 DEF SetupStep
<1>3. ASSUME NEW l \in Loops, NEW v \in Visors, GiveUp(l, v) \/ VisorStep(l, v) \/ CloseLoop(l, v)
      PROVE  Inv'
  <2>1. CASE GiveUp(l, v)
    BY <2>1, GiveUpInv
  <2>2. CASE OccupyRouteID(l, v)
    BY <2>2, OccupyRouteIDInv
  <2>3. CASE SetRoutingRules(l, v)
    BY <2>3, SetRoutingRulesInv
  <2>4. CASE ConfirmLoop(l, v)
    BY <2>4, ConfirmLoopInv
  <2>5. CASE ConfirmLoopFails(l, v)
    BY <2>5, ConfirmLoopFailsInv
  <2>6. CASE CloseLoop(l, v)
    BY <2>6, CloseLoopInv
  <2>7. QED
    BY <1>3, <2>1, <2>2, <2>3, <2>4, <2>5, <2>6 DEF VisorStep
<1>4. ASSUME NEW c \in confirming, ConfirmLoopSet(c)
      PROVE  Inv'
  BY <1>4, ConfirmLoopSetInv
<1>5. ASSUME NEW m \in closings, LoopClosed(m)
      PROVE  Inv'
  BY <1>5, LoopClosedInv
<1>6. ASSUME NEW v \in Visors, Restart(v) \/ Cleanup(v)
      PROVE  Inv'
  BY <1>6, RestartInv, CleanupInv
<1>7. QED
  BY <1>1, <1>2, <1>3, <1>4, <1>5, <1>6 DEF Next

-----------------------------------------------------------------------------
(* The theorems about LoopSetup.                                           *)

LEMMA InvTypeOK == Inv => TypeOK
<1>1. SUFFICES ASSUME Inv
               PROVE  TypeOK
  OBVIOUS
<1>2. VisorTypes /\ SetupTypes /\ PlaceInv
  BY <1>1 DEF Inv
<1>3. ASSUME NEW v \in Visors
      PROVE  /\ nextID[v] \in Nat
             /\ live[v] \subseteq Nat
             /\ ports[v] \subseteq StaticPorts \cup DynamicPorts
             /\ \A r, s \in table[v] : r.key = s.key => r = s
             /\ \A e \in loops[v] : e.lport \in ports[v] /\ e.to \in Visors \cup {NoVisor}
  <2>1. loops[v] \subseteq LoopEntries
    BY <1>2 DEF VisorTypes
  <2>2. \A e \in loops[v] : e.to \in Visors \cup {NoVisor}
    BY <2>1 DEF LoopEntries
  <2>3. QED
    BY <1>2, <2>2 DEF VisorTypes, PlaceInv, UniqueKeys, Ports
<1>4. ASSUME NEW l \in Loops
      PROVE  /\ lport[l] \in DynamicPorts \cup {NoPort}
             /\ dial[l] \in {"none", "wait", "ok", "err"}
             /\ phase[l] \in {"idle", "reserve", "add", "confirmDst", "confirmSrc", "ok", "failed"}
             /\ await[l] \subseteq Visors
             /\ bad[l] \in BOOLEAN
             /\ stored[l] \in [Visors -> {"no", "yes", "wiped"}]
  BY <1>2 DEF SetupTypes, Phases
<1>5. QED
  BY <1>3, <1>4 DEF TypeOK

\* The state of the visors and of the setup node keeps its form, and no visor ever
\* has two rules under one route id, however many setups write to its table.  It is
\* proved for visors that keep their tables in BoltDB or do not restart.
THEOREM LoopTypes ==
    ASSUME Persistent \/ MaxEvents = 0
    PROVE  Spec => []TypeOK
<1>1. Init => Inv
  BY InitInv
<1>2. Inv /\ [Next]_vars => Inv'
  BY NextInv
<1>3. Inv => TypeOK
  BY InvTypeOK
<1>4. QED
  BY <1>1, <1>2, <1>3, PTL DEF Spec

\* A packet that an app sends on a loop reaches the app at the other end of that loop
\* or nobody (forwardAppPacket, handlePacket): for any number of visors and loops, over
\* routes of any length with visors in common, while setups run side by side, fail, time
\* out and are applied late, loops close, and visors restart with their tables in BoltDB.
\* Without BoltDB the route ids start over in a restart, and only runs without one are
\* covered.
THEOREM PacketsStayOnTheirLoop ==
    ASSUME Persistent \/ MaxEvents = 0
    PROVE  Spec => []NoMisdelivery
<1>1. Init => Inv
  BY InitInv
<1>2. Inv /\ [Next]_vars => Inv'
  BY NextInv
<1>3. Inv => NoMisdelivery
  BY InvNoMisdelivery
<1>4. QED
  BY <1>1, <1>2, <1>3, PTL DEF Spec

-----------------------------------------------------------------------------
(* Loops that are neither closed nor hit by a restart: what the phases of  *)
(* handleCreateLoop have achieved, for runs with no such event in which    *)
(* apps dial ports that apps serve, never ports that portList.add gave out.*)

DialsServedPorts == \A l \in Loops : Desc[l].rport \notin DynamicPorts

\* The visor has rule s, up to the reverse id; the visors have all rules of the loop.
StoredAt(l, v) == \A s \in gen[l].rules[v] : \E r \in table[v] : Alike(r, s)
AllStored(l) == \A v \in Visors : StoredAt(l, v)
Bound(l, v) == Confirmed(l, v) # {}

\* Ids stay served, and the port of a loop stays its own.
PortInv ==
    /\ events = 0 /\ closings = {}
    /\ \A l \in Loops, v \in Visors : Els(ids[l][v]) \subseteq live[v]
    /\ \A l \in Loops : IF phase[l] = "idle" THEN lport[l] = NoPort
                                             ELSE lport[l] \in ports[Desc[l].src] \cap DynamicPorts
    /\ \A l, m \in Loops : l # m /\ Desc[l].src = Desc[m].src /\ lport[l] = lport[m] =>
                             lport[l] = NoPort

\* What a phase that is over, and was not given up, has achieved.
Achieved(l) ==
    /\ phase[l] = "add" /\ ~bad[l] => \A v \in Visors \ await[l] : StoredAt(l, v)
    /\ phase[l] \in {"confirmDst", "confirmSrc", "ok"} => AllStored(l)
    /\ phase[l] = "confirmDst" /\ ~bad[l] /\ Desc[l].dst \notin await[l] => Bound(l, Desc[l].dst)
    /\ phase[l] \in {"confirmSrc", "ok"} => Bound(l, Desc[l].dst)
    /\ phase[l] = "confirmSrc" /\ ~bad[l] /\ Desc[l].src \notin await[l] => Bound(l, Desc[l].src)
    /\ phase[l] = "ok" => Bound(l, Desc[l].src)
    /\ dial[l] = "ok" => phase[l] = "ok"

\* What holds while a confirmation is under way, however late.
Asked(m) ==
    /\ m.kind \in {"confirmDst", "confirmSrc"} => AllStored(m.loop)
    /\ m.kind = "confirmSrc" => Bound(m.loop, Desc[m.loop].dst)
Notified(c) == Generated(c.loop) /\ c.at \in Ends(c.loop) /\ Bound(c.loop, c.at)

SrcAfterDst == \A l \in Loops : Bound(l, Desc[l].src) => Bound(l, Desc[l].dst)

QuietInv ==
    /\ PortInv /\ SrcAfterDst
    /\ \A l \in Loops : Achieved(l)
    /\ \A m \in msgs : Asked(m)
    /\ \A c \in confirming : Notified(c)

\* Nothing that Achieved(l) speaks of changes, or it is given up.
Unmoved(l) ==
    /\ phase'[l] = phase[l]
    /\ dial'[l] = "ok" => dial[l] = "ok"
    /\ phase[l] = "reserve" \/ bad'[l] \/ (bad'[l] = bad[l] /\ await'[l] = await[l])

RulesStay == \A l \in Loops : Generated(l) => \A v \in Visors : StoredAt(l, v) => StoredAt(l, v)'
LoopsStay == \A l \in Loops : Generated(l) => \A v \in Ends(l) : Bound(l, v) => Bound(l, v)'

LEMMA QuietFrame ==
    ASSUME Inv, QuietInv, PortInv', SrcAfterDst', RulesStay, LoopsStay, Keeps,
           \A l \in Loops : Unmoved(l) \/ Achieved(l)',
           \A m \in msgs' : m \in msgs \/ Asked(m)',
           \A c \in confirming' : c \in confirming \/ Notified(c)'
    PROVE  QuietInv'
<1>1. ASSUME NEW l \in Loops, Generated(l)
      PROVE  AllStored(l) => AllStored(l)'
  BY <1>1 DEF AllStored, RulesStay
<1>2. ASSUME NEW l \in Loops
      PROVE  Desc[l].src \in Ends(l) /\ Desc[l].dst \in Ends(l)
  BY DEF Ends
<1>3. ASSUME NEW l \in Loops
      PROVE  Achieved(l)'
  <2>1. CASE Unmoved(l)
    <3>1. Achieved(l)
      BY DEF QuietInv
    <3>2. phase[l] \in {"add", "confirmDst", "confirmSrc", "ok"} => Generated(l)
      BY DEF Inv, GenInv
    <3>3. /\ phase'[l] = phase[l]
          /\ dial'[l] = "ok" => dial[l] = "ok"
          /\ phase[l] = "reserve" \/ bad'[l] \/ (bad'[l] = bad[l] /\ await'[l] = await[l])
      BY <2>1 DEF Unmoved
    <3>4. Generated(l) => /\ AllStored(l) => AllStored(l)'
                          /\ \A v \in Visors : StoredAt(l, v) => StoredAt(l, v)'
                          /\ Bound(l, Desc[l].src) => Bound(l, Desc[l].src)'
                          /\ Bound(l, Desc[l].dst) => Bound(l, Desc[l].dst)'
      BY <1>1, <1>2 DEF RulesStay, LoopsStay
    <3>5. QED
      BY <3>1, <3>2, <3>3, <3>4 DEF Achieved
  <2>2. QED
    BY <2>1
<1>4. ASSUME NEW m \in msgs'
      PROVE  Asked(m)'
  <2>1. CASE m \in msgs
    <3>1. Asked(m) /\ m.loop \in Loops
      BY <2>1 DEF QuietInv, Inv, MessageTypes
    <3>2. m.kind \in {"confirmDst", "confirmSrc"} => Generated(m.loop)
      BY <2>1 DEF Inv, MsgInv
    <3>3. QED
      BY <1>1, <1>2, <3>1, <3>2 DEF Asked, LoopsStay
  <2>2. QED
    BY <2>1
<1>5. ASSUME NEW c \in confirming'
      PROVE  Notified(c)'
  <2>1. CASE c \in confirming
    <3>1. Notified(c) /\ c.loop \in Loops
      BY <2>1 DEF QuietInv, Inv, MessageTypes
    <3>2. Generated(c.loop)'
      BY <3>1, KeepsGenerated DEF Notified
    <3>3. QED
      BY <3>1, <3>2 DEF Notified, LoopsStay
  <2>2. QED
    BY <2>1
<1>6. QED
  BY <1>3, <1>4, <1>5 DEF QuietInv

LEMMA PortFrame ==
    ASSUME PortInv, UNCHANGED <<ports, lport, ids, events, closings>>,
           \A v \in Visors : live[v] \subseteq live'[v],
           \A l \in Loops : phase'[l] = "idle" <=> phase[l] = "idle"
    PROVE  PortInv'
<1>1. events' = 0 /\ closings' = {}
  BY DEF PortInv
<1>2. \A l \in Loops, v \in Visors : Els(ids'[l][v]) \subseteq live'[v]
  BY DEF PortInv
<1>3. \A l \in Loops :
        IF phase'[l] = "idle" THEN lport'[l] = NoPort
                              ELSE lport'[l] \in ports'[Desc[l].src] \cap DynamicPorts
  BY DEF PortInv
<1>4. \A l, m \in Loops : l # m /\ Desc[l].src = Desc[m].src /\ lport'[l] = lport'[m] =>
                            lport'[l] = NoPort
  BY DEF PortInv
<1>5. QED
  BY <1>1, <1>2, <1>3, <1>4 DEF PortInv

LEMMA LoopsFrame ==
    ASSUME UNCHANGED <<loops, lport>>, SrcAfterDst
    PROVE  LoopsStay /\ SrcAfterDst' /\ \A l, v : Bound(l, v)' <=> Bound(l, v)
<1>1. ASSUME NEW l, NEW v
      PROVE  Confirmed(l, v)' = Confirmed(l, v)
  BY DEF Confirmed, LocalPort, RemotePort, RemotePK
<1>2. \A l, v : Bound(l, v)' <=> Bound(l, v)
  BY <1>1 DEF Bound
<1>3. QED
  BY <1>2 DEF LoopsStay, SrcAfterDst

\* A step of the setup node, or of the dialling router.
LEMMA QuietSetup ==
    ASSUME Inv, QuietInv, Keeps,
           UNCHANGED <<visorVars, lport, ids, events, closings, confirming>>,
           \A l \in Loops : phase'[l] = "idle" <=> phase[l] = "idle",
           \A l \in Loops : Unmoved(l) \/ Achieved(l)',
           \A m \in msgs' : m \in msgs \/ Asked(m)'
    PROVE  QuietInv'
<1>1. PortInv'
  BY PortFrame DEF QuietInv, visorVars
<1>2. SrcAfterDst' /\ LoopsStay
  BY LoopsFrame DEF QuietInv, visorVars
<1>3. RulesStay
  BY DEF RulesStay, StoredAt, Keeps, visorVars
<1>4. QED
  BY <1>1, <1>2, <1>3, QuietFrame

\* The setup node is done, with all phases achieved or with an error.
LEMMA FinishQuiet ==
    ASSUME Inv, QuietInv, NEW l \in Loops, NEW p \in {"ok", "failed"}, Finish(l, p),
           phase[l] \in {"reserve", "add", "confirmDst", "confirmSrc"},
           p = "ok" => AllStored(l) /\ Bound(l, Desc[l].src) /\ Bound(l, Desc[l].dst)
    PROVE  QuietInv'
<1>1. /\ phase' = [phase EXCEPT ![l] = p]
      /\ UNCHANGED <<visorVars, await, bad, ids, gen, lport, dial, msgs, confirming, closings,
                     events>>
  BY DEF Finish
<1>2. SetupTypes /\ Achieved(l)
  BY DEF Inv, QuietInv
<1>3. phase'[l] = p /\ dial'[l] # "ok"
  BY <1>1, <1>2 DEF SetupTypes, Achieved
<1>4. AllStored(l) => AllStored(l)'
  BY <1>1 DEF AllStored, StoredAt, visorVars
<1>5. \A v : Bound(l, v)' <=> Bound(l, v)
  BY <1>1, LoopsFrame DEF QuietInv, visorVars
<1>6. Achieved(l)'
  BY <1>3, <1>4, <1>5 DEF Achieved
<1>7. \A k \in Loops : k # l => Unmoved(k)
  BY <1>1, <1>2 DEF Unmoved, SetupTypes
<1>8. \A k \in Loops : phase'[k] = "idle" <=> phase[k] = "idle"
  BY <1>1, <1>2 DEF SetupTypes
<1>9. Keeps
  BY <1>1 DEF Keeps
<1>10. QED
  BY <1>1, <1>6, <1>7, <1>8, <1>9, QuietSetup

\* The dial gets its outcome, and success only when the setup node is done.
LEMMA DialEndsQuiet ==
    ASSUME Inv, QuietInv, NEW l \in Loops, NEW outcome, DialEnds(l, outcome),
           outcome = "ok" => phase[l] = "ok"
    PROVE  QuietInv'
<1>1. /\ dial' = [dial EXCEPT ![l] = outcome]
      /\ UNCHANGED <<visorVars, phase, await, bad, ids, gen, lport, msgs, confirming, closings,
                     events>>
  BY DEF DialEnds, setupVars
<1>2. SetupTypes /\ Achieved(l)
  BY DEF Inv, QuietInv
<1>3. phase'[l] = phase[l] /\ await'[l] = await[l] /\ bad'[l] = bad[l]
  BY <1>1
<1>4. dial'[l] = "ok" => phase[l] = "ok"
  BY <1>1, <1>2 DEF SetupTypes
<1>5. \A v : StoredAt(l, v)' <=> StoredAt(l, v)
  BY <1>1 DEF StoredAt, visorVars
<1>6. \A v : Bound(l, v)' <=> Bound(l, v)
  BY <1>1, LoopsFrame DEF QuietInv, visorVars
<1>7. Achieved(l)'
  BY <1>2, <1>3, <1>4, <1>5, <1>6 DEF Achieved, AllStored
<1>8. \A k \in Loops : k # l => Unmoved(k)
  BY <1>1, <1>2 DEF Unmoved, SetupTypes
<1>9. Keeps
  BY <1>1 DEF Keeps
<1>10. QED
  BY <1>1, <1>7, <1>8, <1>9, QuietSetup

\* What is asked of the visors next is asked when the phase before it is achieved.
LEMMA ProceedQuiet ==
    ASSUME Inv, QuietInv, NEW l \in Loops, NEW p \in {"confirmDst", "confirmSrc"}, NEW to,
           Proceed(l, p, to), UNCHANGED gen, phase[l] \in {"add", "confirmDst"}, AllStored(l),
           p = "confirmDst" => to = {Desc[l].dst},
           p = "confirmSrc" => to = {Desc[l].src} /\ Bound(l, Desc[l].dst)
    PROVE  QuietInv'
<1>1. /\ phase' = [phase EXCEPT ![l] = p]
      /\ await' = [await EXCEPT ![l] = to]
      /\ msgs' = msgs \cup Requests(p, l, to)
      /\ UNCHANGED <<visorVars, bad, ids, lport, dial, confirming, closings, events>>
  BY DEF Proceed
<1>2. SetupTypes /\ Achieved(l)
  BY DEF Inv, QuietInv
<1>3. phase'[l] = p /\ await'[l] = to /\ dial'[l] # "ok"
  BY <1>1, <1>2 DEF SetupTypes, Achieved
<1>4. AllStored(l)'
  BY <1>1 DEF AllStored, StoredAt, visorVars
<1>5. Bound(l, Desc[l].dst)' <=> Bound(l, Desc[l].dst)
  BY <1>1, LoopsFrame DEF QuietInv, visorVars
<1>6. Achieved(l)'
  BY <1>3, <1>4, <1>5 DEF Achieved
<1>7. \A k \in Loops : k # l => Unmoved(k)
  BY <1>1, <1>2 DEF Unmoved, SetupTypes
<1>8. \A k \in Loops : phase'[k] = "idle" <=> phase[k] = "idle"
  BY <1>1, <1>2 DEF SetupTypes
<1>9. Keeps
  BY <1>1 DEF Keeps
<1>10. \A m \in Requests(p, l, to) : m.loop = l /\ m.kind = p
  BY DEF Requests
<1>11. \A m \in msgs' : m \in msgs \/ Asked(m)'
  BY <1>1, <1>4, <1>5, <1>10 DEF Asked
<1>12. QED
  BY <1>1, <1>6, <1>7, <1>8, <1>9, <1>11, QuietSetup

LEMMA AddRulesQuiet ==
    ASSUME Inv, QuietInv, NEW l \in Loops, AddRules(l)
    PROVE  QuietInv'
<1>1. PICK g : g = GenerateRules(ids[l], LoopDescriptor(l))
  OBVIOUS
<1>2. /\ phase[l] = "reserve"
      /\ IF g.ok THEN /\ gen' = [gen EXCEPT ![l] = g]
                      /\ Proceed(l, "add", {v \in Visors : g.rules[v] # {}})
                 ELSE Finish(l, "failed")
  BY <1>1 DEF AddRules, PhaseOver
<1>3. CASE ~g.ok
  BY <1>2, <1>3, FinishQuiet
<1>4. CASE g.ok
  <2>1. PICK to : to = {v \in Visors : g.rules[v] # {}}
    OBVIOUS
  <2>2. /\ gen' = [gen EXCEPT ![l] = g]
        /\ phase' = [phase EXCEPT ![l] = "add"]
        /\ await' = [await EXCEPT ![l] = to]
        /\ msgs' = msgs \cup Requests("add", l, to)
        /\ UNCHANGED <<visorVars, bad, ids, lport, dial, confirming, closings, events>>
    BY <1>2, <1>4, <2>1 DEF Proceed
  <2>3. SetupTypes /\ Achieved(l) /\ ~Generated(l)
    BY <1>2 DEF Inv, QuietInv, GenInv
  <2>4. phase'[l] = "add" /\ await'[l] = to /\ gen'[l] = g /\ dial'[l] # "ok"
    BY <1>2, <2>2, <2>3 DEF SetupTypes, Achieved
  <2>5. \A v \in Visors \ to : StoredAt(l, v)'
    BY <2>1, <2>4 DEF StoredAt
  <2>6. Achieved(l)'
    BY <2>4, <2>5 DEF Achieved
  <2>7. \A k \in Loops : k # l => Unmoved(k)
    BY <2>2, <2>3 DEF Unmoved, SetupTypes
  <2>8. \A k \in Loops : phase'[k] = "idle" <=> phase[k] = "idle"
    BY <1>2, <2>2, <2>3 DEF SetupTypes
  <2>9. Keeps
    <3>1. \A k \in Loops : k # l => gen'[k] = gen[k]
      BY <2>2, <2>3 DEF SetupTypes
    <3>2. QED
      BY <2>2, <2>3, <3>1 DEF Keeps
  <2>10. \A m \in Requests("add", l, to) : m.kind = "add"
    BY DEF Requests
  <2>11. \A m \in msgs' : m \in msgs \/ Asked(m)'
    BY <2>2, <2>10 DEF Asked
  <2>12. QED
    BY <2>2, <2>6, <2>7, <2>8, <2>9, <2>11, QuietSetup
<1>5. QED
  BY <1>3, <1>4

LEMMA LoopCreatedQuiet ==
    ASSUME Inv, QuietInv, NEW l \in Loops, LoopCreated(l)
    PROVE  QuietInv'
<1>1. phase[l] = "confirmSrc" /\ await[l] = {} /\ ~bad[l] /\ Finish(l, "ok")
  BY DEF LoopCreated, PhaseOver
<1>2. AllStored(l) /\ Bound(l, Desc[l].src) /\ Bound(l, Desc[l].dst)
  BY <1>1 DEF QuietInv, Achieved
<1>3. QED
  BY <1>1, <1>2, FinishQuiet

LEMMA SetupStepQuiet ==
    ASSUME Inv, QuietInv, NEW l \in Loops, DialTimeout(l) \/ DialReply(l) \/ SetupStep(l)
    PROVE  QuietInv'
<1>1. Achieved(l) /\ SetupTypes
  BY DEF QuietInv, Inv
<1>2. CASE DialTimeout(l) \/ DialReply(l)
  BY <1>2, DialEndsQuiet DEF DialTimeout, DialReply
<1>3. CASE PhaseFailed(l)
  BY <1>3, FinishQuiet DEF PhaseFailed, PhaseOver
<1>4. CASE ConfirmWithDst(l)
  <2>1. /\ phase[l] = "add" /\ await[l] = {} /\ ~bad[l] /\ UNCHANGED gen
        /\ Proceed(l, "confirmDst", {Desc[l].dst})
    BY <1>4 DEF ConfirmWithDst, PhaseOver
  <2>2. AllStored(l)
    BY <1>1, <2>1 DEF Achieved, AllStored
  <2>3. QED
    BY <2>1, <2>2, ProceedQuiet
<1>5. CASE ConfirmWithSrc(l)
  <2>1. /\ phase[l] = "confirmDst" /\ await[l] = {} /\ ~bad[l] /\ UNCHANGED gen
        /\ Proceed(l, "confirmSrc", {Desc[l].src})
    BY <1>5 DEF ConfirmWithSrc, PhaseOver
  <2>2. AllStored(l) /\ Bound(l, Desc[l].dst)
    BY <1>1, <2>1 DEF Achieved
  <2>3. QED
    BY <2>1, <2>2, ProceedQuiet
<1>6. QED
  BY <1>2, <1>3, <1>4, <1>5, AddRulesQuiet, LoopCreatedQuiet DEF SetupStep

LEMMA GiveUpQuiet ==
    ASSUME Inv, QuietInv, NEW l \in Loops, NEW v \in Visors, GiveUp(l, v)
    PROVE  QuietInv'
<1>1. /\ await' = [await EXCEPT ![l] = @ \ {v}]
      /\ bad' = [bad EXCEPT ![l] = TRUE]
      /\ msgs' \subseteq msgs
      /\ UNCHANGED <<visorVars, phase, ids, gen, lport, dial, confirming, closings, events>>
  BY DEF GiveUp
<1>2. SetupTypes
  BY DEF Inv
<1>3. \A k \in Loops : Unmoved(k)
  BY <1>1, <1>2 DEF Unmoved, SetupTypes
<1>4. Keeps
  BY <1>1 DEF Keeps
<1>5. QED
  BY <1>1, <1>3, <1>4, QuietSetup

\* Two rules of the loops under one id are the same, up to the reverse id.
LEMMA SameRule ==
    ASSUME Inv, NEW l \in Loops, NEW m \in Loops, NEW v \in Visors, Generated(l),
           NEW s \in gen[l].rules[v], NEW x, FromLoop(m, v, x), x.key = s.key
    PROVE  Alike(x, s)
<1>1. PICK t \in gen[m].rules[v] : Generated(m) /\ Alike(x, t)
  BY DEF FromLoop
<1>2. t.key = s.key
  BY <1>1 DEF Alike
<1>3. s.key \in Els(ids[l][v]) /\ t.key \in Els(ids[m][v])
  BY <1>1, GeneratedKeys
<1>4. m = l
  BY <1>2, <1>3 DEF Inv, OwnIDs
<1>5. t = s
  BY <1>1, <1>2, <1>4, GeneratedKeys
<1>6. QED
  BY <1>1, <1>5

\* Rules of loops, or under new ids, that are put into a table replace none but their own.
LEMMA SetRulesStay ==
    ASSUME Inv, Keeps, NEW w \in Visors, NEW new,
           table' = [table EXCEPT ![w] = SetRules(@, new)],
           \A x \in new : x.key \notin 1..nextID[w] \/ \E m \in Loops : FromLoop(m, w, x)
    PROVE  RulesStay
<1>1. SUFFICES ASSUME NEW l \in Loops, Generated(l), NEW v \in Visors, StoredAt(l, v)
               PROVE  StoredAt(l, v)'
  BY DEF RulesStay
<1>2. gen'[l] = gen[l]
  BY <1>1 DEF Keeps
<1>3. ASSUME NEW s \in gen[l].rules[v]
      PROVE  \E r \in table'[v] : Alike(r, s)
  <2>1. PICK r \in table[v] : Alike(r, s)
    BY <1>1, <1>3 DEF StoredAt
  <2>2. /\ table'[w] = SetRules(table[w], new)
        /\ v # w => table'[v] = table[v]
    BY DEF Inv, VisorTypes
  <2>3. CASE r \in table'[v]
    BY <2>1, <2>3
  <2>4. CASE r \notin table'[v]
    <3>1. v = w
      BY <2>1, <2>2, <2>4
    <3>2. PICK x \in new : x.key = r.key
      BY <2>1, <2>2, <2>4, <3>1, SetRulesFacts
    <3>3. x.key = s.key /\ x \in table'[v]
      BY <2>1, <2>2, <3>1, <3>2, SetRulesFacts DEF Alike
    <3>4. s.key \in 1..nextID[w]
      <4>1. s.key \in Els(ids[l][w])
        BY <1>1, <1>3, <3>1, GeneratedKeys
      <4>2. Els(ids[l][w]) \subseteq 1..nextID[w]
        BY DEF Inv, OwnIDs
      <4>3. QED
        BY <4>1, <4>2
    <3>5. PICK m \in Loops : FromLoop(m, w, x)
      BY <3>2, <3>3, <3>4
    <3>6. Alike(x, s)
      BY <1>1, <1>3, <3>1, <3>3, <3>5, SameRule
    <3>7. QED
      BY <3>3, <3>6
  <2>5. QED
    BY <2>3, <2>4
<1>4. QED
  BY <1>2, <1>3 DEF StoredAt

LEMMA ReplyMoves ==
    ASSUME SetupTypes, NEW kind, NEW l \in Loops, NEW v, NEW ok \in BOOLEAN,
           Reply(kind, l, v, ok), UNCHANGED <<phase, dial>>
    PROVE  /\ \A k \in Loops : k # l => Unmoved(k)
           /\ \/ Unmoved(l)
              \/ /\ phase[l] = kind /\ v \in await[l]
                 /\ await'[l] = await[l] \ {v}
                 /\ bad'[l] = (bad[l] \/ ~ok)
<1>1. CASE UNCHANGED <<await, bad>>
  BY <1>1 DEF Unmoved
<1>2. CASE /\ phase[l] = kind /\ v \in await[l]
           /\ await' = [await EXCEPT ![l] = @ \ {v}]
           /\ bad' = [bad EXCEPT ![l] = @ \/ ~ok]
  <2>1. \A k \in Loops : k # l => await'[k] = await[k] /\ bad'[k] = bad[k]
    BY <1>2 DEF SetupTypes
  <2>2. await'[l] = await[l] \ {v} /\ bad'[l] = (bad[l] \/ ~ok)
    BY <1>2 DEF SetupTypes
  <2>3. QED
    BY <1>2, <2>1, <2>2 DEF Unmoved
<1>3. QED
  BY <1>1, <1>2 DEF Reply

LEMMA OccupyRouteIDQuiet ==
    ASSUME Inv, QuietInv, NEW l \in Loops, NEW v \in Visors, OccupyRouteID(l, v)
    PROVE  QuietInv'
<1>1. PICK n, new, mine :
        /\ n = Reserved(l)[v] /\ new = {nextID[v] + i : i \in 1..n}
        /\ mine = (phase[l] = "reserve" /\ v \in await[l])
  OBVIOUS
<1>2. /\ msgs' \subseteq msgs
      /\ table' = [table EXCEPT ![v] = SetRules(@, {Placeholder(id) : id \in new})]
      /\ live' = [live EXCEPT ![v] = @ \cup new]
      /\ ids' = IF mine THEN [ids EXCEPT ![l][v] = [i \in 1..n |-> nextID[v] + i]] ELSE ids
      /\ Reply("reserve", l, v, TRUE)
      /\ UNCHANGED <<ports, loops, phase, gen, lport, dial, confirming, closings, events>>
  BY <1>1 DEF OccupyRouteID
<1>3. VisorTypes /\ SetupTypes /\ PortInv
  BY DEF Inv, QuietInv
<1>4. n \in Nat
  BY <1>1, ReservedNat
<1>5. Keeps
  <2>1. \A k \in Loops : k # l => ids'[k] = ids[k]
    BY <1>2, <1>3 DEF SetupTypes
  <2>2. mine => ~Generated(l)
    BY <1>1 DEF Inv, GenInv
  <2>3. ids'[l] # ids[l] => ~Generated(l)
    BY <1>2, <2>2
  <2>4. QED
    BY <1>2, <2>1, <2>3 DEF Keeps
<1>6. RulesStay
  <2>1. ASSUME NEW x \in {Placeholder(id) : id \in new}
        PROVE  x.key \notin 1..nextID[v]
    <3>1. PICK i \in 1..n : x = Placeholder(nextID[v] + i)
      BY <1>1, <2>1
    <3>2. x.key = nextID[v] + i
      BY <3>1 DEF Placeholder, ForwardRule
    <3>3. nextID[v] \in Nat /\ i \in Nat /\ i > 0
      BY <1>3, <1>4 DEF VisorTypes
    <3>4. QED
      BY <3>2, <3>3
  <2>2. QED
    BY <1>2, <1>5, <2>1, SetRulesStay
<1>7. PortInv'
  <2>1. \A w \in Visors : live[w] \subseteq live'[w]
    BY <1>2, <1>3 DEF VisorTypes
  <2>2. CASE ~mine
    BY <1>2, <1>3, <2>1, <2>2, PortFrame
  <2>3. CASE mine
    <3>1. new \subseteq live'[v]
      BY <1>2, <1>3 DEF VisorTypes
    <3>2. ids' = [ids EXCEPT ![l][v] = [i \in 1..n |-> nextID[v] + i]]
      BY <1>2, <2>3
    <3>3. PICK q : q = [i \in 1..n |-> nextID[v] + i]
      OBVIOUS
    <3>4. Els(q) \subseteq new
      BY <1>1, <1>4, <3>3 DEF Els
    <3>5. ids[l] \in [Visors -> Seq(Nat)]
      BY <1>3 DEF SetupTypes, Reservoirs
    <3>6. ids'[l] = [ids[l] EXCEPT ![v] = q] /\ \A k \in Loops : k # l => ids'[k] = ids[k]
      BY <1>3, <3>2, <3>3 DEF SetupTypes
    <3>7. ids'[l][v] = q /\ \A w \in Visors : w # v => ids'[l][w] = ids[l][w]
      BY <3>5, <3>6
    <3>8. \A k \in Loops, w \in Visors : Els(ids[k][w]) \subseteq live[w]
      BY <1>3 DEF PortInv
    <3>9. ASSUME NEW k \in Loops, NEW w \in Visors
          PROVE  Els(ids'[k][w]) \subseteq live'[w]
      <4>1. CASE k = l /\ w = v
        BY <3>1, <3>4, <3>7, <4>1
      <4>2. CASE ~(k = l /\ w = v)
        <5>1. ids'[k][w] = ids[k][w]
          BY <3>6, <3>7, <4>2
        <5>2. QED
          BY <2>1, <3>8, <5>1
      <4>3. QED
        BY <4>1, <4>2
    <3>10. QED
      BY <1>2, <1>3, <3>9 DEF PortInv
  <2>4. QED
    BY <2>2, <2>3, <1>1
<1>8. \A k \in Loops : Unmoved(k)
  BY <1>2, <1>3, ReplyMoves DEF Unmoved
<1>9. SrcAfterDst' /\ LoopsStay
  BY <1>2, LoopsFrame DEF QuietInv
<1>10. QED
  BY <1>2, <1>5, <1>6, <1>7, <1>8, <1>9, QuietFrame

LEMMA SetRoutingRulesQuiet ==
    ASSUME Inv, QuietInv, NEW l \in Loops, NEW v \in Visors, SetRoutingRules(l, v)
    PROVE  QuietInv'
<1>1. /\ Requests("add", l, {v}) \subseteq msgs
      /\ msgs' \subseteq msgs
      /\ table' = [table EXCEPT ![v] = SetRules(@, gen[l].rules[v])]
      /\ Reply("add", l, v, TRUE)
      /\ UNCHANGED <<live, nextID, ports, loops, phase, ids, gen, lport, dial, confirming,
                     closings, events>>
  BY DEF SetRoutingRules
<1>2. VisorTypes /\ SetupTypes /\ PortInv
  BY DEF Inv, QuietInv
<1>3. Generated(l)
  <2>1. [kind |-> "add", loop |-> l, at |-> v] \in msgs
    BY <1>1 DEF Requests
  <2>2. QED
    BY <2>1 DEF Inv, MsgInv
<1>4. Keeps
  BY <1>1 DEF Keeps
<1>5. \A x \in gen[l].rules[v] : FromLoop(l, v, x)
  BY <1>3 DEF FromLoop, Alike
<1>6. RulesStay
  BY <1>1, <1>4, <1>5, SetRulesStay
<1>7. PortInv'
  BY <1>1, <1>2, PortFrame
<1>8. SrcAfterDst' /\ LoopsStay
  BY <1>1, LoopsFrame DEF QuietInv
<1>9. StoredAt(l, v)'
  <2>1. table'[v] = SetRules(table[v], gen[l].rules[v])
    BY <1>1, <1>2 DEF VisorTypes
  <2>2. gen[l].rules[v] \subseteq table'[v]
    BY <2>1, SetRulesFacts
  <2>3. \A s \in gen[l].rules[v] : Alike(s, s)
    BY DEF Alike
  <2>4. QED
    BY <1>1, <2>2, <2>3 DEF StoredAt
<1>10. Unmoved(l) \/ Achieved(l)'
  <2>1. CASE ~Unmoved(l)
    <3>1. phase[l] = "add" /\ await'[l] = await[l] \ {v} /\ bad'[l] = (bad[l] \/ ~TRUE)
      BY <1>1, <1>2, <2>1, ReplyMoves
    <3>2. Achieved(l)
      BY DEF QuietInv
    <3>3. ~bad[l] => \A w \in Visors \ await[l] : StoredAt(l, w)'
      BY <1>3, <1>6, <3>1, <3>2 DEF Achieved, RulesStay
    <3>4. ~bad'[l] => \A w \in Visors \ await'[l] : StoredAt(l, w)'
      BY <1>9, <3>1, <3>3
    <3>5. phase'[l] = "add" /\ dial'[l] # "ok"
      BY <1>1, <3>1, <3>2 DEF Achieved
    <3>6. QED
      BY <3>4, <3>5 DEF Achieved
  <2>2. QED
    BY <2>1
<1>11. \A k \in Loops : k # l => Unmoved(k)
  BY <1>1, <1>2, ReplyMoves
<1>12. QED
  BY <1>1, <1>4, <1>6, <1>7, <1>8, <1>10, <1>11, QuietFrame

\* The way of an end's packets as a sequence of positions, with the rules along it.
LEMMA WayRules ==
    ASSUME Inv, NEW l \in Loops, Generated(l), NEW v \in Ends(l)
    PROVE  \E n \in Nat : \E h \in [0..n -> Positions] :
             /\ n > 0 /\ n <= MaxHops
             /\ Way(l, v) = {h[i] : i \in 0..n}
             /\ h[0] = [visor |-> v, id |-> FwdRID(l, v)]
             /\ \A i \in 0..(n - 1) :
                  ForwardRule(h[i].id, h[i + 1].id, h[i + 1].visor) \in gen[l].rules[h[i].visor]
             /\ \E s \in gen[l].rules[h[n].visor] : s.type = "app" /\ s.key = h[n].id
<1>1. PICK d, res, g, f, b :
        /\ d = LoopDescriptor(l) /\ res = ids[l] /\ g = gen[l]
        /\ f = OutWay(l) /\ b = BackWay(l)
  OBVIOUS
<1>2. /\ IsDescriptor(d) /\ Ways(g, res, d, f, b) /\ RulesAlong(g, d, f, b)
  BY <1>1, GeneratedFacts
<1>3. /\ d.src = Desc[l].src /\ d.dst = Desc[l].dst
      /\ d.fwd = Desc[l].fwd /\ d.rev = Desc[l].rev
  BY <1>1 DEF LoopDescriptor
<1>4. PICK N, M : N = Len(d.fwd) /\ M = Len(d.rev)
  OBVIOUS
<1>5. N \in Nat /\ N > 0 /\ M \in Nat /\ M > 0
  BY <1>2, <1>4, IsRouteFacts DEF IsDescriptor
<1>6. N <= MaxHops /\ M <= MaxHops
  BY <1>3, <1>4, LoopAssumption
<1>7. /\ f \in [0..N -> Positions] /\ b \in [0..M -> Positions]
      /\ f[0] = [visor |-> d.src, id |-> g.srcFwdRID] /\ f[N].visor = d.dst
      /\ b[0] = [visor |-> d.dst, id |-> g.dstFwdRID] /\ b[M].visor = d.src
  BY <1>2, <1>4 DEF Ways
<1>8. /\ \A w \in Visors : Leading(f, N, w) \subseteq g.rules[w]
      /\ \A w \in Visors : Leading(b, M, w) \subseteq g.rules[w]
      /\ d.src \in Visors /\ SrcRule(d, f, b) \in g.rules[d.src]
      /\ d.dst \in Visors /\ DstRule(d, f, b) \in g.rules[d.dst]
  BY <1>2, <1>4 DEF RulesAlong, IsDescriptor
<1>9. ASSUME NEW n \in Nat, NEW h \in [0..n -> Positions],
             \A w \in Visors : Leading(h, n, w) \subseteq g.rules[w], NEW i \in 0..(n - 1)
      PROVE  ForwardRule(h[i].id, h[i + 1].id, h[i + 1].visor) \in g.rules[h[i].visor]
  <2>1. i + 1 \in 1..n /\ (i + 1) - 1 = i /\ i \in 0..n
    BY <1>9
  <2>2. h[i].visor \in Visors
    BY <2>1 DEF Positions
  <2>3. ForwardRule(h[(i + 1) - 1].id, h[i + 1].id, h[i + 1].visor) \in Leading(h, n, h[i].visor)
    BY <2>1 DEF Leading
  <2>4. QED
    BY <1>9, <2>1, <2>2, <2>3
<1>10. CASE v = d.src
  <2>1. Way(l, v) = {f[i] : i \in 0..N}
    BY <1>1, <1>3, <1>4, <1>10 DEF Way
  <2>2. f[0] = [visor |-> v, id |-> FwdRID(l, v)]
    BY <1>1, <1>2, <1>3, <1>7, <1>10 DEF FwdRID, IsDescriptor
  <2>3. \E s \in g.rules[f[N].visor] : s.type = "app" /\ s.key = f[N].id
    BY <1>4, <1>7, <1>8 DEF DstRule, AppRule
  <2>4. \A i \in 0..(N - 1) :
          ForwardRule(f[i].id, f[i + 1].id, f[i + 1].visor) \in g.rules[f[i].visor]
    BY <1>5, <1>7, <1>8, <1>9
  <2>5. QED
    BY <1>1, <1>5, <1>6, <1>7, <2>1, <2>2, <2>3, <2>4
<1>11. CASE v # d.src
  <2>1. v = d.dst
    BY <1>3, <1>11 DEF Ends
  <2>2. Way(l, v) = {b[i] : i \in 0..M}
    BY <1>1, <1>3, <1>4, <1>11 DEF Way
  <2>3. b[0] = [visor |-> v, id |-> FwdRID(l, v)]
    BY <1>1, <1>3, <1>7, <2>1 DEF FwdRID
  <2>4. \E s \in g.rules[b[M].visor] : s.type = "app" /\ s.key = b[M].id
    BY <1>4, <1>7, <1>8 DEF SrcRule, AppRule
  <2>5. \A i \in 0..(M - 1) :
          ForwardRule(b[i].id, b[i + 1].id, b[i + 1].visor) \in g.rules[b[i].visor]
    BY <1>5, <1>7, <1>8, <1>9
  <2>6. QED
    BY <1>1, <1>5, <1>6, <1>7, <2>2, <2>3, <2>4, <2>5
<1>12. QED
  BY <1>10, <1>11

\* A forward rule that a loop is confirmed with is no placeholder.
LEMMA ConfirmedWith ==
    ASSUME Inv, NEW l \in Loops, Generated(l), AllStored(l), NEW v \in Ends(l),
           NEW r \in table[v], r.key = FwdRID(l, v)
    PROVE  r.to # NoVisor
<1>1. v \in Visors
  BY LoopAssumption DEF Ends
<1>2. PICK n \in Nat : \E h \in [0..n -> Positions] :
        /\ n > 0
        /\ h[0] = [visor |-> v, id |-> FwdRID(l, v)]
        /\ \A i \in 0..(n - 1) :
             ForwardRule(h[i].id, h[i + 1].id, h[i + 1].visor) \in gen[l].rules[h[i].visor]
  BY WayRules
<1>. PICK h \in [0..n -> Positions] :
       /\ n > 0
       /\ h[0] = [visor |-> v, id |-> FwdRID(l, v)]
       /\ \A i \in 0..(n - 1) :
            ForwardRule(h[i].id, h[i + 1].id, h[i + 1].visor) \in gen[l].rules[h[i].visor]
  BY <1>2
<1>3. 0 \in 0..(n - 1) /\ 1 \in 0..n /\ 0 + 1 = 1
  BY <1>2
<1>4. h[0].visor = v /\ h[0].id = FwdRID(l, v) /\ h[1].visor \in Visors
  BY <1>2, <1>3 DEF Positions
<1>5. PICK s : s = ForwardRule(h[0].id, h[1].id, h[1].visor)
  OBVIOUS
<1>6. s \in gen[l].rules[v] /\ s.type = "fwd" /\ s.key = FwdRID(l, v) /\ s.to \in Visors
  BY <1>2, <1>3, <1>4, <1>5 DEF ForwardRule
<1>7. PICK x \in table[v] : Alike(x, s)
  BY <1>1, <1>6 DEF AllStored, StoredAt
<1>8. x.key = r.key /\ x.to = s.to
  BY <1>6, <1>7 DEF Alike
<1>9. x = r
  BY <1>1, <1>7, <1>8 DEF Inv, PlaceInv, UniqueKeys
<1>10. QED
  BY <1>6, <1>8, <1>9, LoopAssumption

LEMMA ConfirmLoopQuiet ==
    ASSUME Inv, QuietInv, DialsServedPorts, NEW l \in Loops, NEW v \in Visors, ConfirmLoop(l, v)
    PROVE  QuietInv'
<1>1. PICK lp, rem, rp : /\ lp = LocalPort(l, v) /\ rem = RemotePK(l, v)
                         /\ rp = RemotePort(l, v)
  OBVIOUS
<1>2. /\ Requests(ConfirmKind(l, v), l, {v}) \subseteq msgs
      /\ lp \in ports[v]
      /\ msgs' \subseteq msgs
      /\ UNCHANGED <<table, live, nextID, ports, phase, await, bad, ids, gen, lport, dial,
                     closings, events>>
  BY <1>1 DEF ConfirmLoop, setupVars
<1>3. PICK app \in LoopRulesAt(v, lp, rem, rp),
           fwd \in {r \in Served[v] : r.key = FwdRID(l, v) /\ r.type = "fwd"} :
        /\ loops' = [loops EXCEPT ![v] =
                       SetLoop(@, lp, rem, rp, [to |-> fwd.to, id |-> fwd.next])]
        /\ confirming' = confirming \cup
             {[loop |-> l, at |-> v, rule |-> [app EXCEPT !.resp = FwdRID(l, v)]]}
  BY <1>1 DEF ConfirmLoop
<1>4. VisorTypes /\ PortInv /\ SrcAfterDst
  BY DEF Inv, QuietInv
<1>5. Generated(l) /\ v \in Ends(l)
  BY <1>2, ConfirmsAtEnd
<1>6. AllStored(l) /\ (v # Desc[l].dst => Bound(l, Desc[l].dst))
  <2>1. PICK m : m = [kind |-> ConfirmKind(l, v), loop |-> l, at |-> v]
    OBVIOUS
  <2>2. m \in msgs /\ m.kind = ConfirmKind(l, v) /\ m.loop = l
    BY <1>2, <2>1, RequestsFacts
  <2>3. QED
    BY <2>2 DEF QuietInv, Asked, ConfirmKind
<1>7. PICK e : e = [lport |-> lp, remote |-> rem, rport |-> rp, to |-> fwd.to, id |-> fwd.next]
  OBVIOUS
<1>8. e.lport = lp /\ e.remote = rem /\ e.rport = rp /\ e.to # NoVisor
  <2>1. fwd \in table[v] /\ fwd.key = FwdRID(l, v)
    BY <1>3 DEF Served
  <2>2. fwd.to # NoVisor
    BY <1>5, <1>6, <2>1, ConfirmedWith
  <2>3. QED
    BY <1>7, <2>2
<1>9. /\ loops'[v] = RemoveLoop(loops[v], lp, rem, rp) \cup {e}
      /\ \A w \in Visors : w # v => loops'[w] = loops[w]
  BY <1>3, <1>4, <1>7 DEF SetLoop, VisorTypes
<1>10. \A k, w : /\ LocalPort(k, w)' = LocalPort(k, w) /\ RemotePort(k, w)' = RemotePort(k, w)
                 /\ RemotePK(k, w)' = RemotePK(k, w)
  BY <1>2 DEF LocalPort, RemotePort, RemotePK
<1>11. ASSUME NEW k \in Loops, NEW w \in Visors, Bound(k, w)
       PROVE  Bound(k, w)'
  <2>1. PICK x \in loops[w] : /\ x.to # NoVisor /\ x.lport = LocalPort(k, w)
                              /\ x.remote = RemotePK(k, w) /\ x.rport = RemotePort(k, w)
    BY <1>11 DEF Bound, Confirmed
  <2>2. CASE x \in loops'[w]
    BY <1>10, <2>1, <2>2 DEF Bound, Confirmed
  <2>3. CASE x \notin loops'[w]
    <3>1. w = v /\ x.lport = lp /\ x.remote = rem /\ x.rport = rp
      BY <1>9, <2>1, <2>3 DEF RemoveLoop
    <3>2. e \in loops'[w]
      BY <1>9, <3>1
    <3>3. QED
      BY <1>8, <1>10, <2>1, <3>1, <3>2 DEF Bound, Confirmed
  <2>4. QED
    BY <2>2, <2>3
<1>12. \A k \in Loops : Ends(k) \subseteq Visors /\ Desc[k].src \in Visors /\ Desc[k].dst \in Visors
  BY LoopAssumption DEF Ends
<1>13. LoopsStay
  BY <1>11, <1>12 DEF LoopsStay
<1>14. Bound(l, v)'
  <2>1. e \in loops'[v]
    BY <1>9
  <2>2. e \in Confirmed(l, v)'
    BY <1>1, <1>8, <1>10, <2>1 DEF Confirmed
  <2>3. QED
    BY <2>2 DEF Bound
<1>15. ASSUME NEW k \in Loops, Bound(k, Desc[k].src)'
       PROVE  Bound(k, Desc[k].dst)'
  <2>1. CASE Bound(k, Desc[k].src)
    BY <1>4, <1>11, <1>12, <2>1 DEF SrcAfterDst
  <2>2. CASE ~Bound(k, Desc[k].src)
    <3>1. PICK w \in Visors : w = Desc[k].src
      BY <1>12
    <3>2. PICK x \in loops'[w] : /\ x.to # NoVisor /\ x.lport = LocalPort(k, w)
                                 /\ x.remote = RemotePK(k, w) /\ x.rport = RemotePort(k, w)
      BY <1>10, <1>15, <3>1 DEF Bound, Confirmed
    <3>3. x \notin loops[w]
      BY <2>2, <3>1, <3>2 DEF Bound, Confirmed
    <3>4. w = v /\ x = e
      BY <1>9, <3>2, <3>3 DEF RemoveLoop
    <3>5. lport[k] = lp
      BY <1>8, <3>1, <3>2, <3>4 DEF LocalPort
    <3>6. lport[k] # NoPort
      <4>1. lp \in Ports
        BY <1>2, <1>4 DEF VisorTypes
      <4>2. 0 \notin Ports
        BY LoopAssumption DEF Ports
      <4>3. QED
        BY <3>5, <4>1, <4>2 DEF NoPort
    <3>7. lport[k] \in DynamicPorts
      BY <1>4, <3>6 DEF PortInv
    <3>8. v = Desc[l].src
      BY <1>1, <1>5, <3>5, <3>7 DEF Ends, LocalPort, DialsServedPorts
    <3>9. lport[l] = lport[k]
      BY <1>1, <3>5, <3>8 DEF LocalPort
    <3>10. k = l
      BY <1>4, <3>1, <3>4, <3>6, <3>8, <3>9 DEF PortInv
    <3>11. v # Desc[l].dst
      BY <3>8, LoopAssumption
    <3>12. QED
      BY <1>6, <1>11, <1>12, <3>10, <3>11
  <2>3. QED
    BY <2>1, <2>2
<1>16. SrcAfterDst'
  BY <1>15 DEF SrcAfterDst
<1>17. PortInv'
  BY <1>2, <1>4, PortFrame
<1>18. Keeps
  BY <1>2 DEF Keeps
<1>19. RulesStay
  BY <1>2 DEF RulesStay, StoredAt
<1>20. \A k \in Loops : Unmoved(k)
  BY <1>2 DEF Unmoved
<1>21. ASSUME NEW c \in confirming'
       PROVE  c \in confirming \/ Notified(c)'
  <2>1. CASE c = [loop |-> l, at |-> v, rule |-> [app EXCEPT !.resp = FwdRID(l, v)]]
    <3>1. c.loop = l /\ c.at = v
      BY <2>1
    <3>2. Generated(l)'
      BY <1>2, <1>5 DEF Generated
    <3>3. Ends(l)' = Ends(l)
      BY DEF Ends
    <3>4. QED
      BY <1>5, <1>14, <3>1, <3>2, <3>3 DEF Notified
  <2>2. QED
    BY <1>3, <2>1
<1>22. QED
  BY <1>2, <1>13, <1>16, <1>17, <1>18, <1>19, <1>20, <1>21, QuietFrame

LEMMA ConfirmLoopFailsQuiet ==
    ASSUME Inv, QuietInv, NEW l \in Loops, NEW v \in Visors, ConfirmLoopFails(l, v)
    PROVE  QuietInv'
<1>1. /\ msgs' \subseteq msgs
      /\ Reply(ConfirmKind(l, v), l, v, FALSE)
      /\ UNCHANGED <<visorVars, phase, ids, gen, lport, dial, confirming, closings, events>>
  BY DEF ConfirmLoopFails
<1>2. SetupTypes
  BY DEF Inv
<1>3. \A k \in Loops : Unmoved(k)
  <2>1. /\ \A k \in Loops : k # l => Unmoved(k)
        /\ Unmoved(l) \/ bad'[l] = (bad[l] \/ ~FALSE)
    BY <1>1, <1>2, ReplyMoves
  <2>2. bad'[l] => Unmoved(l)
    BY <1>1 DEF Unmoved
  <2>3. QED
    BY <2>1, <2>2
<1>4. Keeps
  BY <1>1 DEF Keeps
<1>5. QED
  BY <1>1, <1>3, <1>4, QuietSetup

LEMMA ConfirmLoopSetQuiet ==
    ASSUME Inv, QuietInv, NEW c \in confirming, ConfirmLoopSet(c)
    PROVE  QuietInv'
<1>1. /\ confirming' \subseteq confirming
      /\ table' = [table EXCEPT ![c.at] = SetRules(@, {c.rule})]
      /\ Reply(ConfirmKind(c.loop, c.at), c.loop, c.at, TRUE)
      /\ UNCHANGED <<live, nextID, ports, loops, phase, ids, gen, lport, dial, msgs, closings,
                     events>>
  BY DEF ConfirmLoopSet
<1>2. VisorTypes /\ SetupTypes /\ PortInv /\ SrcAfterDst
  BY DEF Inv, QuietInv
<1>3. PICK l \in Loops, v \in Visors : l = c.loop /\ v = c.at
  BY DEF Inv, MessageTypes
<1>4. Generated(l) /\ v \in Ends(l) /\ Bound(l, v)
  BY <1>3 DEF QuietInv, Notified
<1>5. Keeps
  BY <1>1 DEF Keeps
<1>6. RulesStay
  <2>1. \E m \in Loops : FromLoop(m, v, c.rule)
    BY <1>3 DEF Inv, ConfirmInv
  <2>2. PICK new : new = {c.rule}
    OBVIOUS
  <2>3. /\ table' = [table EXCEPT ![v] = SetRules(@, new)]
        /\ \A x \in new : \E m \in Loops : FromLoop(m, v, x)
    BY <1>1, <1>3, <2>1, <2>2
  <2>4. QED
    BY <1>5, <2>3, SetRulesStay
<1>7. PortInv'
  BY <1>1, <1>2, PortFrame
<1>8. SrcAfterDst' /\ LoopsStay /\ \A k, w : Bound(k, w)' <=> Bound(k, w)
  BY <1>1, <1>2, LoopsFrame
<1>9. /\ \A k \in Loops : k # l => Unmoved(k)
      /\ \/ Unmoved(l)
         \/ /\ phase[l] = ConfirmKind(l, v)
            /\ await'[l] = await[l] \ {v} /\ bad'[l] = (bad[l] \/ ~TRUE)
  BY <1>1, <1>2, <1>3, ReplyMoves
<1>10. CASE phase[l] = ConfirmKind(l, v) /\ await'[l] = await[l] \ {v} /\ bad'[l] = (bad[l] \/ ~TRUE)
  <2>1. Achieved(l)
    BY DEF QuietInv
  <2>2. phase'[l] = phase[l] /\ phase[l] \in {"confirmDst", "confirmSrc"} /\ dial'[l] # "ok"
    BY <1>1, <1>10, <2>1 DEF ConfirmKind, Achieved
  <2>3. AllStored(l)'
    BY <1>4, <1>6, <2>1, <2>2 DEF Achieved, AllStored, RulesStay
  <2>4. ASSUME v = Desc[l].dst
        PROVE  Achieved(l)'
    <3>1. phase'[l] = "confirmDst" /\ Bound(l, Desc[l].dst)'
      BY <1>4, <1>8, <1>10, <2>2, <2>4 DEF ConfirmKind
    <3>2. QED
      BY <2>2, <2>3, <3>1 DEF Achieved
  <2>5. ASSUME v # Desc[l].dst
        PROVE  Achieved(l)'
    <3>1. phase'[l] = "confirmSrc" /\ v = Desc[l].src
      BY <1>4, <1>10, <2>2, <2>5 DEF ConfirmKind, Ends
    <3>2. Bound(l, Desc[l].src)' /\ Bound(l, Desc[l].dst)'
      BY <1>2, <1>4, <1>8, <3>1 DEF SrcAfterDst
    <3>3. QED
      BY <2>2, <2>3, <3>1, <3>2 DEF Achieved
  <2>6. Achieved(l)'
    BY <2>4, <2>5
  <2>7. QED
    BY <1>1, <1>5, <1>6, <1>7, <1>8, <1>9, <2>6, QuietFrame
<1>11. CASE Unmoved(l)
  BY <1>1, <1>5, <1>6, <1>7, <1>8, <1>9, <1>11, QuietFrame
<1>12. QED
  BY <1>9, <1>10, <1>11

LEMMA CleanupQuiet ==
    ASSUME Inv, QuietInv, NEW v \in Visors, Cleanup(v)
    PROVE  QuietInv'
<1>1. /\ table' = [table EXCEPT ![v] = Served[v]]
      /\ UNCHANGED <<live, nextID, ports, loops, phase, await, bad, ids, gen, lport, dial, msgs,
                     confirming, closings, events>>
  BY DEF Cleanup, setupVars
<1>2. VisorTypes /\ PortInv
  BY DEF Inv, QuietInv
<1>3. Keeps
  BY <1>1 DEF Keeps
<1>4. RulesStay
  <2>1. SUFFICES ASSUME NEW l \in Loops, Generated(l), NEW w \in Visors, StoredAt(l, w)
                 PROVE  StoredAt(l, w)'
    BY DEF RulesStay
  <2>2. ASSUME NEW s \in gen[l].rules[w]
        PROVE  \E r \in table'[w] : Alike(r, s)
    <3>1. PICK r \in table[w] : Alike(r, s)
      BY <2>1, <2>2 DEF StoredAt
    <3>2. s.key \in Els(ids[l][w])
      BY <2>1, <2>2, GeneratedKeys
    <3>3. s.key \in live[w]
      BY <1>2, <3>2 DEF PortInv
    <3>4. r.key = s.key
      BY <3>1 DEF Alike
    <3>5. r \in Served[w]
      BY <3>1, <3>3, <3>4 DEF Served
    <3>6. r \in table'[w]
      BY <1>1, <1>2, <3>1, <3>5 DEF VisorTypes
    <3>7. QED
      BY <3>1, <3>6
  <2>3. QED
    BY <1>1, <2>2 DEF StoredAt
<1>5. PortInv'
  BY <1>1, <1>2, PortFrame
<1>6. SrcAfterDst' /\ LoopsStay
  BY <1>1, LoopsFrame DEF QuietInv
<1>7. \A k \in Loops : Unmoved(k)
  BY <1>1 DEF Unmoved
<1>8. QED
  BY <1>1, <1>3, <1>4, <1>5, <1>6, <1>7, QuietFrame

\* A new loop gets a port that no loop of the visor has.
LEMMA RequestLoopQuiet ==
    ASSUME Inv, QuietInv, NEW l \in Loops, RequestLoop(l)
    PROVE  QuietInv'
<1>1. PICK v, p : /\ v = Desc[l].src
                  /\ p = CHOOSE x \in DynamicPorts \ ports[v] :
                           \A y \in DynamicPorts \ ports[v] : x <= y
  OBVIOUS
<1>2. /\ phase[l] = "idle" /\ DynamicPorts \ ports[v] # {}
      /\ lport' = [lport EXCEPT ![l] = p]
      /\ ports' = [ports EXCEPT ![v] = @ \cup {p}]
      /\ loops' = [loops EXCEPT ![v] = SetLoop(@, p, Desc[l].dst, Desc[l].rport, NoLoop)]
      /\ UNCHANGED <<table, live, nextID, bad, ids, gen, confirming, closings, events>>
  BY <1>1 DEF RequestLoop
<1>3. \/ /\ phase' = [phase EXCEPT ![l] = "failed"]
         /\ dial' = [dial EXCEPT ![l] = "err"]
         /\ UNCHANGED <<await, msgs>>
      \/ /\ phase' = [phase EXCEPT ![l] = "reserve"]
         /\ dial' = [dial EXCEPT ![l] = "wait"]
         /\ await' = [await EXCEPT ![l] = Path(l)]
         /\ msgs' = msgs \cup Requests("reserve", l, Path(l))
  BY <1>1 DEF RequestLoop
<1>4. VisorTypes /\ SetupTypes /\ PlaceInv /\ PortInv
  BY DEF Inv, QuietInv
<1>5. \A k \in Loops : Desc[k].src \in Visors /\ Desc[k].dst \in Visors /\ Ends(k) \subseteq Visors
  BY LoopAssumption DEF Ends
<1>6. p \in DynamicPorts \ ports[v]
  <2>1. PICK free : free = DynamicPorts \ ports[v]
    OBVIOUS
  <2>2. DynamicPorts \subseteq Nat
    BY LoopAssumption
  <2>3. free \in SUBSET Nat /\ free # {}
    BY <1>2, <2>1, <2>2
  <2>4. \E k \in free : \A q \in free : k <= q
    BY <2>3, LeastNat
  <2>5. QED
    BY <1>1, <2>1, <2>4
<1>7. v \in Visors /\ p # NoPort
  BY <1>1, <1>5, <1>6, LoopAssumption DEF NoPort
<1>8. lport'[l] = p /\ \A k \in Loops : k # l => lport'[k] = lport[k]
  BY <1>2, <1>4 DEF SetupTypes
<1>9. /\ phase'[l] \in {"failed", "reserve"} /\ dial'[l] \in {"err", "wait"}
      /\ \A k \in Loops : k # l => /\ phase'[k] = phase[k] /\ dial'[k] = dial[k]
                                   /\ await'[k] = await[k]
  BY <1>3, <1>4 DEF SetupTypes
<1>10. Keeps
  <2>1. ~Generated(l)
    BY <1>2 DEF Inv, GenInv
  <2>2. QED
    BY <1>2, <1>8, <2>1 DEF Keeps
<1>11. \A w \in Visors : /\ loops[w] \subseteq loops'[w]
                         /\ \A e \in loops'[w] : e \in loops[w] \/ e.to = NoVisor
  <2>1. \A e \in loops[v] : e.lport # p
    BY <1>4, <1>6, <1>7 DEF PlaceInv
  <2>2. /\ loops[v] \subseteq SetLoop(loops[v], p, Desc[l].dst, Desc[l].rport, NoLoop)
        /\ \A e \in SetLoop(loops[v], p, Desc[l].dst, Desc[l].rport, NoLoop) :
             e \in loops[v] \/ e.to = NoVisor
    BY <2>1 DEF SetLoop, RemoveLoop, NoLoop
  <2>3. QED
    BY <1>2, <1>4, <1>7, <2>2 DEF VisorTypes
<1>12. ASSUME NEW k \in Loops, k # l, NEW w \in Visors
       PROVE  Bound(k, w)' <=> Bound(k, w)
  <2>1. /\ LocalPort(k, w)' = LocalPort(k, w) /\ RemotePort(k, w)' = RemotePort(k, w)
        /\ RemotePK(k, w)' = RemotePK(k, w)
    BY <1>8, <1>12 DEF LocalPort, RemotePort, RemotePK
  <2>2. Confirmed(k, w)' = Confirmed(k, w)
    BY <1>11, <1>12, <2>1 DEF Confirmed
  <2>3. QED
    BY <2>2 DEF Bound
<1>13. ~Bound(l, v)'
  <2>1. SUFFICES ASSUME NEW e \in Confirmed(l, v)'
                 PROVE  FALSE
    BY DEF Bound
  <2>2. e \in loops'[v] /\ e.to # NoVisor /\ e.lport = LocalPort(l, v)'
    BY <2>1 DEF Confirmed
  <2>3. e \in loops[v]
    BY <1>7, <1>11, <2>2
  <2>4. e.lport = p
    BY <1>1, <1>8, <2>2 DEF LocalPort
  <2>5. QED
    BY <1>4, <1>6, <1>7, <2>3, <2>4 DEF PlaceInv
<1>14. SrcAfterDst'
  BY <1>1, <1>5, <1>12, <1>13 DEF SrcAfterDst, QuietInv
<1>15. LoopsStay
  <2>1. ~Generated(l)
    BY <1>2 DEF Inv, GenInv
  <2>2. QED
    BY <1>5, <1>12, <2>1 DEF LoopsStay
<1>16. RulesStay
  BY <1>2 DEF RulesStay, StoredAt
<1>17. PortInv'
  <2>1. \A w \in Visors : ports[w] \subseteq ports'[w] /\ (w = v => p \in ports'[w])
    BY <1>2, <1>4 DEF VisorTypes
  <2>2. ASSUME NEW k \in Loops
        PROVE  IF phase'[k] = "idle" THEN lport'[k] = NoPort
                                     ELSE lport'[k] \in ports'[Desc[k].src] \cap DynamicPorts
    <3>1. CASE k = l
      BY <1>1, <1>6, <1>7, <1>8, <1>9, <2>1, <3>1
    <3>2. CASE k # l
      BY <1>4, <1>5, <1>8, <1>9, <2>1, <3>2 DEF PortInv
    <3>3. QED
      BY <3>1, <3>2
  <2>3. ASSUME NEW k \in Loops, k # l, Desc[k].src = v
        PROVE  lport[k] # p
    BY <1>4, <1>6, <1>7, <2>3 DEF PortInv
  <2>4. ASSUME NEW k \in Loops, NEW m \in Loops, k # m, Desc[k].src = Desc[m].src,
               lport'[k] = lport'[m]
        PROVE  lport'[k] = NoPort
    <3>1. k # l /\ m # l
      BY <1>1, <1>8, <2>3, <2>4
    <3>2. QED
      BY <1>4, <1>8, <2>4, <3>1 DEF PortInv
  <2>5. /\ events' = 0 /\ closings' = {}
        /\ \A k \in Loops, w \in Visors : Els(ids'[k][w]) \subseteq live'[w]
    BY <1>2, <1>4 DEF PortInv
  <2>6. QED
    BY <2>2, <2>4, <2>5 DEF PortInv
<1>18. Achieved(l)'
  BY <1>9 DEF Achieved
<1>19. \A k \in Loops : k # l => Unmoved(k)
  BY <1>2, <1>9 DEF Unmoved
<1>20. \A m \in msgs' : m \in msgs \/ Asked(m)'
  <2>1. \A m \in Requests("reserve", l, Path(l)) : m.kind = "reserve"
    BY DEF Requests
  <2>2. QED
    BY <1>3, <2>1 DEF Asked
<1>21. QED
  BY <1>2, <1>10, <1>14, <1>15, <1>16, <1>17, <1>18, <1>19, <1>20, QuietFrame

LEMMA NextQuiet ==
    ASSUME MaxEvents = 0, DialsServedPorts, Inv, QuietInv, [Next]_vars
    PROVE  QuietInv'
<1>1. CASE UNCHANGED vars
  <2>1. UNCHANGED <<visorVars, lport, ids, gen, events, closings, confirming, phase, await, bad,
                    dial, msgs>>
    BY <1>1 DEF vars, setupVars
  <2>2. (\A l \in Loops : Unmoved(l)) /\ Keeps
    BY <2>1 DEF Unmoved, Keeps
  <2>3. QED
    BY <2>1, <2>2, QuietSetup
<1>2. ASSUME NEW l \in Loops,
             RequestLoop(l) \/ DialTimeout(l) \/ DialReply(l) \/ SetupStep(l)
      PROVE  QuietInv'
  BY <1>2, RequestLoopQuiet, SetupStepQuiet
<1>3. events = 0 /\ closings = {} /\ ~(events < MaxEvents)
  BY DEF QuietInv, PortInv
<1>4. ASSUME NEW l \in Loops, NEW v \in Visors, GiveUp(l, v) \/ VisorStep(l, v) \/ CloseLoop(l, v)
      PROVE  QuietInv'
  <2>1. ~CloseLoop(l, v)
    BY <1>3 DEF CloseLoop
  <2>2. QED
    BY <1>4, <2>1, GiveUpQuiet, OccupyRouteIDQuiet, SetRoutingRulesQuiet, ConfirmLoopQuiet,
       ConfirmLoopFailsQuiet DEF VisorStep
<1>5. ASSUME NEW c \in confirming, ConfirmLoopSet(c)
      PROVE  QuietInv'
  BY <1>5, ConfirmLoopSetQuiet
<1>6. ASSUME NEW v \in Visors, Restart(v) \/ Cleanup(v)
      PROVE  QuietInv'
  <2>1. ~Restart(v)
    BY <1>3 DEF Restart
  <2>2. QED
    BY <1>6, <2>1, CleanupQuiet
<1>7. QED
  BY <1>1, <1>2, <1>3, <1>4, <1>5, <1>6 DEF Next

LEMMA InitQuiet == Init => QuietInv
<1>1. SUFFICES ASSUME Init
               PROVE  QuietInv
  OBVIOUS
<1>2. Inv
  BY <1>1, InitInv
<1>3. \A l \in Loops, v \in Visors : Els(ids[l][v]) \subseteq live[v]
  <2>1. ASSUME NEW l \in Loops, NEW v \in Visors
        PROVE  Els(ids[l][v]) = {}
    <3>1. ids[l][v] = <<>>
      BY <1>1 DEF Init
    <3>2. QED
      BY <3>1 DEF Els
  <2>2. QED
    BY <2>1
<1>4. PortInv
  BY <1>1, <1>3 DEF Init, PortInv
<1>5. \A l \in Loops : Desc[l].src \in Visors
  BY LoopAssumption
<1>6. SrcAfterDst
  BY <1>1, <1>5 DEF Init, SrcAfterDst, Bound, Confirmed
<1>7. \A l \in Loops : Achieved(l)
  BY <1>1 DEF Init, Achieved
<1>8. QED
  BY <1>1, <1>4, <1>6, <1>7 DEF Init, QuietInv

LEMMA QuietResponderFirst ==
    ASSUME QuietInv
    PROVE  ResponderFirst
BY DEF QuietInv, SrcAfterDst, Bound, ResponderFirst

\* A packet anywhere on a way whose rules are there gets to its end, and stays.
LEMMA TravelArrives ==
    ASSUME MaxHops \in Nat, NEW n \in Nat, n <= MaxHops, NEW h \in [0..n -> Positions], NEW tbl,
           \A i \in 0..n : UniqueKeys(tbl[h[i].visor]),
           \A i \in 0..(n - 1) : \E r \in tbl[h[i].visor] :
             /\ r.type = "fwd" /\ r.key = h[i].id
             /\ r.next = h[i + 1].id /\ r.to = h[i + 1].visor,
           \E r \in tbl[h[n].visor] : r.type = "app" /\ r.key = h[n].id,
           NEW k \in 0..n
    PROVE  Travel(tbl, h[k])[MaxHops] = h[n]
<1>1. ASSUME NEW i \in 0..(n - 1)
      PROVE  Forwarded(tbl, h[i]) = h[i + 1]
  <2>1. i \in 0..n /\ i + 1 \in 0..n
    OBVIOUS
  <2>2. PICK r \in tbl[h[i].visor] : /\ r.type = "fwd" /\ r.key = h[i].id
                                     /\ r.next = h[i + 1].id /\ r.to = h[i + 1].visor
    OBVIOUS
  <2>3. h[i + 1] = [visor |-> h[i + 1].visor, id |-> h[i + 1].id] /\ h[i + 1].visor \in Visors
    BY <2>1 DEF Positions
  <2>4. PICK fwd : fwd = {x \in RulesAt(tbl, h[i]) : x.type = "fwd" /\ x.to \in Visors}
    OBVIOUS
  <2>5. fwd = {r}
    BY <2>1, <2>2, <2>3, <2>4 DEF RulesAt, UniqueKeys
  <2>6. PICK x : x = CHOOSE y \in fwd : TRUE
    OBVIOUS
  <2>7. x = r /\ fwd # {}
    BY <2>5, <2>6
  <2>8. Forwarded(tbl, h[i]) = [visor |-> x.to, id |-> x.next]
    BY <2>4, <2>6, <2>7 DEF Forwarded
  <2>9. QED
    BY <2>2, <2>3, <2>7, <2>8
<1>2. Forwarded(tbl, h[n]) = h[n]
  <2>1. PICK r \in tbl[h[n].visor] : r.type = "app" /\ r.key = h[n].id
    OBVIOUS
  <2>2. n \in 0..n
    OBVIOUS
  <2>3. {x \in RulesAt(tbl, h[n]) : x.type = "fwd" /\ x.to \in Visors} = {}
    BY <2>1, <2>2 DEF RulesAt, UniqueKeys
  <2>4. QED
    BY <2>3 DEF Forwarded
<1>3. PICK S : S = {h[i] : i \in 0..n}
  OBVIOUS
<1>4. \A q \in S : Forwarded(tbl, q) \in S
  <2>1. ASSUME NEW i \in 0..n
        PROVE  Forwarded(tbl, h[i]) \in S
    <3>1. CASE i = n
      BY <1>2, <1>3, <3>1
    <3>2. CASE i # n
      <4>1. i \in 0..(n - 1) /\ i + 1 \in 0..n
        BY <3>2
      <4>2. QED
        BY <1>1, <1>3, <4>1
    <3>3. QED
      BY <3>1, <3>2
  <2>2. QED
    BY <1>3, <2>1
<1>5. PICK t : t = Travel(tbl, h[k])
  OBVIOUS
<1>6. t[0] = h[k] /\ \A j \in 1..MaxHops : t[j] = Forwarded(tbl, t[j - 1])
  <2>1. PICK p \in S : p = h[k]
    BY <1>3
  <2>2. /\ Travel(tbl, p)[0] = p
        /\ \A j \in 1..MaxHops : Travel(tbl, p)[j] = Forwarded(tbl, Travel(tbl, p)[j - 1])
    BY <1>4, TravelStays
  <2>3. QED
    BY <1>5, <2>1, <2>2
<1> DEFINE T == {j \in 0..MaxHops : t[j] = IF k + j <= n THEN h[k + j] ELSE h[n]}
<1>7. 0 \in T
  BY <1>6
<1>8. ASSUME NEW j \in 0..(MaxHops - 1), j \in T
      PROVE  j + 1 \in T
  <2>1. j + 1 \in 1..MaxHops /\ (j + 1) - 1 = j /\ j \in Nat /\ k \in Nat
    OBVIOUS
  <2>2. t[j + 1] = Forwarded(tbl, t[j])
    BY <1>6, <2>1
  <2>3. CASE k + j < n
    <3>1. k + j \in 0..(n - 1) /\ k + (j + 1) = (k + j) + 1 /\ k + (j + 1) <= n /\ k + j <= n
      BY <2>1, <2>3
    <3>2. Forwarded(tbl, h[k + j]) = h[(k + j) + 1]
      BY <1>1, <3>1
    <3>3. t[j + 1] = h[k + (j + 1)]
      BY <1>8, <2>2, <3>1, <3>2
    <3>4. QED
      BY <2>1, <3>1, <3>3
  <2>4. CASE k + j >= n
    <3>1. t[j] = h[n]
      <4>1. k + j <= n => k + j = n
        BY <2>1, <2>4
      <4>2. t[j] = IF k + j <= n THEN h[k + j] ELSE h[n]
        BY <1>8
      <4>3. QED
        BY <4>1, <4>2
    <3>2. t[j + 1] = h[n] /\ ~(k + (j + 1) <= n)
      BY <1>2, <2>1, <2>2, <2>4, <3>1
    <3>3. QED
      BY <2>1, <3>2
  <2>5. QED
    BY <2>1, <2>3, <2>4
<1>9. \A j \in 0..MaxHops : j \in T
  <2> HIDE DEF T
  <2>1. QED
    BY <1>7, <1>8, InductionTo
<1>10. MaxHops \in 0..MaxHops /\ (k + MaxHops <= n => k + MaxHops = n)
  OBVIOUS
<1>11. QED
  BY <1>5, <1>9, <1>10

\* The port of a loop that is confirmed leads onto the way of that loop.
LEMMA ConfirmedEntry ==
    ASSUME Inv, QuietInv, DialsServedPorts, NEW l \in Loops, NEW v \in Ends(l),
           NEW e \in Confirmed(l, v)
    PROVE  EntryOf(l, v, e)
<1>1. v \in Visors /\ Desc[l].src # Desc[l].dst /\ Desc[l].src \in Visors
  BY LoopAssumption DEF Ends
<1>2. /\ e \in loops[v] /\ e.to # NoVisor /\ e.lport = LocalPort(l, v)
      /\ e.remote = RemotePK(l, v) /\ e.rport = RemotePort(l, v)
  BY DEF Confirmed
<1>3. e.to \in Visors /\ e.lport \in ports[v] /\ e.lport # NoPort
  <2>1. e \in LoopEntries
    BY <1>1, <1>2 DEF Inv, VisorTypes
  <2>2. e.to \in Visors \cup {NoVisor} /\ e.lport \in Ports
    BY <2>1 DEF LoopEntries
  <2>3. 0 \notin Ports
    BY LoopAssumption DEF Ports
  <2>4. e.lport \in ports[v]
    BY <1>1, <1>2 DEF Inv, PlaceInv
  <2>5. QED
    BY <1>2, <2>2, <2>3, <2>4 DEF NoPort
<1>4. PICK m \in Loops : EntryOf(m, v, e)
  BY <1>1, <1>2, <1>3 DEF Inv, EntryInv
<1>5. /\ Generated(m) /\ v \in Ends(m) /\ e.lport = LocalPort(m, v)
      /\ e.remote = RemotePK(m, v) /\ e.rport = RemotePort(m, v)
  BY <1>4 DEF EntryOf
<1>6. \A k \in Loops : lport[k] # NoPort => lport[k] \in DynamicPorts
  BY DEF QuietInv, PortInv
<1>7. CASE v = Desc[l].src
  <2>1. e.lport = lport[l]
    BY <1>2, <1>7 DEF LocalPort
  <2>2. v = Desc[m].src
    BY <1>3, <1>5, <1>6, <2>1 DEF LocalPort, Ends, DialsServedPorts
  <2>3. lport[m] = lport[l]
    BY <1>5, <2>1, <2>2 DEF LocalPort
  <2>4. QED
    BY <1>3, <1>4, <1>7, <2>1, <2>2, <2>3 DEF QuietInv, PortInv
<1>8. CASE v # Desc[l].src
  <2>1. e.lport = Desc[l].rport /\ e.remote = Desc[l].src /\ e.rport = lport[l]
    BY <1>2, <1>8 DEF LocalPort, RemotePK, RemotePort
  <2>2. v # Desc[m].src
    BY <1>3, <1>5, <1>6, <2>1 DEF LocalPort, DialsServedPorts
  <2>3. Desc[m].src = Desc[l].src /\ lport[m] = lport[l]
    BY <1>5, <2>1, <2>2 DEF RemotePK, RemotePort
  <2>4. lport[m] # NoPort
    <3>1. phase[m] # "idle"
      BY <1>5 DEF Inv, GenInv
    <3>2. lport[m] \in DynamicPorts
      BY <3>1 DEF QuietInv, PortInv
    <3>3. QED
      BY <3>2, LoopAssumption DEF NoPort
  <2>5. QED
    BY <1>4, <2>3, <2>4 DEF QuietInv, PortInv
<1>9. QED
  BY <1>7, <1>8

LEMMA QuietDelivers ==
    ASSUME Inv, QuietInv, DialsServedPorts
    PROVE  CreatedLoopDelivers
<1>1. SUFFICES ASSUME NEW l \in Loops, dial[l] = "ok", NEW v \in Ends(l)
               PROVE  \E e \in Confirmed(l, v) : Consumed(Served, e.to, e.id) # {}
  BY DEF CreatedLoopDelivers
<1>2. phase[l] = "ok" /\ AllStored(l) /\ Bound(l, Desc[l].src) /\ Bound(l, Desc[l].dst)
  BY <1>1 DEF QuietInv, Achieved
<1>3. Generated(l)
  BY <1>2 DEF Inv, GenInv
<1>4. PICK e : e \in Confirmed(l, v)
  BY <1>2 DEF Bound, Ends
<1>5. [visor |-> e.to, id |-> e.id] \in Way(l, v)
  BY <1>4, ConfirmedEntry DEF EntryOf
<1>6. PICK n \in Nat : \E h \in [0..n -> Positions] :
        /\ n <= MaxHops
        /\ Way(l, v) = {h[i] : i \in 0..n}
        /\ \A i \in 0..(n - 1) :
             ForwardRule(h[i].id, h[i + 1].id, h[i + 1].visor) \in gen[l].rules[h[i].visor]
        /\ \E s \in gen[l].rules[h[n].visor] : s.type = "app" /\ s.key = h[n].id
  BY <1>3, WayRules
<1>7. PICK h \in [0..n -> Positions] :
        /\ n <= MaxHops
        /\ Way(l, v) = {h[i] : i \in 0..n}
        /\ \A i \in 0..(n - 1) :
             ForwardRule(h[i].id, h[i + 1].id, h[i + 1].visor) \in gen[l].rules[h[i].visor]
        /\ \E s \in gen[l].rules[h[n].visor] : s.type = "app" /\ s.key = h[n].id
  BY <1>6
<1>8. PICK k \in 0..n : h[k] = [visor |-> e.to, id |-> e.id]
  BY <1>5, <1>7
<1>9. ASSUME NEW w \in Visors, NEW s \in gen[l].rules[w]
      PROVE  \E r \in Served[w] : Alike(r, s)
  <2>1. PICK r \in table[w] : Alike(r, s)
    BY <1>2, <1>9 DEF AllStored, StoredAt
  <2>2. s.key \in Els(ids[l][w])
    BY <1>3, <1>9, GeneratedKeys
  <2>3. r.key \in live[w]
    BY <2>1, <2>2 DEF QuietInv, PortInv, Alike
  <2>4. QED
    BY <2>1, <2>3 DEF Served
<1>10. PICK tbl : tbl = Served
  OBVIOUS
<1>11. \A i \in 0..n : h[i].visor \in Visors
  BY DEF Positions
<1>12. \A i \in 0..n : UniqueKeys(tbl[h[i].visor])
  BY <1>10, <1>11 DEF Inv, PlaceInv, UniqueKeys, Served
<1>13. ASSUME NEW i \in 0..(n - 1)
       PROVE  \E r \in tbl[h[i].visor] : /\ r.type = "fwd" /\ r.key = h[i].id
                                         /\ r.next = h[i + 1].id /\ r.to = h[i + 1].visor
  <2>1. PICK s : s = ForwardRule(h[i].id, h[i + 1].id, h[i + 1].visor)
    OBVIOUS
  <2>2. /\ s \in gen[l].rules[h[i].visor] /\ s.type = "fwd" /\ s.key = h[i].id
        /\ s.next = h[i + 1].id /\ s.to = h[i + 1].visor
    BY <1>7, <2>1 DEF ForwardRule
  <2>3. h[i].visor \in Visors
    BY <1>11
  <2>4. PICK r \in tbl[h[i].visor] : Alike(r, s)
    BY <1>9, <1>10, <2>2, <2>3
  <2>5. QED
    BY <2>2, <2>4 DEF Alike
<1>14. PICK r \in tbl[h[n].visor] : r.type = "app" /\ r.key = h[n].id
  <2>1. PICK s \in gen[l].rules[h[n].visor] : s.type = "app" /\ s.key = h[n].id
    BY <1>7
  <2>2. h[n].visor \in Visors
    BY <1>11
  <2>3. PICK x \in tbl[h[n].visor] : Alike(x, s)
    BY <1>9, <1>10, <2>1, <2>2
  <2>4. QED
    BY <2>1, <2>3 DEF Alike
<1>15. Travel(tbl, h[k])[MaxHops] = h[n]
  <2>1. MaxHops \in Nat
    BY LoopAssumption
  <2>2. QED
    BY <1>7, <1>12, <1>13, <1>14, <2>1, TravelArrives
<1>16. [visor |-> h[n].visor, rule |-> r] \in Consumed(tbl, e.to, e.id)
  BY <1>8, <1>14, <1>15 DEF Consumed, RulesAt
<1>17. QED
  BY <1>4, <1>10, <1>16

\* The initiating router takes a loop for confirmed only when the responding one has
\* (handleCreateLoop confirms with the destination first), whatever setups run side by
\* side, fail, time out or are confirmed late.  It is proved for runs without closes and
\* restarts: with a close, a confirmation of an earlier loop that comes late can confirm
\* a new one on the same ports at the source.
THEOREM ResponderConfirmsFirst ==
    ASSUME MaxEvents = 0, DialsServedPorts
    PROVE  Spec => []ResponderFirst
<1>1. Init => Inv /\ QuietInv
  BY InitInv, InitQuiet
<1>2. Inv /\ QuietInv /\ [Next]_vars => Inv' /\ QuietInv'
  BY NextInv, NextQuiet
<1>3. QuietInv => ResponderFirst
  BY QuietResponderFirst
<1>4. QED
  BY <1>1, <1>2, <1>3, PTL DEF Spec

\* A loop that Dial returned carries packets both ways, over routes of any length with
\* visors in common, whatever other setups do to the tables on the way: no setup takes
\* away or replaces a rule of another, and Cleanup takes none that is in use.
THEOREM DialledLoopsDeliver ==
    ASSUME MaxEvents = 0, DialsServedPorts
    PROVE  Spec => []CreatedLoopDelivers
<1>1. Init => Inv /\ QuietInv
  BY InitInv, InitQuiet
<1>2. Inv /\ QuietInv /\ [Next]_vars => Inv' /\ QuietInv'
  BY NextInv, NextQuiet
<1>3. Inv /\ QuietInv => CreatedLoopDelivers
  BY QuietDelivers
<1>4. QED
  BY <1>1, <1>2, <1>3, PTL DEF Spec

-----------------------------------------------------------------------------
(* The setup node asks for as many ids as it needs.                        *)

\* The places of the first n hops of a route at which visor v is passed.
Visits(route, n, v) == {i \in 0..n : VisorAt(route, i) = v}

LEMMA VisitsFacts ==
    ASSUME NEW route, NEW v, NEW n \in Nat
    PROVE  /\ IsFiniteSet(Visits(route, n, v))
           /\ Cardinality(Visits(route, n, v)) \in Nat
           /\ Cardinality(Visits(route, n, v)) <= n + 1
           /\ \A m \in 0..n : Cardinality(Visits(route, m, v)) <= Cardinality(Visits(route, n, v))
<1>1. IsFiniteSet(0..n) /\ Cardinality(0..n) = n + 1
  BY FS_Interval
<1>2. Visits(route, n, v) \in SUBSET (0..n)
  BY DEF Visits
<1>3. IsFiniteSet(Visits(route, n, v)) /\ Cardinality(Visits(route, n, v)) <= n + 1
  BY <1>1, <1>2, FS_Subset
<1>4. Cardinality(Visits(route, n, v)) \in Nat
  BY <1>3, FS_CardinalityType
<1>5. ASSUME NEW m \in 0..n
      PROVE  Cardinality(Visits(route, m, v)) <= Cardinality(Visits(route, n, v))
  <2>1. Visits(route, m, v) \in SUBSET Visits(route, n, v)
    BY DEF Visits
  <2>2. QED
    BY <1>3, <2>1, FS_Subset
<1>6. QED
  BY <1>3, <1>4, <1>5

\* One more hop is one more visit of the visor it leads to.
LEMMA VisitsStep ==
    ASSUME NEW route, NEW v, NEW n \in Nat
    PROVE  /\ VisorAt(route, n + 1) = v =>
                /\ Visits(route, n + 1, v) = Visits(route, n, v) \cup {n + 1}
                /\ Cardinality(Visits(route, n + 1, v)) = Cardinality(Visits(route, n, v)) + 1
           /\ VisorAt(route, n + 1) # v => Visits(route, n + 1, v) = Visits(route, n, v)
<1>1. \A i \in 0..(n + 1) : i \in 0..n \/ i = n + 1
  OBVIOUS
<1>2. n + 1 \notin Visits(route, n, v) /\ \A i \in 0..n : i \in 0..(n + 1)
  BY DEF Visits
<1>3. VisorAt(route, n + 1) # v => Visits(route, n + 1, v) = Visits(route, n, v)
  BY <1>1, <1>2 DEF Visits
<1>4. ASSUME VisorAt(route, n + 1) = v
      PROVE  Visits(route, n + 1, v) = Visits(route, n, v) \cup {n + 1}
  BY <1>1, <1>2, <1>4 DEF Visits
<1>5. Cardinality(Visits(route, n, v) \cup {n + 1}) = Cardinality(Visits(route, n, v)) + 1
  BY <1>2, VisitsFacts, FS_AddElement
<1>6. QED
  BY <1>3, <1>4, <1>5

\* PopID takes one id of v, when it has one, and none of any other visor.
LEMMA PopCounts ==
    ASSUME NEW st \in States, NEW v \in Visors, st.ok, st.ids[v] # <<>>,
           NEW p, p = PopID(st, v)
    PROVE  /\ p.ok
           /\ Len(p.ids[v]) = Len(st.ids[v]) - 1
           /\ Els(st.ids[v]) = {p.rid} \cup Els(p.ids[v])
           /\ \A w \in Visors : w # v => p.ids[w] = st.ids[w]
<1>1. st.ids \in Reservoirs
  BY DEF States
<1>2. st.ids[v] \in Seq(Nat)
  BY <1>1 DEF Reservoirs
<1>3. p.ok /\ p.rid = Head(st.ids[v]) /\ p.ids = [st.ids EXCEPT ![v] = Tail(st.ids[v])]
  BY PopFields
<1>4. p.ids[v] = Tail(st.ids[v]) /\ \A w \in Visors : w # v => p.ids[w] = st.ids[w]
  BY <1>1, <1>3 DEF Reservoirs
<1>5. Len(Tail(st.ids[v])) = Len(st.ids[v]) - 1
  BY <1>2
<1>6. Els(st.ids[v]) = {p.rid} \cup Els(Tail(st.ids[v]))
  BY <1>2, <1>3, TailFacts
<1>7. QED
  BY <1>3, <1>4, <1>5, <1>6

\* With an id for every visit, n hops find all they need, and what they leave of the
\* reservoir lacks the ids they popped and nothing else.
Spent(st, s, route, n) ==
    /\ s[n].ok
    /\ \A v \in Visors :
         /\ Len(s[n].ids[v]) = Len(st.ids[v]) - Cardinality(Visits(route, n, v))
         /\ \A x \in Els(st.ids[v]) :
              x \in Els(s[n].ids[v]) \/ \E i \in Visits(route, n, v) : x = s[i].rid

LEMMA HopsSpend ==
    ASSUME NEW st \in States, NEW route \in Seq(Hops), route # <<>>, st.ok,
           \A v \in Visors : Len(st.ids[v]) >= Cardinality(Visits(route, Len(route), v)),
           NEW s, s = AfterHops(st, route)
    PROVE  \A n \in 0..Len(route) : Spent(st, s, route, n)
<1> DEFINE N == Len(route)
           T == {n \in 0..N : Spent(st, s, route, n)}
<1>1. N \in Nat /\ 1 \in 1..N /\ \A i \in 0..N : VisorAt(route, i) \in Visors
  BY RouteFacts DEF VisorAt
<1>2. /\ s \in [0..N -> States]
      /\ s[0] = PopID(st, route[1].from)
      /\ \A n \in 1..N : s[n] = SaveHop(s[n - 1], route[n])
  BY AfterHopsDef
<1>3. \A n \in 1..N : route[n] \in Hops /\ VisorAt(route, n) = route[n].to
  BY <1>1, RouteFacts DEF VisorAt
<1>4. \A a \in States : \A v \in Visors : Len(a.ids[v]) \in Nat
  BY DEF States, Reservoirs
<1>5. \A v \in Visors : Len(st.ids[v]) >= Cardinality(Visits(route, N, v))
  OBVIOUS
<1> HIDE DEF N
<1>6. ASSUME NEW a \in States, NEW v \in Visors, Len(a.ids[v]) > 0
      PROVE  a.ids[v] # <<>>
  BY <1>6
<1>7. 0 \in T
  <2>1. PICK v : v = VisorAt(route, 0)
    OBVIOUS
  <2>2. v \in Visors /\ s[0] = PopID(st, v)
    BY <1>1, <1>2, <2>1 DEF VisorAt
  <2>3. \A w \in Visors : Visits(route, 0, w) = IF w = v THEN {0} ELSE {}
    <3>1. \A i \in 0..0 : i = 0
      OBVIOUS
    <3>2. QED
      BY <2>1, <3>1 DEF Visits
  <2>4. Cardinality(Visits(route, 0, v)) = 1
    BY <2>2, <2>3, FS_Singleton
  <2>5. \A w \in Visors : w # v => Cardinality(Visits(route, 0, w)) = 0
    BY <2>3, FS_EmptySet
  <2>6. st.ids[v] # <<>>
    <3>1. Cardinality(Visits(route, N, v)) \in Nat /\ 1 <= Cardinality(Visits(route, N, v))
      BY <1>1, <2>4, VisitsFacts
    <3>2. QED
      BY <1>4, <1>5, <1>6, <2>2, <3>1
  <2>7. /\ s[0].ok
        /\ Len(s[0].ids[v]) = Len(st.ids[v]) - 1
        /\ Els(st.ids[v]) = {s[0].rid} \cup Els(s[0].ids[v])
        /\ \A w \in Visors : w # v => s[0].ids[w] = st.ids[w]
    <3>1. PICK p : p = s[0]
      OBVIOUS
    <3>2. /\ p.ok
          /\ Len(p.ids[v]) = Len(st.ids[v]) - 1
          /\ Els(st.ids[v]) = {p.rid} \cup Els(p.ids[v])
          /\ \A w \in Visors : w # v => p.ids[w] = st.ids[w]
      BY <2>2, <2>6, <3>1, PopCounts
    <3>3. QED
      BY <3>1, <3>2
  <2>8. ASSUME NEW w \in Visors
        PROVE  /\ Len(s[0].ids[w]) = Len(st.ids[w]) - Cardinality(Visits(route, 0, w))
               /\ \A x \in Els(st.ids[w]) :
                    x \in Els(s[0].ids[w]) \/ \E i \in Visits(route, 0, w) : x = s[i].rid
    <3>1. CASE w = v
      BY <2>3, <2>4, <2>7, <3>1
    <3>2. CASE w # v
      <4>1. Len(st.ids[w]) \in Nat
        BY <1>4
      <4>2. QED
        BY <2>5, <2>7, <3>2, <4>1
    <3>3. QED
      BY <3>1, <3>2
  <2>9. QED
    BY <1>1, <2>7, <2>8 DEF Spent
<1>8. ASSUME NEW n \in 0..(N - 1), n \in T
      PROVE  n + 1 \in T
  <2>1. n \in Nat /\ n \in 0..N /\ n + 1 \in 1..N /\ n + 1 \in 0..N /\ (n + 1) - 1 = n
    BY <1>1
  <2>2. PICK v : v = VisorAt(route, n + 1)
    OBVIOUS
  <2>3. PICK a, b : a = s[n] /\ b = s[n + 1]
    OBVIOUS
  <2>4. v \in Visors /\ a \in States /\ b = SaveHop(a, route[n + 1])
        /\ v = route[n + 1].to /\ route[n + 1] \in Hops
    BY <1>1, <1>2, <1>3, <2>1, <2>2, <2>3
  <2>5. Spent(st, s, route, n)
    BY <1>8
  <2>6. a.ok /\ \A w \in Visors :
          /\ Len(a.ids[w]) = Len(st.ids[w]) - Cardinality(Visits(route, n, w))
          /\ \A x \in Els(st.ids[w]) :
               x \in Els(a.ids[w]) \/ \E i \in Visits(route, n, w) : x = s[i].rid
    BY <2>3, <2>5 DEF Spent
  <2>7. /\ Visits(route, n + 1, v) = Visits(route, n, v) \cup {n + 1}
        /\ Cardinality(Visits(route, n + 1, v)) = Cardinality(Visits(route, n, v)) + 1
        /\ \A w \in Visors : w # v => Visits(route, n + 1, w) = Visits(route, n, w)
    BY <2>1, <2>2, VisitsStep
  <2>8. \A w \in Visors : Cardinality(Visits(route, n, w)) \in Nat
    BY <2>1, VisitsFacts
  <2>9. a.ids[v] # <<>>
    <3>1. /\ Cardinality(Visits(route, N, v)) \in Nat
          /\ Cardinality(Visits(route, n + 1, v)) <= Cardinality(Visits(route, N, v))
      BY <1>1, <2>1, VisitsFacts
    <3>2. Len(a.ids[v]) > 0
      BY <1>4, <1>5, <2>4, <2>6, <2>7, <2>8, <3>1
    <3>3. QED
      BY <1>6, <2>4, <3>2
  <2>10. b.ids = PopID(a, v).ids /\ b.rid = PopID(a, v).rid /\ (b.ok <=> PopID(a, v).ok)
    BY <2>4, SaveHopFields
  <2>11. /\ b.ok
         /\ Len(b.ids[v]) = Len(a.ids[v]) - 1
         /\ Els(a.ids[v]) = {b.rid} \cup Els(b.ids[v])
         /\ \A w \in Visors : w # v => b.ids[w] = a.ids[w]
    <3>1. PICK p : p = PopID(a, v)
      OBVIOUS
    <3>2. /\ p.ok
          /\ Len(p.ids[v]) = Len(a.ids[v]) - 1
          /\ Els(a.ids[v]) = {p.rid} \cup Els(p.ids[v])
          /\ \A w \in Visors : w # v => p.ids[w] = a.ids[w]
      <4>1. a.ok /\ a \in States /\ v \in Visors
        BY <2>4, <2>6
      <4>2. QED
        BY <2>9, <3>1, <4>1, PopCounts
    <3>3. b.ids = p.ids /\ b.rid = p.rid /\ (b.ok <=> p.ok)
      BY <2>10, <3>1
    <3>4. QED
      BY <3>2, <3>3
  <2>12. ASSUME NEW w \in Visors
         PROVE  /\ Len(b.ids[w]) = Len(st.ids[w]) - Cardinality(Visits(route, n + 1, w))
                /\ \A x \in Els(st.ids[w]) :
                     x \in Els(b.ids[w]) \/ \E i \in Visits(route, n + 1, w) : x = s[i].rid
    <3>1. CASE w = v
      <4>1. Len(st.ids[w]) \in Nat
        BY <1>4
      <4>2. Len(b.ids[w]) = Len(st.ids[w]) - Cardinality(Visits(route, n + 1, w))
        <5>1. Len(a.ids[v]) = Len(st.ids[v]) - Cardinality(Visits(route, n, v))
          BY <2>4, <2>6
        <5>2. Len(b.ids[v]) = Len(a.ids[v]) - 1
          BY <2>11
        <5>3. Cardinality(Visits(route, n + 1, v)) = Cardinality(Visits(route, n, v)) + 1
          BY <2>7
        <5>4. Cardinality(Visits(route, n, v)) \in Nat
          BY <2>4, <2>8
        <5>5. PICK x, y, z, c : x = Len(st.ids[v]) /\ y = Len(a.ids[v]) /\ z = Len(b.ids[v])
                                /\ c = Cardinality(Visits(route, n, v))
          OBVIOUS
        <5>6. x \in Nat /\ c \in Nat /\ y = x - c /\ z = y - 1
          BY <3>1, <4>1, <5>1, <5>2, <5>4, <5>5
        <5>7. z = x - (c + 1)
          BY <5>6
        <5>8. QED
          BY <3>1, <5>3, <5>5, <5>7
      <4>3. \A x \in Els(a.ids[w]) : x \in Els(b.ids[w]) \/ x = s[n + 1].rid
        <5>1. Els(a.ids[w]) = {s[n + 1].rid} \cup Els(b.ids[w])
          BY <2>3, <2>11, <3>1
        <5>2. QED
          BY <5>1
      <4>4. QED
        BY <2>6, <2>7, <3>1, <4>2, <4>3
    <3>2. CASE w # v
      <4>1. b.ids[w] = a.ids[w] /\ Visits(route, n + 1, w) = Visits(route, n, w)
        BY <2>7, <2>11, <3>2
      <4>2. /\ Len(a.ids[w]) = Len(st.ids[w]) - Cardinality(Visits(route, n, w))
            /\ \A x \in Els(st.ids[w]) :
                 x \in Els(a.ids[w]) \/ \E i \in Visits(route, n, w) : x = s[i].rid
        BY <2>6
      <4>3. QED
        BY <4>1, <4>2
    <3>3. QED
      BY <3>1, <3>2
  <2>13. QED
    BY <2>1, <2>3, <2>11, <2>12 DEF Spent
<1>9. \A n \in 0..N : n \in T
  <2> HIDE DEF T
  <2>1. QED
    BY <1>1, <1>7, <1>8, InductionTo
<1>10. QED
  BY <1>9 DEF N

\* VisorsOn lists the visors of a route from the first, one place later.
LEMMA VisorsOnFacts ==
    ASSUME NEW route, NEW a, NEW z, IsRoute(route, a, z)
    PROVE  /\ VisorsOn(route) \in Seq(Visors)
           /\ Len(VisorsOn(route)) = Len(route) + 1
           /\ \A i \in 1..(Len(route) + 1) : VisorsOn(route)[i] = VisorAt(route, i - 1)
<1> DEFINE N == Len(route)
           q == [i \in 1..N |-> route[i].to]
<1>1. /\ route \in Seq(Hops) /\ route # <<>> /\ N \in Nat
      /\ \A i \in 1..N : route[i].from \in Visors /\ route[i].to \in Visors
      /\ 1 \in 1..N
  BY IsRouteFacts, RouteFacts
<1>2. DOMAIN route = 1..N
  BY <1>1
<1>3. VisorsOn(route) = <<route[1].from>> \o q
  BY <1>1, <1>2 DEF VisorsOn
<1>4. q \in Seq(Visors) /\ Len(q) = N /\ \A i \in 1..N : q[i] = route[i].to
  BY <1>1
<1>5. PICK p : p = <<route[1].from>>
  OBVIOUS
<1>6. p \in Seq(Visors) /\ Len(p) = 1 /\ p[1] = route[1].from
  BY <1>1, <1>5
<1> HIDE DEF q, N
<1>7. /\ p \o q \in Seq(Visors) /\ Len(p \o q) = N + 1
      /\ \A i \in 1..(N + 1) : (p \o q)[i] = IF i <= 1 THEN p[i] ELSE q[i - 1]
  <2>1. Len(p) + Len(q) = N + 1
    BY <1>1, <1>4, <1>6
  <2>2. p \in Seq(Visors) /\ q \in Seq(Visors) /\ Len(p) = 1
    BY <1>4, <1>6
  <2>3. /\ p \o q \in Seq(Visors) /\ Len(p \o q) = Len(p) + Len(q)
        /\ \A i \in 1..(Len(p) + Len(q)) :
             (p \o q)[i] = IF i <= Len(p) THEN p[i] ELSE q[i - Len(p)]
    BY <2>2, ConcatProperties, Zenon
  <2>4. QED
    BY <2>1, <2>2, <2>3, Zenon
<1>8. ASSUME NEW i \in 1..(N + 1)
      PROVE  (p \o q)[i] = VisorAt(route, i - 1)
  <2>1. CASE i = 1
    BY <1>6, <1>7, <2>1 DEF VisorAt
  <2>2. CASE i # 1
    <3>1. i - 1 \in 1..N /\ ~(i <= 1) /\ i - 1 # 0
      BY <1>1, <2>2
    <3>2. QED
      BY <1>4, <1>7, <3>1 DEF VisorAt
  <2>3. QED
    BY <2>1, <2>2
<1>9. QED
  BY <1>3, <1>5, <1>7, <1>8 DEF N

\* A function that misses nothing and joins nothing is a bijection.
LEMMA BijectionFacts ==
    ASSUME NEW S, NEW T, NEW f \in [S -> T],
           \A i, j \in S : f[i] = f[j] => i = j,
           \A t \in T : \E i \in S : f[i] = t
    PROVE  f \in Bijection(S, T)
<1>1. DOMAIN f = S
  OBVIOUS
<1>2. f \in Injection(S, T)
  BY <1>1, Zenon DEF Injection, IsInjective
<1>3. f \in Surjection(S, T)
  BY DEF Surjection
<1>4. QED
  BY <1>2, <1>3 DEF Bijection

\* Shifting a set of numbers keeps its size.
LEMMA ShiftedSet ==
    ASSUME NEW S \in SUBSET Nat, IsFiniteSet(S), NEW k \in Nat
    PROVE  /\ IsFiniteSet({i + k : i \in S})
           /\ Cardinality({i + k : i \in S}) = Cardinality(S)
<1> DEFINE T == {i + k : i \in S}
           f == [i \in S |-> i + k]
<1>1. f \in [S -> T]
  OBVIOUS
<1>2. \A i, j \in S : f[i] = f[j] => i = j
  OBVIOUS
<1>3. \A t \in T : \E i \in S : f[i] = t
  OBVIOUS
<1> HIDE DEF f, T
<1>4. f \in Bijection(S, T)
  BY <1>1, <1>2, <1>3, BijectionFacts
<1>5. ExistsBijection(S, T)
  BY <1>4 DEF ExistsBijection
<1>6. IsFiniteSet(T) /\ Cardinality(T) = Cardinality(S)
  BY <1>5, FS_Bijection
<1>7. QED
  BY <1>6 DEF T

\* newIDReservoir asks each visor for one id per visit on the two routes; the uint8 in
\* which it counts is wide enough for routes of maxHops hops.
LEMMA ReservoirCounts ==
    ASSUME NEW fwd, NEW rev, NEW a, NEW z, IsRoute(fwd, a, z), IsRoute(rev, z, a),
           Len(fwd) + Len(rev) + 2 < 256, NEW v \in Visors
    PROVE  NewIDReservoir(fwd, rev)[v] =
             Cardinality(Visits(fwd, Len(fwd), v)) + Cardinality(Visits(rev, Len(rev), v))
<1>1. PICK N, M : N = Len(fwd) /\ M = Len(rev)
  OBVIOUS
<1>2. PICK p, q : p = VisorsOn(fwd) /\ q = VisorsOn(rev)
  OBVIOUS
<1>3. /\ N \in Nat /\ M \in Nat
      /\ p \in Seq(Visors) /\ Len(p) = N + 1 /\ q \in Seq(Visors) /\ Len(q) = M + 1
      /\ \A i \in 1..(N + 1) : p[i] = VisorAt(fwd, i - 1)
      /\ \A i \in 1..(M + 1) : q[i] = VisorAt(rev, i - 1)
  BY <1>1, <1>2, IsRouteFacts, VisorsOnFacts
<1>4. PICK path : path = p \o q
  OBVIOUS
<1>5. /\ DOMAIN path = 1..(N + M + 2)
      /\ \A i \in 1..(N + 1) : path[i] = p[i]
      /\ \A i \in 1..(M + 1) : path[i + (N + 1)] = q[i]
  <2>1. /\ path \in Seq(Visors) /\ Len(path) = (N + 1) + (M + 1)
        /\ \A i \in 1..((N + 1) + (M + 1)) :
             path[i] = IF i <= N + 1 THEN p[i] ELSE q[i - (N + 1)]
    <3>1. p \in Seq(Visors) /\ q \in Seq(Visors) /\ Len(p) = N + 1 /\ Len(q) = M + 1
      BY <1>3
    <3>2. /\ p \o q \in Seq(Visors) /\ Len(p \o q) = Len(p) + Len(q)
          /\ \A i \in 1..(Len(p) + Len(q)) :
               (p \o q)[i] = IF i <= Len(p) THEN p[i] ELSE q[i - Len(p)]
      BY <3>1, ConcatProperties, Zenon
    <3>3. QED
      BY <1>4, <3>1, <3>2, Zenon
  <2>2. DOMAIN path = 1..Len(path)
    BY <2>1
  <2>3. QED
    BY <1>3, <2>1, <2>2
<1>6. PICK A, B : A = Visits(fwd, N, v) /\ B = Visits(rev, M, v)
  OBVIOUS
<1>7. /\ IsFiniteSet(A) /\ Cardinality(A) \in Nat /\ Cardinality(A) <= N + 1
      /\ IsFiniteSet(B) /\ Cardinality(B) \in Nat /\ Cardinality(B) <= M + 1
      /\ A \in SUBSET Nat /\ B \in SUBSET Nat
  <2>1. A \in SUBSET Nat /\ B \in SUBSET Nat
    BY <1>6 DEF Visits
  <2>2. QED
    BY <1>3, <1>6, <2>1, VisitsFacts
<1> DEFINE SA == {i + 1 : i \in A}
           SB == {i + (N + 2) : i \in B}
<1>8. {i \in DOMAIN path : path[i] = v} = SA \cup SB
  <2>1. ASSUME NEW i \in DOMAIN path, path[i] = v
        PROVE  i \in SA \cup SB
    <3>1. CASE i <= N + 1
      <4>1. i \in 1..(N + 1) /\ i - 1 \in 0..N /\ i = (i - 1) + 1
        BY <1>3, <1>5, <3>1
      <4>2. VisorAt(fwd, i - 1) = v
        BY <1>3, <1>5, <2>1, <4>1
      <4>3. i - 1 \in A
        BY <1>6, <4>1, <4>2 DEF Visits
      <4>4. QED
        BY <4>1, <4>3
    <3>2. CASE ~(i <= N + 1)
      <4>1. PICK j : j = i - (N + 1)
        OBVIOUS
      <4>2. j \in 1..(M + 1) /\ j - 1 \in 0..M /\ i = j + (N + 1) /\ i = (j - 1) + (N + 2)
        <5>1. N \in Nat /\ M \in Nat /\ i \in 1..(N + M + 2)
          BY <1>3, <1>5
        <5>2. QED
          BY <3>2, <4>1, <5>1
      <4>3. VisorAt(rev, j - 1) = v
        BY <1>3, <1>5, <2>1, <4>2
      <4>4. j - 1 \in B
        BY <1>6, <4>2, <4>3 DEF Visits
      <4>5. QED
        BY <4>2, <4>4
    <3>3. QED
      BY <3>1, <3>2
  <2>2. ASSUME NEW i \in A
        PROVE  i + 1 \in DOMAIN path /\ path[i + 1] = v
    <3>1. i \in 0..N /\ VisorAt(fwd, i) = v
      BY <1>6 DEF Visits
    <3>2. i + 1 \in 1..(N + 1) /\ (i + 1) - 1 = i /\ i + 1 \in 1..(N + M + 2)
      BY <1>3, <3>1
    <3>3. QED
      BY <1>3, <1>5, <3>1, <3>2
  <2>3. ASSUME NEW i \in B
        PROVE  i + (N + 2) \in DOMAIN path /\ path[i + (N + 2)] = v
    <3>1. i \in 0..M /\ VisorAt(rev, i) = v
      BY <1>6 DEF Visits
    <3>2. /\ i + 1 \in 1..(M + 1) /\ (i + 1) - 1 = i /\ i + (N + 2) \in 1..(N + M + 2)
          /\ i + (N + 2) = (i + 1) + (N + 1)
      BY <1>3, <3>1
    <3>3. path[(i + 1) + (N + 1)] = q[i + 1] /\ q[i + 1] = VisorAt(rev, i)
      BY <1>3, <1>5, <3>2
    <3>4. QED
      BY <1>5, <3>1, <3>2, <3>3
  <2>4. QED
    BY <2>1, <2>2, <2>3
<1>9. SA \cap SB = {}
  <2>1. ASSUME NEW i \in A, NEW j \in B
        PROVE  i + 1 # j + (N + 2)
    <3>1. i \in 0..N /\ j \in 0..M
      BY <1>6 DEF Visits
    <3>2. QED
      BY <1>3, <3>1
  <2>2. QED
    BY <2>1
<1>10. /\ IsFiniteSet(SA) /\ Cardinality(SA) = Cardinality(A)
       /\ IsFiniteSet(SB) /\ Cardinality(SB) = Cardinality(B)
  <2>1. N + 2 \in Nat
    BY <1>3
  <2>2. QED
    BY <1>7, <2>1, ShiftedSet
<1> HIDE DEF SA, SB
<1>11. Cardinality(SA \cup SB) = Cardinality(A) + Cardinality(B)
  <2>1. Cardinality(SA \cup SB) = Cardinality(SA) + Cardinality(SB) - Cardinality(SA \cap SB)
    BY <1>10, FS_Union
  <2>2. Cardinality(SA \cap SB) = 0
    BY <1>9, FS_EmptySet
  <2>3. QED
    BY <1>7, <1>10, <2>1, <2>2
<1>12. NewIDReservoir(fwd, rev)[v] = Cardinality(SA \cup SB) % 256
  BY <1>2, <1>4, <1>8 DEF NewIDReservoir
<1>13. Cardinality(A) + Cardinality(B) < 256
  BY <1>1, <1>3, <1>7
<1>14. (Cardinality(A) + Cardinality(B)) % 256 = Cardinality(A) + Cardinality(B)
  BY <1>7, <1>13
<1>15. QED
  BY <1>1, <1>6, <1>11, <1>12, <1>14

\* The reservoir holds one id per visit of the two routes.
Enough(res, d) ==
    \A v \in Visors :
      Len(res[v]) = Cardinality(Visits(d.fwd, Len(d.fwd), v))
                      + Cardinality(Visits(d.rev, Len(d.rev), v))

\* GenerateRules then finds every id it needs and uses up all it was given.
LEMMA EnoughIsSpent ==
    ASSUME NEW res \in Reservoirs, NEW d, IsDescriptor(d), Enough(res, d),
           NEW F, F = FwdStates(res, d), NEW R, R = RevStates(res, d)
    PROVE  /\ GenerateRules(res, d).ok
           /\ \A v \in Visors : \A x \in Els(res[v]) :
                \/ \E i \in Visits(d.fwd, Len(d.fwd), v) : x = F[i].rid
                \/ \E i \in Visits(d.rev, Len(d.rev), v) : x = R[i].rid
<1>1. PICK N, M : N = Len(d.fwd) /\ M = Len(d.rev)
  OBVIOUS
<1>2. PICK st, mid, g : st = NothingPopped(res) /\ mid = F[N] /\ g = GenerateRules(res, d)
  OBVIOUS
<1>3. /\ N \in Nat /\ d.fwd \in Seq(Hops) /\ d.fwd # <<>>
      /\ M \in Nat /\ d.rev \in Seq(Hops) /\ d.rev # <<>>
  BY <1>1, IsRouteFacts DEF IsDescriptor
<1>4. st \in States /\ mid \in States /\ (g.ok <=> R[M].ok)
  BY <1>1, <1>2, GenerateRulesFields
<1>5. st.ok /\ st.ids = res /\ F = AfterHops(st, d.fwd) /\ R = AfterHops(mid, d.rev)
  BY <1>1, <1>2 DEF NothingPopped, FwdStates, RevStates
<1>6. \A v \in Visors : /\ Cardinality(Visits(d.fwd, N, v)) \in Nat
                        /\ Cardinality(Visits(d.rev, M, v)) \in Nat
  BY <1>3, VisitsFacts
<1>7. \A v \in Visors :
        Len(res[v]) = Cardinality(Visits(d.fwd, N, v)) + Cardinality(Visits(d.rev, M, v))
  BY <1>1 DEF Enough
<1>8. Spent(st, F, d.fwd, N)
  <2>1. \A v \in Visors : Len(st.ids[v]) >= Cardinality(Visits(d.fwd, Len(d.fwd), v))
    BY <1>1, <1>5, <1>6, <1>7
  <2>2. \A n \in 0..Len(d.fwd) : Spent(st, F, d.fwd, n)
    BY <1>3, <1>4, <1>5, <2>1, HopsSpend
  <2>3. N \in 0..Len(d.fwd)
    BY <1>1, <1>3
  <2>4. QED
    BY <2>2, <2>3
<1>9. /\ mid.ok
      /\ \A v \in Visors : Len(mid.ids[v]) = Cardinality(Visits(d.rev, M, v))
      /\ \A v \in Visors : \A x \in Els(res[v]) :
           x \in Els(mid.ids[v]) \/ \E i \in Visits(d.fwd, N, v) : x = F[i].rid
  <2>1. /\ mid.ok
        /\ \A v \in Visors :
             /\ Len(mid.ids[v]) = Len(res[v]) - Cardinality(Visits(d.fwd, N, v))
             /\ \A x \in Els(res[v]) :
                  x \in Els(mid.ids[v]) \/ \E i \in Visits(d.fwd, N, v) : x = F[i].rid
    BY <1>2, <1>5, <1>8 DEF Spent
  <2>2. ASSUME NEW v \in Visors
        PROVE  Len(mid.ids[v]) = Cardinality(Visits(d.rev, M, v))
    <3>1. Len(mid.ids[v]) = Len(res[v]) - Cardinality(Visits(d.fwd, N, v))
      BY <2>1
    <3>2. QED
      BY <1>6, <1>7, <3>1
  <2>3. QED
    BY <2>1, <2>2
<1>10. Spent(mid, R, d.rev, M)
  <2>1. \A v \in Visors : Len(mid.ids[v]) >= Cardinality(Visits(d.rev, Len(d.rev), v))
    BY <1>1, <1>6, <1>9
  <2>2. mid.ok
    BY <1>9
  <2>3. \A n \in 0..Len(d.rev) : Spent(mid, R, d.rev, n)
    BY <1>3, <1>4, <1>5, <2>1, <2>2, HopsSpend
  <2>4. M \in 0..Len(d.rev)
    BY <1>1, <1>3
  <2>5. QED
    BY <2>3, <2>4
<1>11. ASSUME NEW v \in Visors, NEW x \in Els(mid.ids[v])
       PROVE  \E i \in Visits(d.rev, M, v) : x = R[i].rid
  <2>1. Len(R[M].ids[v]) = Len(mid.ids[v]) - Cardinality(Visits(d.rev, M, v))
    BY <1>10 DEF Spent
  <2>2. Len(R[M].ids[v]) = 0
    BY <1>6, <1>9, <2>1
  <2>3. Els(R[M].ids[v]) = {}
    BY <2>2 DEF Els
  <2>4. x \in Els(R[M].ids[v]) \/ \E i \in Visits(d.rev, M, v) : x = R[i].rid
    BY <1>10, <1>11 DEF Spent
  <2>5. QED
    BY <2>3, <2>4
<1>12. g.ok
  BY <1>4, <1>10 DEF Spent
<1>13. ASSUME NEW v \in Visors, NEW x \in Els(res[v])
       PROVE  \/ \E i \in Visits(d.fwd, N, v) : x = F[i].rid
              \/ \E i \in Visits(d.rev, M, v) : x = R[i].rid
  <2>1. x \in Els(mid.ids[v]) \/ \E i \in Visits(d.fwd, N, v) : x = F[i].rid
    BY <1>9
  <2>2. QED
    BY <1>11, <2>1
<1>14. QED
  BY <1>1, <1>2, <1>12, <1>13, Zenon

\* There is a rule for every position of the two ways.
LEMMA EveryPositionHasARule ==
    ASSUME NEW g, NEW res, NEW d, NEW f, NEW b, IsDescriptor(d), Ways(g, res, d, f, b),
           RulesAlong(g, d, f, b)
    PROVE  /\ \A i \in 0..(Len(d.fwd) - 1) :
                ForwardRule(f[i].id, f[i + 1].id, f[i + 1].visor) \in g.rules[f[i].visor]
           /\ DstRule(d, f, b) \in g.rules[f[Len(d.fwd)].visor]
           /\ \A i \in 0..(Len(d.rev) - 1) :
                ForwardRule(b[i].id, b[i + 1].id, b[i + 1].visor) \in g.rules[b[i].visor]
           /\ SrcRule(d, f, b) \in g.rules[b[Len(d.rev)].visor]
<1>1. Len(d.fwd) \in Nat /\ Len(d.rev) \in Nat /\ d.src \in Visors /\ d.dst \in Visors
  BY IsRouteFacts DEF IsDescriptor
<1>2. ASSUME NEW h, NEW n \in Nat, NEW i \in 0..(n - 1)
      PROVE  ForwardRule(h[i].id, h[i + 1].id, h[i + 1].visor) \in Leading(h, n, h[i].visor)
  <2>1. i + 1 \in 1..n /\ (i + 1) - 1 = i
    OBVIOUS
  <2>2. QED
    BY <2>1 DEF Leading
<1>3. /\ \A i \in 0..Len(d.fwd) : f[i].visor \in Visors
      /\ \A i \in 0..Len(d.rev) : b[i].visor \in Visors
      /\ f[Len(d.fwd)].visor = d.dst /\ b[Len(d.rev)].visor = d.src
  BY DEF Ways, Positions
<1>4. \A v \in Visors :
        /\ Leading(f, Len(d.fwd), v) \subseteq g.rules[v]
        /\ Leading(b, Len(d.rev), v) \subseteq g.rules[v]
        /\ v = d.src => SrcRule(d, f, b) \in g.rules[v]
        /\ v = d.dst => DstRule(d, f, b) \in g.rules[v]
  BY DEF RulesAlong
<1>5. ASSUME NEW i \in 0..(Len(d.fwd) - 1)
      PROVE  ForwardRule(f[i].id, f[i + 1].id, f[i + 1].visor) \in g.rules[f[i].visor]
  <2>1. f[i].visor \in Visors
    BY <1>1, <1>3
  <2>2. QED
    BY <1>1, <1>2, <1>4, <2>1
<1>6. ASSUME NEW i \in 0..(Len(d.rev) - 1)
      PROVE  ForwardRule(b[i].id, b[i + 1].id, b[i + 1].visor) \in g.rules[b[i].visor]
  <2>1. b[i].visor \in Visors
    BY <1>1, <1>3
  <2>2. QED
    BY <1>1, <1>2, <1>4, <2>1
<1>7. QED
  BY <1>1, <1>3, <1>4, <1>5, <1>6

\* An id that was reserved is at a position of the two ways, so there is a rule under it.
LEMMA EveryIDHasARule ==
    ASSUME NEW res \in Reservoirs, AllDistinct(res), NEW d, IsDescriptor(d), Enough(res, d),
           NEW g, g = GenerateRules(res, d), NEW v \in Visors, NEW x \in Els(res[v])
    PROVE  \E r \in g.rules[v] : r.key = x
<1>1. PICK F, R : F = FwdStates(res, d) /\ R = RevStates(res, d)
  OBVIOUS
<1>2. PICK f, b : f = Outward(res, d) /\ b = Homeward(res, d)
  OBVIOUS
<1>3. PICK N, M : N = Len(d.fwd) /\ M = Len(d.rev)
  OBVIOUS
<1>4. /\ GenerateRules(res, d).ok
      /\ \/ \E i \in Visits(d.fwd, N, v) : x = F[i].rid
         \/ \E i \in Visits(d.rev, M, v) : x = R[i].rid
  BY <1>1, <1>3, EnoughIsSpent
<1>5. Ways(g, res, d, f, b) /\ RulesAlong(g, d, f, b)
  BY <1>2, <1>4, GenerateRulesJoins
<1>6. F \in [0..N -> States] /\ R \in [0..M -> States] /\ N \in Nat /\ M \in Nat
  BY <1>1, <1>3, GenerateRulesFields, IsRouteFacts DEF IsDescriptor
<1>7. /\ \A i \in 0..N : f[i].visor = VisorAt(d.fwd, i) /\ f[i].id = F[i].rid
      /\ \A i \in 0..M : b[i].visor = VisorAt(d.rev, i) /\ b[i].id = R[i].rid
  BY <1>1, <1>2, <1>3, <1>6 DEF Outward, Homeward, Along
<1>8. /\ \A i \in 0..(N - 1) :
           ForwardRule(f[i].id, f[i + 1].id, f[i + 1].visor) \in g.rules[f[i].visor]
      /\ DstRule(d, f, b) \in g.rules[f[N].visor]
      /\ \A i \in 0..(M - 1) :
           ForwardRule(b[i].id, b[i + 1].id, b[i + 1].visor) \in g.rules[b[i].visor]
      /\ SrcRule(d, f, b) \in g.rules[b[M].visor]
  BY <1>3, <1>5, EveryPositionHasARule
<1>9. ASSUME NEW i \in Visits(d.fwd, N, v), x = F[i].rid
      PROVE  \E r \in g.rules[v] : r.key = x
  <2>1. i \in 0..N /\ f[i].visor = v /\ f[i].id = x
    BY <1>7, <1>9 DEF Visits
  <2>2. CASE i = N
    <3>1. DstRule(d, f, b) \in g.rules[v] /\ DstRule(d, f, b).key = x
      BY <1>3, <1>8, <2>1, <2>2 DEF DstRule, AppRule
    <3>2. QED
      BY <3>1
  <2>3. CASE i # N
    <3>1. i \in 0..(N - 1)
      BY <1>6, <2>1, <2>3
    <3>2. PICK r : r = ForwardRule(f[i].id, f[i + 1].id, f[i + 1].visor)
      OBVIOUS
    <3>3. r \in g.rules[v] /\ r.key = x
      BY <1>8, <2>1, <3>1, <3>2 DEF ForwardRule
    <3>4. QED
      BY <3>3
  <2>4. QED
    BY <2>2, <2>3
<1>10. ASSUME NEW i \in Visits(d.rev, M, v), x = R[i].rid
       PROVE  \E r \in g.rules[v] : r.key = x
  <2>1. i \in 0..M /\ b[i].visor = v /\ b[i].id = x
    BY <1>7, <1>10 DEF Visits
  <2>2. CASE i = M
    <3>1. SrcRule(d, f, b) \in g.rules[v] /\ SrcRule(d, f, b).key = x
      BY <1>3, <1>8, <2>1, <2>2 DEF SrcRule, AppRule
    <3>2. QED
      BY <3>1
  <2>3. CASE i # M
    <3>1. i \in 0..(M - 1)
      BY <1>6, <2>1, <2>3
    <3>2. PICK r : r = ForwardRule(b[i].id, b[i + 1].id, b[i + 1].visor)
      OBVIOUS
    <3>3. r \in g.rules[v] /\ r.key = x
      BY <1>8, <2>1, <3>1, <3>2 DEF ForwardRule
    <3>4. QED
      BY <3>3
  <2>4. QED
    BY <2>2, <2>3
<1>11. QED
  BY <1>4, <1>9, <1>10

\* Rules and reserved ids correspond one to one.
LEMMA RulesAreIDs ==
    ASSUME NEW res \in Reservoirs, AllDistinct(res), NEW d, IsDescriptor(d), Enough(res, d),
           NEW g, g = GenerateRules(res, d), NEW v \in Visors
    PROVE  /\ g.ok
           /\ {r.key : r \in g.rules[v]} = Els(res[v])
           /\ Cardinality(g.rules[v]) = Len(res[v])
<1>1. PICK f, b : f = Outward(res, d) /\ b = Homeward(res, d)
  OBVIOUS
<1>2. g.ok
  <2>1. PICK F, R : F = FwdStates(res, d) /\ R = RevStates(res, d)
    OBVIOUS
  <2>2. QED
    BY <2>1, EnoughIsSpent
<1>3. /\ Ways(g, res, d, f, b) /\ WithinReservoir(res, d, f, b)
      /\ NoCrossing(d, f, b) /\ RulesAlong(g, d, f, b)
  BY <1>1, <1>2, GenerateRulesJoins
<1>4. ASSUME NEW r \in g.rules[v]
      PROVE  r.key \in Els(res[v]) /\ \A s \in g.rules[v] : s.key = r.key => s = r
  BY <1>3, RuleKeys
<1>5. \A x \in Els(res[v]) : \E r \in g.rules[v] : r.key = x
  BY EveryIDHasARule
<1>6. {r.key : r \in g.rules[v]} = Els(res[v])
  BY <1>4, <1>5
<1>7. PICK q, n : q = res[v] /\ n = Len(q)
  OBVIOUS
<1>8. n \in Nat /\ Distinct(q)
  BY <1>7 DEF Reservoirs, AllDistinct
<1> DEFINE S == g.rules[v]
           h == [i \in 1..n |-> CHOOSE r \in S : r.key = q[i]]
<1>9. ASSUME NEW i \in 1..n
      PROVE  h[i] \in S /\ h[i].key = q[i]
  <2>1. q[i] \in Els(res[v])
    BY <1>7 DEF Els
  <2>2. \E r \in S : r.key = q[i]
    BY <1>5, <2>1
  <2>3. QED
    BY <2>2
<1>10. h \in Bijection(1..n, S)
  <2>1. h \in [1..n -> S]
    BY <1>9
  <2>2. \A i, j \in 1..n : h[i] = h[j] => i = j
    <3> HIDE DEF h, S
    <3>1. ASSUME NEW i \in 1..n, NEW j \in 1..n, h[i] = h[j]
          PROVE  i = j
      <4>1. h[i].key = q[i] /\ h[j].key = q[j]
        BY <1>9
      <4>2. q[i] = q[j]
        BY <3>1, <4>1
      <4>3. QED
        BY <1>7, <1>8, <4>2 DEF Distinct
    <3>2. QED
      BY <3>1
  <2>3. ASSUME NEW r \in S
        PROVE  \E i \in 1..n : h[i] = r
    <3>1. PICK i \in 1..n : r.key = q[i]
      BY <1>4, <1>7 DEF Els
    <3>2. h[i] \in S /\ h[i].key = r.key
      BY <1>9, <3>1
    <3>3. QED
      BY <1>4, <3>2
  <2> HIDE DEF h, S
  <2>4. QED
    BY <2>1, <2>2, <2>3, BijectionFacts
<1>11. Cardinality(S) = n
  <2> HIDE DEF h, S
  <2>1. ExistsBijection(1..n, S)
    BY <1>10 DEF ExistsBijection
  <2>2. QED
    BY <1>8, <2>1, FS_CountingElements
<1>12. QED
  BY <1>2, <1>6, <1>7, <1>11

\* The forward rules along h are there, and no others under their keys.
Paved(tbl, h, n) ==
    /\ n \in Nat /\ n <= MaxHops /\ h \in [0..n -> Positions]
    /\ \A i \in 0..n : UniqueKeys(tbl[h[i].visor])
    /\ \A i \in 0..(n - 1) :
         ForwardRule(h[i].id, h[i + 1].id, h[i + 1].visor) \in tbl[h[i].visor]

\* A packet sent into such a way comes out at the app rule that ends it.
LEMMA WayConsumed ==
    ASSUME MaxHops \in Nat, NEW tbl, NEW h, NEW n, Paved(tbl, h, n),
           NEW r \in tbl[h[n].visor], r.type = "app", r.key = h[n].id
    PROVE  Consumed(tbl, h[0].visor, h[0].id) = {[visor |-> h[n].visor, rule |-> r]}
<1>1. ASSUME NEW i \in 0..(n - 1)
      PROVE  \E s \in tbl[h[i].visor] : /\ s.type = "fwd" /\ s.key = h[i].id
                                        /\ s.next = h[i + 1].id /\ s.to = h[i + 1].visor
  <2>1. PICK s : s = ForwardRule(h[i].id, h[i + 1].id, h[i + 1].visor)
    OBVIOUS
  <2>2. /\ s \in tbl[h[i].visor] /\ s.type = "fwd" /\ s.key = h[i].id
        /\ s.next = h[i + 1].id /\ s.to = h[i + 1].visor
    BY <2>1 DEF ForwardRule, Paved
  <2>3. QED
    BY <2>2
<1>2. /\ n \in Nat /\ n <= MaxHops /\ h \in [0..n -> Positions] /\ 0 \in 0..n /\ n \in 0..n
      /\ \A i \in 0..n : UniqueKeys(tbl[h[i].visor])
  BY DEF Paved
<1>3. Travel(tbl, h[0])[MaxHops] = h[n]
  BY <1>1, <1>2, TravelArrives
<1>4. {s \in RulesAt(tbl, h[n]) : s.type = "app"} = {r}
  BY <1>2 DEF RulesAt, UniqueKeys
<1>5. PICK S : S = {s \in RulesAt(tbl, h[n]) : s.type = "app"}
  OBVIOUS
<1>6. Consumed(tbl, h[0].visor, h[0].id) = {[visor |-> h[n].visor, rule |-> s] : s \in S}
  <2>1. h[0] = [visor |-> h[0].visor, id |-> h[0].id]
    BY <1>2 DEF Positions
  <2>2. QED
    BY <1>3, <1>5, <2>1 DEF Consumed
<1>7. QED
  BY <1>4, <1>5, <1>6

\* The rules of GenerateRules join the two ends of a loop both ways.
LEMMA RulesJoin ==
    ASSUME MaxHops \in Nat, NEW res \in Reservoirs, AllDistinct(res), NEW d, IsDescriptor(d),
           Enough(res, d), Len(d.fwd) <= MaxHops, Len(d.rev) <= MaxHops,
           NEW g, g = GenerateRules(res, d)
    PROVE  /\ \E r \in g.rules[d.dst] :
                /\ Consumed(g.rules, d.src, g.srcFwdRID) = {[visor |-> d.dst, rule |-> r]}
                /\ r.remote = d.src /\ r.lport = d.rport /\ r.rport = d.lport
           /\ \E r \in g.rules[d.src] :
                /\ Consumed(g.rules, d.dst, g.dstFwdRID) = {[visor |-> d.src, rule |-> r]}
                /\ r.remote = d.dst /\ r.lport = d.lport /\ r.rport = d.rport
<1>1. PICK f, b : f = Outward(res, d) /\ b = Homeward(res, d)
  OBVIOUS
<1>2. PICK N, M : N = Len(d.fwd) /\ M = Len(d.rev)
  OBVIOUS
<1>3. GenerateRules(res, d).ok
  <2>1. PICK F, R : F = FwdStates(res, d) /\ R = RevStates(res, d)
    OBVIOUS
  <2>2. QED
    BY <2>1, EnoughIsSpent
<1>4. /\ Ways(g, res, d, f, b) /\ WithinReservoir(res, d, f, b)
      /\ NoCrossing(d, f, b) /\ RulesAlong(g, d, f, b)
  BY <1>1, <1>3, GenerateRulesJoins
<1>5. /\ N \in Nat /\ N <= MaxHops /\ M \in Nat /\ M <= MaxHops
  BY <1>2, IsRouteFacts DEF IsDescriptor
<1>6. /\ f \in [0..N -> Positions] /\ b \in [0..M -> Positions]
      /\ f[0] = [visor |-> d.src, id |-> g.srcFwdRID] /\ f[N].visor = d.dst
      /\ b[0] = [visor |-> d.dst, id |-> g.dstFwdRID] /\ b[M].visor = d.src
  BY <1>2, <1>4 DEF Ways
<1>7. \A v \in Visors : UniqueKeys(g.rules[v])
  <2>1. ASSUME NEW v \in Visors, NEW r \in g.rules[v], NEW s \in g.rules[v], r.key = s.key
        PROVE  r = s
    BY <1>4, <2>1, RuleKeys
  <2>2. QED
    BY <2>1 DEF UniqueKeys
<1>8. /\ \A i \in 0..N : f[i].visor \in Visors
      /\ \A i \in 0..M : b[i].visor \in Visors
  BY <1>6 DEF Positions
<1>9. /\ \A i \in 0..(N - 1) :
           ForwardRule(f[i].id, f[i + 1].id, f[i + 1].visor) \in g.rules[f[i].visor]
      /\ DstRule(d, f, b) \in g.rules[f[N].visor]
      /\ \A i \in 0..(M - 1) :
           ForwardRule(b[i].id, b[i + 1].id, b[i + 1].visor) \in g.rules[b[i].visor]
      /\ SrcRule(d, f, b) \in g.rules[b[M].visor]
  BY <1>2, <1>4, EveryPositionHasARule
<1>10. PICK tbl : tbl = g.rules
  OBVIOUS
<1>11. \E r \in tbl[d.dst] :
         /\ Consumed(tbl, d.src, g.srcFwdRID) = {[visor |-> d.dst, rule |-> r]}
         /\ r.remote = d.src /\ r.lport = d.rport /\ r.rport = d.lport
  <2>1. PICK r : r = DstRule(d, f, b)
    OBVIOUS
  <2>2. /\ r \in tbl[f[N].visor] /\ r.type = "app" /\ r.key = f[N].id
        /\ r.remote = d.src /\ r.lport = d.rport /\ r.rport = d.lport
    BY <1>2, <1>9, <1>10, <2>1 DEF DstRule, AppRule
  <2>3. /\ \A i \in 0..N : UniqueKeys(tbl[f[i].visor])
        /\ \A i \in 0..(N - 1) :
             ForwardRule(f[i].id, f[i + 1].id, f[i + 1].visor) \in tbl[f[i].visor]
    BY <1>7, <1>8, <1>9, <1>10
  <2>4. Consumed(tbl, d.src, g.srcFwdRID) = {[visor |-> f[N].visor, rule |-> r]}
    <3>1. Paved(tbl, f, N)
      BY <1>5, <1>6, <2>3 DEF Paved
    <3>2. f[0].visor = d.src /\ f[0].id = g.srcFwdRID
      BY <1>6
    <3>3. r \in tbl[f[N].visor] /\ r.type = "app" /\ r.key = f[N].id
      BY <2>2
    <3>4. Consumed(tbl, f[0].visor, f[0].id) = {[visor |-> f[N].visor, rule |-> r]}
      BY <3>1, <3>3, WayConsumed
    <3>5. QED
      BY <3>2, <3>4
  <2>5. QED
    BY <1>6, <2>2, <2>4
<1>12. \E r \in tbl[d.src] :
         /\ Consumed(tbl, d.dst, g.dstFwdRID) = {[visor |-> d.src, rule |-> r]}
         /\ r.remote = d.dst /\ r.lport = d.lport /\ r.rport = d.rport
  <2>1. PICK r : r = SrcRule(d, f, b)
    OBVIOUS
  <2>2. /\ r \in tbl[b[M].visor] /\ r.type = "app" /\ r.key = b[M].id
        /\ r.remote = d.dst /\ r.lport = d.lport /\ r.rport = d.rport
    BY <1>2, <1>9, <1>10, <2>1 DEF SrcRule, AppRule
  <2>3. /\ \A i \in 0..M : UniqueKeys(tbl[b[i].visor])
        /\ \A i \in 0..(M - 1) :
             ForwardRule(b[i].id, b[i + 1].id, b[i + 1].visor) \in tbl[b[i].visor]
    BY <1>7, <1>8, <1>9, <1>10
  <2>4. Consumed(tbl, d.dst, g.dstFwdRID) = {[visor |-> b[M].visor, rule |-> r]}
    <3>1. Paved(tbl, b, M)
      BY <1>5, <1>6, <2>3 DEF Paved
    <3>2. b[0].visor = d.dst /\ b[0].id = g.dstFwdRID
      BY <1>6
    <3>3. r \in tbl[b[M].visor] /\ r.type = "app" /\ r.key = b[M].id
      BY <2>2
    <3>4. Consumed(tbl, b[0].visor, b[0].id) = {[visor |-> b[M].visor, rule |-> r]}
      BY <3>1, <3>3, WayConsumed
    <3>5. QED
      BY <3>2, <3>4
  <2>5. QED
    BY <1>6, <2>2, <2>4
<1>13. QED
  BY <1>10, <1>11, <1>12

\* The routes of MCLoopRules are routes, of at most MaxHops hops.
LEMMA RoutesAreRoutes ==
    ASSUME MaxHops \in Nat, NEW a \in Visors, NEW z \in Visors, NEW route \in Routes(a, z)
    PROVE  IsRoute(route, a, z) /\ Len(route) <= MaxHops
<1>1. PICK n \in 2..(MaxHops + 1) : \E p \in [1..n -> Visors] :
        /\ p[1] = a /\ p[n] = z
        /\ route = [i \in 1..(Len(p) - 1) |-> [from |-> p[i], to |-> p[i + 1]]]
  <2> DEFINE Paths(n) == {p \in [1..n -> Visors] :
                            /\ p[1] = a /\ p[n] = z
                            /\ \A i, j \in 1..n : p[i] = p[j] => i = j}
             HopsOf(p) == [i \in 1..(Len(p) - 1) |-> [from |-> p[i], to |-> p[i + 1]]]
  <2>1. \A n \in 2..(MaxHops + 1) : \A p \in Paths(n) :
          p \in [1..n -> Visors] /\ p[1] = a /\ p[n] = z
    OBVIOUS
  <2>2. route \in {HopsOf(p) : p \in UNION {Paths(n) : n \in 2..(MaxHops + 1)}}
    BY DEF Routes
  <2> HIDE DEF Paths
  <2>3. PICK p \in UNION {Paths(n) : n \in 2..(MaxHops + 1)} : route = HopsOf(p)
    BY <2>2
  <2>4. PICK n \in 2..(MaxHops + 1) : p \in Paths(n)
    BY <2>3
  <2>5. QED
    BY <2>1, <2>3, <2>4
<1>2. PICK p \in [1..n -> Visors] :
        /\ p[1] = a /\ p[n] = z
        /\ route = [i \in 1..(Len(p) - 1) |-> [from |-> p[i], to |-> p[i + 1]]]
  BY <1>1
<1>3. n \in Nat /\ n >= 2 /\ Len(p) = n
  OBVIOUS
<1>4. PICK k \in Nat : k = n - 1
  BY <1>3
<1>5. k >= 1 /\ k <= MaxHops /\ n = k + 1
  BY <1>3, <1>4
<1>6. route = [i \in 1..k |-> [from |-> p[i], to |-> p[i + 1]]]
  BY <1>2, <1>3, <1>4
<1>7. \A i \in 1..k : p[i] \in Visors /\ p[i + 1] \in Visors
  BY <1>5
<1>8. route \in [1..k -> [from : Visors, to : Visors]]
  BY <1>6, <1>7
<1>9. route \in Seq([from : Visors, to : Visors]) /\ Len(route) = k
  <2>1. PICK H : H = [from : Visors, to : Visors]
    OBVIOUS
  <2>2. route \in [1..k -> H]
    BY <1>8, <2>1
  <2>3. route \in Seq(H) /\ Len(route) = k
    BY <2>2
  <2>4. QED
    BY <2>1, <2>3
<1>10. route[1].from = a /\ route[k].to = z
  BY <1>2, <1>5, <1>6
<1>11. \A i \in 1..(k - 1) : route[i].to = route[i + 1].from
  BY <1>5, <1>6
<1>12. route # <<>>
  BY <1>5, <1>9
<1>13. QED
  BY <1>5, <1>9, <1>10, <1>11, <1>12 DEF IsRoute

\* What the visors answer to a reservation: distinct ids, as many as were asked for.
WellReserved(f, d) ==
    /\ f \in Reservoirs /\ AllDistinct(f)
    /\ \A v \in Visors : Len(f[v]) = NewIDReservoir(d.fwd, d.rev)[v]

RulesInv ==
    /\ desc \in Descriptors
    /\ reserved # <<>> => WellReserved(reserved, desc)
    /\ RulesMade => reserved # <<>> /\ made = GenerateRules(reserved, desc)

\* A descriptor of the run is one, and a good answer has enough ids for it.
LEMMA DescriptorIsServed ==
    ASSUME NEW d \in Descriptors
    PROVE  /\ IsDescriptor(d) /\ Len(d.fwd) <= MaxHops /\ Len(d.rev) <= MaxHops
           /\ \A v \in Visors : NewIDReservoir(d.fwd, d.rev)[v] \in Nat
           /\ \A f : WellReserved(f, d) => Enough(f, d)
<1>1. /\ d.src = Src /\ d.dst = Dst /\ d.lport = 10 /\ d.rport = 3
      /\ d.fwd \in Routes(Src, Dst) /\ d.rev \in Routes(Dst, Src)
  BY DEF Descriptors
<1>2. Src \in Visors /\ Dst \in Visors /\ Src # Dst /\ MaxHops \in Nat /\ 2 * (MaxHops + 1) < 256
  BY RulesAssumption
<1>3. /\ IsRoute(d.fwd, Src, Dst) /\ Len(d.fwd) <= MaxHops
      /\ IsRoute(d.rev, Dst, Src) /\ Len(d.rev) <= MaxHops
  BY <1>1, <1>2, RoutesAreRoutes
<1>4. IsDescriptor(d)
  BY <1>1, <1>2, <1>3 DEF IsDescriptor
<1>5. Len(d.fwd) \in Nat /\ Len(d.rev) \in Nat
  BY <1>3, IsRouteFacts
<1>6. Len(d.fwd) + Len(d.rev) + 2 < 256
  <2>1. PICK x, y : x = Len(d.fwd) /\ y = Len(d.rev)
    OBVIOUS
  <2>2. x \in Nat /\ y \in Nat /\ x <= MaxHops /\ y <= MaxHops
    BY <1>3, <1>5, <2>1
  <2>3. x + y + 2 < 256
    BY <1>2, <2>2
  <2>4. QED
    BY <2>1, <2>3
<1>7. ASSUME NEW v \in Visors
      PROVE  /\ NewIDReservoir(d.fwd, d.rev)[v] =
                  Cardinality(Visits(d.fwd, Len(d.fwd), v))
                    + Cardinality(Visits(d.rev, Len(d.rev), v))
             /\ NewIDReservoir(d.fwd, d.rev)[v] \in Nat
  <2>1. NewIDReservoir(d.fwd, d.rev)[v] =
          Cardinality(Visits(d.fwd, Len(d.fwd), v)) + Cardinality(Visits(d.rev, Len(d.rev), v))
    BY <1>3, <1>6, ReservoirCounts
  <2>2. /\ Cardinality(Visits(d.fwd, Len(d.fwd), v)) \in Nat
        /\ Cardinality(Visits(d.rev, Len(d.rev), v)) \in Nat
    BY <1>5, VisitsFacts
  <2>3. QED
    BY <2>1, <2>2
<1>8. ASSUME NEW f, WellReserved(f, d)
      PROVE  Enough(f, d)
  BY <1>7, <1>8 DEF WellReserved, Enough
<1>9. QED
  BY <1>3, <1>4, <1>7, <1>8

LEMMA ReserveInv ==
    ASSUME RulesInv, Reserve
    PROVE  RulesInv'
<1> DEFINE rec == NewIDReservoir(desc.fwd, desc.rev)
           Queues(n) == {q \in [1..n -> 1..MaxID] : \A i, j \in 1..n : q[i] = q[j] => i = j}
<1>1. PICK f \in [Visors -> UNION {Queues(rec[v]) : v \in Visors}] :
        /\ \A v \in Visors : Len(f[v]) = rec[v]
        /\ reserved' = f
  BY Zenon DEF Reserve
<1>2. reserved' = f /\ \A v \in Visors : Len(f[v]) = NewIDReservoir(desc.fwd, desc.rev)[v]
  BY <1>1
<1>3. UNCHANGED <<desc, made>> /\ reserved = <<>>
  BY DEF Reserve
<1>4. desc \in Descriptors /\ ~RulesMade
  BY <1>3 DEF RulesInv
<1>5. ~RulesMade'
  BY <1>3, <1>4 DEF RulesMade
<1>6. \A v \in Visors : rec[v] \in Nat
  <2>1. PICK d \in Descriptors : d = desc
    BY <1>4
  <2>2. QED
    BY <2>1, DescriptorIsServed
<1> HIDE DEF rec
<1>7. ASSUME NEW n \in Nat, NEW q \in Queues(n)
      PROVE  q \in Seq(Nat) /\ Distinct(q)
  <2>1. q \in [1..n -> Nat] /\ \A i, j \in 1..n : q[i] = q[j] => i = j
    BY RulesAssumption
  <2>2. q \in Seq(Nat) /\ Len(q) = n
    BY <2>1
  <2>3. QED
    BY <2>1, <2>2 DEF Distinct
<1>8. ASSUME NEW v \in Visors
      PROVE  f[v] \in Seq(Nat) /\ Distinct(f[v])
  <2> HIDE DEF Queues
  <2>1. f[v] \in UNION {Queues(rec[w]) : w \in Visors}
    OBVIOUS
  <2>2. PICK w \in Visors : f[v] \in Queues(rec[w])
    BY <2>1
  <2>3. QED
    BY <1>6, <1>7, <2>2
<1> HIDE DEF Queues
<1>9. f \in Reservoirs
  BY <1>8 DEF Reservoirs
<1>10. WellReserved(f, desc)
  BY <1>2, <1>8, <1>9 DEF WellReserved, AllDistinct
<1>11. WellReserved(reserved', desc')
  BY <1>2, <1>3, <1>10
<1>12. desc' \in Descriptors
  BY <1>3, <1>4
<1>13. WellReserved(reserved, desc)'
  BY <1>11 DEF WellReserved, Reservoirs, AllDistinct, Distinct
<1>14. QED
  BY <1>5, <1>12, <1>13 DEF RulesInv, Descriptors

LEMMA RulesInvariant == RulesSpec => []RulesInv
<1>1. RulesInit => RulesInv
  BY DEF RulesInit, RulesInv, RulesMade
<1>2. RulesInv /\ [RulesNext]_rulesVars => RulesInv'
  <2>1. SUFFICES ASSUME RulesInv, [RulesNext]_rulesVars
                 PROVE  RulesInv'
    OBVIOUS
  <2>2. CASE Reserve
    BY <2>1, <2>2, ReserveInv
  <2>3. CASE Generate
    <3>1. /\ reserved # <<>> /\ UNCHANGED <<desc, reserved>>
          /\ made' = GenerateRules(reserved, desc)
      BY <2>3 DEF Generate
    <3>2. desc \in Descriptors /\ WellReserved(reserved, desc)
      BY <2>1, <3>1 DEF RulesInv
    <3>3. /\ (desc \in Descriptors)' /\ WellReserved(reserved, desc)'
          /\ (reserved # <<>> /\ made = GenerateRules(reserved, desc))'
      BY <3>1, <3>2 DEF WellReserved, Reservoirs, AllDistinct, Distinct, GenerateRules
    <3>4. QED
      BY <3>3 DEF RulesInv
  <2>4. CASE UNCHANGED rulesVars
    BY <2>1, <2>4 DEF rulesVars, RulesInv, RulesMade
  <2>5. QED
    BY <2>1, <2>2, <2>3, <2>4 DEF RulesNext
<1>3. QED
  BY <1>1, <1>2, PTL DEF RulesSpec

\* For any visors and any pair of routes of at most maxHops hops, whatever ids the visors
\* answer the reservation with: GenerateRules never runs out of ids (PopID's error), and
\* the rules of a visor are one under each id it reserved.  newIDReservoir and the loop of
\* SaveForwardRules count alike.
THEOREM IDsAreUsedOnce == RulesSpec => []EveryIDUsedOnce
<1>1. ASSUME RulesInv
      PROVE  EveryIDUsedOnce
  <2>1. SUFFICES ASSUME RulesMade, NEW v \in Visors
                 PROVE  /\ made.ok
                        /\ {r.key : r \in made.rules[v]} = Range(reserved[v])
                        /\ Cardinality(made.rules[v]) = Len(reserved[v])
    BY RulesAssumption DEF EveryIDUsedOnce
  <2>2. /\ desc \in Descriptors /\ WellReserved(reserved, desc)
        /\ made = GenerateRules(reserved, desc)
    BY <1>1, <2>1 DEF RulesInv
  <2>3. IsDescriptor(desc) /\ Enough(reserved, desc)
    BY <2>2, DescriptorIsServed
  <2>4. reserved \in Reservoirs /\ AllDistinct(reserved)
    BY <2>2 DEF WellReserved
  <2>5. /\ made.ok
        /\ {r.key : r \in made.rules[v]} = Els(reserved[v])
        /\ Cardinality(made.rules[v]) = Len(reserved[v])
    BY <2>2, <2>3, <2>4, RulesAreIDs
  <2>6. Range(reserved[v]) = Els(reserved[v])
    <3>1. reserved[v] \in Seq(Nat)
      BY <2>4 DEF Reservoirs
    <3>2. DOMAIN reserved[v] = 1..Len(reserved[v])
      BY <3>1
    <3>3. QED
      BY <3>2 DEF Range, Els
  <2>7. QED
    BY <2>5, <2>6
<1>2. QED
  BY <1>1, RulesInvariant, PTL

\* For any visors and routes, the rules GenerateRules makes lead a packet of the source
\* to the destination's app rule for the loop and one of the destination to the source's,
\* also where both routes pass a visor.
THEOREM RulesLeadEndToEnd == RulesSpec => []RulesJoinTheEnds
<1>1. ASSUME RulesInv
      PROVE  RulesJoinTheEnds
  <2>1. SUFFICES ASSUME RulesMade
                 PROVE  /\ Joins(desc.src, made.srcFwdRID, desc.dst, desc.rport, desc.lport)
                        /\ Joins(desc.dst, made.dstFwdRID, desc.src, desc.lport, desc.rport)
    BY DEF RulesJoinTheEnds
  <2>2. /\ desc \in Descriptors /\ WellReserved(reserved, desc)
        /\ made = GenerateRules(reserved, desc)
    BY <1>1, <2>1 DEF RulesInv
  <2>3. /\ IsDescriptor(desc) /\ Enough(reserved, desc)
        /\ Len(desc.fwd) <= MaxHops /\ Len(desc.rev) <= MaxHops
    BY <2>2, DescriptorIsServed
  <2>4. reserved \in Reservoirs /\ AllDistinct(reserved) /\ MaxHops \in Nat
    BY <2>2, RulesAssumption DEF WellReserved
  <2>5. /\ \E r \in made.rules[desc.dst] :
             /\ Consumed(made.rules, desc.src, made.srcFwdRID) = {[visor |-> desc.dst, rule |-> r]}
             /\ r.remote = desc.src /\ r.lport = desc.rport /\ r.rport = desc.lport
        /\ \E r \in made.rules[desc.src] :
             /\ Consumed(made.rules, desc.dst, made.dstFwdRID) = {[visor |-> desc.src, rule |-> r]}
             /\ r.remote = desc.dst /\ r.lport = desc.lport /\ r.rport = desc.rport
    BY <2>2, <2>3, <2>4, RulesJoin
  <2>6. QED
    BY <2>5 DEF Joins
<1>2. QED
  BY <1>1, RulesInvariant, PTL
=============================================================================

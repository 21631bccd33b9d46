------------------------------ MODULE LoopRules ------------------------------
(***************************************************************************)
(* How the setup node turns a loop descriptor and the route ids the visors *)
(* reserved for it into routing rules (pkg/setup/idreservoir.go), and how  *)
(* the routers carry a packet along them (pkg/router/router.go).           *)
(*                                                                         *)
(* A route is a sequence of hops [from, to]; the transport of a hop is     *)
(* identified by the visor it leads to.  The rules of a visor are a set in *)
(* which no two have the same key, the id a rule is stored under.          *)
(***************************************************************************)
EXTENDS Integers, Sequences, FiniteSets

CONSTANTS
    Visors,
    MaxHops     \* maxHops: no route is longer

NoID == 0
NoVisor == "none"

ForwardRule(key, next, to) == [type |-> "fwd", key |-> key, next |-> next, to |-> to]
AppRule(key, resp, remote, lport, rport) ==
    [type |-> "app", key |-> key, resp |-> resp,
     remote |-> remote, lport |-> lport, rport |-> rport]

-----------------------------------------------------------------------------
(* The reservoir.                                                          *)

\* A route from visor a to visor b, as the route finder returns it.
IsRoute(route, a, b) ==
    /\ route \in Seq([from : Visors, to : Visors])
    /\ route # <<>>
    /\ route[1].from = a
    /\ route[Len(route)].to = b
    /\ \A i \in 1..(Len(route) - 1) : route[i].to = route[i + 1].from

\* A route's visors in the order in which they need an id.
VisorsOn(route) ==
    IF route = <<>> THEN <<>>
    ELSE <<route[1].from>> \o [i \in DOMAIN route |-> route[i].to]

\* A count that forgets the first visor of a route.
CountArrivals(fwd, rev) ==
    LET path == fwd \o rev
    IN  [v \in Visors |-> Cardinality({i \in DOMAIN path : path[i].to = v}) % 256]

\* newIDReservoir: how many ids each visor is asked for (a uint8).
NewIDReservoir(fwd, rev) ==
    LET path == VisorsOn(fwd) \o VisorsOn(rev)
    IN  [v \in Visors |-> Cardinality({i \in DOMAIN path : path[i] = v}) % 256]

\* PopID: takes the next id of v, or fails when none is left.  `st' carries
\* the reservoir, the rules so far, the last id popped and whether all went well.
PopID(st, v) ==
    IF st.ids[v] = <<>>
      THEN [st EXCEPT !.ok = FALSE, !.rid = NoID]
      ELSE [st EXCEPT !.ids[v] = Tail(@), !.rid = Head(st.ids[v])]

\* A rule that names its own id as the next one.
SelfReferringHop(st, h) ==
    LET p == PopID(st, h.to)
    IN  [p EXCEPT !.rules[h.from] = @ \cup {ForwardRule(st.rid, st.rid, h.to)}]

\* The rule of a hop names the id popped for the hop's far end, where the next rule
\* will be stored.
SaveHop(st, h) ==
    LET p == PopID(st, h.to)
    IN  [p EXCEPT !.rules[h.from] = @ \cup {ForwardRule(st.rid, p.rid, h.to)}]

\* The loop of SaveForwardRules: the state after each number of hops.
AfterHops(st, route) ==
    LET after[n \in 0..Len(route)] ==
            IF n = 0 THEN PopID(st, route[1].from) ELSE SaveHop(after[n - 1], route[n])
    IN  after

\* SaveForwardRules: one forward rule per hop, the first under the id popped first.
SaveForwardRules(st, route) ==
    [first |-> AfterHops(st, route)[0].rid, st |-> AfterHops(st, route)[Len(route)]]

\* GenerateRules: the forward rules of both routes and the two app rules that
\* end them, for the descriptor d = [src, dst, lport, rport, fwd, rev].
NothingPopped(ids) == [ids |-> ids, rules |-> [v \in Visors |-> {}], rid |-> NoID, ok |-> TRUE]
GenerateRules(ids, d) ==
    LET fwd == SaveForwardRules(NothingPopped(ids), d.fwd)
        rev == SaveForwardRules(fwd.st, d.rev)
        srcApp == AppRule(rev.st.rid, fwd.first, d.dst, d.lport, d.rport)
        dstApp == AppRule(fwd.st.rid, rev.first, d.src, d.rport, d.lport)
    IN  [ok |-> rev.st.ok,
         rules |-> [rev.st.rules EXCEPT ![d.src] = @ \cup {srcApp}, ![d.dst] = @ \cup {dstApp}],
         srcFwdRID |-> fwd.first, dstFwdRID |-> rev.first]

-----------------------------------------------------------------------------
(* The packets.                                                            *)

\* The rules visor p.visor serves for a packet with route id p.id.
RulesAt(tbl, p) == {r \in tbl[p.visor] : r.key = p.id}

\* forwardPacket: where a packet at p is sent on to; without a forward rule it stays.
Forwarded(tbl, p) ==
    LET fwd == {r \in RulesAt(tbl, p) : r.type = "fwd" /\ r.to \in Visors}
    IN  IF fwd = {} THEN p
        ELSE LET r == CHOOSE r \in fwd : TRUE
             IN  [visor |-> r.to, id |-> r.next]

\* handlePacket from visor to visor: where a packet at p is after each number of hops.
Travel(tbl, p) ==
    LET pos[n \in 0..MaxHops] == IF n = 0 THEN p ELSE Forwarded(tbl, pos[n - 1])
    IN  pos

\* handlePacket, consumePacket: where a packet that reaches v with route id `id' ends
\* up when visor w serves the rules tbl[w].  The result holds the visor and the app
\* rule that consumes it, or nothing when some visor has no rule for it.
Consumed(tbl, v, id) ==
    LET end == Travel(tbl, [visor |-> v, id |-> id])[MaxHops]
    IN  {[visor |-> end.visor, rule |-> r] : r \in {r \in RulesAt(tbl, end) : r.type = "app"}}
=============================================================================

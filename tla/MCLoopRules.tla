----------------------------- MODULE MCLoopRules -----------------------------
(***************************************************************************)
(* GenerateRules on every pair of routes of a small network, with every    *)
(* outcome of the reservation: the ids of a visor are distinct, in any     *)
(* order, with gaps where other setups drew ids.                           *)
(***************************************************************************)
EXTENDS LoopRules, Functions

CONSTANTS Src, Dst, MaxID

\* The number of ids asked of a visor is a uint8; maxHops is 50.
ASSUME RulesAssumption ==
    /\ Src \in Visors /\ Dst \in Visors /\ Src # Dst
    /\ MaxHops \in Nat /\ 2 * (MaxHops + 1) < 256
    /\ MaxID \in Nat

VARIABLES desc, reserved, made

rulesVars == <<desc, reserved, made>>

\* The simple routes from a to b, as the route finder returns them.
Routes(a, b) ==
    LET paths == UNION {{p \in [1..n -> Visors] :
                           /\ p[1] = a /\ p[n] = b
                           /\ \A i, j \in 1..n : p[i] = p[j] => i = j} : n \in 2..(MaxHops + 1)}
    IN  {[i \in 1..(Len(p) - 1) |-> [from |-> p[i], to |-> p[i + 1]]] : p \in paths}

Descriptors ==
    [src : {Src}, dst : {Dst}, lport : {10}, rport : {3},
     fwd : Routes(Src, Dst), rev : Routes(Dst, Src)]

Nothing == [ok |-> FALSE]

RulesInit ==
    /\ desc \in Descriptors
    /\ reserved = <<>>
    /\ made = Nothing

\* reserveRouteIDs with visors that answer with as many ids as asked for.
Reserve ==
    /\ reserved = <<>>
    /\ LET rec == NewIDReservoir(desc.fwd, desc.rev)
           Queues(n) == {q \in [1..n -> 1..MaxID] : \A i, j \in 1..n : q[i] = q[j] => i = j}
       IN  \E f \in [Visors -> UNION {Queues(rec[v]) : v \in Visors}] :
             /\ \A v \in Visors : Len(f[v]) = rec[v]
             /\ reserved' = f
    /\ UNCHANGED <<desc, made>>

Generate ==
    /\ reserved # <<>>
    /\ made = Nothing
    /\ made' = GenerateRules(reserved, desc)
    /\ UNCHANGED <<desc, reserved>>

RulesNext == Reserve \/ Generate

RulesSpec == RulesInit /\ [][RulesNext]_rulesVars

RulesMade == made # Nothing

\* GenerateRules never runs out of ids (its error return), sets exactly one
\* rule under each id reserved and none under any other: no placeholder of
\* occupyRouteID is left behind and no rule overwrites another.
EveryIDUsedOnce ==
    RulesMade =>
        /\ made.ok
        /\ \A v \in Visors :
             /\ {r.key : r \in made.rules[v]} = Range(reserved[v])
             /\ Cardinality(made.rules[v]) = Len(reserved[v])

\* A packet the source sends into the forward rule it is confirmed with comes
\* out at the destination, at the app rule that names the source and the two
\* ports, and a packet of the destination likewise at the source, whatever the
\* two routes have in common.
Joins(from, rid, to, lport, rport) ==
    \E r \in made.rules[to] :
        /\ Consumed(made.rules, from, rid) = {[visor |-> to, rule |-> r]}
        /\ r.remote = from /\ r.lport = lport /\ r.rport = rport

RulesJoinTheEnds ==
    RulesMade =>
        /\ Joins(desc.src, made.srcFwdRID, desc.dst, desc.rport, desc.lport)
        /\ Joins(desc.dst, made.dstFwdRID, desc.src, desc.lport, desc.rport)
=============================================================================

------------------------------ MODULE LoopSetup ------------------------------
(***************************************************************************)
(* Setting up and closing loops: the routers that ask for a loop           *)
(* (pkg/router/router.go), the setup node that serves them concurrently    *)
(* (pkg/setup/node.go), and the route managers of all visors on the way    *)
(* (pkg/router/route_manager.go), over an unreliable network.              *)
(*                                                                         *)
(* A request to a visor is a message; the setup node awaits the replies of *)
(* a phase and gives up on any of them after ReadTimeout, while the        *)
(* request may still be handled later.  A reply that is lost is the same   *)
(* as a request that is handled after the setup node gave up.              *)
(*                                                                         *)
(* A visor's table is a set of rules with distinct keys.  `live' holds the *)
(* keys with an activity record: module RoutingTable shows that a rule     *)
(* under any other key is never served.  The keep-alive itself (two hours) *)
(* does not run out during a behaviour.                                    *)
(***************************************************************************)
EXTENDS LoopRules

CONSTANTS
    Loops,          \* the loops asked for
    Desc,           \* their src, dst, rport, fwd and rev
    StaticPorts,    \* the ports apps serve, on every visor
    DynamicPorts,   \* the ports portList.add gives out, from minPort on
    Persistent,     \* TRUE when the visors keep their tables in BoltDB
    MaxEvents       \* bound on the restarts of visors and the closes of apps together

\* A loop of a visor to itself is confirmed on the spot, without the setup node.
ASSUME LoopAssumption ==
    /\ NoVisor \notin Visors
    /\ MaxHops \in Nat
    /\ MaxEvents \in Nat
    /\ Persistent \in BOOLEAN
    /\ StaticPorts \subseteq Nat \ {0}
    /\ DynamicPorts \subseteq Nat \ {0}
    /\ StaticPorts \cap DynamicPorts = {}
    /\ \A l \in Loops :
         /\ Desc[l].src \in Visors /\ Desc[l].dst \in Visors /\ Desc[l].src # Desc[l].dst
         /\ Desc[l].rport \in Nat
         /\ IsRoute(Desc[l].fwd, Desc[l].src, Desc[l].dst)
         /\ IsRoute(Desc[l].rev, Desc[l].dst, Desc[l].src)
         /\ Len(Desc[l].fwd) <= MaxHops /\ Len(Desc[l].rev) <= MaxHops

VARIABLES
    table,       \* table[v]: the rules visor v stores
    live,        \* live[v]: the keys with an activity record
    nextID,      \* nextID[v]: the last route id assigned
    ports,       \* ports[v]: the bound ports
    loops,       \* loops[v]: the loops of its ports: [lport, remote, rport, to, id]
    lport,       \* lport[l]: the port requestLoop allocated
    dial,        \* dial[l]: what the app that dials has been told
    phase,       \* phase[l]: how far handleCreateLoop is
    await,       \* await[l]: visors whose reply the setup node awaits
    bad,         \* bad[l]: some request of the phase failed
    ids,         \* ids[l]: the ids reserved
    gen,         \* gen[l]: what GenerateRules returned
    msgs,        \* requests of handleCreateLoop in flight
    confirming,  \* confirmLoop handlers that have notified their app
    closings,    \* LoopClosed requests in flight
    events,      \* restarts and closes so far
    stored,      \* auxiliary: stored[l][v]: whether v has stored l's rules, and
                 \* lost sight of them in a restart since
    closed       \* auxiliary: loops some end has closed

visorVars == <<table, live, nextID, ports, loops>>
setupVars == <<phase, await, bad, ids, gen>>
vars == <<visorVars, setupVars, lport, dial, msgs, confirming, closings, events,
          stored, closed>>

NoPort == 0
NoLoop == [to |-> NoVisor, id |-> NoID]
NotGenerated == [ok |-> FALSE]

\* The descriptor sent to the setup node.
LoopDescriptor(l) ==
    [src |-> Desc[l].src, dst |-> Desc[l].dst, lport |-> lport[l],
     rport |-> Desc[l].rport, fwd |-> Desc[l].fwd, rev |-> Desc[l].rev]

Reserved(l) == NewIDReservoir(Desc[l].fwd, Desc[l].rev)
Path(l) == {v \in Visors : Reserved(l)[v] > 0}

\* The two ends of a loop as the visor at one of them sees it.
Ends(l) == {Desc[l].src, Desc[l].dst}
LocalPort(l, v) == IF v = Desc[l].src THEN lport[l] ELSE Desc[l].rport
RemotePort(l, v) == IF v = Desc[l].src THEN Desc[l].rport ELSE lport[l]
RemotePK(l, v) == IF v = Desc[l].src THEN Desc[l].dst ELSE Desc[l].src

Placeholder(id) == ForwardRule(id, NoID, NoVisor)
SetRules(T, rules) == {r \in T : \A s \in rules : s.key # r.key} \cup rules
Served == [v \in Visors |-> {r \in table[v] : r.key \in live[v]}]

\* portManager.RemoveLoop
RemoveLoop(L, lp, remote, rp) ==
    {e \in L : <<e.lport, e.remote, e.rport>> # <<lp, remote, rp>>}

\* portManager.SetLoop
SetLoop(L, lp, remote, rp, loop) ==
    RemoveLoop(L, lp, remote, rp)
      \cup {[lport |-> lp, remote |-> remote, rport |-> rp, to |-> loop.to, id |-> loop.id]}

Init ==
    /\ table = [v \in Visors |-> {}]
    /\ live = [v \in Visors |-> {}]
    /\ nextID = [v \in Visors |-> 0]
    /\ ports = [v \in Visors |-> StaticPorts]
    /\ loops = [v \in Visors |-> {}]
    /\ lport = [l \in Loops |-> NoPort]
    /\ dial = [l \in Loops |-> "none"]
    /\ phase = [l \in Loops |-> "idle"]
    /\ await = [l \in Loops |-> {}]
    /\ bad = [l \in Loops |-> FALSE]
    /\ ids = [l \in Loops |-> [v \in Visors |-> <<>>]]
    /\ gen = [l \in Loops |-> NotGenerated]
    /\ msgs = {}
    /\ confirming = {}
    /\ closings = {}
    /\ events = 0
    /\ stored = [l \in Loops |-> [v \in Visors |-> "no"]]
    /\ closed = {}

-----------------------------------------------------------------------------
(* The router that dials.                                                  *)

Requests(kind, l, to) == [kind : {kind}, loop : {l}, at : to]

\* requestLoop allocates the lowest free port and gives it an empty loop; then
\* either no setup node takes the request, or one starts on it and asks every
\* visor on the routes for ids.  An error releases neither port nor loop.
RequestLoop(l) ==
    LET v == Desc[l].src
        free == DynamicPorts \ ports[v]
        p == CHOOSE p \in free : \A q \in free : p <= q
    IN  /\ phase[l] = "idle"
        /\ free # {}
        /\ lport' = [lport EXCEPT ![l] = p]
        /\ ports' = [ports EXCEPT ![v] = @ \cup {p}]
        /\ loops' = [loops EXCEPT ![v] = SetLoop(@, p, Desc[l].dst, Desc[l].rport, NoLoop)]
        /\ \/ /\ phase' = [phase EXCEPT ![l] = "failed"]
              /\ dial' = [dial EXCEPT ![l] = "err"]
              /\ UNCHANGED <<await, msgs>>
           \/ /\ phase' = [phase EXCEPT ![l] = "reserve"]
              /\ dial' = [dial EXCEPT ![l] = "wait"]
              /\ await' = [await EXCEPT ![l] = Path(l)]
              /\ msgs' = msgs \cup Requests("reserve", l, Path(l))
        /\ UNCHANGED <<table, live, nextID, bad, ids, gen, confirming, closings, events,
                       stored, closed>>

\* The outcome of a dial that waits for the setup node's reply.
DialEnds(l, outcome) ==
    /\ dial[l] = "wait"
    /\ dial' = [dial EXCEPT ![l] = outcome]
    /\ UNCHANGED <<visorVars, setupVars, lport, msgs, confirming, closings, events,
                   stored, closed>>

\* CreateLoop gives up after ReadTimeout, well before the setup node does, or
\* the connection to the setup node ends.
DialTimeout(l) == DialEnds(l, "err")

\* A router that takes any reply for a success.
TakesFailureForSuccess(l) ==
    /\ phase[l] \in {"ok", "failed"}
    /\ DialEnds(l, "ok")

\* The reply of the setup node arrives.
DialReply(l) ==
    \/ phase[l] = "ok" /\ DialEnds(l, "ok")
    \/ phase[l] = "failed" /\ DialEnds(l, "err")

-----------------------------------------------------------------------------
(* The setup node.                                                         *)

\* The reply of v, when the setup node still awaits it in the phase it is for.
Reply(kind, l, v, ok) ==
    IF phase[l] = kind /\ v \in await[l]
      THEN /\ await' = [await EXCEPT ![l] = @ \ {v}]
           /\ bad' = [bad EXCEPT ![l] = @ \/ ~ok]
      ELSE UNCHANGED <<await, bad>>

\* readAndDecodePacketWithTimeout: no reply in time, or the visor cannot be
\* dialled, or the connection ends (with EOF: a dmsg read never returns the
\* ErrClosedPipe that would count as success); the request is lost, or is still
\* to be handled.
GiveUp(l, v) ==
    /\ v \in await[l]
    /\ await' = [await EXCEPT ![l] = @ \ {v}]
    /\ bad' = [bad EXCEPT ![l] = TRUE]
    /\ \/ UNCHANGED msgs
       \/ msgs' = msgs \ Requests(phase[l], l, {v})
    /\ UNCHANGED <<visorVars, phase, ids, gen, lport, dial, confirming, closings, events,
                   stored, closed>>

\* The replies of a phase are all in, or given up.
PhaseOver(l, p) == phase[l] = p /\ await[l] = {}

\* handleCreateLoop returns, and handleRequest writes the reply, which may be lost.
Finish(l, p) ==
    /\ phase' = [phase EXCEPT ![l] = p]
    /\ UNCHANGED <<visorVars, await, bad, ids, gen, lport, dial, msgs, confirming, closings,
                   events, stored, closed>>

Proceed(l, p, to) ==
    /\ phase' = [phase EXCEPT ![l] = p]
    /\ await' = [await EXCEPT ![l] = to]
    /\ msgs' = msgs \cup Requests(p, l, to)
    /\ UNCHANGED <<visorVars, bad, ids, lport, dial, confirming, closings, events,
                   stored, closed>>

\* handleCreateLoop, an error in any phase: nothing is undone.
PhaseFailed(l) ==
    /\ \E p \in {"reserve", "add", "confirmDst", "confirmSrc"} : PhaseOver(l, p)
    /\ bad[l]
    /\ Finish(l, "failed")

\* ... the ids are reserved: the rules go out to all visors at once, ...
AddRules(l) ==
    LET g == GenerateRules(ids[l], LoopDescriptor(l))
    IN  /\ PhaseOver(l, "reserve") /\ ~bad[l]
        /\ IF g.ok
             THEN /\ gen' = [gen EXCEPT ![l] = g]
                  /\ Proceed(l, "add", {v \in Visors : g.rules[v] # {}})
             ELSE Finish(l, "failed")

\* A setup node that confirms with the destination before the rules are there.
ConfirmTooEarly(l) ==
    /\ phase[l] = "add" /\ ~bad[l]
    /\ Proceed(l, "confirmDst", {Desc[l].dst})
    /\ UNCHANGED gen

\* A setup node that confirms with the initiating visor first.
ConfirmSrcFirst(l) ==
    /\ PhaseOver(l, "add") /\ ~bad[l]
    /\ Proceed(l, "confirmSrc", {Desc[l].src})
    /\ UNCHANGED gen

\* ... the rules are there: the destination confirms, ...
ConfirmWithDst(l) ==
    /\ PhaseOver(l, "add") /\ ~bad[l]
    /\ Proceed(l, "confirmDst", {Desc[l].dst})
    /\ UNCHANGED gen

\* ... then the source, ...
ConfirmWithSrc(l) ==
    /\ PhaseOver(l, "confirmDst") /\ ~bad[l]
    /\ Proceed(l, "confirmSrc", {Desc[l].src})
    /\ UNCHANGED gen

\* ... and the request is done.
LoopCreated(l) ==
    /\ PhaseOver(l, "confirmSrc") /\ ~bad[l]
    /\ Finish(l, "ok")

-----------------------------------------------------------------------------
(* The route managers.  A connection carries one request.                  *)

\* occupyRouteID
OccupyRouteID(l, v) ==
    LET n == Reserved(l)[v]
        new == {nextID[v] + i : i \in 1..n}
        mine == phase[l] = "reserve" /\ v \in await[l]
    IN  /\ Requests("reserve", l, {v}) \subseteq msgs
        /\ msgs' = msgs \ Requests("reserve", l, {v})
        /\ nextID' = [nextID EXCEPT ![v] = @ + n]
        /\ table' = [table EXCEPT ![v] = SetRules(@, {Placeholder(id) : id \in new})]
        /\ live' = [live EXCEPT ![v] = @ \cup new]
        /\ ids' = IF mine THEN [ids EXCEPT ![l][v] = [i \in 1..n |-> nextID[v] + i]] ELSE ids
        /\ Reply("reserve", l, v, TRUE)
        /\ UNCHANGED <<ports, loops, phase, gen, lport, dial, confirming, closings, events,
                       stored, closed>>

\* setRoutingRules
SetRoutingRules(l, v) ==
    /\ Requests("add", l, {v}) \subseteq msgs
    /\ msgs' = msgs \ Requests("add", l, {v})
    /\ table' = [table EXCEPT ![v] = SetRules(@, gen[l].rules[v])]
    /\ stored' = [stored EXCEPT ![l][v] =
                    IF {r.key : r \in gen[l].rules[v]} \subseteq live[v] THEN "yes" ELSE "wiped"]
    /\ Reply("add", l, v, TRUE)
    /\ UNCHANGED <<live, nextID, ports, loops, phase, ids, gen, lport, dial, confirming,
                   closings, events, closed>>

ConfirmKind(l, v) == IF v = Desc[l].dst THEN "confirmDst" ELSE "confirmSrc"
FwdRID(l, v) == IF v = Desc[l].dst THEN gen[l].dstFwdRID ELSE gen[l].srcFwdRID

\* The app rules that the range of confirmLoop and of RemoveLoopRule may meet
\* first.
LoopRulesAt(v, lp, remote, rp) ==
    {r \in table[v] : r.type = "app" /\ r.lport = lp /\ r.remote = remote /\ r.rport = rp}

\* A confirmation that lends the app the rule's own id instead of the next one.
ConfirmOwnID(l, v) ==
    LET apps == LoopRulesAt(v, LocalPort(l, v), RemotePK(l, v), RemotePort(l, v))
        fwds == {r \in Served[v] : r.key = FwdRID(l, v) /\ r.type = "fwd"}
    IN  /\ Requests(ConfirmKind(l, v), l, {v}) \subseteq msgs
        /\ apps # {} /\ fwds # {} /\ LocalPort(l, v) \in ports[v]
        /\ msgs' = msgs \ Requests(ConfirmKind(l, v), l, {v})
        /\ \E app \in apps, fwd \in fwds :
             /\ loops' = [loops EXCEPT ![v] =
                            SetLoop(@, LocalPort(l, v), RemotePK(l, v), RemotePort(l, v),
                                    [to |-> fwd.to, id |-> fwd.key])]
             /\ confirming' = confirming \cup
                  {[loop |-> l, at |-> v, rule |-> [app EXCEPT !.resp = FwdRID(l, v)]]}
        /\ UNCHANGED <<table, live, nextID, ports, setupVars, lport, dial, closings, events,
                       stored, closed>>

\* confirmLoop, up to and with OnConfirmLoop (Router.confirmLoop): the app rule
\* is found, the forward rule is served, the port is bound: the loop is set and
\* the app notified.  The rule it is about to store is a copy.
ConfirmLoop(l, v) ==
    LET apps == LoopRulesAt(v, LocalPort(l, v), RemotePK(l, v), RemotePort(l, v))
        fwds == {r \in Served[v] : r.key = FwdRID(l, v) /\ r.type = "fwd"}
    IN  /\ Requests(ConfirmKind(l, v), l, {v}) \subseteq msgs
        /\ apps # {} /\ fwds # {} /\ LocalPort(l, v) \in ports[v]
        /\ msgs' = msgs \ Requests(ConfirmKind(l, v), l, {v})
        /\ \E app \in apps, fwd \in fwds :
             /\ loops' = [loops EXCEPT ![v] =
                            SetLoop(@, LocalPort(l, v), RemotePK(l, v), RemotePort(l, v),
                                    [to |-> fwd.to, id |-> fwd.next])]
             /\ confirming' = confirming \cup
                  {[loop |-> l, at |-> v, rule |-> [app EXCEPT !.resp = FwdRID(l, v)]]}
        /\ UNCHANGED <<table, live, nextID, ports, setupVars, lport, dial, closings, events,
                       stored, closed>>

\* confirmLoop's errors: unknown loop, no forward rule, port not bound.
ConfirmLoopFails(l, v) ==
    LET apps == LoopRulesAt(v, LocalPort(l, v), RemotePK(l, v), RemotePort(l, v))
        fwds == {r \in Served[v] : r.key = FwdRID(l, v) /\ r.type = "fwd"}
    IN  /\ Requests(ConfirmKind(l, v), l, {v}) \subseteq msgs
        /\ apps = {} \/ fwds = {} \/ LocalPort(l, v) \notin ports[v]
        /\ msgs' = msgs \ Requests(ConfirmKind(l, v), l, {v})
        /\ Reply(ConfirmKind(l, v), l, v, FALSE)
        /\ UNCHANGED <<visorVars, phase, ids, gen, lport, dial, confirming, closings, events,
                       stored, closed>>

\* confirmLoop, the rest: the copy, with the reverse id set, goes back under
\* its key, whatever happened to that rule since it was read.
ConfirmLoopSet(c) ==
    /\ c \in confirming
    /\ confirming' = confirming \ {c}
    /\ table' = [table EXCEPT ![c.at] = SetRules(@, {c.rule})]
    /\ Reply(ConfirmKind(c.loop, c.at), c.loop, c.at, TRUE)
    /\ UNCHANGED <<live, nextID, ports, loops, phase, ids, gen, lport, dial, msgs, closings,
                   events, stored, closed>>

-----------------------------------------------------------------------------
(* Closing a loop.                                                         *)

\* RemoveLoopRule deletes one matching app rule, if there is one.
RemoveLoopRule(v, lp, remote, rp) ==
    IF LoopRulesAt(v, lp, remote, rp) = {} THEN UNCHANGED table
    ELSE \E r \in LoopRulesAt(v, lp, remote, rp) : table' = [table EXCEPT ![v] = @ \ {r}]

\* destroyLoop: a static port loses the loop, a dynamic one goes altogether.
DestroyLoop(v, lp, remote, rp) ==
    /\ IF lp \in StaticPorts
         THEN /\ loops' = [loops EXCEPT ![v] = RemoveLoop(@, lp, remote, rp)]
              /\ UNCHANGED ports
         ELSE /\ loops' = [loops EXCEPT ![v] = {e \in @ : e.lport # lp}]
              /\ ports' = [ports EXCEPT ![v] = @ \ {lp}]
    /\ RemoveLoopRule(v, lp, remote, rp)

\* handleCloseLoop of the setup node passes the news on, if both can be reached.
\* The loop the app names has no public key on its local side, so the request that
\* reaches the other visor names no remote key.
HandleCloseLoop(l, v) ==
    \/ UNCHANGED closings
    \/ closings' = closings \cup
         {[at |-> RemotePK(l, v), lport |-> RemotePort(l, v), remote |-> NoVisor,
           rport |-> LocalPort(l, v)]}

\* closeLoop, called when an app closes its end.
CloseLoop(l, v) ==
    /\ events < MaxEvents
    /\ v \in Ends(l)
    /\ v = Desc[l].src => dial[l] = "ok"
    /\ \E e \in loops[v] :
         /\ e.to # NoVisor
         /\ <<e.lport, e.remote, e.rport>> = <<LocalPort(l, v), RemotePK(l, v), RemotePort(l, v)>>
    /\ DestroyLoop(v, LocalPort(l, v), RemotePK(l, v), RemotePort(l, v))
    /\ closed' = closed \cup {m \in Loops : v \in Ends(m) /\ LocalPort(m, v) = LocalPort(l, v)
                                  /\ RemotePK(m, v) = RemotePK(l, v)
                                  /\ RemotePort(m, v) = RemotePort(l, v)}
    /\ HandleCloseLoop(l, v)
    /\ events' = events + 1
    /\ UNCHANGED <<live, nextID, setupVars, lport, dial, msgs, confirming, stored>>

\* loopClosed: nothing happens when the port is not bound.
LoopClosed(m) ==
    /\ m \in closings
    /\ closings' = closings \ {m}
    /\ IF m.lport \in ports[m.at]
         THEN /\ DestroyLoop(m.at, m.lport, m.remote, m.rport)
              /\ closed' = closed \cup
                   {l \in Loops : m.lport \notin StaticPorts /\ Desc[l].src = m.at
                                    /\ lport[l] = m.lport}
         ELSE UNCHANGED <<table, ports, loops, closed>>
    /\ UNCHANGED <<live, nextID, setupVars, lport, dial, msgs, confirming, events, stored>>

-----------------------------------------------------------------------------
(* Visors that restart.                                                    *)

\* A restart that starts the route ids over, as an in-memory table does.
RestartFromOne(v) ==
    /\ events < MaxEvents
    /\ events' = events + 1
    /\ table' = [table EXCEPT ![v] = {}]
    /\ live' = [live EXCEPT ![v] = {}]
    /\ nextID' = [nextID EXCEPT ![v] = 0]
    /\ ports' = [ports EXCEPT ![v] = StaticPorts]
    /\ loops' = [loops EXCEPT ![v] = {}]
    /\ confirming' = {c \in confirming : c.at # v}
    /\ dial' = [l \in Loops |-> IF Desc[l].src = v /\ dial[l] = "wait" THEN "err" ELSE dial[l]]
    /\ stored' = [l \in Loops |-> [stored[l] EXCEPT ![v] = IF @ = "yes" THEN "wiped" ELSE @]]
    /\ closed' = closed \cup {l \in Loops : v \in Ends(l) /\ phase[l] # "idle"}
    /\ UNCHANGED <<setupVars, lport, msgs, closings>>

\* The visor stops at any point and starts again with the rules its table kept
\* and no activity, no loops, and its apps on their static ports.
Restart(v) ==
    /\ events < MaxEvents
    /\ events' = events + 1
    /\ table' = [table EXCEPT ![v] = IF Persistent THEN @ ELSE {}]
    /\ live' = [live EXCEPT ![v] = {}]
    /\ nextID' = [nextID EXCEPT ![v] = IF Persistent THEN @ ELSE 0]
    /\ ports' = [ports EXCEPT ![v] = StaticPorts]
    /\ loops' = [loops EXCEPT ![v] = {}]
    /\ confirming' = {c \in confirming : c.at # v}
    /\ dial' = [l \in Loops |-> IF Desc[l].src = v /\ dial[l] = "wait" THEN "err" ELSE dial[l]]
    /\ stored' = [l \in Loops |-> [stored[l] EXCEPT ![v] = IF @ = "yes" THEN "wiped" ELSE @]]
    /\ closed' = closed \cup {l \in Loops : v \in Ends(l) /\ phase[l] # "idle"}
    /\ UNCHANGED <<setupVars, lport, msgs, closings>>

\* Cleanup of the routing table: the rules without activity go.
Cleanup(v) ==
    /\ Served[v] # table[v]
    /\ table' = [table EXCEPT ![v] = Served[v]]
    /\ UNCHANGED <<live, nextID, ports, loops, setupVars, lport, dial, msgs, confirming,
                   closings, events, stored, closed>>

SetupStep(l) ==
    \/ PhaseFailed(l) \/ AddRules(l) \/ ConfirmWithDst(l) \/ ConfirmWithSrc(l) \/ LoopCreated(l)

VisorStep(l, v) ==
    \/ OccupyRouteID(l, v) \/ SetRoutingRules(l, v)
    \/ ConfirmLoop(l, v) \/ ConfirmLoopFails(l, v)

Next ==
    \/ \E l \in Loops : RequestLoop(l) \/ DialTimeout(l) \/ DialReply(l) \/ SetupStep(l)
    \/ \E l \in Loops, v \in Visors : GiveUp(l, v) \/ VisorStep(l, v) \/ CloseLoop(l, v)
    \/ \E c \in confirming : ConfirmLoopSet(c)
    \/ \E m \in closings : LoopClosed(m)
    \/ \E v \in Visors : Restart(v) \/ Cleanup(v)

Spec == Init /\ [][Next]_vars

-----------------------------------------------------------------------------
(* Properties.                                                             *)

TypeOK ==
    /\ \A v \in Visors :
         /\ nextID[v] \in Nat
         /\ live[v] \subseteq Nat
         /\ ports[v] \subseteq StaticPorts \cup DynamicPorts
         /\ \A r, s \in table[v] : r.key = s.key => r = s
         /\ \A e \in loops[v] : e.lport \in ports[v] /\ e.to \in Visors \cup {NoVisor}
    /\ \A l \in Loops :
         /\ lport[l] \in DynamicPorts \cup {NoPort}
         /\ dial[l] \in {"none", "wait", "ok", "err"}
         /\ phase[l] \in {"idle", "reserve", "add", "confirmDst", "confirmSrc", "ok", "failed"}
         /\ await[l] \subseteq Visors
         /\ bad[l] \in BOOLEAN
         /\ stored[l] \in [Visors -> {"no", "yes", "wiped"}]

\* The entry of loop l in v's port manager, when confirmed.
Confirmed(l, v) ==
    {e \in loops[v] : /\ e.to # NoVisor
                      /\ e.lport = LocalPort(l, v)
                      /\ e.remote = RemotePK(l, v)
                      /\ e.rport = RemotePort(l, v)}

\* Whatever setups fail, time out, are applied late or run side by side, and
\* whichever visors restart: a packet that an app sends on a loop reaches the
\* app at the other end of that loop, or nobody (forwardAppPacket, handlePacket).
NoMisdelivery ==
    \A v \in Visors : \A e \in {e \in loops[v] : e.to \in Visors} :
        \A c \in Consumed(Served, e.to, e.id) :
            /\ c.visor = e.remote
            /\ c.rule.remote = v
            /\ c.rule.lport = e.rport
            /\ c.rule.rport = e.lport

\* A late confirmation of a loop that is closed has bound the entry of l at v,
\* which has taken over its port, to the route of the closed loop.
Rebound(l, v) ==
    \E m \in closed : gen[m].ok /\
        \E e \in Confirmed(l, v), r \in gen[m].rules[v] :
            r.type = "fwd" /\ r.to = e.to /\ r.next = e.id

\* A loop that Dial returned carries packets both ways until an end closes it, a
\* visor on the way restarts between reserving its ids and now, or a loop that
\* had its port before is confirmed once more: whatever replies come late, to the
\* setup node or to the dial, and whatever other loops fail, close and restart.
CreatedLoopDelivers ==
    \A l \in Loops :
        dial[l] = "ok" /\ l \notin closed /\ (\A v \in Visors : stored[l][v] # "wiped") =>
            \A v \in Ends(l) :
                \/ \E e \in Confirmed(l, v) : Consumed(Served, e.to, e.id) # {}
                \/ Rebound(l, v)

\* The initiating router takes a loop for confirmed only when the responding
\* one has confirmed it (handleCreateLoop's order), closes and restarts aside.
ResponderFirst ==
    \A l \in Loops \ closed :
        Confirmed(l, Desc[l].src) # {} => Confirmed(l, Desc[l].dst) # {}
=============================================================================

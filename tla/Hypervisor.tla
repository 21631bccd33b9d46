----------------------------- MODULE Hypervisor -----------------------------
(***************************************************************************)
(* The hypervisor's API (pkg/hypervisor/hypervisor.go) over the users of   *)
(* Users and the RPC service of its visors (pkg/visor/rpc.go, called       *)
(* through rpc_client.go).  A request that is authorized runs a handler,   *)
(* which finds the visor's connection under mu, calls the visor once or    *)
(* several times, and answers.  Visors connect again, lose connections and *)
(* stop answering; a local client (skywire-cli) calls the same RPCs.       *)
(*                                                                         *)
(* EnableAuth is true.  middleware.Timeout only cancels a context that no  *)
(* handler looks at, so it ends no wait.                                   *)
(***************************************************************************)
EXTENDS Users

CONSTANTS
    Visors,
    Used,        \* the handlers that clients use
    MaxConns,    \* bound on the connections of visors
    MaxFails,    \* bound on failures of connections
    MaxCalls     \* bound on the calls of local clients

\* Handlers that make one call without effect: 500 if it fails, else the reply.
ReadHandlers == {"getUptime", "getNode", "getApps", "getTransportTypes",
                 "getTransports", "getRoutes"}

AppHandlers == {"getApp", "putApp", "appLogsSince"}
TpHandlers == {"getTransport", "deleteTransport"}
RouteHandlers == {"getRoute", "putRoute", "deleteRoute"}
NodeHandlers == ReadHandlers \cup {"exec", "getHealth", "postTransport", "postRoute", "getLoops"}
Handlers == NodeHandlers \cup AppHandlers \cup TpHandlers \cup RouteHandlers

ASSUME HypervisorAssumption ==
    /\ Used \subseteq Handlers
    /\ MaxConns \in Nat /\ MaxFails \in Nat /\ MaxCalls \in Nat

VARIABLES
    nodes,      \* nodes: visor -> connection, or NoConn
    conn,       \* conn[c]: [visor, st]
    accepting,  \* the connection ServeRPC waits to register, or NoConn
    readers,    \* the requests that hold mu for reading
    h,          \* h[r]: the handler of request r
    vis,        \* vis[v]: what the RPCs of visor v read and write
    fails, calls,   \* failures and local calls so far
    seen        \* auxiliary: seen[r]: states of the app while putApp of r ran

hyperVars == <<nodes, conn, accepting, readers, h, vis, fails, calls, seen>>
vars == <<userVars, hyperVars>>

Conns == 1..MaxConns
NoConn == 0

RPCs == {"read", "Exec", "Health", "Summary", "Apps", "StartApp", "StopApp", "SetAutoStart",
         "AddTransport", "AddRoutingRule", "Loops"}
LocalRPCs == {"StartApp", "StopApp", "SetAutoStart", "SetRoutingRule", "RemoveRoutingRule"}

Idle == [op |-> "none", at |-> "none", rpc |-> "read", conn |-> NoConn, left |-> {},
         app |-> "off", auto |-> "keep", status |-> "keep", rules |-> FALSE]

HandlerType ==
    [op : Handlers \cup {"none", "getNodes"},
     at : {"none", "ready", "called", "ranged", "served", "failed", "stuck"},
     rpc : RPCs, conn : Conns \cup {NoConn}, left : SUBSET Visors,
     app : {"on", "off"}, auto : {"on", "off", "keep"},
     status : {"start", "stop", "other", "keep"}, rules : BOOLEAN]

\* The app as startedApps has it: not there, there, there and told to stop, or left
\* there by a SpawnApp that could not make its directory.
AppStates == {"stopped", "running", "stopping", "nodir"}
VisorType == [autostart : {"on", "off"}, app : AppStates, rules : SUBSET {"app", "fwd"}]

TypeOK ==
    /\ UsersTypeOK
    /\ nodes \in [Visors -> Conns \cup {NoConn}]
    /\ \A v \in Visors : nodes[v] # NoConn => conn[nodes[v]].visor = v
    /\ conn \in [Conns -> [visor : Visors, st : {"none", "open", "hung", "dead"}]]
    /\ accepting \in Conns \cup {NoConn}
    /\ readers \subseteq {r \in Requests : h[r].op = "getNodes"}
    /\ h \in [Requests -> HandlerType]
    /\ vis \in [Visors -> VisorType]
    /\ fails \in 0..MaxFails /\ calls \in 0..MaxCalls
    /\ seen \in [Requests -> SUBSET ({"on", "off"} \cup AppStates)]

Init ==
    /\ UsersInit /\ account # NoUser
    /\ nodes = [v \in Visors |-> NoConn]
    /\ conn \in [Conns -> [visor : Visors, st : {"none"}]]
    /\ accepting = NoConn /\ readers = {}
    /\ h = [r \in Requests |-> Idle]
    /\ vis = [v \in Visors |-> [autostart |-> "off", app |-> "stopped",
                                rules |-> {"app", "fwd"}]]
    /\ fails = 0 /\ calls = 0
    /\ seen = [r \in Requests |-> {}]

-----------------------------------------------------------------------------
(* The visors' connections                                                 *)

\* ServeRPC accepts a connection and asks for mu.  Connections are used in order.
Accept(c) ==
    /\ accepting = NoConn
    /\ conn[c].st = "none" /\ \A d \in 1..(c - 1) : conn[d].st # "none"
    /\ conn' = [conn EXCEPT ![c].st = "open"]
    /\ accepting' = c
    /\ UNCHANGED <<userVars, nodes, readers, h, vis, fails, calls, seen>>

\* The connection replaces the one the visor had.
RegisterNode ==
    /\ accepting # NoConn /\ readers = {}
    /\ nodes' = [nodes EXCEPT ![conn[accepting].visor] = accepting]
    /\ accepting' = NoConn
    /\ UNCHANGED <<userVars, conn, readers, h, vis, fails, calls, seen>>

\* mu can be taken for reading: a writer that waits keeps new readers out.
RLockFree == accepting = NoConn

\* A visor stops answering, or its connection breaks.
Fail(c, st) ==
    /\ fails < MaxFails
    /\ conn[c].st \in {"open", "hung"} /\ st # conn[c].st
    /\ conn' = [conn EXCEPT ![c].st = st]
    /\ fails' = fails + 1
    /\ UNCHANGED <<userVars, nodes, accepting, readers, h, vis, calls, seen>>

-----------------------------------------------------------------------------
(* The RPC service of a visor whose state is x: its next state, and what    *)
(* becomes of the call: "served", "failed", or "stuck" with the visor.      *)

Outcome(x, at) == [vis |-> x, at |-> at]
To(x, app) == [x EXCEPT !.app = app]

\* StartApp waits for SpawnApp to signal that the app is launched.  SpawnApp does not
\* when app.Command fails, the port is reserved, the app is there already, or its
\* directory cannot be made.
StartApp(x) ==
    IF x.app = "stopped"
    THEN {Outcome(To(x, "running"), "served"), Outcome(x, "stuck"), Outcome(To(x, "nodir"), "stuck")}
    ELSE {Outcome(x, "stuck")}

\* stopApp signals the process, if it has its pid by now, and closes the connection,
\* either of which may fail; the app is there until SpawnApp has noticed.
StopApp(x) ==
    {Outcome(x, "failed")} \cup
    IF x.app = "stopped" THEN {}
    ELSE {Outcome(To(x, IF x.app = "nodir" THEN "nodir" ELSE "stopping"), at)
            : at \in {"served", "failed"}}

SetAutoStart(x, auto) == {Outcome([x EXCEPT !.autostart = auto], "served")}

\* What the calls on transports do to them is TransportManager's.
AddTransport(x) == {Outcome(x, "served"), Outcome(x, "failed")}

AddRoutingRule(x) == {Outcome([x EXCEPT !.rules = @ \cup {k}], "served") : k \in {"app", "fwd"}}

\* SetRule puts a rule of another kind under the id of one that is there, or of none.
Replaced(rules) ==
    {(rules \ {old}) \cup {new} : old \in {"app", "fwd"}, new \in {"app", "fwd"}}
SetRoutingRule(x) ==
    {Outcome([x EXCEPT !.rules = rules], "served") : rules \in Replaced(x.rules)}
RemoveRoutingRule(x) == {Outcome([x EXCEPT !.rules = @ \ {k}], "served") : k \in {"app", "fwd"}}

\* The command of Exec may never end.
Exec(x) == {Outcome(x, at) : at \in {"served", "failed", "stuck"}}

\* Summary, Health, Uptime, Apps, LogsSince, TransportTypes, Transports and RoutingRules
\* only read; those that open a store may fail.
ReadRPC(x) == {Outcome(x, "served"), Outcome(x, "failed")}

Outcomes(rpc, x, auto) ==
    CASE rpc = "StartApp" -> StartApp(x)
      [] rpc = "StopApp" -> StopApp(x)
      [] rpc = "SetAutoStart" -> SetAutoStart(x, auto)
      [] rpc = "AddTransport" -> AddTransport(x)
      [] rpc = "AddRoutingRule" -> AddRoutingRule(x)
      [] rpc = "SetRoutingRule" -> SetRoutingRule(x)
      [] rpc = "RemoveRoutingRule" -> RemoveRoutingRule(x)
      [] rpc = "Exec" -> Exec(x)
      [] OTHER -> ReadRPC(x)

\* What a PUT may ask for, or leave behind.
Facts(x) == {x.autostart, x.app} \ {"stopped"}
Watch(v, x) ==
    seen' = [r \in Requests |->
                IF seen[r] # {} /\ conn[h[r].conn].visor = v THEN seen[r] \cup Facts(x)
                ELSE seen[r]]

-----------------------------------------------------------------------------
(* A call of a handler                                                     *)

Call(r, rpc) == h' = [h EXCEPT ![r].at = "called", ![r].rpc = rpc]
Pending(r) == req[r].at = "handler" /\ h[r].at \in {"called", "ranged"}

\* The visor executes the call.  Apps hands out the state of the app.
Serve(r) ==
    /\ Pending(r) /\ h[r].rpc # "Loops"
    /\ conn[h[r].conn].st = "open"
    /\ LET v == conn[h[r].conn].visor
       IN \E o \in Outcomes(h[r].rpc, vis[v], h[r].auto) :
             /\ vis' = [vis EXCEPT ![v] = o.vis]
             /\ h' = [h EXCEPT ![r].at = o.at,
                               ![r].app = IF h[r].rpc = "Apps" THEN o.vis.autostart ELSE @]
             /\ IF h[r].rpc = "Apps" /\ h[r].op = "putApp"
                THEN seen' = [seen EXCEPT ![r] = Facts(o.vis)]
                ELSE Watch(v, o.vis)
    /\ UNCHANGED <<userVars, nodes, conn, accepting, readers, fails, calls>>

\* Loops first collects the app rules ...
LoopsRange(r) ==
    /\ Pending(r) /\ h[r].rpc = "Loops" /\ h[r].at = "called"
    /\ conn[h[r].conn].st = "open"
    /\ h' = [h EXCEPT ![r].at = "ranged",
                      ![r].rules = "app" \in vis[conn[h[r].conn].visor].rules]
    /\ UNCHANGED <<userVars, nodes, conn, accepting, readers, vis, fails, calls, seen>>

\* ... and then reads the forward rule of each, which may be gone.
LoopsLookup(r) ==
    /\ Pending(r) /\ h[r].at = "ranged"
    /\ conn[h[r].conn].st = "open"
    /\ h' = [h EXCEPT ![r].at = IF /\ h[r].rules
                                   /\ "fwd" \notin vis[conn[h[r].conn].visor].rules
                                THEN "failed" ELSE "served",
                      ![r].rules = FALSE]
    /\ UNCHANGED <<userVars, nodes, conn, accepting, readers, vis, fails, calls, seen>>

\* The connection breaks: every call on it that waits returns an error, also one that
\* the visor has executed.
CallFails(r) ==
    /\ req[r].at = "handler" /\ h[r].at \in {"called", "ranged", "served", "stuck"}
    /\ conn[h[r].conn].st = "dead"
    /\ h' = [h EXCEPT ![r].at = "failed", ![r].rules = FALSE]
    /\ UNCHANGED <<userVars, nodes, conn, accepting, readers, vis, fails, calls, seen>>

\* SpawnApp notices that the app has ended, told or by itself, and unregisters it.
AppEnds(v, app) ==
    /\ vis[v].app = app
    /\ vis' = [vis EXCEPT ![v] = To(@, "stopped")]
    /\ Watch(v, To(vis[v], "stopped"))
    /\ UNCHANGED <<userVars, nodes, conn, accepting, readers, h, fails, calls>>

\* A call of the local client.
LocalCall(v, rpc) ==
    /\ calls < MaxCalls
    /\ \E o \in Outcomes(rpc, vis[v], "off") :
          /\ vis' = [vis EXCEPT ![v] = o.vis]
          /\ Watch(v, o.vis)
    /\ calls' = calls + 1
    /\ UNCHANGED <<userVars, nodes, conn, accepting, readers, h, fails>>

-----------------------------------------------------------------------------
(* Handlers                                                                *)

UsersIdle == UNCHANGED <<account, sessions, expired, issued, restarts, auxVars>>

Answer(r, status) ==
    /\ Goto(r, status)
    /\ h' = [h EXCEPT ![r] = Idle]
    /\ seen' = [seen EXCEPT ![r] = {}]

FirstRPC(op) ==
    CASE op \in AppHandlers \cup TpHandlers \cup RouteHandlers -> "Apps"
      [] op = "exec" -> "Exec"
      [] op = "getHealth" -> "Health"
      [] op = "postTransport" -> "AddTransport"
      [] op = "postRoute" -> "AddRoutingRule"
      [] op = "getLoops" -> "Loops"
      [] OTHER -> "read"

\* nodeCtx: the client of the visor is read under mu; the handler's first call
\* follows.  appCtx, tpCtx and routeCtx all begin with the call of Apps.
NodeCtx(r, op, v) ==
    /\ req[r].kind = "api" /\ req[r].at = "authorized"
    /\ RLockFree
    /\ \/ /\ nodes[v] = NoConn                \* or a bad key: not found
          /\ Answer(r, "refused")
       \/ /\ nodes[v] # NoConn
          /\ Goto(r, "handler")
          /\ h' = [h EXCEPT ![r].op = op, ![r].conn = nodes[v], ![r].at = "called",
                            ![r].rpc = FirstRPC(op)]
          /\ UNCHANGED seen
    /\ UsersIdle
    /\ UNCHANGED <<nodes, conn, accepting, readers, vis, fails, calls>>

\* A body or a query that does not parse: nodeCtx is over, and for putApp appCtx.
BadRequest(r) ==
    /\ \/ req[r].kind = "api" /\ req[r].at = "authorized" /\ RLockFree
       \/ h[r].op = "putApp" /\ h[r].rpc = "Apps" /\ h[r].at = "served"
    /\ Answer(r, "refused")
    /\ UsersIdle
    /\ UNCHANGED <<nodes, conn, accepting, readers, vis, fails, calls>>

\* The handlers that answer after their first call.  tpCtx asks appCtx for an app the
\* routes of transports and rules do not name, and no app has the empty name: those
\* handlers never get further than "not found".
Replied(r) ==
    /\ req[r].at = "handler" /\ h[r].op # "getNodes"
    /\ \/ /\ h[r].at = "failed"
          /\ Answer(r, "refused")
       \/ /\ h[r].at = "served" /\ h[r].op \in NodeHandlers \cup {"getApp"}
          /\ Answer(r, "ok")
       \/ /\ h[r].at = "served" /\ h[r].op \in TpHandlers \cup RouteHandlers
          /\ Answer(r, "refused")
    /\ UsersIdle
    /\ UNCHANGED <<nodes, conn, accepting, readers, vis, fails, calls>>

WaitsForHealth(r) == FALSE /\ UNCHANGED vars

\* getHealth waits five seconds at most.  Its goroutine stays behind.
HealthTimeout(r) ==
    /\ Pending(r) /\ h[r].op = "getHealth"
    /\ Answer(r, "refused")
    /\ UsersIdle
    /\ UNCHANGED <<nodes, conn, accepting, readers, vis, fails, calls>>

\* appLogsSince reads the logs, and answers that there are none with an error.
AppLogsSince(r) ==
    /\ req[r].at = "handler" /\ h[r].op = "appLogsSince" /\ h[r].at = "served"
    /\ \/ h[r].rpc = "Apps" /\ Call(r, "read") /\ UNCHANGED <<req, seen>>
       \/ h[r].rpc = "read" /\ \E status \in {"ok", "refused"} : Answer(r, status)
    /\ UsersIdle
    /\ UNCHANGED <<nodes, conn, accepting, readers, vis, fails, calls>>

SkipsChange(r, auto, status) ==
    /\ req[r].at = "handler" /\ h[r].op = "putApp" /\ h[r].at = "served" /\ h[r].rpc = "Apps"
    /\ h' = [h EXCEPT ![r].auto = auto, ![r].status = status,
                      ![r].at = IF auto # "keep" /\ auto = h[r].app THEN "called" ELSE "served",
                      ![r].rpc = "SetAutoStart"]
    /\ UNCHANGED <<userVars, nodes, conn, accepting, readers, vis, fails, calls, seen>>

\* putApp reads its body and sets the auto-start if it differs from what Apps told.
PutAutoStart(r, auto, status) ==
    /\ req[r].at = "handler" /\ h[r].op = "putApp" /\ h[r].at = "served" /\ h[r].rpc = "Apps"
    /\ h' = [h EXCEPT ![r].auto = auto, ![r].status = status,
                      ![r].at = IF auto \notin {"keep", h[r].app} THEN "called" ELSE "served",
                      ![r].rpc = "SetAutoStart"]
    /\ UNCHANGED <<userVars, nodes, conn, accepting, readers, vis, fails, calls, seen>>

\* putApp starts or stops the app; another status is refused after the auto-start is set.
PutStatus(r) ==
    /\ req[r].at = "handler" /\ h[r].op = "putApp" /\ h[r].at = "served"
    /\ h[r].rpc = "SetAutoStart"
    /\ \/ h[r].status = "start" /\ Call(r, "StartApp") /\ UNCHANGED <<req, seen>>
       \/ h[r].status = "stop" /\ Call(r, "StopApp") /\ UNCHANGED <<req, seen>>
       \/ h[r].status = "other" /\ Answer(r, "refused")
       \/ h[r].status = "keep" /\ Answer(r, "ok")
    /\ UsersIdle
    /\ UNCHANGED <<nodes, conn, accepting, readers, vis, fails, calls>>

PutDone(r) ==
    /\ req[r].at = "handler" /\ h[r].op = "putApp" /\ h[r].at = "served"
    /\ h[r].rpc \in {"StartApp", "StopApp"}
    /\ Answer(r, "ok")
    /\ UsersIdle
    /\ UNCHANGED <<nodes, conn, accepting, readers, vis, fails, calls>>

\* getNodes takes mu for reading and keeps it ...
GetNodes(r) ==
    /\ req[r].kind = "api" /\ req[r].at = "authorized"
    /\ RLockFree
    /\ readers' = readers \cup {r}
    /\ Goto(r, "handler")
    /\ h' = [h EXCEPT ![r].op = "getNodes", ![r].at = "ready",
                      ![r].left = {v \in Visors : nodes[v] # NoConn}]
    /\ UsersIdle
    /\ UNCHANGED <<nodes, conn, accepting, vis, fails, calls, seen>>

\* ... over the call of Summary on every visor; one that fails is passed over.
SummariseNext(r) ==
    /\ req[r].at = "handler" /\ h[r].op = "getNodes" /\ h[r].at \in {"ready", "served", "failed"}
    /\ \/ /\ \E v \in h[r].left :
                h' = [h EXCEPT ![r].left = @ \ {v}, ![r].conn = nodes[v], ![r].at = "called",
                               ![r].rpc = "Summary"]
          /\ UNCHANGED <<req, readers, seen>>
       \/ /\ h[r].left = {}
          /\ readers' = readers \ {r}
          /\ Answer(r, "ok")
    /\ UsersIdle
    /\ UNCHANGED <<nodes, conn, accepting, vis, fails, calls>>

-----------------------------------------------------------------------------
Handle(r) ==
    \/ \E op \in Used, v \in Visors : NodeCtx(r, op, v)
    \/ BadRequest(r) \/ GetNodes(r) \/ SummariseNext(r)
    \/ Serve(r) \/ LoopsRange(r) \/ LoopsLookup(r) \/ CallFails(r)
    \/ Replied(r) \/ HealthTimeout(r) \/ AppLogsSince(r)
    \/ \E auto \in {"on", "off", "keep"}, status \in {"start", "stop", "other", "keep"} :
          PutAutoStart(r, auto, status)
    \/ PutStatus(r) \/ PutDone(r)

\* What the hypervisor and the visors do by themselves.
System ==
    \/ \E r \in Requests : UserStep(r) /\ UNCHANGED hyperVars
    \/ \E r \in Requests : Handle(r)
    \/ \E v \in Visors : AppEnds(v, "stopping")
    \/ RegisterNode

Environment ==
    \/ \E r \in Requests, kind \in {"login", "logout", "api"},
          sid \in issued \cup {NoCookie} : Arrive(r, kind, sid) /\ UNCHANGED hyperVars
    \/ \E c \in Conns : Accept(c) \/ \E st \in {"hung", "dead"} : Fail(c, st)
    \/ \E v \in Visors : AppEnds(v, "running") \/ \E rpc \in LocalRPCs : LocalCall(v, rpc)

Next == System \/ Environment
Spec == Init /\ [][Next]_vars

-----------------------------------------------------------------------------
(* Properties                                                              *)

\* A call that only its visor can end: the visor hangs, or the call is stuck there, as
\* that of a StartApp whose SpawnApp did not signal or of an Exec.
WaitsOnVisor(r) ==
    \/ Pending(r) /\ h[r].op # "getHealth" /\ conn[h[r].conn].st = "hung"
    \/ h[r].at = "stuck" /\ h[r].op \in {"putApp", "exec"}

\* When the hypervisor has nothing left to do, every request is answered and every visor
\* registered, unless a visor does not answer: then its caller waits, and if that is
\* getNodes, which holds mu over its calls, a visor that connects waits behind it and
\* every later request behind that one.  A call that is stuck with its visor holds up
\* no one else, and getHealth is answered in any case.
NobodyWaitsForever ==
    ~ ENABLED System =>
        /\ \A r \in Requests :
              \/ req[r].at \in {"none"} \cup Final
              \/ WaitsOnVisor(r)
              \/ req[r].at = "authorized" /\ accepting # NoConn
        /\ accepting # NoConn => \E q \in readers : WaitsOnVisor(q)

\* A PUT of an app that is answered with success took effect: some time between its
\* reading the app and its answer the auto-start was as it asked, although it is only set
\* when it differs from a value that may be stale by then; an app to be started was
\* started; and an app to be stopped was told to stop, which SpawnApp has yet to notice,
\* except one that SpawnApp has left registered without a process.
PutTakesEffect ==
    [][\A r \in Requests :
          (h[r].op = "putApp" /\ req[r].at = "handler" /\ req'[r].at = "ok") =>
             /\ h[r].auto = "keep" \/ h[r].auto \in seen[r]
             /\ h[r].status = "start" => "running" \in seen[r]
             /\ h[r].status = "stop" => seen[r] \cap {"stopping", "nodir"} # {}]_vars
==============================================================================

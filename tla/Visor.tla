-------------------------------- MODULE Visor --------------------------------
(***************************************************************************)
(* The apps of a visor: starting and stopping their processes              *)
(* (pkg/visor/visor.go), serving their connections and ports               *)
(* (ServeApp and Close of pkg/router/router.go, port_manager.go), and the  *)
(* pid file that lets a visor that crashed kill what it left behind.       *)
(*                                                                         *)
(* A spawn is one run of SpawnApp with its two goroutines: one runs the    *)
(* process, the other serves its connection, and whichever ends first ends *)
(* the spawn.  A process of a spawn is named by the spawn: pids are not    *)
(* reused.  startedMu is held over several steps by Close alone.           *)
(***************************************************************************)
EXTENDS Integers, FiniteSets

CONSTANTS
    Apps,           \* the apps of the configuration, each named by its port
    DynamicPorts,   \* the ports portList.add gives out
    MaxSpawns,      \* bound on the runs of SpawnApp
    MaxEvents       \* bound on what users and apps do, failures and crashes

ASSUME VisorAssumption ==
    /\ MaxSpawns \in Nat /\ MaxEvents \in Nat
    /\ Apps \subseteq Nat /\ DynamicPorts \subseteq Nat /\ Apps \cap DynamicPorts = {}

VARIABLES
    node,        \* "up", "down" (crashed), or how far Close is
    started,     \* startedApps: app -> spawn, or None
    appOf,       \* appOf[s]: the app spawn s is of
    spawn,       \* spawn[s]: where SpawnApp is
    caller,      \* caller[s]: the StartApp that waits for startCh
    run,         \* run[s]: the goroutine that runs the process
    pid,         \* spawns whose bind has its pid
    proc,        \* proc[s]: its process
    pidFile,     \* spawns whose process is in the pid file
    conn,        \* conn[s]: the visor's end: "none", "open", "closed", "eof"
    serve,       \* serve[s]: the goroutine in ServeApp
    ports,       \* ports of the port manager: port -> spawn, or None
    static,      \* staticPorts
    dialling,    \* dialling[s]: a requestLoop of the app
    toFree,      \* toFree[s]: ports ServeApp has still to close
    stop,        \* stop[s]: StopApp calls that hold its bind
    events,      \* events so far
    lateAlloc,   \* auxiliary: spawns that allocated a port after ServeApp listed theirs
    unlisted,    \* auxiliary: spawns served whose connection Router.Close does not list
    unrecorded   \* auxiliary: spawns that ran at a crash and were not in the file

spawnVars == <<appOf, spawn, caller>>
execVars == <<run, pid, proc, pidFile, unrecorded>>
portVars == <<ports, static, dialling, toFree, lateAlloc, unlisted>>
vars == <<node, started, spawnVars, execVars, conn, serve, portVars, stop, events>>

Spawns == 1..MaxSpawns
None == 0
Ports == Apps \cup DynamicPorts

TypeOK ==
    /\ node \in {"up", "down", "stopping", "closing", "waiting", "transports", "closed"}
    /\ started \in [Apps -> Spawns \cup {None}]
    /\ appOf \in [Spawns -> Apps \cup {None}]
    /\ spawn \in [Spawns -> {"none", "begun", "registered", "running", "ended", "refused", "nodir"}]
    /\ caller \in [Spawns -> {"none", "waiting", "returned"}]
    /\ run \in [Spawns -> {"none", "starting", "started", "recorded", "waits", "exited"}]
    /\ pid \subseteq {s \in Spawns : proc[s] # "none"}
    /\ proc \in [Spawns -> {"none", "running", "dead"}]
    /\ pidFile \subseteq Spawns
    /\ conn \in [Spawns -> {"none", "open", "closed", "eof"}]
    /\ serve \in [Spawns -> {"none", "starting", "opening", "bound", "serving", "cleaning",
                             "ended"}]
    /\ ports \in [Ports -> Spawns \cup {None}]
    /\ static \subseteq Ports
    /\ dialling \in [Spawns -> {"no", "asked"}]
    /\ toFree \in [Spawns -> SUBSET [port : Ports, freed : BOOLEAN]]
    /\ stop \in [Spawns -> {"no", "found", "done"}]
    /\ events \in 0..MaxEvents
    /\ lateAlloc \subseteq Spawns /\ unlisted \subseteq Spawns /\ unrecorded \subseteq Spawns

Init ==
    /\ node = "up"
    /\ started = [a \in Apps |-> None]
    /\ appOf = [s \in Spawns |-> None]
    /\ spawn = [s \in Spawns |-> "none"]
    /\ caller = [s \in Spawns |-> "none"]
    /\ run = [s \in Spawns |-> "none"]
    /\ pid = {}
    /\ proc = [s \in Spawns |-> "none"]
    /\ pidFile = {}
    /\ conn = [s \in Spawns |-> "none"]
    /\ serve = [s \in Spawns |-> "none"]
    /\ ports = [p \in Ports |-> None]
    /\ static = {}
    /\ dialling = [s \in Spawns |-> "no"]
    /\ toFree = [s \in Spawns |-> {}]
    /\ stop = [s \in Spawns |-> "no"]
    /\ events = 0
    /\ lateAlloc = {} /\ unlisted = {}
    /\ unrecorded = {}

Running == node \notin {"down", "closed"}     \* the visor's goroutines run
MuFree == Running /\ node # "stopping"        \* startedMu can be taken
Binds == {started[a] : a \in Apps} \ {None}   \* the spawns in startedApps

-----------------------------------------------------------------------------
(* SpawnApp                                                                *)

\* StartApp over the RPC; the auto-start of Start is the same but that no caller
\* waits.  Spawns are used in order.
StartApp(s, a) ==
    /\ node = "up"
    /\ spawn[s] = "none"
    /\ \A t \in Spawns : t < s => spawn[t] # "none"
    /\ appOf' = [appOf EXCEPT ![s] = a]
    /\ spawn' = [spawn EXCEPT ![s] = "begun"]
    /\ caller' = [caller EXCEPT ![s] = "waiting"]
    /\ conn' = [conn EXCEPT ![s] = "open"]
    /\ UNCHANGED <<node, started, execVars, serve, portVars, stop>>

\* SpawnApp fails early: app.Command does, or the port is reserved for another app.
\* As for an app that is already started, nobody tells the StartApp that waits.
SpawnFails(s) ==
    /\ spawn[s] = "begun"
    /\ Running
    /\ spawn' = [spawn EXCEPT ![s] = "refused"]
    /\ \E c \in {"none", "open"} : conn' = [conn EXCEPT ![s] = c]
    /\ UNCHANGED <<node, started, appOf, caller, execVars, serve, portVars, stop>>

\* The app is registered under startedMu unless it is already.
Register(s) ==
    /\ spawn[s] = "begun"
    /\ MuFree
    /\ \/ /\ started[appOf[s]] # None
          /\ spawn' = [spawn EXCEPT ![s] = "refused"]
          /\ UNCHANGED started
       \/ /\ started[appOf[s]] = None
          /\ started' = [started EXCEPT ![appOf[s]] = s]
          /\ spawn' = [spawn EXCEPT ![s] = "registered"]
    /\ UNCHANGED <<node, appOf, caller, execVars, conn, serve, portVars, stop>>

\* ensureDir failed: the app stays registered.
NoDir(s) ==
    /\ spawn[s] = "registered"
    /\ Running
    /\ spawn' = [spawn EXCEPT ![s] = "nodir"]
    /\ UNCHANGED <<node, started, appOf, caller, execVars, conn, serve, portVars, stop>>

\* Both goroutines are started and startCh is signalled.
Launch(s) ==
    /\ spawn[s] = "registered"
    /\ Running
    /\ spawn' = [spawn EXCEPT ![s] = "running"]
    /\ run' = [run EXCEPT ![s] = "starting"]
    /\ serve' = [serve EXCEPT ![s] = "starting"]
    /\ caller' = [caller EXCEPT ![s] = "returned"]
    /\ UNCHANGED <<node, started, appOf, pid, proc, pidFile, unrecorded, conn, portVars, stop>>

WaitsForProcess(s) ==
    /\ spawn[s] = "running"
    /\ run[s] = "exited"
    /\ MuFree
    /\ started' = [started EXCEPT ![appOf[s]] = None]
    /\ spawn' = [spawn EXCEPT ![s] = "ended"]
    /\ UNCHANGED <<node, appOf, caller, execVars, conn, serve, portVars, stop>>

\* The select: the first goroutine to end makes the app "stopped".
SpawnEnds(s) ==
    /\ spawn[s] = "running"
    /\ run[s] = "exited" \/ serve[s] = "ended"
    /\ MuFree
    /\ started' = [started EXCEPT ![appOf[s]] = None]
    /\ spawn' = [spawn EXCEPT ![s] = "ended"]
    /\ UNCHANGED <<node, appOf, caller, execVars, conn, serve, portVars, stop>>

-----------------------------------------------------------------------------
(* The process                                                             *)

\* exec.Start
ExecStart(s) ==
    /\ run[s] = "starting"
    /\ Running
    /\ \/ /\ run' = [run EXCEPT ![s] = "exited"]
          /\ UNCHANGED proc
       \/ /\ run' = [run EXCEPT ![s] = "started"]
          /\ proc' = [proc EXCEPT ![s] = "running"]
    /\ UNCHANGED <<node, started, spawnVars, pid, pidFile, unrecorded, conn, serve, portVars,
                   stop>>

SetPid(s) ==
    /\ run[s] = "started"
    /\ MuFree
    /\ run' = [run EXCEPT ![s] = "recorded"]
    /\ pid' = pid \cup {s}
    /\ UNCHANGED <<node, started, spawnVars, proc, pidFile, unrecorded, conn, serve, portVars,
                   stop>>

PersistOnly(s) ==
    /\ run[s] = "recorded"
    /\ Running
    /\ run' = [run EXCEPT ![s] = "waits"]
    /\ pidFile' = {s}
    /\ UNCHANGED <<node, started, spawnVars, pid, proc, unrecorded, conn, serve, portVars, stop>>

\* persistPID appends to the file.
PersistPID(s) ==
    /\ run[s] = "recorded"
    /\ Running
    /\ run' = [run EXCEPT ![s] = "waits"]
    /\ pidFile' = pidFile \cup {s}
    /\ UNCHANGED <<node, started, spawnVars, pid, proc, unrecorded, conn, serve, portVars, stop>>

\* exec.Wait returns.
ExecWaited(s) ==
    /\ run[s] = "waits"
    /\ proc[s] = "dead"
    /\ Running
    /\ run' = [run EXCEPT ![s] = "exited"]
    /\ UNCHANGED <<node, started, spawnVars, pid, proc, pidFile, unrecorded, conn, serve, portVars,
                   stop>>

\* The app ends by itself.
ProcessExits(s) ==
    /\ proc[s] = "running"
    /\ proc' = [proc EXCEPT ![s] = "dead"]
    /\ UNCHANGED <<node, started, spawnVars, run, pid, pidFile, unrecorded, conn, serve, portVars,
                   stop>>

\* The visor keeps copies of the app's ends of the pipes, so its own end sees EOF
\* when the process is gone and the garbage collector has closed those copies.
CollectPipe(s) ==
    /\ conn[s] = "open"
    /\ spawn[s] \in {"ended", "refused", "nodir"}
    /\ proc[s] # "running"
    /\ Running
    /\ conn' = [conn EXCEPT ![s] = "eof"]
    /\ UNCHANGED <<node, started, spawnVars, execVars, serve, portVars, stop>>

-----------------------------------------------------------------------------
(* ServeApp                                                                *)

\* portManager.Open looks the port up, and binds it, in two critical sections.
OpenLookup(s) ==
    /\ serve[s] = "starting"
    /\ Running
    /\ serve' = [serve EXCEPT ![s] = IF ports[appOf[s]] = None THEN "opening" ELSE "ended"]
    /\ UNCHANGED <<node, started, spawnVars, execVars, conn, portVars, stop>>

OpenBind(s) ==
    /\ serve[s] = "opening"
    /\ Running
    /\ ports' = [ports EXCEPT ![appOf[s]] = s]
    /\ serve' = [serve EXCEPT ![s] = "bound"]
    /\ unlisted' = IF node = "waiting" THEN unlisted \cup {s} ELSE unlisted
    /\ UNCHANGED <<node, started, spawnVars, execVars, conn, static, dialling, toFree, lateAlloc,
                   stop>>

AddStatic(s) ==
    /\ serve[s] = "bound"
    /\ Running
    /\ static' = static \cup {appOf[s]}
    /\ serve' = [serve EXCEPT ![s] = "serving"]
    /\ UNCHANGED <<node, started, spawnVars, execVars, conn, ports, dialling, toFree, lateAlloc,
                   unlisted, stop>>

\* A requestLoop of the app, in a goroutine that nobody waits for; one at a time
\* is under way.
AskLoop(s) ==
    /\ serve[s] = "serving"
    /\ conn[s] = "open"
    /\ proc[s] = "running"
    /\ dialling[s] # "asked"
    /\ Running
    /\ dialling' = [dialling EXCEPT ![s] = "asked"]
    /\ UNCHANGED <<node, started, spawnVars, execVars, conn, serve, ports, static, toFree,
                   lateAlloc, unlisted, stop>>

FreePorts == {p \in DynamicPorts : ports[p] = None}

\* portManager.Alloc: the lowest free port.
Alloc(s) ==
    /\ dialling[s] = "asked"
    /\ Running
    /\ FreePorts # {}
    /\ ports' = [ports EXCEPT ![CHOOSE p \in FreePorts : \A q \in FreePorts : p <= q] = s]
    /\ dialling' = [dialling EXCEPT ![s] = "no"]
    /\ lateAlloc' = IF serve[s] = "serving" THEN lateAlloc ELSE lateAlloc \cup {s}
    /\ UNCHANGED <<node, started, spawnVars, execVars, conn, serve, static, toFree, unlisted, stop>>

StaticPortOnly(s) == {[port |-> p, freed |-> FALSE] : p \in {appOf[s]}}

\* portManager.AppPorts
AppPorts(s) == {[port |-> p, freed |-> FALSE] : p \in {q \in Ports : ports[q] = s}}

\* Serve returns, and the app's ports are listed.
ServeEnds(s) ==
    /\ serve[s] = "serving"
    /\ conn[s] # "open"
    /\ Running
    /\ serve' = [serve EXCEPT ![s] = "cleaning"]
    /\ toFree' = [toFree EXCEPT ![s] = AppPorts(s)]
    /\ UNCHANGED <<node, started, spawnVars, execVars, conn, ports, static, dialling, lateAlloc,
                   unlisted, stop>>

\* portManager.Close of one of them, then closeLoop of each loop it had: of a
\* dynamic port, which has one, destroyLoop closes the port again.
FreePort(s, f) ==
    /\ serve[s] = "cleaning"
    /\ f \in toFree[s]
    /\ Running
    /\ ports' = [ports EXCEPT ![f.port] = IF f.freed /\ f.port \in static THEN @ ELSE None]
    /\ toFree' = [toFree EXCEPT ![s] = (@ \ {f}) \cup
                    IF f.freed \/ f.port \in Apps THEN {}
                    ELSE {[port |-> f.port, freed |-> TRUE]}]
    /\ UNCHANGED <<node, started, spawnVars, execVars, conn, serve, static, dialling, lateAlloc,
                   unlisted, stop>>

ServeAppReturns(s) ==
    /\ serve[s] = "cleaning"
    /\ toFree[s] = {}
    /\ Running
    /\ static' = static \ {appOf[s]}
    /\ serve' = [serve EXCEPT ![s] = "ended"]
    /\ UNCHANGED <<node, started, spawnVars, execVars, conn, ports, dialling, toFree, lateAlloc,
                   unlisted, stop>>

-----------------------------------------------------------------------------
(* StopApp and Close                                                       *)

\* The bind is looked up under startedMu ...
StopLookup(s) ==
    /\ stop[s] = "no"
    /\ node = "up"
    /\ s \in Binds
    /\ stop' = [stop EXCEPT ![s] = "found"]
    /\ UNCHANGED <<node, started, spawnVars, execVars, conn, serve, portVars>>

\* exec.Stop with the bind's pid, which is -1 until SetPid.
Kill(s) == [proc EXCEPT ![s] = IF s \in pid /\ @ = "running" THEN "dead" ELSE @]

\* ... and used after: stopApp kills the process and closes the connection.
StopApp(s) ==
    /\ stop[s] = "found"
    /\ Running
    /\ proc' = Kill(s)
    /\ conn' = [conn EXCEPT ![s] = "closed"]
    /\ stop' = [stop EXCEPT ![s] = "done"]
    /\ UNCHANGED <<node, started, spawnVars, run, pid, pidFile, unrecorded, serve, portVars>>

\* Close: the RPC interfaces go, startedMu is taken, every started app is stopped,
\* then the router closes the connections of the bound ports, waits for every
\* ServeApp and closes the transport manager.
CloseBegins ==
    /\ node = "up"
    /\ node' = "stopping"
    /\ UNCHANGED <<started, spawnVars, execVars, conn, serve, portVars, stop>>

CloseStopsApps ==
    /\ node = "stopping"
    /\ proc' = [s \in Spawns |-> IF s \in Binds THEN Kill(s)[s] ELSE proc[s]]
    /\ conn' = [s \in Spawns |-> IF s \in Binds THEN "closed" ELSE conn[s]]
    /\ node' = "closing"
    /\ UNCHANGED <<started, spawnVars, run, pid, pidFile, unrecorded, serve, portVars, stop>>

\* portManager.AppConns
AppConns == {ports[p] : p \in Ports} \ {None}

RouterForgetsConns ==
    /\ node = "closing"
    /\ node' = "waiting"
    /\ UNCHANGED <<started, spawnVars, execVars, conn, serve, portVars, stop>>

RouterCloses ==
    /\ node = "closing"
    /\ conn' = [s \in Spawns |-> IF s \in AppConns THEN "closed" ELSE conn[s]]
    /\ node' = "waiting"
    /\ unlisted' = {s \in Spawns : serve[s] \in {"bound", "serving"}} \ AppConns
    /\ UNCHANGED <<started, spawnVars, execVars, serve, ports, static, dialling, toFree, lateAlloc,
                   stop>>

\* r.wg: the other goroutine it counts ends with the listener for setup nodes.
RouterWaited ==
    /\ node = "waiting"
    /\ \A s \in Spawns : serve[s] \in {"none", "starting", "ended"}
    /\ node' = "transports"
    /\ UNCHANGED <<started, spawnVars, execVars, conn, serve, portVars, stop>>

\* r.tm.Close returns (when it does is the matter of module TransportManager).
RouterClosed ==
    /\ node = "transports"
    /\ node' = "closed"
    /\ UNCHANGED <<started, spawnVars, execVars, conn, serve, portVars, stop>>

-----------------------------------------------------------------------------
(* Crash and restart                                                       *)

\* The visor dies; the processes of its apps go on.
Crash ==
    /\ Running
    /\ node' = "down"
    /\ started' = [a \in Apps |-> None]
    /\ spawn' = [s \in Spawns |-> IF spawn[s] = "none" THEN "none" ELSE "ended"]
    /\ caller' = [s \in Spawns |-> "none"]
    /\ run' = [s \in Spawns |-> IF spawn[s] = "none" THEN "none" ELSE "exited"]
    /\ pid' = {}
    /\ conn' = [s \in Spawns |-> IF spawn[s] = "none" THEN "none" ELSE "closed"]
    /\ serve' = [s \in Spawns |-> IF spawn[s] = "none" THEN "none" ELSE "ended"]
    /\ ports' = [p \in Ports |-> None]
    /\ static' = {}
    /\ dialling' = [s \in Spawns |-> "no"]
    /\ toFree' = [s \in Spawns |-> {}]
    /\ stop' = [s \in Spawns |-> IF spawn[s] = "none" THEN "no" ELSE "done"]
    /\ unrecorded' = unrecorded \cup {s \in Spawns : proc[s] = "running" /\ s \notin pidFile}
    /\ UNCHANGED <<appOf, proc, pidFile, lateAlloc, unlisted>>

\* portList.add panics, and takes the visor with it, when no port is free.
NoFreePorts(s) == dialling[s] = "asked" /\ FreePorts = {} /\ Crash

\* Start: closePreviousApps kills what the pid file names and empties it.
Restart ==
    /\ node = "down"
    /\ node' = "up"
    /\ proc' = [s \in Spawns |-> IF s \in pidFile /\ proc[s] = "running" THEN "dead" ELSE proc[s]]
    /\ pidFile' = {}
    /\ UNCHANGED <<started, spawnVars, run, pid, unrecorded, conn, serve, portVars, stop>>

-----------------------------------------------------------------------------

Goroutine(s) ==
    \/ Register(s) \/ Launch(s) \/ SpawnEnds(s)
    \/ ExecStart(s) \/ SetPid(s) \/ PersistPID(s) \/ ExecWaited(s)
    \/ OpenLookup(s) \/ OpenBind(s) \/ AddStatic(s) \/ ServeEnds(s) \/ ServeAppReturns(s)
    \/ \E f \in toFree[s] : FreePort(s, f)
    \/ Alloc(s) \/ NoFreePorts(s) \/ StopApp(s) \/ CollectPipe(s)

Environment ==
    \/ \E s \in Spawns : \/ \E a \in Apps : StartApp(s, a)
                         \/ SpawnFails(s) \/ NoDir(s) \/ ProcessExits(s) \/ AskLoop(s) \/ StopLookup(s)
    \/ CloseBegins \/ Crash

System ==
    \/ \E s \in Spawns : Goroutine(s)
    \/ CloseStopsApps \/ RouterCloses \/ RouterWaited \/ Restart

Next == \/ (System \/ RouterClosed) /\ UNCHANGED events
        \/ events < MaxEvents /\ Environment /\ events' = events + 1

Spec == Init /\ [][Next]_vars

\* Goroutines that can run do, and the garbage collector runs now and then.  A
\* behaviour has finitely many such steps, so one condition serves for all.
FairSpec == Spec /\ WF_vars(System /\ UNCHANGED events)

-----------------------------------------------------------------------------
(* Properties                                                              *)

\* A process that outlives the visor's knowledge of it can be found: outside the few
\* steps between exec.Start and persistPID, every running process is in the pid file,
\* unless a crash came within these steps.  After a restart, then, no app of the
\* visor's earlier life runs unrecorded.
RunningIsRecorded ==
    \A s \in Spawns : proc[s] = "running" =>
        s \in pidFile \/ run[s] \in {"started", "recorded"} \/ s \in unrecorded

\* No port stays bound to a connection that ServeApp has left, except one that a
\* requestLoop still under way allocated after ServeApp listed the app's ports.
NoPortLeak ==
    \A p \in Ports : LET s == ports[p] IN
        s # None => serve[s] # "ended" \/ s \in lateAlloc

\* An app that is stopped does not stay "started": StopApp, at whatever point of
\* SpawnApp it comes, makes the spawn end, save that SpawnApp never unregisters an app
\* whose directory it cannot make.
StopStops ==
    \A s \in Spawns : (stop[s] = "found") ~>
        (s \notin Binds \/ spawn[s] = "nodir" \/ node = "closed")

\* Close of the visor gets as far as the transport manager: Router.Close waits for
\* every ServeApp, and each ends as its connection was closed by stopApp or by
\* Router.Close, wherever Close finds it.  The exception is an app whose start overlaps
\* Close so that stopApp comes too early for it: when it is bound only after Router.Close
\* listed the connections, or when an earlier run of the app took its port over and
\* freed it, nobody closes its connection, and it is served for ever.
ServedForEver(s) == s \in unlisted /\ serve[s] = "serving" /\ conn[s] = "open"
CloseReturns ==
    \/ node \in {"stopping", "closing", "waiting"} ~> node \in {"transports", "closed", "down"}
    \/ <>[](\E s \in Spawns : ServedForEver(s))
=============================================================================

----------------------------- MODULE VisorProofs -----------------------------
(***************************************************************************)
(* The safety of a visor's apps for any number of apps, ports, spawns,     *)
(* failures and crashes: the pid file knows every process, and the ports   *)
(* of an app are free once ServeApp has returned.                          *)
(***************************************************************************)
EXTENDS Visor, TLAPS

SpawnStates == {"none", "begun", "registered", "running", "ended", "refused", "nodir"}
RunStates == {"none", "starting", "started", "recorded", "waits", "exited"}
ProcStates == {"none", "running", "dead"}
ServeStates == {"none", "starting", "opening", "bound", "serving", "cleaning", "ended"}
NotLaunched == {"none", "begun", "registered"}
Listed == [port : Ports, freed : BOOLEAN]

-----------------------------------------------------------------------------
(* The processes.                                                          *)

\* The goroutine that runs the process exists once the spawn is launched.
ProcInv ==
    /\ spawn \in [Spawns -> SpawnStates]
    /\ run \in [Spawns -> RunStates]
    /\ proc \in [Spawns -> ProcStates]
    /\ \A s \in Spawns : spawn[s] \in NotLaunched => run[s] = "none"
    /\ RunningIsRecorded

\* An action that moves spawn s on and touches no process.
LEMMA SpawnMoves ==
    ASSUME ProcInv, NEW s \in Spawns, NEW st \in SpawnStates,
           spawn' = [spawn EXCEPT ![s] = st],
           st \in NotLaunched => spawn[s] \in NotLaunched,
           UNCHANGED <<run, proc, pidFile, unrecorded>>
    PROVE  ProcInv'
  BY DEF ProcInv, RunningIsRecorded

\* Every action keeps the invariant of the processes.
LEMMA ProcStep == ProcInv /\ [Next]_vars => ProcInv'
<1> SUFFICES ASSUME ProcInv, [Next]_vars PROVE ProcInv'
  OBVIOUS
<1>1. CASE UNCHANGED <<spawn, run, proc, pidFile, unrecorded>>
  BY <1>1 DEF ProcInv, RunningIsRecorded
<1>2. ASSUME NEW s \in Spawns, NEW a \in Apps, StartApp(s, a) PROVE ProcInv'
  BY <1>2, SpawnMoves DEF StartApp, execVars, SpawnStates, NotLaunched
<1>3. ASSUME NEW s \in Spawns, Register(s) PROVE ProcInv'
  BY <1>3, SpawnMoves DEF Register, execVars, SpawnStates, NotLaunched
<1>4. ASSUME NEW s \in Spawns, SpawnFails(s) \/ NoDir(s) \/ SpawnEnds(s) PROVE ProcInv'
  BY <1>4, SpawnMoves DEF SpawnFails, NoDir, SpawnEnds, execVars, SpawnStates, NotLaunched
<1>5. ASSUME NEW s \in Spawns, Launch(s) PROVE ProcInv'
  BY <1>5 DEF Launch, ProcInv, RunningIsRecorded, SpawnStates, RunStates, NotLaunched
<1>6. ASSUME NEW s \in Spawns, ExecStart(s) PROVE ProcInv'
  BY <1>6 DEF ExecStart, spawnVars, ProcInv, RunningIsRecorded, RunStates, ProcStates
<1>7. ASSUME NEW s \in Spawns, SetPid(s) \/ PersistPID(s) \/ ExecWaited(s) PROVE ProcInv'
  BY <1>7 DEF SetPid, PersistPID, ExecWaited, spawnVars, ProcInv, RunningIsRecorded, RunStates
<1>8. ASSUME NEW s \in Spawns, ProcessExits(s) \/ StopApp(s) PROVE ProcInv'
  BY <1>8 DEF ProcessExits, StopApp, Kill, spawnVars, ProcInv, RunningIsRecorded, ProcStates
<1>9. CASE CloseStopsApps
  <2>1. proc' \in [Spawns -> ProcStates] /\ \A s \in Spawns : proc'[s] = "running" => proc[s] = "running"
    BY <1>9 DEF CloseStopsApps, Kill, ProcInv, ProcStates
  <2>2. QED
    BY <1>9, <2>1 DEF CloseStopsApps, spawnVars, ProcInv, RunningIsRecorded
<1>10. CASE Crash
  BY <1>10 DEF Crash, ProcInv, RunningIsRecorded, SpawnStates, RunStates, NotLaunched
<1>11. CASE Restart
  BY <1>11 DEF Restart, spawnVars, ProcInv, RunningIsRecorded, ProcStates
<1>12. ASSUME NEW s \in Spawns, Goroutine(s) PROVE ProcInv'
  <2>1. CASE OpenLookup(s) \/ OpenBind(s) \/ AddStatic(s) \/ ServeEnds(s) \/ ServeAppReturns(s)
    BY <1>1, <2>1 DEF OpenLookup, OpenBind, AddStatic, ServeEnds, ServeAppReturns, spawnVars, execVars
  <2>2. CASE Alloc(s) \/ CollectPipe(s) \/ \E f \in toFree[s] : FreePort(s, f)
    BY <1>1, <2>2 DEF Alloc, CollectPipe, FreePort, spawnVars, execVars
  <2>3. QED
    BY <1>3, <1>4, <1>5, <1>6, <1>7, <1>8, <1>10, <1>12, <2>1, <2>2 DEF Goroutine, NoFreePorts
<1>13. CASE Environment
  <2>1. CASE CloseBegins \/ \E s \in Spawns : AskLoop(s) \/ StopLookup(s)
    BY <1>1, <2>1 DEF CloseBegins, AskLoop, StopLookup, spawnVars, execVars
  <2>2. QED
    BY <1>2, <1>4, <1>8, <1>10, <1>13, <2>1 DEF Environment
<1>14. CASE RouterCloses \/ RouterWaited \/ RouterClosed \/ UNCHANGED vars
  BY <1>1, <1>14 DEF RouterCloses, RouterWaited, RouterClosed, vars, spawnVars, execVars
<1>15. QED
  BY <1>9, <1>11, <1>12, <1>13, <1>14 DEF Next, System

\* A visor that comes up again can find every process of its earlier life: whenever it
\* crashes, a running process is in the pid file unless the crash came between its
\* exec.Start and its persistPID.
THEOREM RecordedTheorem == Spec => []RunningIsRecorded
<1>1. Init => ProcInv
  BY DEF Init, ProcInv, RunningIsRecorded, SpawnStates, RunStates, ProcStates
<1>2. ProcInv => RunningIsRecorded
  BY DEF ProcInv
<1>3. QED
  BY <1>1, <1>2, ProcStep, PTL DEF Spec

-----------------------------------------------------------------------------
(* The ports.                                                              *)

\* A port is bound to a spawn while it is served, and then as long as ServeApp has the
\* port still to close; a port allocated outside of that time is a late one.
PortsHeld ==
    \A p \in Ports : ports[p] # None =>
        \/ ports[p] \in lateAlloc
        \/ serve[ports[p]] \in {"bound", "serving"}
        \/ /\ serve[ports[p]] = "cleaning"
           /\ [port |-> p, freed |-> FALSE] \in toFree[ports[p]]

PortInv ==
    /\ spawn \in [Spawns -> SpawnStates]
    /\ serve \in [Spawns -> ServeStates]
    /\ ports \in [Ports -> Spawns \cup {None}]
    /\ toFree \in [Spawns -> SUBSET Listed]
    /\ \A s \in Spawns : spawn[s] \in NotLaunched => serve[s] = "none"
    /\ PortsHeld

\* An action that moves spawn s or the serving of s on and touches no port.
LEMMA ServeMoves ==
    ASSUME PortInv, NEW s \in Spawns, NEW st \in SpawnStates, NEW sv \in ServeStates,
           spawn' = [spawn EXCEPT ![s] = st], serve' = [serve EXCEPT ![s] = sv],
           st \in NotLaunched => spawn[s] \in NotLaunched /\ sv = serve[s],
           \/ sv = serve[s]
           \/ serve[s] \in {"none", "starting", "opening"}
           \/ serve[s] = "bound" /\ sv = "serving"
           \/ serve[s] = "cleaning" /\ toFree[s] = {},
           UNCHANGED <<ports, toFree, lateAlloc>>
    PROVE  PortInv'
  BY DEF PortInv, PortsHeld, SpawnStates, ServeStates

\* Every action keeps the invariant of the ports.
LEMMA PortStep == PortInv /\ [Next]_vars => PortInv'
<1> SUFFICES ASSUME PortInv, [Next]_vars PROVE PortInv'
  OBVIOUS
<1>1. CASE UNCHANGED <<spawn, serve, ports, toFree, lateAlloc>>
  BY <1>1 DEF PortInv, PortsHeld
<1>2. ASSUME NEW s \in Spawns, NEW st \in SpawnStates, spawn' = [spawn EXCEPT ![s] = st],
             st \in NotLaunched => spawn[s] \in NotLaunched,
             UNCHANGED <<serve, ports, toFree, lateAlloc>>
      PROVE  PortInv'
  <2>1. serve' = [serve EXCEPT ![s] = serve[s]] /\ serve[s] \in ServeStates
    BY <1>2 DEF PortInv
  <2>2. QED
    BY <1>2, <2>1, ServeMoves
<1>3. ASSUME NEW s \in Spawns, NEW sv \in ServeStates, serve' = [serve EXCEPT ![s] = sv],
             spawn[s] \notin NotLaunched,
             \/ serve[s] \in {"none", "starting", "opening"}
             \/ serve[s] = "bound" /\ sv = "serving"
             \/ serve[s] = "cleaning" /\ toFree[s] = {},
             UNCHANGED <<spawn, ports, toFree, lateAlloc>>
      PROVE  PortInv'
  <2>1. spawn' = [spawn EXCEPT ![s] = spawn[s]] /\ spawn[s] \in SpawnStates
    BY <1>3 DEF PortInv
  <2>2. QED
    BY <1>3, <2>1, ServeMoves
<1>4. ASSUME NEW s \in Spawns, serve[s] # "none" PROVE spawn[s] \notin NotLaunched
  BY <1>4 DEF PortInv
<1>5. ASSUME NEW s \in Spawns, NEW a \in Apps, StartApp(s, a) PROVE PortInv'
  BY <1>2, <1>5 DEF StartApp, portVars, SpawnStates, NotLaunched
<1>6. ASSUME NEW s \in Spawns, Register(s) PROVE PortInv'
  BY <1>2, <1>6 DEF Register, portVars, SpawnStates, NotLaunched
<1>7. ASSUME NEW s \in Spawns, SpawnFails(s) \/ NoDir(s) \/ SpawnEnds(s) PROVE PortInv'
  BY <1>2, <1>7 DEF SpawnFails, NoDir, SpawnEnds, portVars, SpawnStates, NotLaunched
<1>8. ASSUME NEW s \in Spawns, Launch(s) PROVE PortInv'
  <2>1. serve[s] = "none"
    BY <1>8 DEF Launch, PortInv, NotLaunched
  <2>2. QED
    BY <1>8, <2>1, ServeMoves DEF Launch, portVars, SpawnStates, ServeStates, NotLaunched
<1>9. ASSUME NEW s \in Spawns, OpenLookup(s) PROVE PortInv'
  BY <1>3, <1>4, <1>9 DEF OpenLookup, spawnVars, portVars, ServeStates
<1>10. ASSUME NEW s \in Spawns, OpenBind(s) PROVE PortInv'
  <2>1. s # None
    BY VisorAssumption DEF Spawns, None
  <2>2. QED
    BY <1>4, <1>10, <2>1 DEF OpenBind, spawnVars, PortInv, PortsHeld, ServeStates
<1>11. ASSUME NEW s \in Spawns, AddStatic(s) \/ ServeAppReturns(s) PROVE PortInv'
  BY <1>3, <1>4, <1>11 DEF AddStatic, ServeAppReturns, spawnVars, ServeStates
<1>12. ASSUME NEW s \in Spawns, Alloc(s) PROVE PortInv'
  <2> DEFINE n == CHOOSE p \in FreePorts : \A q \in FreePorts : p <= q
  <2>1. /\ ports' = [ports EXCEPT ![n] = s]
        /\ lateAlloc' = IF serve[s] = "serving" THEN lateAlloc ELSE lateAlloc \cup {s}
        /\ UNCHANGED <<spawn, serve, toFree>>
    BY <1>12 DEF Alloc, spawnVars
  <2> HIDE DEF n
  <2>2. /\ ports' \in [Ports -> Spawns \cup {None}]
        /\ \A p \in Ports : ports'[p] \in {ports[p], s}
    BY <2>1 DEF PortInv
  <2>3. /\ lateAlloc \subseteq lateAlloc'
        /\ s \in lateAlloc' \/ serve[s] = "serving"
    BY <2>1
  <2>4. UNCHANGED <<spawn, serve, toFree>>
    BY <2>1
  <2>5. PortsHeld'
    BY <2>2, <2>3, <2>4 DEF PortInv, PortsHeld
  <2>6. QED
    BY <2>2, <2>4, <2>5 DEF PortInv
<1>13. ASSUME NEW s \in Spawns, ServeEnds(s) PROVE PortInv'
  <2>1. /\ AppPorts(s) \in SUBSET Listed
        /\ \A p \in Ports : ports[p] = s => [port |-> p, freed |-> FALSE] \in AppPorts(s)
    <3>1. \A p \in Ports : [port |-> p, freed |-> FALSE] \in Listed
      BY DEF Listed
    <3>2. QED
      BY <3>1, Zenon DEF AppPorts
  <2>2. /\ serve' = [serve EXCEPT ![s] = "cleaning"] /\ serve[s] = "serving"
        /\ toFree' = [toFree EXCEPT ![s] = AppPorts(s)]
        /\ UNCHANGED <<spawn, ports, lateAlloc>>
    BY <1>13 DEF ServeEnds, spawnVars
  <2>3. QED
    BY <1>4, <2>1, <2>2 DEF PortInv, PortsHeld, ServeStates
<1>14. ASSUME NEW s \in Spawns, NEW f \in toFree[s], FreePort(s, f) PROVE PortInv'
  <2> DEFINE more == IF f.freed \/ f.port \in Apps THEN {}
                     ELSE {[port |-> f.port, freed |-> TRUE]}
             left == (toFree[s] \ {f}) \cup more
  <2>1. /\ left \in SUBSET Listed
        /\ toFree' = [toFree EXCEPT ![s] = left]
        /\ toFree[s] \ {f} \subseteq left
    <3>1. f \in Listed /\ toFree[s] \subseteq Listed
      BY DEF PortInv
    <3>2. [port |-> f.port, freed |-> TRUE] \in Listed
      BY <3>1 DEF Listed
    <3>3. more \subseteq Listed
      BY <3>2, Zenon
    <3>4. toFree' = [toFree EXCEPT ![s] = left]
      BY <1>14 DEF FreePort, PortInv
    <3>5. QED
      BY <3>1, <3>3, <3>4
  <2> HIDE DEF left, more
  <2>2. /\ \A p \in Ports : ports'[p] \in {ports[p], None}
        /\ ports' \in [Ports -> Spawns \cup {None}]
        /\ f.freed = FALSE => ports'[f.port] = None
    BY <1>14 DEF FreePort, PortInv, Listed
  <2>3. UNCHANGED <<spawn, serve, lateAlloc>>
    BY <1>14 DEF FreePort, spawnVars
  <2>4. QED
    BY <2>1, <2>2, <2>3 DEF PortInv, PortsHeld
<1>15. CASE Crash
  BY <1>15 DEF Crash, PortInv, PortsHeld, SpawnStates, ServeStates, NotLaunched
<1>16. ASSUME NEW s \in Spawns, Goroutine(s) PROVE PortInv'
  <2>1. CASE ExecStart(s) \/ SetPid(s) \/ PersistPID(s) \/ ExecWaited(s) \/ StopApp(s) \/ CollectPipe(s)
    BY <1>1, <2>1 DEF ExecStart, SetPid, PersistPID, ExecWaited, StopApp, CollectPipe, spawnVars, portVars
  <2>2. QED
    BY <1>6, <1>7, <1>8, <1>9, <1>10, <1>11, <1>12, <1>13, <1>14, <1>15, <1>16, <2>1
    DEF Goroutine, NoFreePorts
<1>17. CASE Environment
  <2>1. CASE CloseBegins \/ \E s \in Spawns : ProcessExits(s) \/ AskLoop(s) \/ StopLookup(s)
    BY <1>1, <2>1 DEF CloseBegins, ProcessExits, AskLoop, StopLookup, spawnVars, portVars
  <2>2. QED
    BY <1>5, <1>7, <1>15, <1>17, <2>1 DEF Environment
<1>18. CASE CloseStopsApps \/ RouterCloses \/ RouterWaited \/ RouterClosed \/ Restart \/ UNCHANGED vars
  BY <1>1, <1>18 DEF CloseStopsApps, RouterCloses, RouterWaited, RouterClosed, Restart, vars, spawnVars, portVars
<1>19. QED
  BY <1>16, <1>17, <1>18 DEF Next, System

\* ServeApp leaves no port bound, whatever other spawns of the app, which may take its
\* port over, and its own requestLoops do meanwhile: only a port that such a loop
\* allocates after ServeApp listed the ports is left.
THEOREM PortTheorem == Spec => []NoPortLeak
<1>1. Init => PortInv
  BY DEF Init, PortInv, PortsHeld, SpawnStates, ServeStates
<1>2. PortInv => NoPortLeak
  BY DEF PortInv, PortsHeld, NoPortLeak
<1>3. QED
  BY <1>1, <1>2, PortStep, PTL DEF Spec
=============================================================================

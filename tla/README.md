# Verification of the Skywire visor, setup node and hypervisor

TLA+ models of the core of this repository: the routing tables of the visors, the
setup of loops by the setup node, the transports that carry packets and their
settlement with the transport discovery, the apps of a visor, the network below,
and the hypervisor above. TLC checks them on small instances; TLAPS proves their safety
properties for every size. `PROJECT.json` lists the components, the
runs, the source lines each definition models and the hazards.

## The system

A *visor* runs *apps* and connects them to apps on other visors by *loops*. A
loop is a pair of routes, each a chain of *transports* between visors, along
which every visor stores a *routing rule* under a *route id* of its own. A
*setup node*, asked by the visor that dials, reserves route ids, computes the
rules, installs them and confirms the loop at its two ends. A *hypervisor* shows
and controls visors over HTTP.

| Component | State | Operations | Hard about it |
|---|---|---|---|
| routing table (`pkg/routing`, `managed_routing_table.go`) | rules by id, id counter, last activity per id | AddRule, SetRule, Rule, DeleteRules, RangeRules, Cleanup | only some operations take the mutex; BoltDB survives a restart, the activity map does not; ids wrap |
| route manager (`route_manager.go`) | the managed table | the setup requests RequestRouteID, AddRules, ConfirmLoop, LoopClosed, DeleteRules; garbage collection | each request in a goroutine of its own; a request may come long after its setup failed |
| router and port manager (`router.go`, `port_manager.go`) | bound ports, loops per port | requestLoop, confirmLoop, closeLoop, loopClosed; handlePacket, forwardPacket, consumePacket; ServeApp | ports are reused; a failed dial undoes nothing; callbacks into apps |
| setup node (`pkg/setup`) | one goroutine per request | handleCreateLoop, handleCloseLoop | parallel requests, two time limits, partial failure |
| transport manager (`manager.go`) | transports by id, the packet queue `readCh` | Serve, SaveTransport, DeleteTransport, Close, ReadPacket | waits with the mutex held, a bounded queue, shutdown |
| managed transport (`managed_transport.go`) | connection, wake-up channel, log counters | Serve with redial, read loop, WritePacket, Dial, Accept, Close | dials with the mutex held, a channel closed at the end, lost wake-ups |
| settlement (`handshake.go`, `entry.go`), discovery client, httpauth | entries, signatures, a nonce per client | SettlementHS.Do, RegisterTransports, UpdateStatuses; Client.Do | one step of several fails; answers are lost; clients of one key share the server's nonce |
| app protocol, library and manager (`pkg/app`, `app_manager.go`) | pending requests, connections, accept queue | Send, Serve; Dial, Accept, serveConn, Close | request ids reused; frames early or late; `mu` held over a Send |
| visor (`pkg/visor/visor.go`) | started apps, processes, the pid file | StartApp, StopApp, SpawnApp, Close | exits against stop requests, crashes, shutdown during a start |
| network, stcp (`pkg/snet`) | listeners, ports | Dial, Listen, Introduce, handshake, Close | one goroutine serves all ports; close against accept |
| hypervisor (`pkg/hypervisor`), visor RPC (`rpc.go`) | account, sessions, connections of visors | login, logout, change of password; handlers over RPC | check-then-act across requests; visors that do not answer |
| therealssh, dmsgpty, socks proxy | channels, terminals | see `PROJECT.json` | not modelled |

The components meet as follows. The router calls the setup node (CreateLoop,
CloseLoop); the setup node calls the route managers; a route manager changes the
table and calls the router back (OnConfirmLoop, OnLoopClosed), which changes the
ports and calls the app over its protocol. Packets go from the read loop of a
managed transport through `readCh` to the router's packet loop, which looks the rule
up and forwards over a transport of the manager or hands the payload to an app. A
managed transport gets its connections from the network and settles each with its
peer and the discovery. The hypervisor calls a visor's RPC, which calls all of these.

What makes each correct: a rule in use is never collected, an unused one always
is; no route id has two meanings; a packet sent into a loop comes out at the
other end of that loop or nowhere; a loop that was reported works; a
transport id has one instance; nothing is sent on a closed channel; a settled
transport is registered; a call returns its own answer; a stopped app stops and leaves no
port bound; a session does not outlive what it was granted on;
shutdown ends everything and returns.

## Modules

* **`RoutingTable`** models one visor's table. `rules` and `activity` are the two
  maps, `nextID` the counter or BoltDB sequence, `mu` the mutex. AddRule, Rule
  and Cleanup take `mu`; SetRule, DeleteRules and RangeRules are methods of the
  embedded table and do not, so Rule is two steps and Cleanup three, and the
  unlocked operations run in between. Setup requests, the packet loop, the
  garbage collector and the visor's RPC are the callers. A rule is its
  keep-alive; a time stamp is its age in ticks. `Restart` stops the process at
  any step. `known` and `added` are auxiliary.
* **`LoopRules`** has the pure part of the setup node (`newIDReservoir`, `PopID`,
  `SaveForwardRules` with its loop as `AfterHops`, `GenerateRules`) and of the routers
  (`Forwarded`: one hop of a packet, `Travel`: all of them, `Consumed`: the app rule it
  ends at). **`MCLoopRules`** (`RulesSpec`) applies them to every pair of routes and every
  reservation of a network.
* **`LoopSetup`** composes routers, setup node and route managers: `RequestLoop` is
  the dial; `AddRules`, `ConfirmWithDst`, `ConfirmWithSrc`, `LoopCreated` and
  `PhaseFailed` are the phases of `handleCreateLoop`, which end in `Finish`, the reply to
  the dial: it may be lost, and is met by `DialReply` or comes after `DialTimeout`; `OccupyRouteID`,
  `SetRoutingRules`, `ConfirmLoop`, `LoopClosed` are the handlers of the visors;
  `GiveUp` and `DialTimeout` are the time limits of both sides; `Restart` and
  `Cleanup` complete the visor. `ConfirmLoop` is split at the callback to the
  app, where other handlers run. A request that timed out stays in `msgs` and may
  be handled at any later time; a lost reply is the same as a request handled
  after the setup node gave up. `stored` and `closed` are auxiliary; `events` counts
  restarts and closes together. **`MCLoopSetup`** gives the loops.
* **`TransportManager`** has the manager, an accept loop, the read loops and the
  router's packet loop, with `mx` held where the code holds it while it waits:
  SaveTransport over its dial (`TransportDialled`), acceptTransport over Accept of an
  instance that is there (`ConnAccepted`), DeleteTransport and Close over the end of
  the goroutines. An *instance*
  is one ManagedTransport object of a transport id; writes of the router and of apps
  hold its `connMx` until the peer reads (`RouterWritten`, `AppWritten`).
* **`ManagedTransport`** looks inside one instance: `connMx` held across dial and
  handshake, the token channel `connCh`, the redial loop, the read loop, the log
  counter, the status reported to the discovery.
* **`Calls`** is abstract: what `Protocol.Send` promises. A call is executed at most
  once and returns the outcome of its own execution, or the news that the
  connection is gone.
* **`App`** is an app and its visor. `chans`, `rw`, `status`, `id`, `stage`,
  `outcome` are the two Protocols with the calls under way; `mu`, `conns`, `pipe`,
  `serving`, `accepting`, `closer` the app library; the actions after them are the
  handlers of the app, the app manager and the router's calls to the app. A packet for
  the app is answered when its user has read it (`Readers`), which need not happen. It
  implements `Calls` under a mapping of its calls, except for those in `late`,
  sent after `closeAll` of their own end.
* **`Visor`** has the runs of SpawnApp (`spawn`), each with the goroutine of its process
  (`run`, `proc`, `pid`) and of its connection (`serve`, `conn`), the errors that end it
  early (`SpawnFails`), the port manager as ServeApp uses it (`ports`, `static`), the pid
  file, StopApp split between its lookup and its use of the bind, Close of the visor
  and of the router up to `tm.Close` (node "transports"), crash (also the panic of an
  allocation that finds no port, `NoFreePorts`) and restart. `unlisted` is auxiliary.
* **`Users`** is the hypervisor's user manager: the account in the database, the
  session map, and requests that run in steps (session lookup, read of the user,
  handler). **`Hypervisor`** extends it by the API: visors' connections in `nodes`,
  the read lock of `mu`, the handlers with the RPCs each makes in order, and in `vis`
  the part of a visor these RPCs read and write. Of an app that is its auto-start and
  whether it is stopped, running, told to stop and not yet unregistered ("stopping",
  ended by `AppEnds`) or registered without a process ("nodir"); a StartApp whose
  SpawnApp does not signal and an Exec may be "stuck" at the visor. The RPCs that
  manage transports are
  outcomes here; what they do is in `TransportManager`.
* **`Stcp`** has the client of a visor that listens, with the one goroutine that accepts,
  shakes hands and introduces, its listeners and ports, dials of another visor,
  and Close of the network.
* **`Settlement`** has both sides of the handshake, the entry with its signatures, and
  every request to the discovery as it goes through `httpauth.Client.Do`. The
  discovery is external: it takes a request whose nonce it expects.

**`RoutingTableProofs`**, **`AppProofs`**, **`HypervisorProofs`** (with `Users`),
**`TransportProofs`** (`TransportManager` and `Settlement`), **`ManagedTransportProofs`**,
**`StcpProofs`**, **`VisorProofs`** and **`LoopProofs`** (`MCLoopRules` and `LoopSetup`) hold the
theorems about their components. Where one module of proofs is about two, the definitions
of one have names of their own (`ManagerSpec`, `RulesSpec`).

Operators such as `UnlockedRule` or `RestartFromOne`, each placed before the
definition it varies, are deliberate mistakes: put in place of that definition
they break the property `PROJECT.json` pairs them with.

## Runs

| Run | Shows |
|---|---|
| `table_bolt` | the table's types, `CleanupSparesActive`, `RestoredRulesAreDead`, `NeverReissued`, and under fairness `ExpiredCollected` |
| `loop_rules` | every reserved id gets exactly one rule, and the rules join the two ends both ways, for all routes of at most three hops among four visors |
| `setup_concurrent` | two loops over a shared relay at once: `NoMisdelivery`, `CreatedLoopDelivers`, `ResponderFirst` |
| `setup_faults` | `NoMisdelivery` and `CreatedLoopDelivers` when replies are lost, a visor restarts anywhere or a loop is closed and its port reused |
| `manager` | one instance per id; nothing sent on the closed `readCh` but by transports opened after Close began; `Close` and `DeleteTransport` return, but for the waits the properties name |
| `managed` | nothing sent on the closed `connCh`, no connection left behind, no lost wake-up; `Close` returns unless the peer, or the reader of `readCh`, never reads again |
| `apps` | the calls implement `Calls`; ids do not leak; the visor learns of every loop that ends; while the pipe is open nothing waits for ever but the sender of an unread packet |
| `visor` | every process is in the pid file, no port leaks, StopApp unregisters the app, Close gets as far as `tm.Close`, with the exceptions the properties name |
| `users` | sessions follow the password and stay ended, with requests overlapping at every step |
| `hypervisor` | requests are answered and visors registered unless a visor does not answer; a PUT that succeeds took effect |
| `stcp` | a panic needs a close in one window; open listeners can be reached; ephemeral ports repeat only after a full round; nothing sticks |
| `settlement` | a settled transport is registered with both signatures; no request is executed twice; a nonce is refused twice only under contention; both sides end |

Every component has a type invariant (`UsersTypeOK` in `Users`, `ManagerTypeOK` in
`TransportManager`). Those of `RoutingTable` and `LoopSetup` are theorems (`Typing`,
`LoopTypes`); those of `Users`, `TransportManager` and `ManagedTransport` are part of the
invariants proved of them; the others hold on the instances of the runs and can be added to
the INVARIANTS of their cfg. `table_bolt` lists its own.

### What the exceptions say

Most properties name a case in which the code does not keep the plain form. Each is
in the model, and dropping the exception, or changing the constant named, shows it.

Routes and loops:

* `setup_concurrent` with `MaxEvents = 1`: a relay that restarts between the
  reservation of its ids and their rules stores rules without activity, which are
  never served; the setup succeeds and `CreatedLoopDelivers` fails.
* `CreatedLoopDelivers` excepts loops with such a visor ("wiped"), and `Rebound` ones: a
  late confirmation of a closed loop binds the loop that now has its port to the route
  ids of the closed one, whose rules the other end may have dropped.
* `setup_faults` with `ResponderFirst`: a late confirmation of a closed loop meets a
  new loop on the same port, to the same address, and confirms it with the old route
  ids before the responder has confirmed it. It is claimed without closes.
* LoopClosed names no remote public key (`setup/node.go`, `handleCloseLoop`), so
  the other end finds no rule of that loop and keeps its own until it times out.
* `RoutingTable` with `Persistent = FALSE`: the id counter wraps and overwrites rules
  in use, since the guard in `inMemoryRoutingTable.AddRule` tests its result while
  that is still 0; and a restart hands ids out again. `NeverReissued` and the loop
  runs are claimed for BoltDB.
* A rule added over the RPC (`AddRoutingRule`) is timed out from the start, an
  instance of `RestoredRulesAreDead`.

Transports:

* `AcceptAwaitsClose`: `Manager.close` holds `mx` and waits for the accept loop, which
  has a connection and waits for `mx`, or which still listens, since initTransports
  waits for `mx` before the listeners can be closed.
* `PeerDoesNotRead`: `conn.Write` has no deadline and holds `connMx`, which the end of
  Serve needs before it closes the connection. A peer that does not read thus holds up
  Close and DeleteTransport, and with them `mx`.
* `RouterAwaitsDelete`: `DeleteTransport` holds `mx` and waits for a read loop, which waits
  for room in `readCh`. The router makes none: it waits for `mx`, or for a peer or an app
  that does not read ("Stuck here", `router.go`), or it has ended. `ReadChFull` is the
  same wait seen from one transport; only a Close of the manager ends it.
* `late` in `NoSendOnClosedReadCh`: a Close that overtakes initTransports leaves
  transports that serve, and whose read loops send on the closed `readCh`.
* A packet for a transport that is deleted in that moment ends the router's packet
  loop (`ErrNotServing` is returned, not logged). One handshake whose peer has hung
  up ends the accept loop, because its error says "closed".
* Packets that come between the last record of the log and the end of the connection
  are not recorded (`dirty` stays TRUE).
* `SettledIsRegistered`: an error of RegisterTransports is only logged, so that a
  transport whose registration was lost or refused is settled all the same.
  `RefusedOnlyWhenContended`: `Client.Do` counts its nonce on for 200 only and the
  discovery answers a registration with 201, so the request after it is always
  refused once and retried once; two requests of one key at a time can use up the
  retry. At its time limit `Do` returns while its goroutine goes on.

Apps and visors:

* `Unread` in `NothingSticks`: the app's handler writes a packet into a `net.Pipe`, which
  waits for the app's user to read. Until then the visor's Send does not return, and
  the router's packet loop waits with it. Nobody else does: `mu` is not held.
* `late` in `App`: between `closeAll` and the close of the pipe a Send may take an id
  whose old answer is still to come, or wait for ever. StopApp closes the raw pipe
  and not the protocol, so that Sends of the visor that wait then are never woken.
  Accept never returns after Close, as nothing closes its channel.
* `confirmLoop` of the app looks its connections up by a key they are not stored
  under, so that the confirmation of a dialled loop goes to Accept. A connection
  that App.Close closes is announced to the visor twice. A Send whose write fails
  keeps its id.
* `StopStops`: an app whose directory cannot be made stays "started". StopApp before
  the pid is known closes the connection and leaves the process. StartApp of an app
  that runs, whose command fails, whose port is reserved or whose directory cannot be
  made never returns, since nobody signals `startCh`.
* `NoPortLeak`: a requestLoop that outlives ServeApp's listing keeps its port.
  A clean-up may remove the static port of the app's next run, and destroyLoop closes
  a dynamic port a second time, when it may be another's.
* `ServedForEver` in `CloseReturns` of `Visor`: stopApp comes too early for an app whose
  start overlaps Close. When it is bound after Router.Close has listed the connections,
  or an earlier run of the app took its port over and freed it, nobody closes its
  connection and Close waits for it. Beyond ServeApp, Router.Close ends in `tm.Close`,
  which is the manager's `CloseReturns` above.

Network and hypervisor:

* `PanicNeedsOvertaking`: a listener closed between Introduce's check and its lock
  makes Introduce send on a closed channel. A closed listener stays in `lMap`; a dial
  to its port ends the serving goroutine and with it every port.
* `SessionsFollowPassword`: a login that verified the old password before a change
  opens its session after the old sessions were dropped. ChangePassword verifies and
  stores the copy of the user that Authorize read.
* `NobodyWaitsForever`: getNodes holds the read lock over its RPCs, so a visor that
  hangs stops a visor that connects, and through it every later request;
  `middleware.Timeout` ends no wait. A StartApp that SpawnApp does not signal and an
  Exec whose command goes on are waited for too, by their own caller only.
* `PutTakesEffect`: success says that an app to be stopped was told to stop, not that it
  has: StopApp signals the process and closes the pipe, SpawnApp unregisters the app
  later, and an app without a directory stays registered. Two PUTs may overtake each
  other, so it speaks of some time since the app was read.
* `tpCtx` looks up an app, so the routes of a single transport or route answer 404.

### Bounds

* `RoutingTable`: two assignable ids and id 0, keep-alives 1 and 2, ages to 3 (so
  that an age can be below, between and above them), one restart. Two ids suffice
  for a cleanup to meet an id in use and one timed out. The proofs lift all of it.
* `LoopRules`: four visors and routes of up to three hops give shared and disjoint
  intermediate visors in both directions; ids 1 to 3 give gaps and any order.
* `LoopSetup`: two loops, the fewest that can interfere; three visors with a relay
  both loops share, or two visors with one transport where one restart or one close
  is added; two dynamic ports, so that a port is reused when the first loop is
  closed. The loops of an instance have the same description and are model values,
  so the runs may use symmetry in them.
* `TransportManager`: two ids and two instances (two transports, or one id reopened), a
  queue of one, which a second packet finds full.
* `ManagedTransport`: one caller beside Serve, the read loop and Close, and two
  connections, the second replacing the first. A dial needs an
  unmade connection, so a behaviour runs out of connections after a few
  failures; the fairness conditions ask nothing of a step that is disabled.
* `App`: five ids for the calls of an end, so that ids are reused but do not run
  out unless they leak, and four external steps: a dial or an accept, traffic one
  way, a close from each side.
* `Visor`: one app started twice, so that a new run meets the clean-up of the old
  one, one dynamic port, so that a second dial finds none, four events (start, dial, stop,
  exit, close, crash).
* `Users`: two passwords, four requests (login, change, login, use of the old cookie),
  one restart. `Hypervisor`: one password, three requests, a visor with two
  connections, one failure and one local call; one handler for each shape of
  request (`Used`): one read, a write, a time limit, a read-then-write, several
  calls, a command of any length, and a route that is never found.
* `Stcp`: one port listened on twice, three dials, three ephemeral ports of which one
  is occupied and the last, so that the counter wraps and passes over one.
* `Settlement`: two visors, each initiator or responder, two settlements and a lookup
  at one visor (three requests of one key at once), one fault.

Runs end by themselves, so deadlock is not checked where a behaviour may come to
rest (no dial left, everything closed); waiting that should end is a liveness
property or an invariant of the states at rest instead.

### Fairness

* `RoutingTable`: a holder of the mutex goes on; the garbage collector's ticker
  keeps starting cleanups, and a Go mutex in starvation mode serves its waiters
  (strong fairness of `CleanupRange`).
* `TransportManager`, `ManagedTransport`: goroutines run, mutex waiters are served,
  a select takes each of its ready cases now and then (Go picks one at random),
  dials and handshakes end (they have time limits). Packets, connections and calls need
  not come, and writes to a peer and the router's delivery to an app are owed nothing.
* `Visor`: the visor's goroutines run, and a pipe nobody refers to is collected.
  Starts, stops, exits and crashes need not come, nor the return of `tm.Close`.
* `App`, `Hypervisor`, `Stcp`, `Settlement` state progress as invariants: in a state
  where no step of the system is ENABLED, nobody waits. Their behaviours have finitely
  many such steps between external ones, so this and goroutines that run give the
  liveness, without a fairness formula. Users that read are external in `App`.
* `LoopSetup`: safety only. A dial ends at its own time limit in any case.

## Proofs

Each proof module EXTENDS the modules it is about and holds for every value of their
constants under the assumptions these modules state. An inductive invariant was first
checked with TLC on a small instance.

**`RoutingTableProofs`**, for every `MaxRouteID`, set of keep-alives, kind of table and
number of restarts:

* `Typing`: `Spec => []TypeOK`. `TypeOK` is inductive, with lemmas on storing in and
  deleting from the maps; the one step that needs thought is that both allocators
  stay within the id width (`AssignedTyped`).
* `CleanupSafe`: `CleanupSparesActive` is not inductive: it speaks of the phase
  `gcDelete` only. The invariant `IInv` adds that the set-aside ids stay idle through
  `gcActivity` too (`SetAsideIsIdle`) and that activity records belong to ids
  assigned since the start (`ActivityAdded`). A lookup or reservation needs `mu`,
  which the cleanup holds; the operations without `mu` leave `activity` alone.
* `RestoredDead`: follows from `ActivityAdded`: an id not assigned since the start
  has no record, and without one a rule is timed out.
* `BoltNeverReissues`: for a persistent table, from `KnownBelowSequence`: every id
  ever handed out is at most the persisted sequence, so the next one is new.

**`AppProofs`**, for any number of external steps:

* `ToldTheorem`: `EndedLoopsAreTold`. `ToldInv` adds that a loop which has lost its entry
  in `conns` while a connection of it was served is one the visor was told of: two
  connections share loop "out", and the end of one deletes the other's entry.
* `IdsTheorem`: `IdsBelongToWaiters`, and `PromiseTheorem`: `Spec => KeepsPromise`, that
  is `App` implements `Calls`. Both rest on `WireInv`: an id is held by one call of its
  own end, which waits under it or could not be written (`Holders`); a call of an
  open end that is under way waits and holds its id (`Waiters`); after `closeAll` only
  late calls hold ids. So an answer finds the call it answers, or a late one
  (`AnswerIsOwn`). `Send` is Begin of the abstract specification or a stutter, the end of
  a handler is Execute, `ServeResponse` is Return, `CloseAll` is Lose, the rest stutters.
  Both need `EnoughIDs`: as many ids as calls (the code has 255, the model 17 calls).
  `AddFindsFree` derives from it, by the pigeonhole principle, that `chanList.add` finds
  an id; when none is free the code panics. The two ends' ids are counted by a
  bijection between ids and waiting calls.

**`HypervisorProofs`**, for any passwords, requests, visors, connections and restarts:

* `SessionsTheorem`, `EndedTheorem` of the user manager alone (`UsersSpec`). `UsersInv` adds
  what is true in between: a login past its check has verified the present password or
  is one of the exceptions (`VerifiedIsCurrent`); a cookie is issued once, when its login
  is over (`CookiesAreIssued`); a stale request past the lookup has an expired session
  (`StaleIsOver`).
* `HypervisorSessions`: the same under `Spec`, where handlers wait for visors.
* `PutTheorem`: the action property `PutTakesEffect`. `PutProgress` says how far a PUT is
  and what of the app (auto-start, running, told to stop, without a process) has been
  seen since its first call, whatever other callers do and whenever the app ends.

**`TransportProofs`**. Of the manager, for any transports, instances and capacity:

* `OneInstanceTheorem`: `RunningIsRegistered` is the invariant: whatever runs is the entry
  of its id, since entries are added for an absent id only and removed under `mx` when
  the goroutines have ended.
* `ReadChTheorem`: `ClosingOrder` says that `readCh` is closed after all registered
  transports have ended, but for those opened after Close began (`late`).

Of the settlement, for any visors, settlements, lookups and faults:

* `OnceTheorem`: `OnceInv`: a request that may still be sent has not been executed; a
  refused request was not taken, so that its repetition is the first execution.
* `RefusedTheorem`: `ContendInv`: two requests of a visor under way know of each other, and
  one that knows of no other has from its fetch on the nonce the discovery expects
  (`Fresh`), lost answers to earlier requests notwithstanding.
* `SettledTheorem`: `SettleInv` follows the entry: signed by the initiator, then by both,
  registered before the responder accepts, accepted before the initiator is done.
* `AgreeTheorem`: the two ends agree on a success (`ResponderAgrees`, the safety part of
  `SettlementEnds`): an acceptance is sent by a responder that is past its last failure.

**`ManagedTransportProofs`**, for any callers and number of connections:
`ConnChTheorem` and `OrphanTheorem`, from one invariant: `connMx` has one holder, which is
whoever is inside (`MutexHeld`); once Serve has ended nobody goes past `done`
(`EndedIsQuiet`); a dial is made only while there is no connection (`DialFindsNone`);
open connections are the current one and the leaked ones (`ConnsAccounted`).

**`StcpProofs`**, for any range of ports, occupied ports, listeners and dials:

* `MappedTheorem`: `PortsAreHeldOnce` (the Porter gives a port to one listener at a time)
  makes `lMap`'s entry the open listener's.
* `PanicTheorem`: `SendIsSafe`: between check and send the accept channel is closed only by
  a Close that came before the lock.
* `ReuseTheorem`: `NoneIsPassedOver`: between two dials every free port up to the second's
  was given out, by the distance going up and round from the last port to the first;
  a port comes back only after a full round. `NextEph` takes the least distance, which
  exists by the well-foundedness of the naturals.

**`VisorProofs`**, for any apps, ports, spawns, failures and crashes:

* `RecordedTheorem`: `ProcInv` adds that a run exists only once its spawn is launched.
* `PortTheorem`: `PortInv` with `PortsHeld`: a bound port is served, or on the list its
  ServeApp has still to free, or was allocated late.

**`LoopProofs`**. Of the rules, for any visors and any pair of routes of at most `MaxHops`
hops (`RulesAssumption`: twice as many visits fit into the uint8 in which the code counts;
`maxHops` is 50):

* `IDsAreUsedOnce`: `newIDReservoir` asks a visor for one id per visit (`ReservoirCounts`, by
  a bijection between the visits and the places of the concatenated paths), and after n
  hops the reservoir has lost one id per visit of these hops and no other (`HopsSpend`).
  So no pop fails, all ids are used, and no visor gets two rules under one id.
* `RulesLeadEndToEnd`: the rules are those along two *ways*, `Outward` and `Homeward`, which
  are sequences of positions (a visor and a route id) that never meet, and the two at
  their ends (`GenerateRulesJoins`); a packet on a way whose rules are there gets to the
  end of it (`TravelArrives`, `WayConsumed`).

The recursive functions of `LoopRules` are followed by an induction over the hops that uses
no induction scheme: `InductionTo` takes the least number outside a set (`LeastNat`, from
the well-foundedness of the naturals), and `Recursion` shows from it that the function exists.

Of `LoopSetup`, for any visors, loops and routes. `LoopAssumption` says what the descriptors
are (routes of 1 to `MaxHops` hops between two visors) and that the static and the dynamic
ports are different numbers, none of them 0.

* `PacketsStayOnTheirLoop` (`NoMisdelivery`) and `LoopTypes`, for tables that persist or runs
  without closes and restarts. The invariant `Inv` says that the ids of loops are disjoint at
  every visor, below the visor's counter, and distinct within one (`OwnIDs`); that every rule
  stored, under way, or announced to a router is a placeholder or one of the rules
  `GenerateRules` made for some loop (`TableInv`, `MsgInv`, `ConfirmInv`), up to the fields a
  visor does not copy (`Alike`); and that the entry of a port leads onto a way of its loop
  (`EntryInv`). A packet that is on a way of loop l meets only rules of l, since the key
  is an id of l, and these keep it on the way (`RulesMet`, `TravelStays`). Most actions
  only take things away or repeat what was there (`Keeps`, `Shrinks`, `InvFrame`).
  Without persistence a restart hands ids out again and the property is false.
* `ResponderConfirmsFirst` and `DialledLoopsDeliver`, for `MaxEvents = 0` (no closes or restarts:
  with either both are false, see above) and loops dialled to ports that are not among
  the dynamic ones of the router (`DialsServedPorts`: listening apps have static ports).
  `QuietInv` adds what each phase has achieved: from `confirmDst` on all rules are stored, from `confirmSrc` on
  the responder is bound, and at `ok` both ends are (`Achieved`); what a request that is
  under way presupposes (`Asked`); that a router between the callback and the end of a confirmation
  is bound (`Notified`); and that ports are not reused (`PortInv`). Both rest on `RulesStay`
  and `LoopsStay`: no step takes a rule or a confirmed loop of another setup away.

Only model-checked:

* liveness (`ExpiredCollected`, `ReaderWakes`, `CloseTerminates`, `CloseReturns`,
  `DeleteReturns`, `StopStops`) and the invariants that speak of ENABLED (`NothingSticks` of
  `App` and `Stcp`, `SettlementEnds`, `NobodyWaitsForever`), which are outside the prover's
  reach. The other properties of the runs are all stated by a theorem.

## Not modelled

* BoltDB I/O errors; the byte layout of rules, packets and frames; signatures as such
  (they verify); the `ErrClosedPipe` that `readAndDecodePacketWithTimeout` counts as
  success, which a dmsg connection's Read does not return.
* Servers that never answer: the discovery, to which the nonce fetch of httpauth and
  the last UpdateStatuses of `Manager.close` go without a time limit, answers or fails,
  and so does the dmsg dial of the setup node. Deadlines can be set on open connections.
* Loops of a visor to itself; the table of addresses of stcp (`pktable`); the rest
  of the visor's configuration.
* therealssh (an app with channels of its own, which shares no state with the visor),
  dmsgpty, the socks proxy, log stores, the retrier, the uptime tracker client, the
  commands and sample apps, the mock RPC client: see `PROJECT.json`.

## Plan

Done: the routing table, loop rules and setup, transports and their settlement, apps,
visor, stcp, users and hypervisor, with the proofs above. Next:

1. An abstract specification of a loop (requested, open at the responder, open at
   both, closed) that `LoopSetup` without restarts and closes implements; `QuietInv` has
   what the proof needs.
2. Type correctness as theorems of the modules whose invariants contain it only in part.
3. The invariants of the states at rest with the guards of the steps written out in place
   of ENABLED, which would bring them within the prover's reach.
4. `Channel`: the channels of therealssh.

-------------------------- MODULE TransportManager --------------------------
(***************************************************************************)
(* The transport manager of a visor (pkg/transport/manager.go) and the     *)
(* goroutines around it: the accept loop, the loop that serves and opens   *)
(* the transports known to the discovery, the callers of SaveTransport,    *)
(* DeleteTransport and Close, the read loop of each managed transport, and *)
(* the router's packet loop that drains readCh (pkg/router/router.go).     *)
(*                                                                         *)
(* The write lock mx is held by acceptTransport, initTransports,           *)
(* SaveTransport, DeleteTransport and close; Transport takes it for        *)
(* reading.  A section of code that holds mx and waits for nobody is one   *)
(* step; DeleteTransport and close wait while they hold it, and so do      *)
(* SaveTransport and acceptTransport, for the lock connMx of a transport.  *)
(*                                                                         *)
(* A managed transport is an instance of a transport id, since an id that  *)
(* was deleted may be opened anew.  Of an instance the model keeps whether *)
(* it serves, where its read loop is, and whether a WritePacket holds its  *)
(* connMx: the write to the connection has no time limit and lasts as long *)
(* as the peer does not read.  Packets are counted.                        *)
(***************************************************************************)
EXTENDS Integers, FiniteSets

CONSTANTS
    Transports,      \* transport ids
    Instances,       \* the managed transports that may be created, in their order
    ReadChCap        \* capacity of readCh (20 in the code)

ASSUME TransportManagerAssumption == ReadChCap \in Nat \ {0} /\ Instances \subseteq Nat \ {0}

NoInstance == 0

VARIABLES
    mx,             \* "free", or who holds the write lock
    done,           \* tm.done is closed
    listening,      \* the listeners are open
    tps,            \* tps[t]: the instance registered for t
    inst,           \* inst[i]: "unused", "serving", "closing" or "stopped"
    of,             \* of[i]: the transport i was created for
    reader,         \* reader[i]: the read loop: "reading", "sending" or "exited"
    readCh,         \* packets in readCh
    readChClosed,   \* readCh is closed
    panicked,       \* the instances that sent a packet on the closed readCh
    late,           \* auxiliary: those initTransports opened after Close was called
    acceptor,       \* the accept loop
    server,         \* Manager.serve
    deleting,       \* the transport DeleteTransport waits for
    closer,         \* Manager.Close
    router,         \* the packet loop of Router.Serve
    target,         \* the transport it has looked up to forward a packet
    connMx,         \* connMx[i]: "free", or whose WritePacket holds it
    claim           \* the transport whose connMx the holder of mx waits for

connVars == <<connMx, claim>>
managerVars == <<mx, done, listening, tps, inst, of, reader, readCh, readChClosed, panicked,
                 late, acceptor, server, deleting, closer, router, target, connVars>>

NoTransport == "none"

ManagerTypeOK ==
    /\ mx \in {"free", "save", "accept", "delete", "close"}
    /\ done \in BOOLEAN
    /\ listening \in BOOLEAN
    /\ tps \in [Transports -> Instances \cup {NoInstance}]
    /\ inst \in [Instances -> {"unused", "serving", "closing", "stopped"}]
    /\ of \in [Instances -> Transports \cup {NoTransport}]
    /\ reader \in [Instances -> {"reading", "sending", "exited"}]
    /\ readCh \in 0..ReadChCap
    /\ readChClosed \in BOOLEAN
    /\ panicked \subseteq Instances
    /\ late \subseteq Instances
    /\ acceptor \in {"loop", "accepting", "accepted", "joining", "stopped"}
    /\ server \in {"init", "serving", "stopped"}
    /\ deleting \in Transports \cup {NoTransport}
    /\ closer \in {"idle", "closing", "closed"}
    /\ router \in {"read", "forward", "write", "writing", "consume", "stopped"}
    /\ target \in Instances \cup {NoInstance}
    /\ connMx \in [Instances -> {"free", "router", "app"}]
    /\ claim \in Instances \cup {NoInstance}

ManagerInit ==
    /\ mx = "free"
    /\ done = FALSE
    /\ listening = TRUE
    /\ tps = [t \in Transports |-> NoInstance]
    /\ inst = [i \in Instances |-> "unused"]
    /\ of = [i \in Instances |-> NoTransport]
    /\ reader = [i \in Instances |-> "exited"]
    /\ readCh = 0
    /\ readChClosed = FALSE
    /\ panicked = {}
    /\ late = {}
    /\ acceptor = "loop"
    /\ server = "init"
    /\ deleting = NoTransport
    /\ closer = "idle"
    /\ router = "read"
    /\ target = NoInstance
    /\ connMx = [i \in Instances |-> "free"]
    /\ claim = NoInstance

-----------------------------------------------------------------------------
(* Opening transports.                                                     *)

\* NewManagedTransport, `go mTp.Serve' and the registration in tps.
Open(t, i) ==
    /\ inst[i] = "unused" /\ \A j \in Instances : inst[j] = "unused" => i <= j
    /\ inst' = [inst EXCEPT ![i] = "serving"]
    /\ of' = [of EXCEPT ![i] = t]
    /\ reader' = [reader EXCEPT ![i] = "reading"]
    /\ tps' = [tps EXCEPT ![t] = i]

Registered == {tps[t] : t \in Transports} \ {NoInstance}

Keep == UNCHANGED <<tps, inst, of, reader>>

\* saveTransport: a transport that is registered is kept.
Save(t) ==
    \/ tps[t] # NoInstance /\ Keep
    \/ tps[t] = NoInstance /\ \E i \in Instances : Open(t, i)

\* SaveTransport refuses once the manager closes; else it opens or finds the
\* transport, ...
SaveTransport(t) ==
    /\ mx = "free"
    /\ ~done
    /\ Save(t)
    /\ mx' = "save"
    /\ claim' = tps'[t]
    /\ UNCHANGED <<done, listening, readCh, readChClosed, panicked, late, acceptor, server,
                   deleting, closer, router, target, connMx>>

\* ... and dials it under mx and under its connMx, within a time limit.
TransportDialled ==
    /\ mx = "save"
    /\ connMx[claim] = "free"
    /\ mx' = "free"
    /\ claim' = NoInstance
    /\ UNCHANGED <<done, listening, tps, inst, of, reader, readCh, readChClosed, panicked, late,
                   acceptor, server, deleting, closer, router, target, connMx>>

\* initTransports: the discovery knows no transport of this visor, or t.  It does
\* not look at done.
InitTransports ==
    /\ server = "init"
    /\ mx = "free"
    /\ server' = "serving"
    /\ Keep \/ \E t \in Transports : Save(t)
    /\ late' = late \cup {i \in Instances : done /\ inst[i] = "unused" /\ inst'[i] # "unused"}
    /\ UNCHANGED <<mx, done, listening, readCh, readChClosed, panicked, acceptor, deleting,
                   closer, router, target, connVars>>

\* serve, after the manager has closed: the listeners are closed.
CloseListeners ==
    /\ server = "serving"
    /\ done
    /\ server' = "stopped"
    /\ listening' = FALSE
    /\ UNCHANGED <<mx, done, tps, inst, of, reader, readCh, readChClosed, panicked, late,
                   acceptor, deleting, closer, router, target, connVars>>

\* The accept goroutine: the top of its loop, ...
AcceptLoop ==
    /\ acceptor = "loop"
    /\ acceptor' = IF done THEN "stopped" ELSE "accepting"
    /\ UNCHANGED <<mx, done, listening, tps, inst, of, reader, readCh, readChClosed, panicked,
                   late, server, deleting, closer, router, target, connVars>>

\* ... AcceptConn, which returns a connection or the listener's end, ...
AcceptConn ==
    /\ acceptor = "accepting"
    /\ acceptor' \in IF listening THEN {"accepted"} ELSE {"stopped"}
    /\ UNCHANGED <<mx, done, listening, tps, inst, of, reader, readCh, readChClosed, panicked,
                   late, server, deleting, closer, router, target, connVars>>

\* ... and acceptTransport under mx: skipped when the manager closes, refused
\* by the handshake, taken by a new transport, or by the registered one when
\* its connMx is free.  The loop ends on any error that mentions "closed", which
\* is also the error of a handshake whose peer has closed the connection.
AcceptTransport ==
    /\ acceptor = "accepted"
    /\ mx = "free"
    /\ \/ acceptor' = "loop" /\ Keep /\ UNCHANGED <<mx, claim>>
       \/ ~done /\ acceptor' = "stopped" /\ Keep /\ UNCHANGED <<mx, claim>>
       \/ /\ ~done /\ acceptor' = "loop" /\ UNCHANGED <<mx, claim>>
          /\ \E t \in Transports : tps[t] = NoInstance /\ Save(t)
       \/ /\ ~done /\ acceptor' = "joining" /\ Keep
          /\ mx' = "accept"
          /\ claim' \in Registered
    /\ UNCHANGED <<done, listening, readCh, readChClosed, panicked, late, server, deleting,
                   closer, router, target, connMx>>

ConnAccepted ==
    /\ mx = "accept"
    /\ connMx[claim] = "free"
    /\ acceptor' \in {"loop", "stopped"}
    /\ mx' = "free"
    /\ claim' = NoInstance
    /\ UNCHANGED <<done, listening, tps, inst, of, reader, readCh, readChClosed, panicked, late,
                   server, deleting, closer, router, target, connMx>>

-----------------------------------------------------------------------------
(* Closing transports.                                                     *)

\* A DeleteTransport that does not wait for the goroutines of the transport.
DeleteWithoutWaiting(t) ==
    /\ mx = "free"
    /\ ~done
    /\ tps[t] # NoInstance
    /\ inst' = [inst EXCEPT ![tps[t]] = "closing"]
    /\ tps' = [tps EXCEPT ![t] = NoInstance]
    /\ UNCHANGED <<mx, done, listening, of, reader, readCh, readChClosed, panicked, late,
                   acceptor, server, deleting, closer, router, target, connVars>>

\* DeleteTransport: the transport is told to stop, ...
DeleteTransport(t) ==
    /\ mx = "free"
    /\ ~done
    /\ tps[t] # NoInstance
    /\ mx' = "delete"
    /\ deleting' = t
    /\ inst' = [inst EXCEPT ![tps[t]] = "closing"]
    /\ UNCHANGED <<done, listening, tps, of, reader, readCh, readChClosed, panicked, late,
                   acceptor, server, closer, router, target, connVars>>

\* ... and leaves the map when its goroutines have ended.
TransportDeleted ==
    /\ mx = "delete"
    /\ inst[tps[deleting]] = "stopped"
    /\ mx' = "free"
    /\ tps' = [tps EXCEPT ![deleting] = NoInstance]
    /\ deleting' = NoTransport
    /\ UNCHANGED <<done, listening, inst, of, reader, readCh, readChClosed, panicked, late,
                   acceptor, server, closer, router, target, connVars>>

\* A close that closes readCh before it waits.
ReadChClosedFirst ==
    /\ closer = "idle"
    /\ mx = "free"
    /\ mx' = "close"
    /\ done' = TRUE
    /\ readChClosed' = TRUE
    /\ closer' = "closing"
    /\ UNCHANGED <<listening, tps, inst, of, reader, readCh, panicked, late, acceptor, server,
                   deleting, router, target, connVars>>

\* Close: from here on the manager is closing.
Close ==
    /\ closer = "idle"
    /\ mx = "free"
    /\ mx' = "close"
    /\ done' = TRUE
    /\ closer' = "closing"
    /\ UNCHANGED <<listening, tps, inst, of, reader, readCh, readChClosed, panicked, late,
                   acceptor, server, deleting, router, target, connVars>>

\* The transports are closed one after the other.
CloseTransport(i) ==
    /\ closer = "closing"
    /\ i \in Registered
    /\ inst[i] = "serving"
    /\ \A j \in Registered : inst[j] # "closing"
    /\ inst' = [inst EXCEPT ![i] = "closing"]
    /\ UNCHANGED <<mx, done, listening, tps, of, reader, readCh, readChClosed, panicked, late,
                   acceptor, server, deleting, closer, router, target, connVars>>

\* close: all transports have stopped and the accept goroutines of tm.wg have
\* returned, so readCh is closed.
Closed ==
    /\ closer = "closing"
    /\ \A i \in Registered : inst[i] = "stopped"
    /\ acceptor = "stopped"
    /\ readChClosed' = TRUE
    /\ mx' = "free"
    /\ closer' = "closed"
    /\ UNCHANGED <<done, listening, tps, inst, of, reader, readCh, panicked, late, acceptor,
                   server, deleting, router, target, connVars>>

-----------------------------------------------------------------------------
(* The read loop of a managed transport.                                   *)

\* readPacket returns a packet.
PacketRead(i) ==
    /\ inst[i] \in {"serving", "closing"}
    /\ reader[i] = "reading"
    /\ reader' = [reader EXCEPT ![i] = "sending"]
    /\ UNCHANGED <<mx, done, listening, tps, inst, of, readCh, readChClosed, panicked, late,
                   acceptor, server, deleting, closer, router, target, connVars>>

\* readCh <- p.  On a closed channel the send panics.
PacketSent(i) ==
    /\ reader[i] = "sending"
    /\ readChClosed \/ readCh < ReadChCap
    /\ IF readChClosed
         THEN panicked' = panicked \cup {i} /\ UNCHANGED readCh
         ELSE readCh' = readCh + 1 /\ UNCHANGED panicked
    /\ reader' = [reader EXCEPT ![i] = "reading"]
    /\ UNCHANGED <<mx, done, listening, tps, inst, of, readChClosed, late, acceptor, server,
                   deleting, closer, router, target, connVars>>

\* A read loop that sees done only when readCh has room.
DropsWithRoom(i) ==
    /\ reader[i] = "sending"
    /\ done
    /\ readCh < ReadChCap
    /\ reader' = [reader EXCEPT ![i] = "exited"]
    /\ UNCHANGED <<mx, done, listening, tps, inst, of, readCh, readChClosed, panicked, late,
                   acceptor, server, deleting, closer, router, target, connVars>>

\* The done the read loop watches is the manager's: its packet is dropped.
PacketDropped(i) ==
    /\ reader[i] = "sending"
    /\ done
    /\ reader' = [reader EXCEPT ![i] = "exited"]
    /\ UNCHANGED <<mx, done, listening, tps, inst, of, readCh, readChClosed, panicked, late,
                   acceptor, server, deleting, closer, router, target, connVars>>

\* A Serve that returns with its connection open.
StopsWithoutClosing(i) ==
    /\ inst[i] = "closing"
    /\ connMx[i] = "free"
    /\ reader[i] = "exited"
    /\ inst' = [inst EXCEPT ![i] = "stopped"]
    /\ UNCHANGED <<mx, done, listening, tps, of, reader, readCh, readChClosed, panicked, late,
                   acceptor, server, deleting, closer, router, target, connVars>>

\* Serve gets connMx, closes the connection and returns; a read loop that is
\* reading fails and ends.  mt.wg has then counted down.
Stopped(i) ==
    /\ inst[i] = "closing"
    /\ connMx[i] = "free"
    /\ reader[i] \in {"reading", "exited"}
    /\ inst' = [inst EXCEPT ![i] = "stopped"]
    /\ reader' = [reader EXCEPT ![i] = "exited"]
    /\ UNCHANGED <<mx, done, listening, tps, of, readCh, readChClosed, panicked, late,
                   acceptor, server, deleting, closer, router, target, connVars>>

-----------------------------------------------------------------------------
(* The router's packet loop.                                               *)

\* ReadPacket; the packet's rule is a forward rule or an app rule.
RouterRead ==
    /\ router = "read"
    /\ readCh > 0
    /\ readCh' = readCh - 1
    /\ router' \in {"forward", "consume"}
    /\ UNCHANGED <<mx, done, listening, tps, inst, of, reader, readChClosed, panicked, late,
                   acceptor, server, deleting, closer, target, connVars>>

\* ErrNotServing ends the loop.
RouterStop ==
    /\ router = "read"
    /\ readCh = 0
    /\ readChClosed
    /\ router' = "stopped"
    /\ UNCHANGED <<mx, done, listening, tps, inst, of, reader, readCh, readChClosed, panicked,
                   late, acceptor, server, deleting, closer, target, connVars>>

\* handlePacket: consumePacket hands the packet to its app, and waits until the
\* app has taken it, ...
RouterConsume ==
    /\ router = "consume"
    /\ router' = "read"
    /\ UNCHANGED <<mx, done, listening, tps, inst, of, reader, readCh, readChClosed, panicked,
                   late, acceptor, server, deleting, closer, target, connVars>>

\* ... forwardPacket looks the transport up under mx, in vain or not, ...
RouterLookup ==
    /\ router = "forward"
    /\ mx = "free"
    /\ \/ router' = "read" /\ UNCHANGED target
       \/ router' = "write" /\ target' \in Registered
    /\ UNCHANGED <<mx, done, listening, tps, inst, of, reader, readCh, readChClosed, panicked,
                   late, acceptor, server, deleting, closer, connVars>>

\* ... and calls its WritePacket, whose ErrNotServing, when the transport has
\* been closed meanwhile, ends the packet loop; ...
RouterWrite ==
    /\ router = "write"
    /\ connMx[target] = "free"
    /\ IF inst[target] = "serving"
         THEN /\ router' = "writing"
              /\ connMx' = [connMx EXCEPT ![target] = "router"]
              /\ UNCHANGED target
         ELSE /\ router' = "stopped"
              /\ target' = NoInstance
              /\ UNCHANGED connMx
    /\ UNCHANGED <<mx, done, listening, tps, inst, of, reader, readCh, readChClosed, panicked,
                   late, acceptor, server, deleting, closer, claim>>

\* ... the write to the connection ends when the peer reads.
RouterWritten ==
    /\ router = "writing"
    /\ router' = "read"
    /\ connMx' = [connMx EXCEPT ![target] = "free"]
    /\ target' = NoInstance
    /\ UNCHANGED <<mx, done, listening, tps, inst, of, reader, readCh, readChClosed, panicked,
                   late, acceptor, server, deleting, closer, claim>>

\* forwardAppPacket: a packet of an app is written to transport i, ...
AppWrite(i) ==
    /\ inst[i] = "serving"
    /\ connMx[i] = "free"
    /\ connMx' = [connMx EXCEPT ![i] = "app"]
    /\ UNCHANGED <<mx, done, listening, tps, inst, of, reader, readCh, readChClosed, panicked,
                   late, acceptor, server, deleting, closer, router, target, claim>>

\* ... when the peer reads.
AppWritten(i) ==
    /\ connMx[i] = "app"
    /\ connMx' = [connMx EXCEPT ![i] = "free"]
    /\ UNCHANGED <<mx, done, listening, tps, inst, of, reader, readCh, readChClosed, panicked,
                   late, acceptor, server, deleting, closer, router, target, claim>>

InstanceStep(i) == PacketRead(i) \/ PacketSent(i) \/ PacketDropped(i) \/ Stopped(i)

ManagerNext ==
    \/ \E t \in Transports : SaveTransport(t) \/ DeleteTransport(t)
    \/ TransportDialled \/ TransportDeleted
    \/ InitTransports \/ CloseListeners
    \/ AcceptLoop \/ AcceptConn \/ AcceptTransport \/ ConnAccepted
    \/ Close \/ Closed
    \/ \E i \in Instances : CloseTransport(i) \/ InstanceStep(i)
    \/ RouterRead \/ RouterStop \/ RouterConsume \/ RouterLookup \/ RouterWrite
    \/ RouterWritten
    \/ \E i \in Instances : AppWrite(i) \/ AppWritten(i)

ManagerSpec == ManagerInit /\ [][ManagerNext]_managerVars

\* Every goroutine that can go on does so, the senders on readCh are served in
\* turn, and the discovery answers or fails.  The connection of a transport that
\* closes is closed whatever its read loop does, so the packets that still come are
\* finitely many: Stopped is strongly fair.  Connections and packets need not come,
\* nobody need call Close, and neither the apps nor the peers need read:
\* RouterConsume, RouterWritten and AppWritten are not fair.
Fairness ==
    /\ WF_managerVars(InitTransports \/ CloseListeners)
    /\ WF_managerVars(AcceptLoop \/ (AcceptConn /\ ~listening) \/ AcceptTransport \/ ConnAccepted)
    /\ WF_managerVars(TransportDialled)
    /\ WF_managerVars(TransportDeleted)
    /\ WF_managerVars(Closed \/ \E i \in Instances : CloseTransport(i))
    /\ WF_managerVars(RouterRead \/ RouterStop \/ RouterLookup \/ RouterWrite)
    /\ \A i \in Instances : SF_managerVars(PacketSent(i) \/ PacketDropped(i))
    /\ \A i \in Instances : SF_managerVars(Stopped(i))

FairSpec == ManagerSpec /\ Fairness

-----------------------------------------------------------------------------
(* Properties.                                                             *)

Running(i) == inst[i] \in {"serving", "closing"}

\* Two managed transports never serve the same transport id at a time: a new
\* one is opened only when the goroutines of the old one have ended.
OneInstancePerTransport ==
    \A i, j \in Instances : Running(i) /\ Running(j) /\ of[i] = of[j] => i = j

\* No read loop sends on readCh after close has closed it, but those of transports
\* that initTransports opens when Close has been called: it does not look at done.
NoSendOnClosedReadCh == panicked \subseteq late

\* close holds mx and waits for the accept loop, which has a connection in hand
\* and waits for mx; or the accept loop waits for a connection from listeners
\* that serve closes only when initTransports has had mx.
AcceptAwaitsClose ==
    /\ closer = "closing"
    /\ \/ acceptor = "accepted"
       \/ acceptor = "accepting" /\ server = "init"

\* Transport i is to stop, and somebody's WritePacket holds its connMx.
PeerDoesNotRead(i) == inst[i] = "closing" /\ connMx[i] # "free"

\* DeleteTransport holds mx and waits for a read loop that waits for room in
\* readCh, and the router makes none: it waits for mx, for a peer or an app that
\* does not read, or has ended.
RouterAwaitsDelete ==
    /\ deleting # NoTransport
    /\ reader[tps[deleting]] = "sending"
    /\ readCh = ReadChCap
    /\ router # "read"

\* Close, once it has mx, returns, whatever the read loops, the router and the
\* other callers are at, unless it stays for ever in the one circle of waits it can
\* meet or with a transport whose peer does not read.
CloseReturns ==
    \/ closer = "closing" ~> closer = "closed"
    \/ <>[](AcceptAwaitsClose \/ \E i \in Instances : PeerDoesNotRead(i))

\* DeleteTransport, once it has mx, returns, unless it stays for ever in the one
\* circle of waits it can meet or with a transport whose peer does not read.
DeleteReturns ==
    \/ deleting # NoTransport ~> deleting = NoTransport
    \/ <>[](RouterAwaitsDelete \/ \E i \in Instances : PeerDoesNotRead(i))
=============================================================================

-------------------------- MODULE ManagedTransport --------------------------
(***************************************************************************)
(* One managed transport (pkg/transport/managed_transport.go): Serve with  *)
(* its redial loop, the read loop, and the callers of WritePacket, Dial,   *)
(* Accept and Close, around the connection, its mutex connMx and the       *)
(* channel connCh that wakes the read loop.                                *)
(*                                                                         *)
(* connMx is held across a dial and its settlement handshake, so these are *)
(* two steps each: the lock with the checks, and the outcome.  Connections *)
(* are numbered in the order they are made.                                *)
(***************************************************************************)
EXTENDS Integers, FiniteSets

CONSTANTS
    Callers,     \* goroutines that write, dial or accept
    MaxConns     \* bound on the connections made in a behaviour

ASSUME ManagedTransportAssumption ==
    MaxConns \in Nat /\ "free" \notin Callers /\ "serve" \notin Callers

VARIABLES
    done,           \* mt.done is closed
    mdone,          \* the manager's done is closed
    connMx,         \* "free", "serve", or the caller that holds it
    conn,           \* mt.conn, 0 when nil
    made,           \* connections made so far
    open,           \* connections not closed at this end
    broken,         \* connections that fail
    leaked,         \* connections a failed handshake left open
    connCh,         \* the tokens in connCh: 0 or 1
    connChClosed,   \* connCh is closed
    panicked,       \* a token was sent on the closed connCh
    dirty,          \* logUpdates > 0
    status,         \* what the discovery was last told
    caller,         \* caller[c]: "idle", "write", "writeDial", "dial", "accept"
    serve,          \* Serve: "select", "lock", "redial", "recorded", "stopped"
    reader,         \* read loop: "get", "wait", "reading", "failed", "sending", "exited"
    rconn,          \* the connection the read loop reads from
    closer          \* Close: "idle", "waiting", "stopped", "closed"

vars == <<done, mdone, connMx, conn, made, open, broken, leaked, connCh, connChClosed, panicked,
          dirty, status, caller, serve, reader, rconn, closer>>

Conns == 1..MaxConns
NoConn == 0

TypeOK ==
    /\ done \in BOOLEAN /\ mdone \in BOOLEAN
    /\ connMx \in {"free", "serve"} \cup Callers
    /\ conn \in Conns \cup {NoConn}
    /\ made \in 0..MaxConns
    /\ open \subseteq Conns /\ broken \subseteq Conns /\ leaked \subseteq open
    /\ connCh \in {0, 1}
    /\ connChClosed \in BOOLEAN /\ panicked \in BOOLEAN /\ dirty \in BOOLEAN
    /\ status \in {"up", "down"}
    /\ caller \in [Callers -> {"idle", "write", "writeDial", "dial", "accept"}]
    /\ serve \in {"select", "lock", "redial", "recorded", "stopped"}
    /\ reader \in {"get", "wait", "reading", "failed", "sending", "exited"}
    /\ rconn \in Conns \cup {NoConn}
    /\ closer \in {"idle", "waiting", "stopped", "closed"}

Init ==
    /\ done = FALSE /\ mdone = FALSE
    /\ connMx = "free"
    /\ conn = NoConn
    /\ made = 0
    /\ open = {} /\ broken = {} /\ leaked = {}
    /\ connCh = 0
    /\ connChClosed = FALSE /\ panicked = FALSE /\ dirty = FALSE
    /\ status = "down"
    /\ caller = [c \in Callers |-> "idle"]
    /\ serve = "select"
    /\ reader = "get"
    /\ rconn = NoConn
    /\ closer = "idle"

-----------------------------------------------------------------------------
(* What is done while connMx is held.                                      *)

\* UpdateStatuses, which may fail.
UpdateStatus(s) == status' \in {status, s}

\* An unbuffered connCh: a wake-up is dropped unless the read loop, having
\* found no connection, has got as far as its select.
UnbufferedWake(c) ==
    /\ conn' = c
    /\ connCh' \in IF reader = "wait" THEN {0, 1} ELSE {0}
    /\ panicked' = (panicked \/ connChClosed)
    /\ UpdateStatus("up")

\* setIfConnNil, when there is none: the token is not sent when one is there.
SetConn(c) ==
    /\ conn' = c
    /\ connCh' = 1
    /\ panicked' = (panicked \/ connChClosed)
    /\ UpdateStatus("up")

\* clearConn
ClearConn ==
    /\ open' = open \ {conn}
    /\ conn' = NoConn
    /\ UpdateStatus("down")

\* A settlement handshake that fails leaves its connection open.
HandshakeFails ==
    /\ made < MaxConns
    /\ made' = made + 1
    /\ open' = open \cup {made + 1}
    /\ leaked' = leaked \cup {made + 1}
    /\ UNCHANGED <<conn, connCh, panicked>>

\* dial: no connection, a failed handshake, which the initiator reports, or a
\* connection that is set.
DialFails ==
    \/ UNCHANGED <<made, open, leaked, conn, connCh, panicked, status>>
    \/ HandshakeFails /\ UpdateStatus("down")

DialSucceeds ==
    /\ made < MaxConns
    /\ made' = made + 1
    /\ open' = open \cup {made + 1}
    /\ SetConn(made + 1)
    /\ UNCHANGED leaked

-----------------------------------------------------------------------------
(* The callers.                                                            *)

Enter(c, op) ==
    /\ connMx' = c
    /\ caller' = [caller EXCEPT ![c] = op]

Leave(c) ==
    /\ connMx' = "free"
    /\ caller' = [caller EXCEPT ![c] = "idle"]

\* A WritePacket that does not ask whether the transport still serves.
WriteUnchecked(c) ==
    /\ caller[c] = "idle"
    /\ connMx = "free"
    /\ Enter(c, IF conn = NoConn THEN "writeDial" ELSE "write")
    /\ UNCHANGED <<done, mdone, conn, made, open, broken, leaked, connCh, connChClosed, panicked,
                   dirty, status, serve, reader, rconn, closer>>

\* WritePacket: refused once the transport stops serving.
WritePacket(c) ==
    /\ caller[c] = "idle"
    /\ connMx = "free"
    /\ ~done
    /\ Enter(c, IF conn = NoConn THEN "writeDial" ELSE "write")
    /\ UNCHANGED <<done, mdone, conn, made, open, broken, leaked, connCh, connChClosed, panicked,
                   dirty, status, serve, reader, rconn, closer>>

\* Dial: nothing to do when there is a connection.
Dial(c) ==
    /\ caller[c] = "idle"
    /\ connMx = "free"
    /\ ~done
    /\ conn = NoConn
    /\ Enter(c, "dial")
    /\ UNCHANGED <<done, mdone, conn, made, open, broken, leaked, connCh, connChClosed, panicked,
                   dirty, status, serve, reader, rconn, closer>>

\* The dial of WritePacket or Dial returns.
Dialled(c) ==
    /\ caller[c] \in {"writeDial", "dial"}
    /\ \/ DialFails /\ Leave(c)
       \/ /\ DialSucceeds
          /\ IF caller[c] = "dial" THEN Leave(c) ELSE Enter(c, "write")
    /\ UNCHANGED <<done, mdone, broken, connChClosed, dirty, serve, reader, rconn, closer>>

\* WritePacket: the write counts as an update of the log, or clears the
\* connection.
Written(c) ==
    /\ caller[c] = "write"
    /\ \/ /\ conn \notin broken
          /\ dirty' = TRUE
          /\ UNCHANGED <<open, conn, status>>
       \/ /\ conn \in broken
          /\ ClearConn
          /\ UNCHANGED dirty
    /\ Leave(c)
    /\ UNCHANGED <<done, mdone, made, broken, leaked, connCh, connChClosed, panicked, serve, reader,
                   rconn, closer>>

\* Accept: a connection that comes too late is closed at once.
Accept(c) ==
    /\ caller[c] = "idle"
    /\ connMx = "free"
    /\ ~done
    /\ made < MaxConns
    /\ Enter(c, "accept")
    /\ UNCHANGED <<done, mdone, conn, made, open, broken, leaked, connCh, connChClosed, panicked,
                   dirty, status, serve, reader, rconn, closer>>

\* Accept, after the handshake: a second connection is closed.
Accepted(c) ==
    /\ caller[c] = "accept"
    /\ \/ HandshakeFails /\ UNCHANGED status
       \/ conn = NoConn /\ DialSucceeds
       \/ /\ conn # NoConn
          /\ made < MaxConns
          /\ made' = made + 1
          /\ UNCHANGED <<open, leaked, conn, connCh, panicked, status>>
    /\ Leave(c)
    /\ UNCHANGED <<done, mdone, broken, connChClosed, dirty, serve, reader, rconn, closer>>

-----------------------------------------------------------------------------
(* Serve.                                                                  *)

\* The ticker: the log is recorded, or else the connection looked after.
LogTick ==
    /\ serve = "select"
    /\ IF dirty THEN dirty' = FALSE /\ UNCHANGED serve
                ELSE serve' = "lock" /\ UNCHANGED dirty
    /\ UNCHANGED <<done, mdone, connMx, conn, made, open, broken, leaked, connCh, connChClosed,
                   panicked, status, caller, reader, rconn, closer>>

RedialLock ==
    /\ serve = "lock"
    /\ connMx = "free"
    /\ IF conn = NoConn THEN serve' = "redial" /\ connMx' = "serve"
                        ELSE serve' = "select" /\ UNCHANGED connMx
    /\ UNCHANGED <<done, mdone, conn, made, open, broken, leaked, connCh, connChClosed, panicked,
                   dirty, status, caller, reader, rconn, closer>>

Redialled ==
    /\ serve = "redial"
    /\ DialFails \/ DialSucceeds
    /\ serve' = "select"
    /\ connMx' = "free"
    /\ UNCHANGED <<done, mdone, broken, connChClosed, dirty, caller, reader, rconn, closer>>

\* mt.done is closed: the deferred function records the log, ...
RecordLog ==
    /\ serve = "select"
    /\ done
    /\ serve' = "recorded"
    /\ dirty' = FALSE
    /\ UNCHANGED <<done, mdone, connMx, conn, made, open, broken, leaked, connCh, connChClosed,
                   panicked, status, caller, reader, rconn, closer>>

\* An end that leaves the connection to the read loop.
EndWithoutConn ==
    /\ serve = "recorded"
    /\ connMx = "free"
    /\ serve' = "stopped"
    /\ connChClosed' = TRUE
    /\ UNCHANGED <<done, mdone, connMx, conn, made, open, broken, leaked, connCh, panicked, dirty,
                   status, caller, reader, rconn, closer>>

\* ... closes connCh and ends the connection.
EndConn ==
    /\ serve = "recorded"
    /\ connMx = "free"
    /\ serve' = "stopped"
    /\ connChClosed' = TRUE
    /\ open' = open \ {conn}
    /\ conn' = NoConn
    /\ UNCHANGED <<done, mdone, connMx, made, broken, leaked, connCh, panicked, dirty, status, caller,
                   reader, rconn, closer>>

-----------------------------------------------------------------------------
(* The read loop.                                                          *)

\* readPacket: the connection to read from, if there is one, ...
GetConn ==
    /\ reader = "get"
    /\ connMx = "free"
    /\ rconn' = conn
    /\ reader' = IF conn = NoConn THEN "wait" ELSE "reading"
    /\ UNCHANGED <<done, mdone, connMx, conn, made, open, broken, leaked, connCh, connChClosed,
                   panicked, dirty, status, caller, serve, closer>>

\* ... else a wake-up, ...
WakeUp ==
    /\ reader = "wait"
    /\ connCh = 1 \/ connChClosed
    /\ reader' = "get"
    /\ connCh' = 0
    /\ UNCHANGED <<done, mdone, connMx, conn, made, open, broken, leaked, connChClosed, panicked,
                   dirty, status, caller, serve, rconn, closer>>

\* A read loop that is only told by connCh.
ExitUnseen ==
    /\ reader = "wait"
    /\ mdone
    /\ reader' = "exited"
    /\ UNCHANGED <<done, mdone, connMx, conn, made, open, broken, leaked, connCh, connChClosed,
                   panicked, dirty, status, caller, serve, rconn, closer>>

\* ... or the end.
ReaderExit ==
    /\ reader = "wait"
    /\ done
    /\ reader' = "exited"
    /\ UNCHANGED <<done, mdone, connMx, conn, made, open, broken, leaked, connCh, connChClosed,
                   panicked, dirty, status, caller, serve, rconn, closer>>

\* A packet comes in, which counts as an update of the log, ...
ReadPacket ==
    /\ reader = "reading"
    /\ rconn \in open \ broken
    /\ reader' = "sending"
    /\ dirty' = TRUE
    /\ UNCHANGED <<done, mdone, connMx, conn, made, open, broken, leaked, connCh, connChClosed,
                   panicked, status, caller, serve, rconn, closer>>

\* ... and goes to readCh, where it may have to wait for room, unless the
\* manager closes.
SendPacket ==
    /\ reader = "sending"
    /\ reader' = "get" \/ (mdone /\ reader' = "exited")
    /\ UNCHANGED <<done, mdone, connMx, conn, made, open, broken, leaked, connCh, connChClosed,
                   panicked, dirty, status, caller, serve, rconn, closer>>

\* The read fails, ...
ReadFails ==
    /\ reader = "reading"
    /\ rconn \notin open \ broken
    /\ reader' = "failed"
    /\ UNCHANGED <<done, mdone, connMx, conn, made, open, broken, leaked, connCh, connChClosed,
                   panicked, dirty, status, caller, serve, rconn, closer>>

\* ... and the connection, whichever it is by now, is cleared.
ClearAfterRead ==
    /\ reader = "failed"
    /\ connMx = "free"
    /\ reader' = "get"
    /\ ClearConn
    /\ UNCHANGED <<done, mdone, connMx, made, broken, leaked, connCh, connChClosed, panicked, dirty,
                   caller, serve, rconn, closer>>

-----------------------------------------------------------------------------
(* Close, and the network.                                                 *)

\* The manager closes: Manager.close closes its done, then each transport.
ManagerDone ==
    /\ ~mdone
    /\ mdone' = TRUE
    /\ UNCHANGED <<done, connMx, conn, made, open, broken, leaked, connCh, connChClosed, panicked,
                   dirty, status, caller, serve, reader, rconn, closer>>

CloseDone ==
    /\ closer = "idle"
    /\ closer' = "waiting"
    /\ done' = TRUE
    /\ UNCHANGED <<mdone, connMx, conn, made, open, broken, leaked, connCh, connChClosed, panicked,
                   dirty, status, caller, serve, reader, rconn>>

\* mt.wg: Serve and the read loop have ended.
CloseWait ==
    /\ closer = "waiting"
    /\ serve = "stopped" /\ reader = "exited"
    /\ closer' = "stopped"
    /\ UNCHANGED <<done, mdone, connMx, conn, made, open, broken, leaked, connCh, connChClosed,
                   panicked, dirty, status, caller, serve, reader, rconn>>

\* Close reports the transport down, which may fail.
CloseStatus ==
    /\ closer = "stopped"
    /\ closer' = "closed"
    /\ UpdateStatus("down")
    /\ UNCHANGED <<done, mdone, connMx, conn, made, open, broken, leaked, connCh, connChClosed,
                   panicked, dirty, caller, serve, reader, rconn>>

Break ==
    /\ \E c \in open : broken' = broken \cup {c}
    /\ UNCHANGED <<done, mdone, connMx, conn, made, open, leaked, connCh, connChClosed, panicked,
                   dirty, status, caller, serve, reader, rconn, closer>>

CallerStep(c) == Dialled(c) \/ Written(c) \/ Accepted(c)
ServeStep == RedialLock \/ Redialled \/ RecordLog \/ EndConn
ReaderStep == GetConn \/ WakeUp \/ ReaderExit \/ SendPacket \/ ReadFails \/ ClearAfterRead

Next ==
    \/ \E c \in Callers : WritePacket(c) \/ Dial(c) \/ Accept(c) \/ CallerStep(c)
    \/ LogTick \/ ServeStep
    \/ ReadPacket \/ ReaderStep
    \/ CloseDone \/ CloseWait \/ CloseStatus
    \/ ManagerDone \/ Break

Spec == Init /\ [][Next]_vars

\* Dials and handshakes have time limits, goroutines run, a waiter gets the
\* mutex, and a select takes each of its ready cases now and then; packets
\* need not come.  A write on a working connection has no deadline, and the
\* router need not take what the read loop has for it: these may wait for
\* ever.
Fairness ==
    /\ \A c \in Callers : WF_vars(Dialled(c) \/ Accepted(c) \/ (conn \in broken /\ Written(c)))
    /\ SF_vars(RedialLock) /\ WF_vars(Redialled) /\ SF_vars(RecordLog) /\ SF_vars(EndConn)
    /\ SF_vars(GetConn) /\ SF_vars(WakeUp) /\ SF_vars(ReaderExit) /\ WF_vars(ReadFails)
    /\ WF_vars(mdone /\ SendPacket)
    /\ SF_vars(ClearAfterRead)
    /\ WF_vars(CloseWait) /\ WF_vars(CloseStatus)

FairSpec == Spec /\ Fairness

-----------------------------------------------------------------------------
(* Properties.                                                             *)

\* Nobody sends a wake-up on connCh after Serve's deferred function closed it.
NoSendOnClosedConnCh == ~panicked

\* Whenever connMx is free, the only connection open at this end is mt.conn,
\* but for those a failed handshake left behind; once Serve has ended there is
\* none: no dial, accept or write that was under way brings one back.
NoOrphanConn ==
    /\ connMx = "free" => open \ leaked \subseteq {conn}
    /\ serve = "stopped" => conn = NoConn

\* No wake-up of the read loop is lost: when it waits although a connection is
\* set, it goes on to read.
ReaderWakes == (reader = "wait" /\ conn # NoConn) ~> reader # "wait"

\* A write that waits for the other end to read, with connMx.
PeerDoesNotRead == \E c \in Callers : caller[c] = "write" /\ conn \notin broken

\* The read loop waits for room in readCh, and the manager does not close.
ReadChFull == reader = "sending" /\ ~mdone

\* Close returns, whatever the dials, the accepts, the redial and the read loop
\* are at when it begins, unless for ever a write waits for the other end or
\* the read loop for the router: in the end the connection is closed, the read
\* loop woken, and both goroutines gone.
CloseTerminates ==
    \/ closer = "waiting" ~> closer = "closed"
    \/ <>[](PeerDoesNotRead \/ ReadChFull)
=============================================================================

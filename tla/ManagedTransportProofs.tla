----------------------- MODULE ManagedTransportProofs -----------------------
(***************************************************************************)
(* The safety of a managed transport for any number of callers and of      *)
(* connections.                                                            *)
(***************************************************************************)
EXTENDS ManagedTransport, TLAPS

-----------------------------------------------------------------------------
\* connMx is held by the one caller that is inside, or by the redial.
MutexHeld ==
    /\ \A c \in Callers : caller[c] # "idle" => connMx = c
    /\ serve = "redial" => connMx = "serve"

\* Serve ends after done is closed, and closes connCh when nobody is inside: the checks
\* of done under connMx keep everybody out from then on.
EndedIsQuiet ==
    /\ serve \in {"recorded", "stopped"} => done
    /\ connChClosed <=> serve = "stopped"
    /\ serve = "stopped" => conn = NoConn /\ \A c \in Callers : caller[c] = "idle"

\* A dial is made only when there is no connection, and there is none until it returns.
DialFindsNone ==
    /\ \A c \in Callers : caller[c] \in {"writeDial", "dial"} => conn = NoConn
    /\ serve = "redial" => conn = NoConn

\* The connections made so far: the current one is not among the leaked, and no other
\* is open.
ConnsAccounted ==
    /\ conn \in 0..made /\ open \subseteq 1..made /\ leaked \subseteq open
    /\ conn \notin leaked
    /\ open \ leaked \subseteq {conn}

TransportInv ==
    /\ TypeOK /\ MutexHeld /\ EndedIsQuiet /\ DialFindsNone /\ ConnsAccounted
    /\ NoSendOnClosedConnCh

\* What a dial or a handshake that ends does to the connections, nobody else being inside.
LEMMA OutcomeStep ==
    ASSUME TransportInv, serve # "stopped",
           \/ DialFails
           \/ conn = NoConn /\ DialSucceeds
           \/ HandshakeFails /\ UNCHANGED status
           \/ made < MaxConns /\ made' = made + 1 /\ UNCHANGED <<open, leaked, conn, connCh, panicked, status>>
    PROVE  /\ made' \in 0..MaxConns /\ conn' \in Conns \cup {NoConn} /\ open' \subseteq Conns
           /\ connCh' \in {0, 1} /\ status' \in {"up", "down"}
           /\ ConnsAccounted' /\ panicked' = FALSE
<1> USE DEF TransportInv, TypeOK, EndedIsQuiet, ConnsAccounted, NoSendOnClosedConnCh,
            Conns, NoConn
<1>1. panicked = FALSE /\ connChClosed = FALSE
  OBVIOUS
<1>2. CASE HandshakeFails /\ status' \in {status, "down"}
  BY <1>1, <1>2, ManagedTransportAssumption DEF HandshakeFails
<1>3. CASE UNCHANGED <<made, open, leaked, conn, connCh, panicked, status>>
  BY <1>1, <1>3
<1>4. CASE conn = NoConn /\ DialSucceeds
  BY <1>1, <1>4, ManagedTransportAssumption DEF DialSucceeds, SetConn, UpdateStatus
<1>5. CASE made < MaxConns /\ made' = made + 1 /\ UNCHANGED <<open, leaked, conn, connCh, panicked, status>>
  BY <1>1, <1>5, ManagedTransportAssumption
<1>6. QED
  BY <1>2, <1>3, <1>4, <1>5 DEF DialFails, UpdateStatus

\* A caller leaves, or goes on to write, with connMx: what has to be shown of the rest.
LEMMA InsideStep ==
    ASSUME TransportInv, NEW c \in Callers, caller[c] # "idle",
           NEW op \in {"idle", "write"}, caller' = [caller EXCEPT ![c] = op],
           connMx' = IF op = "idle" THEN "free" ELSE c,
           made' \in 0..MaxConns, conn' \in Conns \cup {NoConn}, open' \subseteq Conns,
           connCh' \in {0, 1}, status' \in {"up", "down"}, dirty' \in BOOLEAN,
           ConnsAccounted', panicked' = FALSE,
           UNCHANGED <<done, mdone, broken, connChClosed, serve, reader, rconn, closer>>
    PROVE  TransportInv'
<1>1. /\ connMx = c /\ connMx # "free" /\ serve # "redial" /\ serve # "stopped"
      /\ \A d \in Callers : d # c => caller[d] = "idle"
  BY ManagedTransportAssumption DEF TransportInv, MutexHeld, EndedIsQuiet
<1>2. caller' \in [Callers -> {"idle", "write", "writeDial", "dial", "accept"}]
      /\ caller'[c] = op /\ \A d \in Callers : d # c => caller'[d] = "idle"
  BY <1>1 DEF TransportInv, TypeOK
<1>3. connMx' \in {"free", "serve"} \cup Callers /\ leaked' \subseteq open'
  BY DEF ConnsAccounted
<1>4. TypeOK'
  BY <1>2, <1>3 DEF TransportInv, TypeOK
<1>5. MutexHeld'
  BY <1>1, <1>2 DEF MutexHeld
<1>6. EndedIsQuiet' /\ DialFindsNone'
  BY <1>1, <1>2 DEF TransportInv, EndedIsQuiet, DialFindsNone
<1>7. QED
  BY <1>4, <1>5, <1>6 DEF TransportInv, NoSendOnClosedConnCh

\* clearConn closes the one connection that is not leaked.
LEMMA ClearStep ==
    ASSUME TransportInv, ClearConn, UNCHANGED <<made, leaked>>
    PROVE  /\ ConnsAccounted' /\ conn' = NoConn /\ open' \subseteq Conns
           /\ status' \in {"up", "down"}
  BY ManagedTransportAssumption
  DEF TransportInv, TypeOK, ConnsAccounted, ClearConn, UpdateStatus, Conns, NoConn

\* The callers.
LEMMA CallersStep ==
    ASSUME TransportInv, NEW c \in Callers,
           WritePacket(c) \/ Dial(c) \/ Accept(c) \/ CallerStep(c)
    PROVE  TransportInv'
<1> USE DEF TransportInv
<1>1. CASE WritePacket(c)
  <2>1. PICK op \in {"writeDial", "write"} : Enter(c, op) /\ (op = "writeDial" => conn = NoConn)
    BY <1>1 DEF WritePacket
  <2>2. QED
    BY <1>1, <2>1, ManagedTransportAssumption
    DEF WritePacket, Enter, TypeOK, MutexHeld, EndedIsQuiet, DialFindsNone, ConnsAccounted,
        NoSendOnClosedConnCh
<1>2. CASE Dial(c)
  BY <1>2, ManagedTransportAssumption
  DEF Dial, Enter, TypeOK, MutexHeld, EndedIsQuiet, DialFindsNone, ConnsAccounted,
      NoSendOnClosedConnCh
<1>3. CASE Accept(c)
  BY <1>3, ManagedTransportAssumption
  DEF Accept, Enter, TypeOK, MutexHeld, EndedIsQuiet, DialFindsNone, ConnsAccounted,
      NoSendOnClosedConnCh
<1>4. ASSUME caller[c] # "idle"
      PROVE  /\ connMx = c /\ connMx # "free" /\ serve # "redial" /\ serve # "stopped"
             /\ \A d \in Callers : d # c => caller[d] = "idle"
  BY <1>4, ManagedTransportAssumption DEF MutexHeld, EndedIsQuiet
<1>5. CASE Dialled(c)
  <2>1. /\ made' \in 0..MaxConns /\ conn' \in Conns \cup {NoConn} /\ open' \subseteq Conns
        /\ connCh' \in {0, 1} /\ status' \in {"up", "down"}
        /\ ConnsAccounted' /\ panicked' = FALSE
    BY <1>4, <1>5, OutcomeStep DEF Dialled, DialFindsNone
  <2>2. PICK op \in {"idle", "write"} : caller' = [caller EXCEPT ![c] = op]
           /\ connMx' = (IF op = "idle" THEN "free" ELSE c)
    BY <1>5 DEF Dialled, Leave, Enter
  <2>3. UNCHANGED <<done, mdone, broken, connChClosed, dirty, serve, reader, rconn, closer>>
    BY <1>5 DEF Dialled
  <2>4. dirty' \in BOOLEAN /\ caller[c] # "idle"
    BY <1>5, <2>3 DEF Dialled, TypeOK
  <2>5. QED
    BY <2>1, <2>2, <2>3, <2>4, InsideStep
<1>6. CASE Accepted(c)
  <2>1. /\ made' \in 0..MaxConns /\ conn' \in Conns \cup {NoConn} /\ open' \subseteq Conns
        /\ connCh' \in {0, 1} /\ status' \in {"up", "down"}
        /\ ConnsAccounted' /\ panicked' = FALSE
    BY <1>4, <1>6, OutcomeStep DEF Accepted
  <2>2. /\ Leave(c) /\ caller[c] = "accept"
        /\ UNCHANGED <<done, mdone, broken, connChClosed, dirty, serve, reader, rconn, closer>>
    BY <1>6 DEF Accepted
  <2>3. dirty' \in BOOLEAN
    BY <2>2 DEF TypeOK
  <2>4. QED
    BY <2>1, <2>2, <2>3, InsideStep DEF Leave
<1>7. CASE Written(c)
  <2>1. /\ Leave(c) /\ caller[c] = "write"
        /\ UNCHANGED <<done, mdone, made, broken, leaked, connCh, connChClosed, panicked, serve, reader,
                       rconn, closer>>
    BY <1>7 DEF Written
  <2>2. CASE dirty' = TRUE /\ UNCHANGED <<open, conn, status>>
    <3>1. ConnsAccounted'
      BY <2>1, <2>2 DEF ConnsAccounted
    <3>2. QED
      BY <2>1, <2>2, <3>1, InsideStep DEF Leave, TypeOK, NoSendOnClosedConnCh
  <2>3. CASE ClearConn /\ UNCHANGED dirty
    <3>1. /\ ConnsAccounted' /\ conn' = NoConn /\ open' \subseteq Conns
          /\ status' \in {"up", "down"}
      BY <2>1, <2>3, ClearStep
    <3>2. QED
      BY <2>1, <2>3, <3>1, InsideStep DEF Leave, TypeOK, NoSendOnClosedConnCh
  <2>4. QED
    BY <1>7, <2>2, <2>3 DEF Written
<1>8. QED
  BY <1>1, <1>2, <1>3, <1>5, <1>6, <1>7 DEF CallerStep

\* Serve stays in its loop, or leaves it once done is closed.
ServeGoesOn ==
    \/ serve' = serve
    \/ serve = "select" /\ serve' = "lock"
    \/ serve = "select" /\ serve' = "recorded" /\ done

\* A step of Serve, the read loop or Close that leaves the connection and its mutex alone.
LEMMA AsideStep ==
    ASSUME TransportInv,
           UNCHANGED <<connMx, conn, made, open, leaked, connChClosed, panicked, caller>>,
           done' \in BOOLEAN, done => done',
           ServeGoesOn,
           mdone' \in BOOLEAN, broken' \subseteq Conns, connCh' \in {0, 1}, dirty' \in BOOLEAN,
           status' \in {"up", "down"}, rconn' \in Conns \cup {NoConn},
           reader' \in {"get", "wait", "reading", "failed", "sending", "exited"},
           closer' \in {"idle", "waiting", "stopped", "closed"}
    PROVE  TransportInv'
<1>1. TypeOK'
  <2>1. serve' \in {"select", "lock", "redial", "recorded", "stopped"}
    BY DEF TransportInv, TypeOK, ServeGoesOn
  <2>2. /\ connMx' \in {"free", "serve"} \cup Callers /\ conn' \in Conns \cup {NoConn}
        /\ made' \in 0..MaxConns /\ open' \subseteq Conns /\ leaked' \subseteq open'
        /\ caller' \in [Callers -> {"idle", "write", "writeDial", "dial", "accept"}]
    BY DEF TransportInv, TypeOK
  <2>3. connChClosed' \in BOOLEAN /\ panicked' \in BOOLEAN
    BY DEF TransportInv, TypeOK
  <2>4. QED
    BY <2>1, <2>2, <2>3 DEF TypeOK
<1>2. MutexHeld' /\ DialFindsNone'
  BY DEF TransportInv, MutexHeld, DialFindsNone, ServeGoesOn
<1>3. EndedIsQuiet'
  BY DEF TransportInv, EndedIsQuiet, ServeGoesOn
<1>4. ConnsAccounted' /\ NoSendOnClosedConnCh'
  BY DEF TransportInv, ConnsAccounted, NoSendOnClosedConnCh
<1>5. QED
  BY <1>1, <1>2, <1>3, <1>4 DEF TransportInv

\* Serve, its redial and its end.
LEMMA ServeLoopStep ==
    ASSUME TransportInv, LogTick \/ ServeStep
    PROVE  TransportInv'
<1> USE DEF TransportInv
<1>1. CASE LogTick
  <2>1. /\ UNCHANGED <<done, mdone, connMx, conn, made, open, broken, leaked, connCh,
                       connChClosed, panicked, status, caller, reader, rconn, closer>>
        /\ ServeGoesOn
    BY <1>1 DEF LogTick, ServeGoesOn
  <2>2. dirty' \in BOOLEAN
    BY <1>1 DEF LogTick, TypeOK
  <2>3. QED
    BY <2>1, <2>2, AsideStep DEF TypeOK
<1>2. CASE RedialLock
  BY <1>2, ManagedTransportAssumption
  DEF RedialLock, TypeOK, MutexHeld, EndedIsQuiet, DialFindsNone, ConnsAccounted,
      NoSendOnClosedConnCh
<1>3. CASE Redialled
  <2>1. serve = "redial" /\ conn = NoConn /\ \A c \in Callers : caller[c] = "idle"
    BY <1>3, ManagedTransportAssumption DEF Redialled, MutexHeld, DialFindsNone
  <2>2. /\ made' \in 0..MaxConns /\ conn' \in Conns \cup {NoConn} /\ open' \subseteq Conns
        /\ connCh' \in {0, 1} /\ status' \in {"up", "down"}
        /\ ConnsAccounted' /\ panicked' = FALSE
    BY <1>3, <2>1, OutcomeStep DEF Redialled
  <2>3. /\ serve' = "select" /\ connMx' = "free"
        /\ UNCHANGED <<done, mdone, broken, connChClosed, dirty, caller, reader, rconn, closer>>
    BY <1>3 DEF Redialled
  <2>4. TypeOK'
    BY <2>2, <2>3 DEF TypeOK, ConnsAccounted
  <2>5. MutexHeld' /\ EndedIsQuiet' /\ DialFindsNone'
    BY <2>1, <2>3 DEF MutexHeld, EndedIsQuiet, DialFindsNone
  <2>6. QED
    BY <2>2, <2>4, <2>5 DEF NoSendOnClosedConnCh
<1>4. CASE RecordLog
  <2>1. /\ UNCHANGED <<done, mdone, connMx, conn, made, open, broken, leaked, connCh,
                       connChClosed, panicked, status, caller, reader, rconn, closer>>
        /\ ServeGoesOn /\ dirty' = FALSE
    BY <1>4 DEF RecordLog, ServeGoesOn
  <2>2. dirty' \in BOOLEAN
    BY <2>1
  <2>3. QED
    BY <2>1, <2>2, AsideStep DEF TypeOK
<1>5. CASE EndConn
  <2>1. \A c \in Callers : caller[c] = "idle"
    BY <1>5, ManagedTransportAssumption DEF EndConn, MutexHeld
  <2>2. /\ serve = "recorded" /\ serve' = "stopped" /\ connChClosed' = TRUE /\ conn' = NoConn
        /\ open' = open \ {conn}
        /\ UNCHANGED <<done, mdone, connMx, made, broken, leaked, connCh, panicked, dirty, status,
                       caller, reader, rconn, closer>>
    BY <1>5 DEF EndConn
  <2>3. ConnsAccounted'
    BY <2>2 DEF ConnsAccounted, TypeOK, NoConn
  <2>4. TypeOK'
    BY <2>2, <2>3 DEF TypeOK, ConnsAccounted
  <2>5. MutexHeld' /\ EndedIsQuiet' /\ DialFindsNone'
    BY <2>1, <2>2 DEF MutexHeld, EndedIsQuiet, DialFindsNone
  <2>6. QED
    BY <2>2, <2>3, <2>4, <2>5 DEF NoSendOnClosedConnCh
<1>6. QED
  BY <1>1, <1>2, <1>3, <1>4, <1>5 DEF ServeStep

\* The read loop, which clears a connection only when nobody is inside.
LEMMA ReaderLoopStep ==
    ASSUME TransportInv, ReadPacket \/ ReaderStep
    PROVE  TransportInv'
<1> USE DEF TransportInv
<1>1. CASE ClearAfterRead
  <2>1. /\ connMx = "free" /\ ClearConn /\ reader' = "get"
        /\ UNCHANGED <<done, mdone, connMx, made, broken, leaked, connCh, connChClosed, panicked,
                       dirty, caller, serve, rconn, closer>>
    BY <1>1 DEF ClearAfterRead
  <2>2. /\ ConnsAccounted' /\ conn' = NoConn /\ open' \subseteq Conns
        /\ status' \in {"up", "down"}
    BY <2>1, ClearStep
  <2>3. TypeOK'
    BY <2>1, <2>2 DEF TypeOK, ConnsAccounted
  <2>4. MutexHeld' /\ EndedIsQuiet' /\ DialFindsNone'
    BY <2>1, <2>2 DEF MutexHeld, EndedIsQuiet, DialFindsNone
  <2>5. QED
    BY <2>1, <2>2, <2>3, <2>4 DEF NoSendOnClosedConnCh
<1>2. CASE GetConn \/ WakeUp \/ ReaderExit \/ ReadFails \/ ReadPacket \/ SendPacket
  <2>1. /\ UNCHANGED <<done, mdone, connMx, conn, made, open, broken, leaked, connChClosed,
                       panicked, status, caller, serve, closer>>
        /\ connCh' = connCh \/ connCh' = 0
        /\ rconn' = rconn \/ rconn' = conn
        /\ reader' \in {"get", "wait", "reading", "failed", "sending", "exited"}
    BY <1>2 DEF GetConn, WakeUp, ReaderExit, ReadFails, ReadPacket, SendPacket
  <2>2. dirty' = dirty \/ dirty' = TRUE
    BY <1>2 DEF GetConn, WakeUp, ReaderExit, ReadFails, ReadPacket, SendPacket
  <2>3. /\ done' \in BOOLEAN /\ mdone' \in BOOLEAN /\ dirty' \in BOOLEAN
        /\ status' \in {"up", "down"} /\ closer' \in {"idle", "waiting", "stopped", "closed"}
    BY <2>1, <2>2 DEF TypeOK
  <2>4. connCh' \in {0, 1} /\ rconn' \in Conns \cup {NoConn} /\ broken' \subseteq Conns
    BY <2>1 DEF TypeOK
  <2>5. ServeGoesOn /\ (done => done')
    BY <2>1 DEF ServeGoesOn
  <2>6. QED
    BY <2>1, <2>3, <2>4, <2>5, AsideStep
<1>3. QED
  BY <1>1, <1>2 DEF ReaderStep

\* The invariant of all behaviours.
LEMMA TransportInvariant == Spec => []TransportInv
<1>1. Init => TransportInv
  <2> SUFFICES ASSUME Init PROVE TransportInv
    OBVIOUS
  <2>1. TypeOK
    <3>1. /\ done \in BOOLEAN /\ mdone \in BOOLEAN
          /\ connChClosed \in BOOLEAN /\ panicked \in BOOLEAN /\ dirty \in BOOLEAN
      BY DEF Init
    <3>2. /\ conn \in Conns \cup {NoConn} /\ made \in 0..MaxConns /\ connCh \in {0, 1}
          /\ rconn \in Conns \cup {NoConn}
          /\ open \subseteq Conns /\ broken \subseteq Conns /\ leaked \subseteq open
      BY ManagedTransportAssumption DEF Init
    <3>3. /\ connMx \in {"free", "serve"} \cup Callers /\ status \in {"up", "down"}
          /\ caller \in [Callers -> {"idle", "write", "writeDial", "dial", "accept"}]
          /\ serve \in {"select", "lock", "redial", "recorded", "stopped"}
          /\ reader \in {"get", "wait", "reading", "failed", "sending", "exited"}
          /\ closer \in {"idle", "waiting", "stopped", "closed"}
      BY DEF Init
    <3>4. QED
      BY <3>1, <3>2, <3>3 DEF TypeOK
  <2>2. MutexHeld /\ EndedIsQuiet /\ DialFindsNone /\ NoSendOnClosedConnCh
    BY DEF Init, MutexHeld, EndedIsQuiet, DialFindsNone, NoSendOnClosedConnCh
  <2>3. ConnsAccounted
    BY DEF Init, ConnsAccounted, NoConn
  <2>4. QED
    BY <2>1, <2>2, <2>3 DEF TransportInv
<1>2. TransportInv /\ [Next]_vars => TransportInv'
  <2> SUFFICES ASSUME TransportInv, [Next]_vars PROVE TransportInv'
    OBVIOUS
  <2>1. CASE CloseDone \/ CloseWait \/ CloseStatus \/ ManagerDone \/ Break \/ UNCHANGED vars
    <3>1. /\ UNCHANGED <<connMx, conn, made, open, leaked, connCh, connChClosed, panicked, dirty,
                         caller, serve, reader, rconn>>
          /\ done' = done \/ done' = TRUE
          /\ broken' \subseteq broken \cup open
      BY <2>1 DEF CloseDone, CloseWait, CloseStatus, ManagerDone, Break, vars
    <3>2. /\ mdone' \in BOOLEAN /\ status' \in {"up", "down"}
          /\ closer' \in {"idle", "waiting", "stopped", "closed"}
      BY <2>1 DEF CloseDone, CloseWait, CloseStatus, ManagerDone, Break, vars, UpdateStatus,
                  TransportInv, TypeOK
    <3>3. /\ done' \in BOOLEAN /\ dirty' \in BOOLEAN
          /\ broken' \subseteq Conns /\ connCh' \in {0, 1} /\ rconn' \in Conns \cup {NoConn}
          /\ reader' \in {"get", "wait", "reading", "failed", "sending", "exited"}
      BY <3>1 DEF TransportInv, TypeOK
    <3>4. ServeGoesOn /\ (done => done')
      BY <3>1 DEF ServeGoesOn
    <3>5. QED
      BY <3>1, <3>2, <3>3, <3>4, AsideStep
  <2>2. QED
    BY <2>1, CallersStep, ServeLoopStep, ReaderLoopStep DEF Next
<1>3. QED
  BY <1>1, <1>2, PTL DEF Spec

\* setIfConnNil never sends on the closed connCh, whoever is about to dial, accept or
\* write when Serve ends: its deferred function takes connMx, and after it done keeps
\* everybody out.
THEOREM ConnChTheorem == Spec => []NoSendOnClosedConnCh
  BY TransportInvariant, PTL DEF TransportInv

\* No connection is open at this end but mt.conn and those of failed handshakes, and once
\* Serve has ended there is no mt.conn.
THEOREM OrphanTheorem == Spec => []NoOrphanConn
<1>1. TransportInv => NoOrphanConn
  BY DEF TransportInv, ConnsAccounted, EndedIsQuiet, NoOrphanConn
<1>2. QED
  BY <1>1, TransportInvariant, PTL
=============================================================================

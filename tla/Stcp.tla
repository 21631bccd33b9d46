-------------------------------- MODULE Stcp --------------------------------
(***************************************************************************)
(* Connections over TCP between visors (pkg/snet/stcp) as the network of a *)
(* visor uses them (pkg/snet/network.go).  One visor listens: its Client   *)
(* serves one TCP listener, in one goroutine that also runs the handshake  *)
(* of every connection and hands it to the Listener of its port.  Another  *)
(* visor dials: its Porter gives every dial an ephemeral port.             *)
(*                                                                         *)
(* A listener and a dial are each used once and in order.  Locks held over *)
(* single steps are left implicit; mx of the client is held over several   *)
(* by Close, mx of a listener by Introduce.                                *)
(***************************************************************************)
EXTENDS Naturals, FiniteSets

CONSTANTS
    ListenPorts,        \* ports of the listening visor
    MinEph, MaxPort,    \* PorterMinEphemeral, and the largest port (2^16 - 1)
    Occupied,           \* ephemeral ports the dialling visor listens on
    MaxListens,         \* bound on the calls of Listen
    MaxDials            \* bound on the calls of Dial

ASSUME StcpAssumption ==
    /\ MinEph \in Nat /\ MaxPort \in Nat /\ 0 < MinEph /\ MinEph <= MaxPort
    /\ Occupied \subseteq MinEph..MaxPort /\ Occupied # MinEph..MaxPort
    /\ \A p \in ListenPorts : p \in 1..(MinEph - 1)
    /\ MaxListens \in Nat /\ MaxDials \in Nat

VARIABLES
    net,       \* Close of the Network: "open", "closing", "closed"
    dmsg,      \* the dmsg client is closed
    client,    \* the Client: "open", "done" (done is closed), "locked", "closed"
    tcp,       \* lTCP is open
    lMap,      \* lMap: port -> listener, or None
    ports,     \* the ports the Porter of the listening visor has reserved
    lis,       \* lis[l]: [port, st, close]: a Listener, its Listen and its Close
    serve,     \* the serving goroutine: [at, dial, lis]
    lmx,       \* the listener whose mx Introduce holds, or None
    dial,      \* dial[d]: [st, port, eph]: a dial
    end,       \* end[d]: the listening visor's end of its connection
    eph,       \* the last ephemeral port given out
    crashed,   \* a panic has ended the listening visor
    overtaken  \* auxiliary: a listener was closed between Introduce's check and its lock

clientVars == <<net, dmsg, client, tcp>>
lisVars == <<lMap, ports, lis>>
dialVars == <<dial, end, eph>>
vars == <<clientVars, lisVars, serve, lmx, dialVars, crashed, overtaken>>

Listens == 1..MaxListens
Dials == 1..MaxDials
None == 0

TypeOK ==
    /\ net \in {"open", "closing", "closed"}
    /\ dmsg \in BOOLEAN
    /\ client \in {"open", "done", "locked", "closed"}
    /\ tcp \in BOOLEAN
    /\ lMap \in [ListenPorts -> Listens \cup {None}]
    /\ ports \subseteq ListenPorts
    /\ lis \in [Listens -> [port : ListenPorts \cup {None},
                            st : {"none", "checked", "reserved", "refused", "open"},
                            close : {"no", "done", "accept", "freed"}]]
    /\ serve \in [at : {"check", "accept", "frame2", "frame3", "introduce", "lock", "send",
                        "stopped"},
                  dial : Dials \cup {None}, lis : Listens \cup {None}]
    /\ lmx \in Listens \cup {None} /\ (lmx # None => serve.at = "send" /\ serve.lis = lmx)
    /\ dial \in [Dials -> [st : {"none", "connected", "frame1", "up", "failed", "closed"},
                           port : ListenPorts \cup {None}, eph : MinEph..MaxPort \cup {None}]]
    /\ end \in [Dials -> {"none", "backlog", "frame1", "frame2", "ok", "refused", "closed",
                          "accepted", "abandoned"}]
    /\ eph \in MinEph..MaxPort
    /\ crashed \in BOOLEAN /\ overtaken \in BOOLEAN

Init ==
    /\ net = "open" /\ dmsg = FALSE /\ client = "open" /\ tcp = TRUE
    /\ lMap = [p \in ListenPorts |-> None]
    /\ ports = {}
    /\ lis = [l \in Listens |-> [port |-> None, st |-> "none", close |-> "no"]]
    /\ serve = [at |-> "check", dial |-> None, lis |-> None]
    /\ lmx = None
    /\ dial = [d \in Dials |-> [st |-> "none", port |-> None, eph |-> None]]
    /\ end = [d \in Dials |-> "none"]
    /\ eph = MinEph
    /\ crashed = FALSE /\ overtaken = FALSE

-----------------------------------------------------------------------------
(* Dialling: the other visor's Client                                      *)

Saturates(e) == IF e = MaxPort THEN e ELSE e + 1

\* ReserveEphemeral passes over ports that are reserved, wrapping at the width of a
\* port to the least ephemeral one, but does not reserve what it returns.
NextEph(e) ==
    LET size == MaxPort - MinEph + 1
        After(k) == MinEph + (((e - MinEph) + k) % size)
        steps == {k \in 1..size : After(k) \notin Occupied}
    IN After(CHOOSE k \in steps : \A j \in steps : k <= j)

\* The TCP connection is made, then the port is taken.
Dial(d, p) ==
    /\ dial[d].st = "none" /\ \A c \in 1..(d - 1) : dial[c].st # "none"
    /\ tcp
    /\ eph' = NextEph(eph)
    /\ dial' = [dial EXCEPT ![d] = [st |-> "connected", port |-> p, eph |-> eph']]
    /\ end' = [end EXCEPT ![d] = "backlog"]
    /\ UNCHANGED <<clientVars, lisVars, serve, lmx, overtaken>>

\* InitiatorHandshake: frame 1 is answered with frame 2, signed over its nonce ...
InitiatorFrame2(d) ==
    /\ dial[d].st = "connected" /\ end[d] = "frame1"
    /\ dial' = [dial EXCEPT ![d].st = "frame1"]
    /\ end' = [end EXCEPT ![d] = "frame2"]
    /\ UNCHANGED <<clientVars, lisVars, serve, lmx, eph, overtaken>>

\* ... and frame 3 is the verdict.
InitiatorFrame3(d) ==
    /\ dial[d].st = "frame1" /\ end[d] \in {"ok", "accepted", "abandoned", "refused", "closed"}
    /\ dial' = [dial EXCEPT ![d].st = IF end[d] \in {"refused", "closed"} THEN "failed"
                                      ELSE "up"]
    /\ UNCHANGED <<clientVars, lisVars, serve, lmx, end, eph, overtaken>>

\* HandshakeTimeout passes at the initiator: newConn closes the connection.
InitiatorTimeout(d) ==
    /\ dial[d].st \in {"connected", "frame1"}
    /\ dial' = [dial EXCEPT ![d].st = "failed"]
    /\ UNCHANGED <<clientVars, lisVars, serve, lmx, end, eph, overtaken>>

\* The dialling visor closes a connection that is up.  freePort deletes nothing: an
\* ephemeral port is given out only when ports does not have it, and Listen, in
\* ListenPorts, never puts it there.
CloseConn(d) ==
    /\ dial[d].st = "up"
    /\ dial' = [dial EXCEPT ![d].st = "closed"]
    /\ UNCHANGED <<clientVars, lisVars, serve, lmx, end, eph, overtaken>>

-----------------------------------------------------------------------------
(* Serving: acceptTCPConn, again and again                                 *)

Serve(at, d, l) == serve' = [at |-> at, dial |-> d, lis |-> l]

ServeCheck ==
    /\ serve.at = "check"
    /\ Serve(IF client = "open" THEN "accept" ELSE "stopped", None, None)
    /\ UNCHANGED <<clientVars, lisVars, lmx, dialVars, overtaken>>

\* lTCP.Accept, and frame 1 with a fresh nonce.  An error of Accept ends the serving.
AcceptTCP ==
    /\ serve.at = "accept"
    /\ \/ /\ tcp
          /\ \E d \in Dials :
                /\ end[d] = "backlog"
                /\ end' = [end EXCEPT ![d] = "frame1"]
                /\ Serve("frame2", d, None)
       \/ /\ ~tcp
          /\ Serve("stopped", None, None)
          /\ UNCHANGED end
    /\ UNCHANGED <<clientVars, lisVars, lmx, dial, eph, overtaken>>

\* ResponderHandshake: frame 2 is verified, and checkF2 looks the listener up under mx.
\* A port without one is refused: a handshake error, after which serving goes on.
ResponderFrame2 ==
    /\ serve.at = "frame2" /\ end[serve.dial] = "frame2"
    /\ client # "locked"
    /\ LET l == lMap[dial[serve.dial].port]
       IN \/ /\ l # None
             /\ Serve("frame3", serve.dial, l)
             /\ UNCHANGED end
          \/ /\ l = None
             /\ end' = [end EXCEPT ![serve.dial] = "refused"]
             /\ Serve("check", None, None)
    /\ UNCHANGED <<clientVars, lisVars, lmx, dial, eph, overtaken>>

\* Frame 2 does not come in time, is not well-formed, or the peer has hung up: a
\* HandshakeError, after which Serve goes on.  SetDeadline, whose error is none, fails only
\* on a connection closed here, and no one has closed the one just accepted.
ResponderFails ==
    /\ serve.at = "frame2"
    /\ end' = [end EXCEPT ![serve.dial] = "closed"]
    /\ Serve("check", None, None)
    /\ UNCHANGED <<clientVars, lisVars, lmx, dial, eph, overtaken>>

\* Frame 3 accepts; it cannot be written if the peer has hung up.
ResponderFrame3 ==
    /\ serve.at = "frame3"
    /\ \/ /\ end' = [end EXCEPT ![serve.dial] = "ok"]
          /\ Serve("introduce", serve.dial, serve.lis)
       \/ /\ dial[serve.dial].st = "failed"
          /\ end' = [end EXCEPT ![serve.dial] = "closed"]
          /\ Serve("check", None, None)
    /\ UNCHANGED <<clientVars, lisVars, lmx, dial, eph, overtaken>>

\* Introduce fails: the error is not one of the handshake and ends the serving, for all
\* ports.  The connection stays open and belongs to nobody.
Abandon ==
    /\ end' = [end EXCEPT ![serve.dial] = "abandoned"]
    /\ Serve("stopped", None, None)

\* Introduce: the check of done ...
IntroduceCheck ==
    /\ serve.at = "introduce"
    /\ \/ /\ lis[serve.lis].close = "no"
          /\ Serve("lock", serve.dial, serve.lis)
          /\ UNCHANGED end
       \/ /\ lis[serve.lis].close # "no"
          /\ Abandon
    /\ UNCHANGED <<clientVars, lisVars, lmx, dial, eph, overtaken>>

\* ... the lock ...
IntroduceLock ==
    /\ serve.at = "lock"
    /\ lmx' = serve.lis
    /\ Serve("send", serve.dial, serve.lis)
    /\ UNCHANGED <<clientVars, lisVars, dialVars, overtaken>>

\* ... and the select: a caller of Accept takes the connection ...
AcceptConn ==
    /\ serve.at = "send" /\ lis[serve.lis].close \in {"no", "done"}
    /\ end' = [end EXCEPT ![serve.dial] = "accepted"]
    /\ Serve("check", None, None)
    /\ lmx' = None
    /\ UNCHANGED <<clientVars, lisVars, dial, eph, overtaken>>

IgnoresDone ==
    /\ serve.at = "send"
    /\ lis[serve.lis].close \in {"accept", "freed"}
    /\ crashed' = TRUE
    /\ lmx' = None
    /\ UNCHANGED <<clientVars, lisVars, serve, dialVars, overtaken>>

\* ... or done is closed; the send on a channel that is closed panics.
IntroduceDone ==
    /\ serve.at = "send"
    /\ \/ /\ lis[serve.lis].close # "no"
          /\ Abandon
          /\ UNCHANGED crashed
       \/ /\ lis[serve.lis].close \in {"accept", "freed"}
          /\ crashed' = TRUE
          /\ UNCHANGED <<serve, end>>
    /\ lmx' = None
    /\ UNCHANGED <<clientVars, lisVars, dial, eph, overtaken>>

-----------------------------------------------------------------------------
(* Listening                                                               *)

ListenCheck(l, p) ==
    /\ lis[l].st = "none" /\ \A m \in 1..(l - 1) : lis[m].st # "none"
    /\ client = "open"
    /\ lis' = [lis EXCEPT ![l].port = p, ![l].st = "checked"]
    /\ UNCHANGED <<clientVars, lMap, ports, serve, lmx, dialVars, overtaken>>

ReserveAnyway(l) ==
    /\ lis[l].st = "checked"
    /\ ports' = ports \cup {lis[l].port}
    /\ lis' = [lis EXCEPT ![l].st = "reserved"]
    /\ UNCHANGED <<clientVars, lMap, serve, lmx, dialVars, overtaken>>

\* Porter.Reserve.
Reserve(l) ==
    /\ lis[l].st = "checked"
    /\ ports' = ports \cup {lis[l].port}
    /\ lis' = [lis EXCEPT ![l].st = IF lis[l].port \in ports THEN "refused" ELSE "reserved"]
    /\ UNCHANGED <<clientVars, lMap, serve, lmx, dialVars, overtaken>>

\* The listener enters lMap under mx; nothing looks at done again.
ListenMap(l) ==
    /\ lis[l].st = "reserved" /\ client # "locked"
    /\ lMap' = [lMap EXCEPT ![lis[l].port] = l]
    /\ lis' = [lis EXCEPT ![l].st = "open"]
    /\ UNCHANGED <<clientVars, ports, serve, lmx, dialVars, overtaken>>

\* Listener.Close, by its user or by the client: done is closed ...
CloseListener(l) ==
    /\ lis[l].st = "open" /\ lis[l].close = "no"
    /\ lis' = [lis EXCEPT ![l].close = "done"]

UserCloses(l) ==
    /\ CloseListener(l)
    /\ UNCHANGED <<clientVars, lMap, ports, serve, lmx, dialVars, overtaken>>

ClosesUnlocked(l) ==
    /\ lis[l].close = "done"
    /\ lis' = [lis EXCEPT ![l].close = "accept"]
    /\ overtaken' = (overtaken \/ (serve.at = "lock" /\ serve.lis = l))
    /\ UNCHANGED <<clientVars, lMap, ports, serve, lmx, dialVars>>

\* ... then accept, under mx ...
CloseAccept(l) ==
    /\ lis[l].close = "done" /\ lmx # l
    /\ lis' = [lis EXCEPT ![l].close = "accept"]
    /\ overtaken' = (overtaken \/ (serve.at = "lock" /\ serve.lis = l))
    /\ UNCHANGED <<clientVars, lMap, ports, serve, lmx, dialVars>>

\* ... and the port is freed.  lMap keeps the listener.
FreePort(l) ==
    /\ lis[l].close = "accept"
    /\ lis' = [lis EXCEPT ![l].close = "freed"]
    /\ ports' = ports \ {lis[l].port}
    /\ UNCHANGED <<clientVars, lMap, serve, lmx, dialVars, overtaken>>

-----------------------------------------------------------------------------
(* Closing the Network closes both clients and waits for them.             *)

CloseNetwork ==
    /\ net = "open" /\ net' = "closing"
    /\ client' = "done"
    /\ UNCHANGED <<dmsg, tcp, lisVars, serve, lmx, dialVars, overtaken>>

\* The dmsg client: external.
DmsgCloses ==
    /\ net = "closing" /\ ~dmsg /\ dmsg' = TRUE
    /\ UNCHANGED <<net, client, tcp, lisVars, serve, lmx, dialVars, overtaken>>

\* Client.Close takes mx and closes lTCP: connections not yet accepted are reset.
CloseTCP ==
    /\ client = "done"
    /\ client' = "locked" /\ tcp' = FALSE
    /\ end' = [d \in Dials |-> IF end[d] = "backlog" THEN "closed" ELSE end[d]]
    /\ UNCHANGED <<net, dmsg, lisVars, serve, lmx, dial, eph, overtaken>>

Mapped == {lMap[p] : p \in ListenPorts} \ {None}

\* It closes the listeners of lMap, one after the other ...
CloseNext(l) ==
    /\ client = "locked" /\ l \in Mapped
    /\ \A m \in Mapped : lis[m].close \in {"no", "freed"}
    /\ CloseListener(l)
    /\ UNCHANGED <<clientVars, lMap, ports, serve, lmx, dialVars, overtaken>>

\* ... and returns.
ClientClosed ==
    /\ client = "locked" /\ \A l \in Mapped : lis[l].close = "freed"
    /\ client' = "closed"
    /\ UNCHANGED <<net, dmsg, tcp, lisVars, serve, lmx, dialVars, overtaken>>

NetworkClosed ==
    /\ net = "closing" /\ dmsg /\ client = "closed"
    /\ net' = "closed"
    /\ UNCHANGED <<dmsg, client, tcp, lisVars, serve, lmx, dialVars, overtaken>>

-----------------------------------------------------------------------------
\* What goes on by itself: the handshakes, and every call under way.  Whether a user
\* calls Accept is left open.
System ==
    /\ ~crashed
    /\ \/ /\ \/ \E d \in Dials : InitiatorFrame2(d) \/ InitiatorFrame3(d) \/ InitiatorTimeout(d)
             \/ ServeCheck \/ AcceptTCP \/ ResponderFrame2 \/ ResponderFails \/ ResponderFrame3
             \/ IntroduceCheck \/ IntroduceLock
             \/ \E l \in Listens : Reserve(l) \/ ListenMap(l) \/ CloseAccept(l) \/ FreePort(l)
                                   \/ CloseNext(l)
             \/ DmsgCloses \/ CloseTCP \/ ClientClosed \/ NetworkClosed
          /\ UNCHANGED crashed
       \/ IntroduceDone

Environment ==
    /\ ~crashed /\ UNCHANGED crashed
    /\ \/ \E d \in Dials : CloseConn(d) \/ \E p \in ListenPorts : Dial(d, p)
       \/ \E l \in Listens : UserCloses(l) \/ \E p \in ListenPorts : ListenCheck(l, p)
       \/ AcceptConn \/ CloseNetwork

Next == System \/ Environment
Spec == Init /\ [][Next]_vars

-----------------------------------------------------------------------------
(* Properties                                                              *)

\* The visor panics on the closed accept channel only when a listener was closed between
\* Introduce's check of done and its taking mx: once Introduce holds mx, Close waits.
PanicNeedsOvertaking == crashed => overtaken

\* A listener that is open, its Listen having returned, is the one lMap has for its port:
\* no other Listen can take the port from it, whatever is closed meanwhile.
OpenListenersAreMapped ==
    \A l \in Listens : (lis[l].st = "open" /\ lis[l].close = "no") => lMap[lis[l].port] = l

\* Two dials, both perhaps still open, get the same ephemeral port only if every free one
\* was given out in between: the counter comes round at the width of a port although the
\* first is still in use, since ReserveEphemeral reserves nothing.
EphemeralReuse ==
    \A c, d \in Dials :
        /\ c < d /\ dial[c].eph # None /\ dial[c].eph = dial[d].eph
        => d - c >= Cardinality(MinEph..MaxPort \ Occupied)

\* When nothing is left to do, every Listen and Close has returned, the serving goroutine
\* waits for a connection or for somebody to accept the one it has, or has stopped, every
\* dial has its verdict, and a dial that is up was accepted or is being introduced,
\* unless the listener it came for was closed: Introduce, Close and the lookup of a
\* listener never wait for each other in a circle.
NothingSticks ==
    (~crashed /\ ~ ENABLED System) =>
        /\ \A l \in Listens : /\ lis[l].st \notin {"checked", "reserved"}
                              /\ lis[l].close \in {"no", "freed"}
        /\ net \in {"open", "closed"}
        /\ \/ serve.at \in {"accept", "stopped"}
           \/ serve.at = "send" /\ lis[serve.lis].close = "no"
        /\ \A d \in Dials :
              /\ dial[d].st \in {"none", "up", "failed", "closed"}
              /\ dial[d].st = "up" /\ end[d] # "accepted" /\ serve.dial # d =>
                    \E l \in Listens : lis[l].port = dial[d].port /\ lis[l].close = "freed"
==============================================================================

--------------------------------- MODULE App ---------------------------------
(***************************************************************************)
(* An app and its visor: the app library (pkg/app/app.go) on the protocol  *)
(* both sides speak over a pair of pipes (pkg/app/protocol.go, conn.go),   *)
(* served at the visor by the app manager (pkg/router/app_manager.go) with *)
(* the router's callers of the app (consumePacket, confirmLoop,            *)
(* loopClosed).                                                            *)
(*                                                                         *)
(* A call is one Send.  It carries the id its sender chose, is handled by  *)
(* a goroutine of its own on the other side, and its answer is given to    *)
(* whoever holds that id when the answer is read.  A Send takes its id and *)
(* writes in one step: no one knows of the id before the frame is written. *)
(* Frames of one direction may overtake each other, as their handlers do,  *)
(* and a request that its handler's first lock holds up may as well be     *)
(* unread.                                                                 *)
(*                                                                         *)
(* The app dials loop "out" and accepts loop "in".  It may also get "out"  *)
(* from Accept, as the visor confirms a loop to the app that dialled it.   *)
(***************************************************************************)
EXTENDS Integers, FiniteSets

CONSTANTS
    MaxIDs,      \* ids of a Protocol (255)
    MaxEvents    \* bound on what users, network and owner do in a behaviour

ASSUME AppAssumption == MaxIDs \in Nat \ {0} /\ MaxEvents \in Nat

VARIABLES
    chans,       \* chans[e]: Protocol.chans of end e: id -> call, or NoCall
    rw,          \* rw[e]: "open", "drained" (closeAll has run) or "closed"
    status,      \* status[c]: what its caller knows of call c
    id,          \* id[c]: the id call c is sent with
    stage,       \* stage[c]: where the other side is with it
    outcome,     \* outcome[c]: what its handler returned
    mu,          \* the holder of app.mu
    conns,       \* app.conns: loop -> connection, or NoConn
    pipe,        \* pipe[k]: the net.Pipe of connection k: "none", "open", "closed"
    serving,     \* serving[k]: where serveConn is
    accepting,   \* Accept: "no" (not called), "waiting" on acceptChan (doneChan plays
                 \* no part), or the connection it is to register
    closer,      \* App.Close: "no", "closing", "unlocked", "drained", "done"
    shut,        \* connections the range of App.Close has still to close
    target,      \* target[l]: the connection forwardPacket writes to
    events,      \* external steps so far
    late         \* auxiliary: calls sent after closeAll of their end

wire == <<chans, rw, status, id, stage, outcome, late>>
lib == <<mu, conns, pipe, serving, accepting, closer, shut, target>>
vars == <<wire, lib, events>>

Ends == {"app", "visor"}
Peer(e) == IF e = "app" THEN "visor" ELSE "app"
Loops == {"out", "in"}
Conns == {"dialled", "own", "incoming"}     \* what Dial and Accept return
LoopOf(k) == IF k = "incoming" THEN "in" ELSE "out"
NoConn == "none"
Closer == "App.Close"

\* The calls, with what each is about.
AppCall(cmd, k) == [at |-> "app", cmd |-> cmd, about |-> k]
VisorCall(cmd, l) == [at |-> "visor", cmd |-> cmd, about |-> l]
InitApp == AppCall("init", "dialled")
Create == AppCall("create", "dialled")
Calls == {InitApp, Create} \cup {AppCall(cmd, k) : cmd \in {"send", "close", "shut"}, k \in Conns}
                  \cup {VisorCall(cmd, l) : cmd \in {"confirm", "send", "closed"}, l \in Loops}
NoCall == [at |-> "none"]
IDs == 0 .. MaxIDs - 1

TypeOK ==
    /\ chans \in [Ends -> [IDs -> Calls \cup {NoCall}]]
    /\ rw \in [Ends -> {"open", "drained", "closed"}]
    /\ status \in [Calls -> {"none", "waiting", "ok", "err", "eof", "failed"}]
    /\ id \in [Calls -> IDs]
    /\ stage \in [Calls -> {"none", "sent", "writing", "replied", "over"}]
    /\ outcome \in [Calls -> {"none", "ok", "err"}]
    /\ mu \in {"free", Closer} \cup Conns
    /\ conns \in [Loops -> Conns \cup {NoConn}]
    /\ pipe \in [Conns -> {"none", "open", "closed"}]
    /\ serving \in [Conns -> {"none", "read", "sending", "ending", "closing", "done"}]
    /\ accepting \in {"no", "waiting"} \cup Conns
    /\ closer \in {"no", "closing", "unlocked", "drained", "done"}
    /\ shut \subseteq Conns
    /\ target \in [Loops -> Conns \cup {NoConn}]
    /\ events \in 0..MaxEvents
    /\ late \subseteq Calls

Init ==
    /\ chans = [e \in Ends |-> [i \in IDs |-> NoCall]]
    /\ rw = [e \in Ends |-> "open"]
    /\ status = [c \in Calls |-> "none"]
    /\ id = [c \in Calls |-> 0]
    /\ stage = [c \in Calls |-> "none"]
    /\ outcome = [c \in Calls |-> "none"]
    /\ mu = "free"
    /\ conns = [l \in Loops |-> NoConn]
    /\ pipe = [k \in Conns |-> "none"]
    /\ serving = [k \in Conns |-> "none"]
    /\ accepting \in {"no", "waiting"}       \* a client, or a server in its Accept loop
    /\ closer = "no"
    /\ shut = {}
    /\ target = [l \in Loops |-> NoConn]
    /\ events = 0
    /\ late = {}

-----------------------------------------------------------------------------
(* Protocol                                                                *)

Free(e) == {i \in IDs : chans[e][i] = NoCall}

AddFirst(e) == 0

\* chanList.add: the lowest free id; it panics when there is none.
AddChan(e) == IF Free(e) = {} THEN MaxIDs ELSE CHOOSE i \in Free(e) : \A j \in Free(e) : i <= j

\* writeFrame: a write on a pipe that either end has closed fails.
CanWrite == \A e \in Ends : rw[e] # "closed"

\* Send up to its wait.  A write that fails leaves the id taken.
Send(c) ==
    LET e == c.at
        i == AddChan(e)
    IN  /\ status[c] = "none"
        /\ chans' = [chans EXCEPT ![e] = [j \in IDs \cup {i} |-> IF j = i THEN c ELSE @[j]]]
        /\ id' = [id EXCEPT ![c] = IF CanWrite THEN i ELSE 0]
        /\ status' = [status EXCEPT ![c] = IF CanWrite THEN "waiting" ELSE "failed"]
        /\ stage' = [stage EXCEPT ![c] = IF CanWrite THEN "sent" ELSE "over"]
        /\ late' = IF rw[e] = "open" THEN late ELSE late \cup {c}
        /\ UNCHANGED <<rw, outcome>>

\* Serve has read the request and runs its handler.
Arrived(c) == stage[c] = "sent" /\ rw[Peer(c.at)] # "closed"

\* The handler of c writes its result o.
Reply(c, o) ==
    /\ outcome' = [outcome EXCEPT ![c] = o]
    /\ stage' = [stage EXCEPT ![c] = IF CanWrite THEN "replied" ELSE "over"]
    /\ UNCHANGED <<chans, rw, status, id, late>>

PullKeeps(e, i) == chans

\* chanList.pull
Pull(e, i) == [chans EXCEPT ![e][i] = NoCall]

\* Serve reads the answer to c and gives it to the call d that holds the id.
ServeResponse(c) ==
    LET e == c.at
        d == chans[e][id[c]]
    IN  /\ stage[c] = "replied"
        /\ rw[e] # "closed"
        /\ stage' = [stage EXCEPT ![c] = "over"]
        /\ \/ d = NoCall /\ UNCHANGED <<chans, status>>
           \/ /\ d # NoCall
              /\ chans' = Pull(e, id[c])
              /\ status' = [status EXCEPT ![d] = outcome[c]]
        /\ id' = [id EXCEPT ![c] = 0]
        /\ UNCHANGED <<rw, outcome, late, lib>>

\* Close: closeAll ends the pending Sends, then the pipe is closed.
CloseAll(e) ==
    /\ rw[e] = "open"
    /\ status' = [c \in Calls |-> IF \E i \in IDs : chans[e][i] = c THEN "eof" ELSE status[c]]
    /\ chans' = [chans EXCEPT ![e] = [i \in IDs |-> NoCall]]
    /\ rw' = [rw EXCEPT ![e] = "drained"]
    /\ UNCHANGED <<id, stage, outcome, late>>

\* What is in the pipe towards e is lost; the other side reads on to the end.
ClosePipe(e) ==
    /\ rw' = [rw EXCEPT ![e] = "closed"]
    /\ stage' = [c \in Calls |-> IF \/ c.at = e /\ stage[c] = "replied"
                                    \/ c.at # e /\ stage[c] = "sent"
                                 THEN "over" ELSE stage[c]]
    /\ UNCHANGED <<chans, status, id, outcome, late>>

-----------------------------------------------------------------------------
(* The app library                                                         *)

\* New connection k under its loop, with its serveConn.
Register(k) ==
    /\ mu = "free"
    /\ conns' = [conns EXCEPT ![LoopOf(k)] = k]
    /\ pipe' = [pipe EXCEPT ![k] = "open"]
    /\ serving' = [serving EXCEPT ![k] = "read"]

\* New: the INIT handshake; the app is closed when it fails.
New ==
    /\ Send(InitApp)
    /\ UNCHANGED lib

Ready == status[InitApp] = "ok" /\ closer = "no"

DialSend ==
    /\ Ready
    /\ Send(Create)
    /\ UNCHANGED lib

DialReturns ==
    /\ status[Create] = "ok"
    /\ serving["dialled"] = "none"
    /\ Register("dialled")
    /\ UNCHANGED <<wire, mu, accepting, closer, shut, target>>

\* Accept has been handed a loop.  The app goes on to the next Accept.
AcceptReturns ==
    /\ accepting \in Conns
    /\ Register(accepting)
    /\ accepting' = "waiting"
    /\ UNCHANGED <<wire, mu, closer, shut, target>>

\* serveConn reads what the user wrote and sends it.
ServeConnSend(k) ==
    /\ serving[k] = "read"
    /\ pipe[k] = "open"
    /\ Send(AppCall("send", k))
    /\ serving' = [serving EXCEPT ![k] = "sending"]
    /\ UNCHANGED <<mu, conns, pipe, accepting, closer, shut, target>>

Returned(c) == status[c] \notin {"none", "waiting"}

ServeConnSent(k) ==
    /\ serving[k] = "sending"
    /\ Returned(AppCall("send", k))
    /\ serving' = [serving EXCEPT ![k] = IF status[AppCall("send", k)] = "ok"
                                           THEN "read" ELSE "ending"]
    /\ UNCHANGED <<wire, mu, conns, pipe, accepting, closer, shut, target>>

UserCloses(k) ==
    /\ pipe[k] = "open"
    /\ pipe' = [pipe EXCEPT ![k] = "closed"]
    /\ UNCHANGED <<wire, mu, conns, serving, accepting, closer, shut, target>>

\* A Send failed, or Read finds the pipe closed: by the user, closeConn or App.Close.
Ending(k) == serving[k] = "ending" \/ (serving[k] = "read" /\ pipe[k] = "closed")

\* The end of serveConn takes mu and keeps it over the Send of FrameClose.
ServeConnLock(k) ==
    /\ Ending(k)
    /\ mu = "free"
    /\ conns[LoopOf(k)] # NoConn
    /\ mu' = k
    /\ Send(AppCall("close", k))
    /\ serving' = [serving EXCEPT ![k] = "closing"]
    /\ UNCHANGED <<conns, pipe, accepting, closer, shut, target>>

EndQuietly(k) ==
    /\ \/ serving[k] = "closing" /\ Returned(AppCall("close", k))
       \/ serving[k] = "ending" /\ mu = "free" /\ status[AppCall("send", k)] = "err"
    /\ conns' = [conns EXCEPT ![LoopOf(k)] = NoConn]
    /\ mu' = "free"
    /\ pipe' = [pipe EXCEPT ![k] = "closed"]
    /\ serving' = [serving EXCEPT ![k] = "done"]
    /\ UNCHANGED <<wire, accepting, closer, shut, target>>

\* It deletes whatever connection its loop has, and closes its own.
ServeConnEnd(k) ==
    /\ \/ /\ serving[k] = "closing"
          /\ Returned(AppCall("close", k))
       \/ /\ Ending(k)
          /\ mu = "free"
          /\ conns[LoopOf(k)] = NoConn
    /\ conns' = [conns EXCEPT ![LoopOf(k)] = NoConn]
    /\ mu' = "free"
    /\ pipe' = [pipe EXCEPT ![k] = "closed"]
    /\ serving' = [serving EXCEPT ![k] = "done"]
    /\ UNCHANGED <<wire, accepting, closer, shut, target>>

-----------------------------------------------------------------------------
(* App.Close: every connection in turn with mu held, then the protocol.    *)

CloseLock ==
    /\ closer = "no"
    /\ Returned(InitApp)
    /\ mu = "free"
    /\ mu' = Closer
    /\ closer' = "closing"
    /\ shut' = {conns[l] : l \in Loops} \ {NoConn}
    /\ UNCHANGED <<wire, conns, pipe, serving, accepting, target>>

CloseSend(k) ==
    /\ closer = "closing"
    /\ k \in shut
    /\ \A j \in Conns : status[AppCall("shut", j)] # "waiting"
    /\ Send(AppCall("shut", k))
    /\ UNCHANGED lib

CloseConn(k) ==
    /\ closer = "closing"
    /\ k \in shut
    /\ Returned(AppCall("shut", k))
    /\ pipe' = [pipe EXCEPT ![k] = "closed"]
    /\ shut' = shut \ {k}
    /\ UNCHANGED <<wire, mu, conns, serving, accepting, closer, target>>

CloseUnlock ==
    /\ closer = "closing"
    /\ shut = {}
    /\ mu' = "free"
    /\ closer' = "unlocked"
    /\ UNCHANGED <<wire, conns, pipe, serving, accepting, shut, target>>

CloseDrains ==
    /\ closer = "unlocked"
    /\ CloseAll("app")
    /\ closer' = "drained"
    /\ UNCHANGED <<mu, conns, pipe, serving, accepting, shut, target>>

CloseEnds ==
    /\ closer = "drained"
    /\ ClosePipe("app")
    /\ closer' = "done"
    /\ UNCHANGED <<mu, conns, pipe, serving, accepting, shut, target>>

-----------------------------------------------------------------------------
(* handleProto: the handlers of the app.                                   *)

ConfirmBlocks(l) ==
    /\ Arrived(VisorCall("confirm", l))
    /\ mu = "free"
    /\ accepting = "waiting"
    /\ accepting' = IF l = "in" THEN "incoming" ELSE "own"
    /\ Reply(VisorCall("confirm", l), "ok")
    /\ UNCHANGED <<mu, conns, pipe, serving, closer, shut, target>>

\* confirmLoop: the connections are not keyed as it looks them up, so it never
\* finds one; the loop goes to an Accept that waits, or to nobody.
HandleConfirm(l) ==
    LET c == VisorCall("confirm", l)
    IN  /\ Arrived(c)
        /\ mu = "free"
        /\ accepting' = IF accepting # "waiting" THEN accepting
                        ELSE IF l = "in" THEN "incoming" ELSE "own"
        /\ Reply(c, "ok")
        /\ UNCHANGED <<mu, conns, pipe, serving, closer, shut, target>>

\* forwardPacket: "no listeners", or a write the user's read completes.
HandleSend(l) ==
    LET c == VisorCall("send", l)
    IN  /\ Arrived(c)
        /\ mu = "free"
        /\ \/ /\ conns[l] = NoConn
              /\ Reply(c, "err")
              /\ UNCHANGED target
           \/ /\ conns[l] # NoConn
              /\ stage' = [stage EXCEPT ![c] = "writing"]
              /\ target' = [target EXCEPT ![l] = conns[l]]
              /\ UNCHANGED <<chans, rw, status, id, outcome, late>>
        /\ UNCHANGED <<mu, conns, pipe, serving, accepting, closer, shut>>

ForwardEnds(l, o) ==
    LET c == VisorCall("send", l)
    IN  /\ stage[c] = "writing"
        /\ Reply(c, o)
        /\ target' = [target EXCEPT ![l] = NoConn]
        /\ UNCHANGED <<mu, conns, pipe, serving, accepting, closer, shut>>

\* The write to the net.Pipe waits for the user to read, ...
UserReads(l) == target[l] # NoConn /\ pipe[target[l]] = "open" /\ ForwardEnds(l, "ok")

\* ... or for the pipe to be closed.
HandleSendFails(l) == target[l] # NoConn /\ pipe[target[l]] = "closed" /\ ForwardEnds(l, "err")

\* closeConn.  The frame may name the loop by a key the app does not use (the
\* setup node fills in one public key and leaves the other out).
HandleClosed(l) ==
    LET c == VisorCall("closed", l)
    IN  /\ Arrived(c)
        /\ mu = "free"
        /\ \E named \in BOOLEAN :
              IF named /\ conns[l] # NoConn
              THEN /\ conns' = [conns EXCEPT ![l] = NoConn]
                   /\ pipe' = [pipe EXCEPT ![conns[l]] = "closed"]
              ELSE UNCHANGED <<conns, pipe>>
        /\ Reply(c, "ok")
        /\ UNCHANGED <<mu, serving, accepting, closer, shut, target>>

-----------------------------------------------------------------------------
(* The visor                                                               *)

\* appManager.Serve: initApp, setupLoop, handleCloseLoop end with success or failure.
\* A loop to another visor is set up only when the app that asked has answered its
\* confirmation; a failure, such as a time limit of the setup, may come before, and
\* for a loop within the visor there is none.  The app only logs what becomes of a
\* FrameClose.
HandleAtVisor(c) ==
    /\ c.at = "app" /\ c.cmd # "send"
    /\ Arrived(c)
    /\ \E o \in {"ok", "err"} :
          /\ c.cmd \in {"close", "shut"} => o = "ok"
          /\ c = Create /\ o = "ok" => status[VisorCall("confirm", "out")] # "waiting"
          /\ Reply(c, o)
    /\ UNCHANGED lib

\* forwardAppPacket: the transport's write returns when the next node reads, or the
\* other app of this visor when its user does.
Forwarded(k) ==
    /\ Arrived(AppCall("send", k))
    /\ \E o \in {"ok", "err"} : Reply(AppCall("send", k), o)
    /\ UNCHANGED lib

\* confirmLoop: "out" while the app's request for it is handled, "in" any time.
ConfirmLoop(l) ==
    /\ l = "out" => stage[Create] = "sent"
    /\ Send(VisorCall("confirm", l))
    /\ UNCHANGED lib

\* consumePacket: the rule of "out" is there before the app is told of the loop;
\* the other end of "in" waits for its confirmation.
ConsumePacket(l) ==
    /\ IF l = "out" THEN stage[Create] # "none"
                    ELSE Returned(VisorCall("confirm", "in"))
    /\ Send(VisorCall("send", l))
    /\ UNCHANGED lib

\* loopClosed
LoopClosed(l) ==
    /\ status[VisorCall("confirm", l)] # "none"
    /\ Send(VisorCall("closed", l))
    /\ UNCHANGED lib

\* StopApp closes the visor's pipe as it is: its Sends wait for ever.
StopApp ==
    /\ rw["visor"] = "open"
    /\ ClosePipe("visor")
    /\ UNCHANGED lib

\* Router.Close closes the protocol.
VisorCloses ==
    /\ CloseAll("visor")
    /\ UNCHANGED lib

VisorClosed ==
    /\ rw["visor"] = "drained"
    /\ ClosePipe("visor")
    /\ UNCHANGED lib

-----------------------------------------------------------------------------

\* Steps of goroutines that have something to do.
Internal ==
    \/ \E c \in Calls : ServeResponse(c) \/ HandleAtVisor(c)
    \/ \E l \in Loops : HandleConfirm(l) \/ HandleSend(l) \/ HandleSendFails(l) \/ HandleClosed(l)
    \/ New \/ DialReturns \/ AcceptReturns
    \/ \E k \in Conns : \/ ServeConnSent(k) \/ ServeConnLock(k) \/ ServeConnEnd(k)
                        \/ CloseSend(k) \/ CloseConn(k)
    \/ CloseUnlock \/ CloseDrains \/ CloseEnds \/ VisorClosed

\* Readers outside that a step waits for; they need not read.
Readers == (\E l \in Loops : UserReads(l)) \/ (\E k \in Conns : Forwarded(k))

\* What users, the network and the visor's owner may do.
External ==
    \/ DialSend \/ CloseLock \/ VisorCloses \/ StopApp
    \/ \E k \in Conns : ServeConnSend(k) \/ UserCloses(k)
    \/ \E l \in Loops : ConfirmLoop(l) \/ ConsumePacket(l) \/ LoopClosed(l)

Next == \/ (Internal \/ Readers) /\ UNCHANGED events
        \/ events < MaxEvents /\ External /\ events' = events + 1

Spec == Init /\ [][Next]_vars

-----------------------------------------------------------------------------
(* Properties                                                              *)

\* Every call that is sent before its end is closed keeps the promise of Calls:
\* Send (protocol.go) returns the answer to its own frame, which is handled once.
\* A Send in the window between closeAll and the close of the pipe may be given
\* the answer to an earlier frame with its id, or wait for ever.
Promise == INSTANCE Calls WITH
    Call <- Calls,
    result <- [c \in Calls |->
                 IF c \in late THEN "none" ELSE
                 CASE status[c] = "waiting" -> "pending"
                   [] status[c] \in {"eof", "failed"} -> "gone"
                   [] OTHER -> status[c]],
    outcome <- [c \in Calls |-> IF c \in late THEN "none" ELSE outcome[c]]
KeepsPromise == Promise!Spec

\* While both ends are open, chanList holds the ids of the Sends that wait and no
\* others: ids neither leak (255 leaked ones end the process) nor are shared.
IdsBelongToWaiters ==
    (\A e \in Ends : rw[e] = "open") =>
        /\ \A c \in Calls : status[c] = "waiting" => chans[c.at][id[c]] = c
        /\ \A e \in Ends : Cardinality({i \in IDs : chans[e][i] # NoCall})
                            = Cardinality({c \in Calls : c.at = e /\ status[c] = "waiting"})

\* serveConn does not end without the visor knowing: it has sent a FrameClose for
\* the loop, or the loop was closed from the other side, or by App.Close.
EndedLoopsAreTold ==
    \A k \in Conns : serving[k] = "done" =>
        \/ outcome[VisorCall("closed", LoopOf(k))] # "none"
        \/ \E j \in Conns : /\ LoopOf(j) = LoopOf(k)
                            /\ \/ status[AppCall("close", j)] # "none"
                               \/ status[AppCall("shut", j)] # "none"

\* A packet that nobody reads: the app's user, the next node or another app.
Unread(c) ==
    \/ c.at = "visor" /\ stage[c] = "writing"
    \/ c.at = "app" /\ c.cmd = "send" /\ stage[c] = "sent"

\* Nothing waits for ever while the pipe is open, but the Send of a packet that nobody
\* reads: when no goroutine can go on, every other Send has returned or its other end
\* is gone, app.mu is free and App.Close is over, whatever packets are unread.  A
\* behaviour has finitely many internal steps, so this is progress.  It matters as
\* app.mu is held over Sends whose answers, and whose peer's requests, meanwhile need
\* handlers that take app.mu.  The unread packet itself does hold up its sender, and
\* with it the router's packet loop ("Stuck here", router.go).
NothingSticks ==
    \/ \A e \in Ends : rw[e] = "open" =>
          /\ rw[Peer(e)] # "closed" =>
                \A c \in Calls : c.at = e /\ status[c] = "waiting" => Unread(c)
          /\ e = "app" /\ rw["visor"] # "closed" => mu = "free" /\ closer \in {"no", "done"}
    \/ ENABLED Internal
=============================================================================

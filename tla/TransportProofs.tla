--------------------------- MODULE TransportProofs ---------------------------
(***************************************************************************)
(* The safety of the transport manager, for every set of transports, every *)
(* number of managed transports and every capacity of readCh; and of the   *)
(* settlement of transports and its requests to the discovery, for any     *)
(* number of visors, settlements, lookups and faults.                      *)
(***************************************************************************)
EXTENDS TransportManager, Settlement, TLAPS

-----------------------------------------------------------------------------
\* A managed transport that runs is the one tps has for its id: DeleteTransport takes
\* an entry away only when its goroutines have ended, all under mx.
RunningIsRegistered ==
    /\ \A i \in Instances : Running(i) => of[i] \in Transports /\ tps[of[i]] = i
    /\ \A t \in Transports : tps[t] # NoInstance => of[tps[t]] = t /\ inst[tps[t]] # "unused"

\* Who holds mx is the call that waits under it.
HolderOfMx ==
    /\ mx = "delete" => deleting \in Transports
    /\ closer = "closing" => mx = "close"

\* Once Close is called, done is closed; readCh is closed by its end, when no transport
\* runs but those that initTransports opens after it; and a read loop runs only while its
\* transport does.
ClosingOrder ==
    /\ closer # "idle" => done
    /\ readChClosed => closer = "closed"
    /\ closer = "closed" => \A i \in Instances : Running(i) => i \in late
    /\ \A i \in Instances : reader[i] # "exited" => Running(i)
    /\ panicked \subseteq late

ManagerInv == ManagerTypeOK /\ RunningIsRegistered /\ HolderOfMx /\ ClosingOrder

\* saveTransport opens a managed transport only for an id that has none.
SaveResult ==
    /\ tps' \in [Transports -> Instances \cup {NoInstance}]
    /\ inst' \in [Instances -> {"unused", "serving", "closing", "stopped"}]
    /\ of' \in [Instances -> Transports \cup {NoTransport}]
    /\ reader' \in [Instances -> {"reading", "sending", "exited"}]
    /\ RunningIsRegistered'
    /\ \A i \in Instances : /\ reader'[i] # "exited" => Running(i)'
                            /\ Running(i)' => Running(i) \/ (inst[i] = "unused" /\ inst'[i] # "unused")

LEMMA SaveFacts ==
    ASSUME ManagerInv, NEW t \in Transports, Save(t)
    PROVE  SaveResult
<1> USE DEF ManagerInv, ManagerTypeOK, RunningIsRegistered, ClosingOrder, Running, SaveResult
<1>1. CASE Keep
  BY <1>1 DEF Keep
<1>2. ASSUME NEW i \in Instances, tps[t] = NoInstance, Open(t, i)
      PROVE  SaveResult
  <2>1. \A j \in Instances : j # NoInstance
    BY TransportManagerAssumption DEF NoInstance
  <2>2. /\ inst[i] = "unused"
        /\ inst' = [inst EXCEPT ![i] = "serving"]
        /\ of' = [of EXCEPT ![i] = t]
        /\ reader' = [reader EXCEPT ![i] = "reading"]
        /\ tps' = [tps EXCEPT ![t] = i]
    BY <1>2 DEF Open
  <2>3. \A j \in Instances : j # i => inst'[j] = inst[j] /\ of'[j] = of[j] /\ reader'[j] = reader[j]
    BY <2>2
  <2>4. inst'[i] = "serving" /\ of'[i] = t /\ reader'[i] = "reading" /\ tps'[t] = i
    BY <2>2
  <2>5. \A u \in Transports : u # t => tps'[u] = tps[u] /\ tps[u] # i
    BY <2>1, <2>2
  <2>6. RunningIsRegistered'
    BY <1>2, <2>1, <2>3, <2>4, <2>5
  <2>7. QED
    BY <2>2, <2>3, <2>4, <2>6
<1>3. QED
  BY <1>1, <1>2 DEF Save

\* Opening transports: once Close has begun, only in initTransports.
LEMMA OpeningStep ==
    ASSUME ManagerInv,
           \/ \E t \in Transports : SaveTransport(t)
           \/ TransportDialled
           \/ InitTransports \/ CloseListeners
           \/ AcceptLoop \/ AcceptConn \/ AcceptTransport \/ ConnAccepted
    PROVE  ManagerInv'
<1> USE DEF ManagerInv, HolderOfMx, ClosingOrder
<1>1. ASSUME NEW t \in Transports, SaveTransport(t)
      PROVE  ManagerInv'
  <2>1. closer = "idle" /\ ~readChClosed /\ SaveResult
    BY <1>1, SaveFacts DEF SaveTransport
  <2>2. claim' \in Instances \cup {NoInstance}
    BY <1>1, <2>1 DEF SaveTransport, SaveResult
  <2>3. ManagerTypeOK'
    BY <1>1, <2>1, <2>2 DEF SaveTransport, ManagerTypeOK, SaveResult
  <2>4. QED
    BY <1>1, <2>1, <2>3 DEF SaveTransport, SaveResult
<1>2. ASSUME NEW t \in Transports, InitTransports, Save(t)
      PROVE  ManagerInv'
  <2>1. SaveResult
    BY <1>2, SaveFacts
  <2>2. ManagerTypeOK'
    BY <1>2, <2>1 DEF InitTransports, ManagerTypeOK, SaveResult, connVars
  <2>3. ClosingOrder'
    BY <1>2, <2>1 DEF InitTransports, SaveResult
  <2>4. QED
    BY <1>2, <2>1, <2>2, <2>3 DEF InitTransports, SaveResult
<1>3. CASE InitTransports /\ Keep
  <2>1. late' \in SUBSET Instances /\ late \subseteq late'
    BY <1>3 DEF InitTransports, ManagerTypeOK
  <2>2. QED
    BY <1>3, <2>1 DEF InitTransports, Keep, ManagerTypeOK, RunningIsRegistered, Running, connVars
<1>4. ASSUME NEW t \in Transports, AcceptTransport, ~done, Save(t), acceptor' = "loop",
             UNCHANGED <<mx, claim>>
      PROVE  ManagerInv'
  <2>1. closer = "idle" /\ ~readChClosed /\ SaveResult
    BY <1>4, SaveFacts
  <2>2. ManagerTypeOK'
    BY <1>4, <2>1 DEF AcceptTransport, ManagerTypeOK, SaveResult
  <2>3. QED
    BY <1>4, <2>1, <2>2 DEF AcceptTransport, SaveResult
<1>5. CASE AcceptTransport /\ Keep
  <2>1. \/ mx' = mx /\ claim' = claim
        \/ mx' = "accept" /\ mx = "free" /\ claim' \in Instances
    BY <1>5 DEF AcceptTransport, ManagerTypeOK, Registered
  <2>2. acceptor' \in {"loop", "joining", "stopped"}
    BY <1>5 DEF AcceptTransport
  <2>3. UNCHANGED <<tps, inst, of, reader, done, listening, readCh, readChClosed, panicked, late,
                    server, deleting, closer, router, target, connMx>>
    BY <1>5 DEF AcceptTransport, Keep
  <2>4. QED
    BY <2>1, <2>2, <2>3 DEF ManagerTypeOK, RunningIsRegistered, Running
<1>6. CASE CloseListeners \/ AcceptLoop \/ AcceptConn
  <2>1. /\ UNCHANGED <<mx, done, tps, inst, of, reader, readCh, readChClosed, panicked, late,
                       deleting, closer, router, target, connMx, claim>>
        /\ acceptor' \in {"loop", "accepting", "accepted", "joining", "stopped"}
        /\ listening' \in BOOLEAN
        /\ server' = server \/ server' = "stopped"
    BY <1>6 DEF CloseListeners, AcceptLoop, AcceptConn, ManagerTypeOK, connVars
  <2>2. QED
    BY <2>1 DEF ManagerTypeOK, RunningIsRegistered, Running
<1>7. CASE TransportDialled \/ ConnAccepted
  <2>1. /\ UNCHANGED <<done, listening, tps, inst, of, reader, readCh, readChClosed, panicked,
                       late, server, deleting, closer, router, target, connMx>>
        /\ acceptor' \in {"loop", "accepting", "accepted", "joining", "stopped"}
        /\ mx \in {"save", "accept"} /\ mx' = "free" /\ claim' = NoInstance
    BY <1>7 DEF TransportDialled, ConnAccepted, ManagerTypeOK
  <2>2. QED
    BY <2>1 DEF ManagerTypeOK, RunningIsRegistered, Running
<1>8. QED
  BY <1>1, <1>2, <1>3, <1>4, <1>5, <1>6, <1>7 DEF InitTransports, AcceptTransport

\* Closing transports, under mx.
LEMMA ClosingStep ==
    ASSUME ManagerInv,
           \/ \E t \in Transports : DeleteTransport(t)
           \/ TransportDeleted \/ Close \/ Closed \/ \E i \in Instances : CloseTransport(i)
    PROVE  ManagerInv'
<1> USE DEF ManagerInv, ManagerTypeOK, RunningIsRegistered, HolderOfMx, ClosingOrder, Running
<1>1. ASSUME NEW t \in Transports, DeleteTransport(t)
      PROVE  ManagerInv'
  <2>1. tps[t] \in Instances
    BY <1>1 DEF DeleteTransport
  <2>2. /\ inst' = [inst EXCEPT ![tps[t]] = "closing"]
        /\ mx' = "delete" /\ deleting' = t /\ ~done
        /\ UNCHANGED <<done, listening, tps, of, reader, readCh, readChClosed, panicked, late,
                       acceptor, server, closer, router, target, connMx, claim>>
    BY <1>1 DEF DeleteTransport, connVars
  <2>3. closer = "idle"
    BY <2>2
  <2>4. of[tps[t]] = t
    BY <1>1 DEF DeleteTransport
  <2>5. ManagerTypeOK'
    BY <2>1, <2>2
  <2>6. QED
    BY <2>1, <2>2, <2>3, <2>4, <2>5
<1>2. CASE TransportDeleted
  BY <1>2 DEF TransportDeleted, connVars
<1>3. CASE Close
  BY <1>3 DEF Close, connVars
<1>4. CASE Closed
  <2>1. \A i \in Instances : ~Running(i)
    BY <1>4, TransportManagerAssumption DEF Closed, Registered, NoInstance
  <2>2. QED
    BY <1>4, <2>1 DEF Closed, connVars
<1>5. ASSUME NEW i \in Instances, CloseTransport(i)
      PROVE  ManagerInv'
  BY <1>5 DEF CloseTransport, connVars
<1>6. QED
  BY <1>1, <1>2, <1>3, <1>4, <1>5

\* The read loops and the router.
LEMMA PacketStep ==
    ASSUME ManagerInv,
           \/ \E i \in Instances : InstanceStep(i)
           \/ RouterRead \/ RouterStop \/ RouterConsume \/ RouterLookup \/ RouterWrite
           \/ RouterWritten \/ \E i \in Instances : AppWrite(i) \/ AppWritten(i)
           \/ UNCHANGED managerVars
    PROVE  ManagerInv'
<1> USE DEF ManagerInv, ManagerTypeOK, RunningIsRegistered, HolderOfMx, ClosingOrder, Running
<1>1. ASSUME NEW i \in Instances, PacketRead(i)
      PROVE  ManagerInv'
  BY <1>1 DEF PacketRead, connVars
<1>2. ASSUME NEW i \in Instances, PacketSent(i)
      PROVE  ManagerInv'
  <2>1. CASE readChClosed
    BY <1>2, <2>1 DEF PacketSent, connVars
  <2>2. CASE ~readChClosed
    <3>1. readCh' \in 0..ReadChCap
      BY <1>2, <2>2, TransportManagerAssumption DEF PacketSent
    <3>2. /\ reader' = [reader EXCEPT ![i] = "reading"] /\ reader[i] = "sending"
          /\ UNCHANGED <<mx, done, listening, tps, inst, of, readChClosed, panicked, late, acceptor,
                         server, deleting, closer, router, target, connMx, claim>>
      BY <1>2, <2>2 DEF PacketSent, connVars
    <3>3. QED
      BY <3>1, <3>2
  <2>3. QED
    BY <2>1, <2>2
<1>3. ASSUME NEW i \in Instances, PacketDropped(i)
      PROVE  ManagerInv'
  BY <1>3 DEF PacketDropped, connVars
<1>4. ASSUME NEW i \in Instances, Stopped(i)
      PROVE  ManagerInv'
  BY <1>4 DEF Stopped, connVars
<1>5. CASE RouterRead
  BY <1>5, TransportManagerAssumption DEF RouterRead, connVars
<1>6. CASE RouterStop \/ RouterConsume \/ UNCHANGED managerVars
  BY <1>6 DEF RouterStop, RouterConsume, managerVars, connVars
<1>7. CASE RouterLookup
  BY <1>7 DEF RouterLookup, Registered, connVars
<1>8. CASE RouterWrite \/ RouterWritten \/ \E i \in Instances : AppWrite(i) \/ AppWritten(i)
  <2>1. /\ UNCHANGED <<mx, done, listening, tps, inst, of, reader, readCh, readChClosed, panicked,
                       late, acceptor, server, deleting, closer, claim>>
        /\ router' \in {"read", "forward", "write", "writing", "consume", "stopped"}
        /\ target' \in Instances \cup {NoInstance}
        /\ connMx' \in [Instances -> {"free", "router", "app"}]
    <3>1. CASE RouterWrite
      BY <3>1 DEF RouterWrite
    <3>2. CASE RouterWritten
      BY <3>2 DEF RouterWritten
    <3>3. ASSUME NEW i \in Instances, AppWrite(i) \/ AppWritten(i)
          PROVE  /\ UNCHANGED <<router, target>>
                 /\ connMx' \in [Instances -> {"free", "router", "app"}]
      BY <3>3 DEF AppWrite, AppWritten
    <3>4. QED
      BY <1>8, <3>1, <3>2, <3>3 DEF AppWrite, AppWritten
  <2>2. QED
    BY <2>1
<1>9. QED
  BY <1>1, <1>2, <1>3, <1>4, <1>5, <1>6, <1>7, <1>8 DEF InstanceStep

\* The invariant of all behaviours of the manager.
LEMMA ManagerInvariant == ManagerSpec => []ManagerInv
<1>1. ManagerInit => ManagerInv
  <2> SUFFICES ASSUME ManagerInit PROVE ManagerInv
    OBVIOUS
  <2>1. ManagerTypeOK
    <3>1. /\ mx = "free" /\ done \in BOOLEAN /\ listening \in BOOLEAN
          /\ readChClosed \in BOOLEAN /\ panicked \subseteq Instances /\ late \subseteq Instances
          /\ acceptor = "loop" /\ server = "init" /\ deleting = NoTransport
          /\ closer = "idle" /\ router = "read" /\ target = NoInstance /\ claim = NoInstance
      BY DEF ManagerInit
    <3>2. /\ tps \in [Transports -> Instances \cup {NoInstance}]
          /\ inst \in [Instances -> {"unused", "serving", "closing", "stopped"}]
          /\ of \in [Instances -> Transports \cup {NoTransport}]
          /\ reader \in [Instances -> {"reading", "sending", "exited"}]
          /\ connMx \in [Instances -> {"free", "router", "app"}]
      BY DEF ManagerInit
    <3>3. readCh \in 0..ReadChCap
      BY TransportManagerAssumption DEF ManagerInit
    <3>4. QED
      BY <3>1, <3>2, <3>3 DEF ManagerTypeOK
  <2>2. RunningIsRegistered /\ HolderOfMx /\ ClosingOrder
    BY DEF ManagerInit, RunningIsRegistered, HolderOfMx, ClosingOrder, Running
  <2>3. QED
    BY <2>1, <2>2 DEF ManagerInv
<1>2. ManagerInv /\ [ManagerNext]_managerVars => ManagerInv'
  BY OpeningStep, ClosingStep, PacketStep DEF ManagerNext
<1>3. QED
  BY <1>1, <1>2, PTL DEF ManagerSpec

\* A transport id never has two managed transports whose goroutines run, whatever
\* SaveTransport, DeleteTransport, the accept loop and the discovery do: its entry in tps
\* stays until the goroutines of the old one have ended.
THEOREM OneInstanceTheorem == ManagerSpec => []OneInstancePerTransport
<1>1. ManagerInv => OneInstancePerTransport
  BY DEF ManagerInv, RunningIsRegistered, OneInstancePerTransport
<1>2. QED
  BY <1>1, ManagerInvariant, PTL

\* No read loop sends on the closed readCh but that of a transport which initTransports
\* opened after Close was called: close waits for every registered transport, those are all
\* that run, and nobody else opens one once done is closed.
THEOREM ReadChTheorem == ManagerSpec => []NoSendOnClosedReadCh
<1>1. ManagerInv => NoSendOnClosedReadCh
  BY DEF ManagerInv, ClosingOrder, NoSendOnClosedReadCh
<1>2. QED
  BY <1>1, ManagerInvariant, PTL

-----------------------------------------------------------------------------
(* Settlement.                                                             *)

NotTaken == {"none", "begun", "sent", "invalid", "fetched", "set"}
ReqStates == NotTaken \cup {"taken", "denied"} \cup Ended

-----------------------------------------------------------------------------
\* What the arguments need of the types: nonces are any numbers.
Types ==
    /\ ends \in [Settlements -> {e \in [init : Visors, resp : Visors] : e.init # e.resp}]
    /\ ini \in [Settlements -> {"none", "sent", "accepted", "rejected", "done"}]
    /\ res \in [Settlements -> {"none", "signed", "registering", "registered", "failed", "done"}]
    /\ q \in [Requests -> [at : ReqStates, nonce : Nat, retry : BOOLEAN]]
    /\ nonce \in [Visors -> Nat] /\ own \in [Visors -> Nat] /\ srv \in [Visors -> Nat]
    /\ execs \in [Requests -> Nat]
    /\ contended \subseteq Requests

\* The registration begins when the responder has signed the entry.
RegBegins ==
    \A s \in Settlements : res[s] \in {"none", "signed"} => q[Reg(s)].at = "none"

\* A request that may still be sent has not been executed.
OnceInv ==
    /\ Types /\ RegBegins
    /\ \A r \in Requests : /\ execs[r] <= 1
                           /\ q[r].at \in NotTaken => execs[r] = 0

\* Request r carries, from the time it has fetched it, the nonce the discovery expects.
Fresh(r) ==
    /\ q[r].at = "fetched" => q[r].nonce = srv[Owner(r)]
    /\ q[r].at = "set" => CurrentNonce(r) = srv[Owner(r)]
    /\ q[r].at = "sent" /\ q[r].retry => q[r].nonce = srv[Owner(r)]

\* Two requests of one visor that are under way know of each other, and one that knows of
\* no other has a fresh nonce.
ContendInv ==
    /\ \A r, o \in Requests : (r # o /\ Owner(r) = Owner(o) /\ Underway(r) /\ Underway(o)) =>
          r \in contended
    /\ RefusedOnlyWhenContended
    /\ \A r \in Requests : q[r].at \in {"none", "begun"} => q[r].retry = FALSE
    /\ \A r \in Requests \ contended : Fresh(r)

Edges(s) == SortEdges(ends[s].init, ends[s].resp)

\* The responder's request is made with the entry that both have signed, and it is over
\* before the responder accepts.
SettleOne(s) ==
    /\ ini[s] = "none" => wire[s] = NoEntry
    /\ ini[s] # "none" /\ res[s] = "none" =>
          wire[s] = NewSignedEntry(MakeEntry(ends[s].init, ends[s].resp), ends[s].init)
    /\ res[s] \in {"signed", "registering"} => ini[s] # "none" /\ wire[s].sigs = Edges(s)
    /\ Underway(Reg(s)) => res[s] = "registering"
    /\ q[Reg(s)].at \notin {"denied", "failed"}
    /\ q[Reg(s)].at \in {"taken", "ok"} => disc[s] = Edges(s)
    /\ s \in accept => res[s] \in {"registered", "done"} /\ q[Reg(s)].at \in Ended
    /\ ini[s] = "accepted" \/ do[s].init = "ok" => s \in accept

SettleInv ==
    /\ do \in [Settlements -> [init : {"no", "ok", "err", "timeout"},
                               resp : {"no", "ok", "err", "timeout"}]]
    /\ wire = [s \in Settlements |-> wire[s]] /\ disc = [s \in Settlements |-> disc[s]]
    /\ \A s \in Settlements : SettleOne(s)


-----------------------------------------------------------------------------
(* What the actions do to the requests.                                    *)

LEMMA RequestNames ==
    /\ \A s \in Settlements : Reg(s) \in Requests /\ Stat(s) \in Requests
    /\ \A v \in Lookups : LookupOf(v) \in Requests
    /\ \A s, t \in Settlements : (Reg(s) = Reg(t) => s = t) /\ Reg(s) # Stat(t)
    /\ \A s \in Settlements, v \in Lookups : Reg(s) # LookupOf(v)
    /\ \A r \in Requests : r.kind = "register" => r.of \in Settlements /\ r = Reg(r.of)
    /\ \A r \in Requests : r.kind = "lookup" => r.of \in Lookups /\ r = LookupOf(r.of)
  BY DEF Requests, Reg, Stat, LookupOf

\* Every request has a visor.
LEMMA OwnerIsVisor == ASSUME Types, NEW r \in Requests PROVE Owner(r) \in Visors
  BY SettlementAssumption DEF Types, Requests, Owner

LEMMA CurrentIsNat == ASSUME Types, NEW r \in Requests PROVE CurrentNonce(r) \in Nat
  BY OwnerIsVisor, RequestNames, SettlementAssumption DEF CurrentNonce, Types

\* contended' once r is in state at.
Contended(r, at) ==
    /\ contended' \subseteq Requests
    /\ at = "refused" => contended' = contended
    /\ at \in Ended \ {"refused"} => contended' = contended \ {r}
    /\ at \notin Ended =>
         /\ contended \subseteq contended'
         /\ \A o \in Requests : o # r /\ Owner(o) = Owner(r) /\ Underway(o) =>
               o \in contended' /\ r \in contended'

LEMMA ContendStep ==
    ASSUME Types, NEW r \in Requests, NEW at \in ReqStates, Contend(r, at)
    PROVE  Contended(r, at)
<1> DEFINE rivals == {o \in Requests \ {r} : Owner(o) = Owner(r) /\ Underway(o)}
<1>1. contended' = IF at \in Ended THEN contended \ {o \in {r} : at # "refused"}
                    ELSE contended \cup rivals \cup {o \in {r} : rivals # {}}
  BY DEF Contend
<1>2. contended \subseteq Requests /\ rivals \subseteq Requests
  BY DEF Types
<1>3. \A o \in Requests : o # r /\ Owner(o) = Owner(r) /\ Underway(o) => o \in rivals
  OBVIOUS
<1> HIDE DEF rivals
<1>4. CASE at = "refused"
  BY <1>1, <1>2, <1>4 DEF Contended, Ended
<1>5. CASE at \in Ended /\ at # "refused"
  BY <1>1, <1>2, <1>5 DEF Contended
<1>6. CASE at \notin Ended /\ rivals # {}
  <2>1. contended' = contended \cup rivals \cup {r}
    BY <1>1, <1>6 DEF Ended
  <2>2. QED
    BY <1>2, <1>3, <1>6, <2>1 DEF Contended, Ended
<1>7. CASE at \notin Ended /\ rivals = {}
  <2>1. contended' = contended
    BY <1>1, <1>7 DEF Ended
  <2>2. QED
    BY <1>2, <1>3, <1>7, <2>1 DEF Contended, Ended
<1>8. QED
  BY <1>4, <1>5, <1>6, <1>7

\* A step of request r, and of no other, to [at, n, retry].
Moved(r, at, n, retry) ==
    /\ q' \in [Requests -> [at : ReqStates, nonce : Nat, retry : BOOLEAN]]
    /\ q'[r].at = at
    /\ q'[r].nonce = n
    /\ q'[r].retry = retry
    /\ \A o \in Requests : o # r => q'[o] = q[o]
    /\ Contended(r, at)

LEMMA StepMoves ==
    ASSUME Types, NEW r \in Requests, NEW at \in ReqStates, Step(r, at)
    PROVE  IF at \in Ended THEN Moved(r, at, 0, FALSE)
           ELSE Moved(r, at, q[r].nonce, q[r].retry)
<1>1. Contended(r, at)
  BY ContendStep DEF Step
<1>2. q[r] \in [at : ReqStates, nonce : Nat, retry : BOOLEAN]
  BY DEF Types
<1>3. CASE at \in Ended
  <2> DEFINE n == [at |-> at, nonce |-> 0, retry |-> FALSE]
  <2>1. q' = [q EXCEPT ![r] = n]
    BY <1>3 DEF Step
  <2>2. n \in [at : ReqStates, nonce : Nat, retry : BOOLEAN] /\ n.at = at /\ n.nonce = 0
    OBVIOUS
  <2>3. n.retry = FALSE
    OBVIOUS
  <2> HIDE DEF n
  <2>4. q' \in [Requests -> [at : ReqStates, nonce : Nat, retry : BOOLEAN]]
    BY <2>1, <2>2 DEF Types
  <2>5. q'[r] = n /\ \A o \in Requests : o # r => q'[o] = q[o]
    BY <2>1 DEF Types
  <2>6. QED
    BY <1>1, <1>3, <2>2, <2>3, <2>4, <2>5 DEF Moved
<1>4. CASE at \notin Ended
  <2> DEFINE n == [q[r] EXCEPT !.at = at]
  <2>1. q' = [q EXCEPT ![r] = n]
    BY <1>4 DEF Step
  <2>2. n \in [at : ReqStates, nonce : Nat, retry : BOOLEAN] /\ n.at = at /\ n.nonce = q[r].nonce
    BY <1>2
  <2>3. n.retry = q[r].retry
    BY <1>2
  <2> HIDE DEF n
  <2>4. q' \in [Requests -> [at : ReqStates, nonce : Nat, retry : BOOLEAN]]
    BY <2>1, <2>2 DEF Types
  <2>5. q'[r] = n /\ \A o \in Requests : o # r => q'[o] = q[o]
    BY <2>1 DEF Types
  <2>6. QED
    BY <1>1, <1>4, <2>2, <2>3, <2>4, <2>5 DEF Moved
<1>5. QED
  BY <1>3, <1>4

LEMMA BeginMoves ==
    ASSUME Types, NEW r \in Requests, Begin(r)
    PROVE  Moved(r, "begun", q[r].nonce, q[r].retry)
<1>1. Contended(r, "begun")
  BY ContendStep DEF Begin, ReqStates, NotTaken
<1> DEFINE n == [q[r] EXCEPT !.at = "begun"]
<1>2. q[r] \in [at : ReqStates, nonce : Nat, retry : BOOLEAN]
  BY DEF Types
<1>3. q' = [q EXCEPT ![r] = n]
  BY DEF Begin
<1>4. /\ n \in [at : ReqStates, nonce : Nat, retry : BOOLEAN]
      /\ n.at = "begun" /\ n.nonce = q[r].nonce
  BY <1>2 DEF ReqStates, NotTaken
<1>5. n.retry = q[r].retry
  BY <1>2
<1> HIDE DEF n
<1>6. q' \in [Requests -> [at : ReqStates, nonce : Nat, retry : BOOLEAN]]
  BY <1>3, <1>4 DEF Types
<1>7. q'[r] = n /\ \A o \in Requests : o # r => q'[o] = q[o]
  BY <1>3 DEF Types
<1>8. QED
  BY <1>1, <1>4, <1>5, <1>6, <1>7 DEF Moved

LEMMA DoRequestMoves ==
    ASSUME Types, NEW r \in Requests, DoRequest(r)
    PROVE  Moved(r, "sent", CurrentNonce(r), q[r].retry)
<1>1. Contended(r, "sent")
  BY ContendStep DEF DoRequest, ReqStates, NotTaken
<1> DEFINE n == [q[r] EXCEPT !.at = "sent", !.nonce = CurrentNonce(r)]
<1>2. q[r] \in [at : ReqStates, nonce : Nat, retry : BOOLEAN]
  BY DEF Types
<1>3. q' = [q EXCEPT ![r] = n]
  BY DEF DoRequest, Types
<1>4. CurrentNonce(r) \in Nat
  BY CurrentIsNat
<1>5. /\ n \in [at : ReqStates, nonce : Nat, retry : BOOLEAN]
      /\ n.at = "sent" /\ n.nonce = CurrentNonce(r)
  BY <1>2, <1>4 DEF ReqStates, NotTaken
<1>6. n.retry = q[r].retry
  BY <1>2
<1> HIDE DEF n
<1>7. q' \in [Requests -> [at : ReqStates, nonce : Nat, retry : BOOLEAN]]
  BY <1>3, <1>5 DEF Types
<1>8. q'[r] = n /\ \A o \in Requests : o # r => q'[o] = q[o]
  BY <1>3 DEF Types
<1>9. QED
  BY <1>1, <1>5, <1>6, <1>7, <1>8 DEF Moved

LEMMA FetchNonceMoves ==
    ASSUME Types, NEW r \in Requests, FetchNonce(r)
    PROVE  Moved(r, "fetched", srv[Owner(r)], TRUE)
<1>1. Contended(r, "fetched")
  BY ContendStep DEF FetchNonce, ReqStates, NotTaken
<1> DEFINE n == [q[r] EXCEPT !.at = "fetched", !.nonce = srv[Owner(r)], !.retry = TRUE]
<1>2. q[r] \in [at : ReqStates, nonce : Nat, retry : BOOLEAN]
  BY DEF Types
<1>3. q' = [q EXCEPT ![r] = n]
  BY DEF FetchNonce, Types
<1>4. srv[Owner(r)] \in Nat
  BY OwnerIsVisor DEF Types
<1>5. /\ n \in [at : ReqStates, nonce : Nat, retry : BOOLEAN]
      /\ n.at = "fetched" /\ n.nonce = srv[Owner(r)]
  BY <1>2, <1>4 DEF ReqStates, NotTaken
<1>6. n.retry = TRUE
  BY <1>2
<1> HIDE DEF n
<1>7. q' \in [Requests -> [at : ReqStates, nonce : Nat, retry : BOOLEAN]]
  BY <1>3, <1>5 DEF Types
<1>8. q'[r] = n /\ \A o \in Requests : o # r => q'[o] = q[o]
  BY <1>3 DEF Types
<1>9. QED
  BY <1>1, <1>5, <1>6, <1>7, <1>8 DEF Moved

\* What the discovery does with a request: it executes it, or not.
LEMMA DiscoveryMoves ==
    ASSUME Types, NEW r \in Requests, Discovery(r)
    PROVE  \/ /\ q[r].nonce = srv[Owner(r)]
              /\ \E at \in {"taken", "denied"} :
                    /\ Moved(r, at, q[r].nonce, q[r].retry)
                    /\ at = "denied" => r.kind = "status"
              /\ srv' = [srv EXCEPT ![Owner(r)] = @ + 1]
              /\ execs' = [execs EXCEPT ![r] = @ + 1]
              /\ disc' = IF r.kind = "register" THEN [disc EXCEPT ![r.of] = wire[r.of].sigs]
                         ELSE disc
           \/ /\ q[r].nonce # srv[Owner(r)]
              /\ \/ q[r].retry /\ Moved(r, "refused", 0, FALSE)
                 \/ ~q[r].retry /\ Moved(r, "invalid", q[r].nonce, q[r].retry)
              /\ UNCHANGED <<srv, disc, execs>>
<1>1. CASE IsNonceValid(r)
  <2>1. PICK at \in {"taken", "denied"} : Step(r, at) /\ (at = "denied" => r.kind = "status")
    BY <1>1 DEF Discovery
  <2>2. at \in ReqStates /\ at \notin Ended
    BY DEF ReqStates, Ended
  <2>3. Moved(r, at, q[r].nonce, q[r].retry)
    BY <2>1, <2>2, StepMoves
  <2>4. /\ srv' = [srv EXCEPT ![Owner(r)] = @ + 1]
        /\ execs' = [execs EXCEPT ![r] = @ + 1]
        /\ disc' = IF r.kind = "register" THEN [disc EXCEPT ![r.of] = wire[r.of].sigs]
                   ELSE disc
    BY <1>1, Zenon DEF Discovery
  <2>5. QED
    BY <1>1, <2>1, <2>3, <2>4, Zenon DEF IsNonceValid
<1>2. CASE ~IsNonceValid(r)
  <2>1. Step(r, IF q[r].retry THEN "refused" ELSE "invalid") /\ UNCHANGED <<srv, disc, execs>>
    BY <1>2, Zenon DEF Discovery
  <2>2. "refused" \in Ended /\ "invalid" \notin Ended /\ "refused" \in ReqStates /\ "invalid" \in ReqStates
    BY DEF ReqStates, NotTaken, Ended
  <2>3. CASE q[r].retry
    <3>1. Step(r, "refused")
      BY <2>1, <2>3, Zenon
    <3>2. QED
      BY <1>2, <2>1, <2>2, <2>3, <3>1, StepMoves DEF IsNonceValid
  <2>4. CASE ~q[r].retry
    <3>1. Step(r, "invalid")
      BY <2>1, <2>4, Zenon
    <3>2. QED
      BY <1>2, <2>1, <2>2, <2>4, <3>1, StepMoves DEF IsNonceValid
  <2>5. QED
    BY <2>3, <2>4
<1>3. QED
  BY <1>1, <1>2

\* The other actions of a request.
LEMMA RestMoves ==
    ASSUME Types, NEW r \in Requests
    PROVE  /\ RequestCancelled(r) \/ RequestLost(r) => Moved(r, "error", 0, FALSE)
           /\ SetNonce(r) => Moved(r, "set", q[r].nonce, q[r].retry)
           /\ Answered(r) => \E at \in {"ok", "failed"} :
                 /\ Moved(r, at, 0, FALSE)
                 /\ q[r].at = IF at = "ok" THEN "taken" ELSE "denied"
<1>1. {"error", "ok", "failed"} \subseteq Ended /\ "set" \notin Ended
      /\ {"error", "ok", "failed", "set"} \subseteq ReqStates
  BY DEF Ended, ReqStates, NotTaken
<1>2. ASSUME RequestCancelled(r) \/ RequestLost(r) PROVE Moved(r, "error", 0, FALSE)
  BY <1>1, <1>2, StepMoves DEF RequestCancelled, RequestLost
<1>3. ASSUME SetNonce(r) PROVE Moved(r, "set", q[r].nonce, q[r].retry)
  BY <1>1, <1>3, StepMoves DEF SetNonce
<1>4. ASSUME Answered(r)
      PROVE  \E at \in {"ok", "failed"} : /\ Moved(r, at, 0, FALSE)
                                          /\ q[r].at = IF at = "ok" THEN "taken" ELSE "denied"
  <2>1. PICK at \in {"ok", "failed"} : Step(r, at) /\ q[r].at = IF at = "ok" THEN "taken" ELSE "denied"
    BY <1>4 DEF Answered
  <2>2. Moved(r, at, 0, FALSE)
    BY <1>1, <2>1, StepMoves
  <2>3. QED
    BY <2>1, <2>2
<1>5. QED
  BY <1>2, <1>3, <1>4

\* The client's nonce stays a number.
LEMMA PutNonceTypes ==
    ASSUME Types, NEW r \in Requests, NEW n \in Nat, PutNonce(r, n)
    PROVE  /\ nonce' \in [Visors -> Nat] /\ own' \in [Visors -> Nat]
           /\ \A v \in Visors : v # Owner(r) => nonce'[v] = nonce[v] /\ own'[v] = own[v]
  BY OwnerIsVisor, RequestNames, SettlementAssumption DEF PutNonce, Types, Owner

LEMMA NonceTypes ==
    ASSUME Types, NEW r \in Requests, Request(r) \/ RequestLost(r)
    PROVE  /\ nonce' \in [Visors -> Nat] /\ own' \in [Visors -> Nat] /\ srv' \in [Visors -> Nat]
           /\ execs' \in [Requests -> Nat]
           /\ \A v \in Visors : v # Owner(r) => /\ nonce'[v] = nonce[v] /\ own'[v] = own[v]
                                                /\ srv'[v] = srv[v]
<1>1. CASE DoRequest(r) \/ RequestCancelled(r) \/ FetchNonce(r) \/ RequestLost(r)
  BY <1>1 DEF DoRequest, RequestCancelled, FetchNonce, RequestLost, discVars, Types
<1>2. CASE Discovery(r)
  <2>1. /\ srv' = srv \/ srv' = [srv EXCEPT ![Owner(r)] = @ + 1]
        /\ execs' = execs \/ execs' = [execs EXCEPT ![r] = @ + 1]
    BY <1>2, DiscoveryMoves
  <2>2. UNCHANGED <<nonce, own>>
    BY <1>2 DEF Discovery
  <2>3. Owner(r) \in Visors
    BY OwnerIsVisor
  <2>4. srv' \in [Visors -> Nat] /\ \A v \in Visors : v # Owner(r) => srv'[v] = srv[v]
    BY <2>1, <2>3 DEF Types
  <2>5. execs' \in [Requests -> Nat]
    BY <2>1 DEF Types
  <2>6. QED
    BY <2>2, <2>4, <2>5 DEF Types
<1>3. CASE SetNonce(r)
  <2>1. PutNonce(r, q[r].nonce) /\ UNCHANGED <<srv, execs>>
    BY <1>3 DEF SetNonce, discVars
  <2>2. q[r].nonce \in Nat
    BY DEF Types
  <2>3. QED
    BY <2>1, <2>2, PutNonceTypes DEF Types
<1>4. CASE Answered(r)
  <2>1. UNCHANGED <<srv, execs>>
    BY <1>4 DEF Answered, discVars
  <2>2. CASE PutNonce(r, CurrentNonce(r) + 1)
    <3>1. CurrentNonce(r) \in Nat
      BY CurrentIsNat
    <3>2. CurrentNonce(r) + 1 \in Nat
      BY <3>1
    <3>3. QED
      BY <2>1, <2>2, <3>2, PutNonceTypes DEF Types
  <2>3. CASE UNCHANGED <<nonce, own>>
    BY <2>1, <2>3 DEF Types
  <2>4. QED
    BY <1>4, <2>2, <2>3 DEF Answered
<1>5. QED
  BY <1>1, <1>2, <1>3, <1>4 DEF Request

\* A request that moves leaves the settlements alone.
LEMMA RequestAlone ==
    ASSUME NEW r \in Requests, Request(r) \/ RequestLost(r)
    PROVE  UNCHANGED <<ends, ini, res, do, wire, accept>>
  BY DEF Request, RequestLost, DoRequest, RequestCancelled, Discovery, FetchNonce, SetNonce, Answered,
         hsVars

-----------------------------------------------------------------------------
(* Do executes a request at most once.                                     *)

\* A step of a request.
LEMMA OnceRequest ==
    ASSUME OnceInv, NEW r \in Requests, Request(r) \/ RequestLost(r)
    PROVE  OnceInv'
<1> USE DEF OnceInv
<1>1. UNCHANGED <<ends, ini, res>>
  BY RequestAlone
<1>2. ASSUME NEW at, NEW n, NEW retry, Moved(r, at, n, retry), q[r].at # "none",
             \/ execs' = execs /\ (at \in NotTaken => q[r].at \in NotTaken)
             \/ execs' = [execs EXCEPT ![r] = @ + 1] /\ q[r].at \in NotTaken /\ at \notin NotTaken,
             at # "none"
      PROVE  OnceInv'
  <2>1. Types'
    BY <1>1, <1>2, NonceTypes DEF Types, Moved, Contended
  <2>2. RegBegins'
    BY <1>1, <1>2, RequestNames DEF RegBegins, Moved
  <2>3. \A o \in Requests : execs'[o] <= 1 /\ (q'[o].at \in NotTaken => execs'[o] = 0)
    BY <1>2 DEF Moved, Types
  <2>4. QED
    BY <2>1, <2>2, <2>3
<1>3. CASE DoRequest(r)
  BY <1>2, <1>3, DoRequestMoves DEF DoRequest, discVars, NotTaken
<1>4. CASE RequestCancelled(r) \/ RequestLost(r)
  BY <1>2, <1>4, RestMoves DEF RequestCancelled, RequestLost, discVars, NotTaken
<1>5. CASE Discovery(r)
  <2>1. q[r].at = "sent" /\ q[r].at \in NotTaken
    BY <1>5 DEF Discovery, NotTaken
  <2>2. QED
    BY <1>2, <1>5, <2>1, DiscoveryMoves DEF NotTaken
<1>6. CASE FetchNonce(r)
  BY <1>2, <1>6, FetchNonceMoves DEF FetchNonce, discVars, NotTaken
<1>7. CASE SetNonce(r)
  BY <1>2, <1>7, RestMoves DEF SetNonce, discVars, NotTaken
<1>8. CASE Answered(r)
  BY <1>2, <1>8, RestMoves DEF Answered, discVars, NotTaken
<1>9. QED
  BY <1>3, <1>4, <1>5, <1>6, <1>7, <1>8 DEF Request

\* The handshake's own steps, which make no request.
Handshake(s) ==
    \/ InitSend(s) \/ InitRead(s) \/ InitDone(s)
    \/ RespReceive(s) \/ RespAccept(s) \/ RespDone(s)
    \/ Break(s) \/ \E side \in {"init", "resp"} : TimeLimit(s, side)

LEMMA HandshakeAlone ==
    ASSUME Types, NEW s \in Settlements, Handshake(s)
    PROVE  /\ UNCHANGED <<ends, q, nonce, own, srv, disc, execs, contended>>
           /\ ini' \in [Settlements -> {"none", "sent", "accepted", "rejected", "done"}]
           /\ res' \in [Settlements -> {"none", "signed", "registering", "registered", "failed",
                                        "done"}]
           /\ \A t \in Settlements : res'[t] \in {"none", "signed"} => res[t] \in {"none", "signed"}
<1>1. UNCHANGED <<ends, q, nonce, own, srv, disc, execs, contended>>
  BY DEF Handshake, InitSend, InitRead, InitDone, RespReceive, RespAccept, RespDone, Break, TimeLimit,
         authVars, discVars
<1>2. \/ ini' = ini
      \/ \E x \in {"sent", "accepted", "rejected", "done"} : ini' = [ini EXCEPT ![s] = x]
  BY DEF Handshake, InitSend, InitRead, InitDone, RespReceive, RespAccept, RespDone, Break, TimeLimit,
         hsVars
<1>3. \/ res' = res
      \/ \E x \in {"signed", "registered", "failed", "done"} :
            res' = [res EXCEPT ![s] = x] /\ (x = "signed" => res[s] = "none")
  BY DEF Handshake, InitSend, InitRead, InitDone, RespReceive, RespAccept, RespDone, Break, TimeLimit,
         hsVars
<1>4. QED
  BY <1>1, <1>2, <1>3 DEF Types

\* The steps that begin a request, r for settlement s or for a lookup.
Begins(r) ==
    \/ \E s \in Settlements : r = Stat(s) /\ InitStatus(s)
    \/ \E s \in Settlements : r = Reg(s) /\ RespRegister(s)
    \/ \E v \in Lookups : r = LookupOf(v) /\ Lookup(v)

LEMMA BeginsAlone ==
    ASSUME OnceInv, NEW r \in Requests, Begins(r)
    PROVE  /\ Begin(r) /\ q[r].at = "none"
           /\ UNCHANGED <<ends, ini, do, wire, accept, nonce, srv, disc, execs>>
           /\ own' \in [Visors -> Nat]
           /\ \A v \in Visors : r # LookupOf(v) => own'[v] = own[v]
           /\ \/ res' = res /\ (r.kind = "register" => FALSE)
              \/ \E s \in Settlements : /\ r = Reg(s) /\ res[s] = "signed"
                                        /\ res' = [res EXCEPT ![s] = "registering"]
<1>1. ASSUME NEW s \in Settlements, r = Stat(s), InitStatus(s)
      PROVE  /\ Begin(r) /\ q[r].at = "none" /\ r.kind = "status"
             /\ UNCHANGED <<ends, ini, res, do, wire, accept, nonce, own, srv, disc, execs>>
  BY <1>1 DEF InitStatus, hsVars, discVars, Stat
<1>2. ASSUME NEW s \in Settlements, r = Reg(s), RespRegister(s)
      PROVE  /\ Begin(r) /\ q[r].at = "none" /\ res[s] = "signed"
             /\ res' = [res EXCEPT ![s] = "registering"]
             /\ UNCHANGED <<ends, ini, do, wire, accept, nonce, own, srv, disc, execs>>
  BY <1>2 DEF RespRegister, discVars, OnceInv, RegBegins
<1>3. ASSUME NEW v \in Lookups, r = LookupOf(v), Lookup(v)
      PROVE  /\ Begin(r) /\ q[r].at = "none" /\ r.kind = "lookup"
             /\ UNCHANGED <<ends, ini, res, do, wire, accept, nonce, srv, disc, execs>>
             /\ own' = [own EXCEPT ![v] = srv[v]]
  BY <1>3 DEF Lookup, hsVars, discVars, LookupOf
<1>4. own \in [Visors -> Nat] /\ srv \in [Visors -> Nat] /\ Lookups \subseteq Visors
  BY SettlementAssumption DEF OnceInv, Types
<1>5. QED
  BY <1>1, <1>2, <1>3, <1>4 DEF Begins

\* The steps.
LEMMA NextSplit ==
    ASSUME [Next]_vars
    PROVE  \/ \E r \in Requests : Request(r) \/ RequestLost(r)
           \/ \E r \in Requests : Begins(r)
           \/ \E s \in Settlements : Handshake(s)
           \/ UNCHANGED vars
<1>1. ASSUME NEW s \in Settlements, InitStatus(s) PROVE \E r \in Requests : Begins(r)
  BY <1>1, RequestNames DEF Begins
<1>2. ASSUME NEW s \in Settlements, RespRegister(s) PROVE \E r \in Requests : Begins(r)
  BY <1>2, RequestNames DEF Begins
<1>3. ASSUME NEW v \in Lookups, Lookup(v) PROVE \E r \in Requests : Begins(r)
  BY <1>3, RequestNames DEF Begins
<1>4. QED
  BY <1>1, <1>2, <1>3 DEF Next, System, Environment, Handshake

LEMMA OnceBegins ==
    ASSUME OnceInv, NEW r \in Requests, Begins(r)
    PROVE  OnceInv'
<1>1. /\ Moved(r, "begun", q[r].nonce, q[r].retry) /\ q[r].at = "none"
      /\ UNCHANGED <<ends, ini, nonce, srv, execs>> /\ own' \in [Visors -> Nat]
  BY BeginsAlone, BeginMoves DEF OnceInv
<1>2. \/ res' = res /\ (r.kind = "register" => FALSE)
      \/ \E s \in Settlements : /\ r = Reg(s) /\ res[s] = "signed"
                                /\ res' = [res EXCEPT ![s] = "registering"]
  BY BeginsAlone
<1>3. Types'
  BY <1>1, <1>2 DEF OnceInv, Types, Moved, Contended
<1>4. RegBegins'
  <2>1. CASE res' = res /\ (r.kind = "register" => FALSE)
    <3>1. \A s \in Settlements : Reg(s) # r
      BY <2>1 DEF Reg
    <3>2. QED
      BY <1>1, <2>1, <3>1, RequestNames DEF OnceInv, RegBegins, Moved
  <2>2. ASSUME NEW s \in Settlements, r = Reg(s), res' = [res EXCEPT ![s] = "registering"]
        PROVE  RegBegins'
    BY <1>1, <2>2, RequestNames DEF OnceInv, Types, RegBegins, Moved
  <2>3. QED
    BY <1>2, <2>1, <2>2
<1>5. \A o \in Requests : execs'[o] <= 1 /\ (q'[o].at \in NotTaken => execs'[o] = 0)
  BY <1>1 DEF OnceInv, Moved, NotTaken
<1>6. QED
  BY <1>3, <1>4, <1>5 DEF OnceInv

LEMMA OnceStep == OnceInv /\ [Next]_vars => OnceInv'
<1> SUFFICES ASSUME OnceInv, [Next]_vars PROVE OnceInv'
  OBVIOUS
<1>1. ASSUME NEW s \in Settlements, Handshake(s) PROVE OnceInv'
  BY <1>1, HandshakeAlone DEF OnceInv, Types, RegBegins
<1>2. CASE UNCHANGED vars
  BY <1>2 DEF vars, hsVars, authVars, discVars, OnceInv, Types, RegBegins
<1>3. QED
  BY <1>1, <1>2, NextSplit, OnceRequest, OnceBegins

LEMMA OnceInit == Init => OnceInv
<1> SUFFICES ASSUME Init PROVE OnceInv
  OBVIOUS
<1>1. q \in [Requests -> [at : ReqStates, nonce : Nat, retry : BOOLEAN]]
  <2>1. [at |-> "none", nonce |-> 0, retry |-> FALSE]
           \in [at : ReqStates, nonce : Nat, retry : BOOLEAN]
    BY DEF ReqStates, NotTaken
  <2>2. QED
    BY <2>1 DEF Init
<1>2. Types
  BY <1>1 DEF Init, Types
<1>3. RegBegins
  BY RequestNames DEF Init, RegBegins
<1>4. QED
  BY <1>2, <1>3 DEF Init, OnceInv

\* Whatever is lost, cancelled, refused and repeated: the discovery executes no request
\* of Client.Do twice.
THEOREM OnceTheorem == Spec => []AtMostOnce
<1>1. OnceInv => AtMostOnce
  BY DEF OnceInv, AtMostOnce
<1>2. QED
  BY <1>1, OnceInit, OnceStep, PTL DEF Spec

-----------------------------------------------------------------------------
(* A request is refused only when it had a rival.                          *)

\* What a step of r has to show: the requests of other visors are not affected, and those
\* of its own that are under way are contended.
LEMMA ContendMove ==
    ASSUME OnceInv, ContendInv, NEW r \in Requests, NEW at \in ReqStates, NEW n, NEW retry,
           Moved(r, at, n, retry), UNCHANGED ends,
           \A v \in Visors : v # Owner(r) => /\ nonce'[v] = nonce[v] /\ own'[v] = own[v]
                                             /\ srv'[v] = srv[v],
           at \in Ended => Underway(r),
           at # "none",
           at = "refused" => r \in contended,
           at = "begun" => retry = FALSE,
           r \notin contended' => Fresh(r)'
    PROVE  ContendInv'
<1>1. /\ \A o \in Requests : Owner(o)' = Owner(o)
      /\ \A o \in Requests : o # r => (Underway(o)' <=> Underway(o))
      /\ Underway(r)' => at \notin Ended
  BY DEF Owner, Underway, Moved
<1>2. \A o \in Requests : o # r /\ o \in contended => o \in contended'
  BY DEF Moved, Contended, Ended
<1>3. ASSUME NEW o \in Requests, o # r, Owner(o) = Owner(r), Underway(o), at \notin Ended
      PROVE  o \in contended' /\ r \in contended'
  BY <1>3 DEF Moved, Contended
<1>4. \A a, b \in Requests : (a # b /\ Owner(a)' = Owner(b)' /\ Underway(a)' /\ Underway(b)') =>
          a \in contended'
  <2> SUFFICES ASSUME NEW a \in Requests, NEW b \in Requests, a # b, Owner(a) = Owner(b),
                      Underway(a)', Underway(b)'
               PROVE  a \in contended'
    BY <1>1
  <2>1. CASE a = r
    BY <1>1, <1>3, <2>1
  <2>2. CASE b = r
    BY <1>1, <1>3, <2>2
  <2>3. CASE a # r /\ b # r
    BY <1>1, <1>2, <2>3 DEF ContendInv
  <2>4. QED
    BY <2>1, <2>2, <2>3
<1>5. RefusedOnlyWhenContended'
  <2> SUFFICES ASSUME NEW o \in Requests, q'[o].at = "refused" PROVE o \in contended'
    BY DEF RefusedOnlyWhenContended
  <2>1. CASE o = r
    BY <2>1 DEF Moved, Contended
  <2>2. CASE o # r
    BY <1>2, <2>2 DEF Moved, ContendInv, RefusedOnlyWhenContended
  <2>3. QED
    BY <2>1, <2>2
<1>6. \A o \in Requests : q'[o].at \in {"none", "begun"} => q'[o].retry = FALSE
  BY DEF Moved, ContendInv
<1>7. ASSUME NEW o \in Requests, o \notin contended' PROVE Fresh(o)'
  <2>1. CASE o # r /\ Underway(o)
    <3>1. Owner(o) # Owner(r)
      BY <1>2, <1>3, <1>7, <2>1 DEF ContendInv
    <3>2. o \notin contended
      BY <1>2, <1>7, <2>1
    <3>3. q'[o] = q[o]
      BY <2>1 DEF Moved
    <3>4. Owner(o) \in Visors /\ Owner(o)' = Owner(o)
      BY <1>1, OwnerIsVisor DEF OnceInv
    <3>5. srv'[Owner(o)] = srv[Owner(o)] /\ nonce'[Owner(o)] = nonce[Owner(o)]
          /\ own'[Owner(o)] = own[Owner(o)]
      BY <3>1, <3>4
    <3>6. CurrentNonce(o)' = CurrentNonce(o)
      <4>1. CASE o.kind = "lookup"
        <5>1. Owner(o) = o.of
          BY <4>1 DEF Owner
        <5>2. QED
          BY <3>5, <4>1, <5>1 DEF CurrentNonce
      <4>2. CASE o.kind # "lookup"
        BY <3>4, <3>5, <4>2 DEF CurrentNonce
      <4>3. QED
        BY <4>1, <4>2
    <3>7. Fresh(o)
      BY <3>2 DEF ContendInv
    <3>8. QED
      BY <3>3, <3>4, <3>5, <3>6, <3>7 DEF Fresh
  <2>2. CASE o # r /\ ~Underway(o)
    BY <2>2 DEF Moved, Underway, Ended, Fresh
  <2>3. CASE o = r
    BY <1>7, <2>3
  <2>4. QED
    BY <2>1, <2>2, <2>3
<1>8. QED
  BY <1>4, <1>5, <1>6, <1>7 DEF ContendInv

\* A step of a request.
LEMMA ContendRequest ==
    ASSUME OnceInv, ContendInv, NEW r \in Requests, Request(r) \/ RequestLost(r)
    PROVE  ContendInv'
<1>1. UNCHANGED ends
  BY RequestAlone
<1>2. Types
  BY DEF OnceInv
<1>3. \A v \in Visors : v # Owner(r) => /\ nonce'[v] = nonce[v] /\ own'[v] = own[v]
                                        /\ srv'[v] = srv[v]
  BY <1>2, NonceTypes
<1>4. Owner(r)' = Owner(r) /\ Owner(r) \in Visors
  BY <1>1, <1>2, OwnerIsVisor DEF Owner
<1>5. ASSUME NEW at \in ReqStates, NEW n, NEW retry, Moved(r, at, n, retry),
             at \notin {"none", "begun"}, at \in Ended => Underway(r),
             at = "refused" => r \in contended, r \notin contended' => Fresh(r)'
      PROVE  ContendInv'
  BY <1>1, <1>3, <1>5, ContendMove
<1>6. ASSUME NEW at, NEW n, NEW retry, Moved(r, at, n, retry), at \notin {"fetched", "set", "sent"}
      PROVE  Fresh(r)'
  BY <1>6 DEF Moved, Fresh
<1>7. CASE DoRequest(r)
  <2>1. Moved(r, "sent", CurrentNonce(r), q[r].retry) /\ UNCHANGED srv
    BY <1>2, <1>7, DoRequestMoves DEF DoRequest, discVars
  <2>2. contended \subseteq contended'
    BY <2>1 DEF Moved, Contended, Ended
  <2>3. ASSUME r \notin contended' PROVE Fresh(r)'
    <3>1. Fresh(r) /\ (q[r].at = "begun" => q[r].retry = FALSE)
      BY <2>2, <2>3 DEF ContendInv
    <3>2. /\ q'[r].at = "sent" /\ q'[r].nonce = CurrentNonce(r) /\ q'[r].retry = q[r].retry
      BY <2>1 DEF Moved
    <3>3. q[r].at \in {"begun", "set"}
      BY <1>7 DEF DoRequest
    <3>4. q[r].retry => CurrentNonce(r) = srv[Owner(r)]
      BY <3>1, <3>3 DEF Fresh
    <3>5. QED
      BY <1>4, <2>1, <3>2, <3>4 DEF Fresh
  <2>4. QED
    BY <1>5, <2>1, <2>3 DEF ReqStates, NotTaken, Ended
<1>8. CASE RequestCancelled(r) \/ RequestLost(r)
  <2>1. Underway(r)
    BY <1>8 DEF RequestCancelled, RequestLost, Underway, Ended
  <2>2. Moved(r, "error", 0, FALSE)
    BY <1>2, <1>8, RestMoves
  <2>3. QED
    BY <1>5, <1>6, <2>1, <2>2 DEF ReqStates, Ended
<1>9. CASE Discovery(r)
  <2>1. q[r].at = "sent" /\ Underway(r)
    BY <1>9 DEF Discovery, Underway, Ended
  <2>2. CASE \E at \in {"taken", "denied"} : Moved(r, at, q[r].nonce, q[r].retry)
    BY <1>5, <1>6, <2>1, <2>2 DEF ReqStates
  <2>3. CASE q[r].nonce # srv[Owner(r)] /\ q[r].retry /\ Moved(r, "refused", 0, FALSE)
    <3>1. r \in contended
      BY <2>1, <2>3 DEF ContendInv, Fresh
    <3>2. QED
      BY <1>5, <1>6, <2>1, <2>3, <3>1 DEF ReqStates, Ended
  <2>4. CASE Moved(r, "invalid", q[r].nonce, q[r].retry)
    BY <1>5, <1>6, <2>1, <2>4 DEF ReqStates, NotTaken
  <2>5. QED
    BY <1>2, <1>9, <2>2, <2>3, <2>4, DiscoveryMoves
<1>10. CASE FetchNonce(r)
  <2>1. Moved(r, "fetched", srv[Owner(r)], TRUE) /\ UNCHANGED srv
    BY <1>2, <1>10, FetchNonceMoves DEF FetchNonce, discVars
  <2>2. Fresh(r)'
    BY <1>4, <2>1 DEF Moved, Fresh
  <2>3. QED
    BY <1>5, <2>1, <2>2 DEF ReqStates, NotTaken, Ended
<1>11. CASE SetNonce(r)
  <2>1. /\ Moved(r, "set", q[r].nonce, q[r].retry) /\ UNCHANGED srv
        /\ PutNonce(r, q[r].nonce) /\ q[r].at = "fetched"
    BY <1>2, <1>11, RestMoves DEF SetNonce, discVars
  <2>2. CurrentNonce(r)' = q[r].nonce
    <3>1. CASE r.kind = "lookup"
      <4>1. r.of \in Visors
        BY <3>1, RequestNames, SettlementAssumption
      <4>2. QED
        BY <1>2, <2>1, <3>1, <4>1 DEF PutNonce, CurrentNonce, Types
    <3>2. CASE r.kind # "lookup"
      BY <1>2, <1>4, <2>1, <3>2 DEF PutNonce, CurrentNonce, Types
    <3>3. QED
      BY <3>1, <3>2
  <2>3. contended \subseteq contended'
    BY <2>1 DEF Moved, Contended, Ended
  <2>4. ASSUME r \notin contended' PROVE Fresh(r)'
    <3>1. q[r].nonce = srv[Owner(r)]
      BY <2>1, <2>3, <2>4 DEF ContendInv, Fresh
    <3>2. q'[r].at = "set"
      BY <2>1 DEF Moved
    <3>3. QED
      BY <1>4, <2>1, <2>2, <3>1, <3>2 DEF Fresh
  <2>5. QED
    BY <1>5, <2>1, <2>4 DEF ReqStates, NotTaken, Ended
<1>12. CASE Answered(r)
  <2>1. Underway(r)
    BY <1>12 DEF Answered, Underway, Ended
  <2>2. PICK at \in {"ok", "failed"} : Moved(r, at, 0, FALSE)
    BY <1>2, <1>12, RestMoves
  <2>3. QED
    BY <1>5, <1>6, <2>1, <2>2 DEF ReqStates, Ended
<1>13. QED
  BY <1>7, <1>8, <1>9, <1>10, <1>11, <1>12 DEF Request

LEMMA ContendBegins ==
    ASSUME OnceInv, ContendInv, NEW r \in Requests, Begins(r)
    PROVE  ContendInv'
<1>1. /\ Moved(r, "begun", q[r].nonce, q[r].retry) /\ q[r].at = "none"
      /\ UNCHANGED <<ends, nonce, srv>>
      /\ \A v \in Visors : r # LookupOf(v) => own'[v] = own[v]
  BY BeginsAlone, BeginMoves DEF OnceInv
<1>2. \A v \in Visors : r = LookupOf(v) => Owner(r) = v
  BY DEF LookupOf, Owner
<1>3. q[r].retry = FALSE
  BY <1>1 DEF ContendInv
<1>4. Fresh(r)'
  BY <1>1 DEF Moved, Fresh
<1>5. \A v \in Visors : v # Owner(r) => /\ nonce'[v] = nonce[v] /\ own'[v] = own[v]
                                        /\ srv'[v] = srv[v]
  BY <1>1, <1>2
<1>6. "begun" \in ReqStates /\ "begun" \notin Ended /\ UNCHANGED ends
  BY <1>1 DEF ReqStates, NotTaken, Ended
<1>7. QED
  BY <1>1, <1>3, <1>4, <1>5, <1>6, ContendMove

LEMMA ContendNext == OnceInv /\ ContendInv /\ [Next]_vars => ContendInv'
<1> SUFFICES ASSUME OnceInv, ContendInv, [Next]_vars PROVE ContendInv'
  OBVIOUS
<1>1. CASE UNCHANGED <<ends, q, nonce, own, srv, contended>>
  BY <1>1 DEF ContendInv, RefusedOnlyWhenContended, Fresh, Owner, Underway, CurrentNonce
<1>2. ASSUME NEW s \in Settlements, Handshake(s) PROVE ContendInv'
  BY <1>1, <1>2, HandshakeAlone DEF OnceInv
<1>3. CASE UNCHANGED vars
  BY <1>1, <1>3 DEF vars, authVars, discVars
<1>4. QED
  BY <1>2, <1>3, NextSplit, ContendRequest, ContendBegins

\* The one retry of Do is enough: with whatever nonce a client begins, and however many of
\* its answers were lost, a request that no other request of the visor overlaps is never
\* refused.
THEOREM RefusedTheorem == Spec => []RefusedOnlyWhenContended
<1>1. Init => ContendInv
  BY DEF Init, ContendInv, RefusedOnlyWhenContended, Fresh, Underway
<1>2. ContendInv => RefusedOnlyWhenContended
  BY DEF ContendInv
<1>3. QED
  BY <1>1, <1>2, OnceInit, OnceStep, ContendNext, PTL DEF Spec

-----------------------------------------------------------------------------
(* The initiator's success means a registered transport.                   *)

\* The entry that the initiator and then the responder have signed carries each
\* signature at the place of its edge.
LEMMA SignedByBoth ==
    ASSUME NEW a \in Nat, NEW b \in Nat, a # b
    PROVE  Sign(NewSignedEntry(MakeEntry(a, b), a), b).sigs = SortEdges(a, b)
<1>1. CASE a < b
  <2>1. /\ NewSignedEntry(MakeEntry(a, b), a) = [entry |-> <<a, b>>, sigs |-> <<a, NoSig>>]
        /\ SortEdges(a, b) = <<a, b>>
    BY <1>1 DEF NewSignedEntry, MakeEntry, SortEdges, Sign, EdgeIndex, NoSigs
  <2>2. QED
    BY <2>1 DEF Sign, EdgeIndex
<1>2. CASE ~(a < b)
  <2>1. /\ NewSignedEntry(MakeEntry(a, b), a) = [entry |-> <<b, a>>, sigs |-> <<NoSig, a>>]
        /\ SortEdges(a, b) = <<b, a>>
    BY <1>2 DEF NewSignedEntry, MakeEntry, SortEdges, Sign, EdgeIndex, NoSigs
  <2>2. QED
    BY <2>1 DEF Sign, EdgeIndex
<1>3. QED
  BY <1>1, <1>2

\* A step of a request.
LEMMA SettleRequest ==
    ASSUME OnceInv, SettleInv, NEW r \in Requests, Request(r) \/ RequestLost(r)
    PROVE  SettleInv'
<1>1. UNCHANGED <<ends, ini, res, do, wire, accept>>
  BY RequestAlone
<1>2. Types
  BY DEF OnceInv
<1>3. ASSUME NEW at, NEW n, NEW retry, Moved(r, at, n, retry), Underway(r),
             disc' = [s \in Settlements |-> disc'[s]],
             \A s \in Settlements : r # Reg(s) => disc'[s] = disc[s],
             \A s \in Settlements : r = Reg(s) =>
                /\ at \notin {"denied", "failed"}
                /\ at \in {"taken", "ok"} => disc'[s] = Edges(s)
      PROVE  SettleInv'
  <2>1. ASSUME NEW s \in Settlements PROVE SettleOne(s)'
    <3>1. SettleOne(s) /\ Edges(s)' = Edges(s) /\ Reg(s) \in Requests
      BY <1>1, RequestNames DEF SettleInv, Edges
    <3>2. CASE r # Reg(s)
      <4>1. q'[Reg(s)] = q[Reg(s)] /\ disc'[s] = disc[s]
        BY <1>3, <3>1, <3>2 DEF Moved
      <4>2. QED
        BY <1>1, <3>1, <4>1 DEF SettleOne, Underway
    <3>3. CASE r = Reg(s)
      <4>1. q'[Reg(s)].at = at /\ res[s] = "registering" /\ s \notin accept
        BY <1>3, <3>1, <3>3 DEF SettleOne, Moved
      <4>2. QED
        BY <1>1, <1>3, <3>1, <3>3, <4>1 DEF SettleOne
    <3>4. QED
      BY <3>2, <3>3
  <2>2. QED
    BY <1>1, <1>3, <2>1 DEF SettleInv
<1>4. CASE UNCHANGED disc /\ ~Discovery(r)
  <2>1. Underway(r)
    BY <1>4 DEF Request, RequestLost, DoRequest, RequestCancelled, FetchNonce, SetNonce, Answered,
                Underway, Ended
  <2>2. disc' = [s \in Settlements |-> disc'[s]] /\ \A s \in Settlements : disc'[s] = disc[s]
    BY <1>4 DEF SettleInv
  <2>3. ASSUME NEW at \in {"sent", "fetched", "error", "set"}, \E n, retry : Moved(r, at, n, retry)
        PROVE  SettleInv'
    BY <1>3, <2>1, <2>2, <2>3
  <2>4. CASE DoRequest(r) \/ FetchNonce(r)
    <3>1. Moved(r, "sent", CurrentNonce(r), q[r].retry) \/ Moved(r, "fetched", srv[Owner(r)], TRUE)
      BY <1>2, <2>4, DoRequestMoves, FetchNonceMoves
    <3>2. QED
      BY <2>3, <3>1
  <2>5. CASE RequestCancelled(r) \/ RequestLost(r) \/ SetNonce(r)
    <3>1. Moved(r, "error", 0, FALSE) \/ Moved(r, "set", q[r].nonce, q[r].retry)
      BY <1>2, <2>5, RestMoves
    <3>2. QED
      BY <2>3, <3>1
  <2>6. CASE Answered(r)
    <3>1. PICK at \in {"ok", "failed"} : /\ Moved(r, at, 0, FALSE)
                                         /\ q[r].at = IF at = "ok" THEN "taken" ELSE "denied"
      BY <1>2, <2>6, RestMoves
    <3>2. ASSUME NEW s \in Settlements, r = Reg(s)
          PROVE  at = "ok" /\ disc'[s] = Edges(s)
      BY <2>2, <3>1, <3>2 DEF SettleInv, SettleOne
    <3>3. QED
      BY <1>3, <2>1, <2>2, <3>1, <3>2
  <2>7. QED
    BY <1>4, <2>4, <2>5, <2>6 DEF Request
<1>5. CASE Discovery(r)
  <2>1. Underway(r)
    BY <1>5 DEF Discovery, Underway, Ended
  <2>2. CASE UNCHANGED disc /\ \E at \in {"refused", "invalid"} : \E n, retry : Moved(r, at, n, retry)
    BY <1>3, <2>1, <2>2 DEF SettleInv
  <2>3. ASSUME NEW at \in {"taken", "denied"}, Moved(r, at, q[r].nonce, q[r].retry),
               at = "denied" => r.kind = "status",
               disc' = IF r.kind = "register" THEN [disc EXCEPT ![r.of] = wire[r.of].sigs] ELSE disc
        PROVE  SettleInv'
    <3>1. /\ disc' = [s \in Settlements |-> disc'[s]]
          /\ \A s \in Settlements : r # Reg(s) => disc'[s] = disc[s]
      BY <2>3, RequestNames DEF SettleInv
    <3>2. ASSUME NEW s \in Settlements, r = Reg(s)
          PROVE  at = "taken" /\ disc'[s] = Edges(s)
      <4>1. r.kind = "register" /\ r.of = s
        BY <3>2 DEF Reg
      <4>2. wire[s].sigs = Edges(s)
        BY <2>1, <3>2 DEF SettleInv, SettleOne
      <4>3. QED
        BY <2>3, <4>1, <4>2 DEF SettleInv
    <3>3. QED
      BY <1>3, <2>1, <2>3, <3>1, <3>2
  <2>4. QED
    BY <1>2, <1>5, <2>2, <2>3, DiscoveryMoves
<1>6. Discovery(r) \/ UNCHANGED disc
  BY DEF Request, RequestLost, DoRequest, RequestCancelled, FetchNonce, SetNonce, Answered, discVars
<1>7. QED
  BY <1>4, <1>5, <1>6

LEMMA SettleBegins ==
    ASSUME OnceInv, SettleInv, NEW r \in Requests, Begins(r)
    PROVE  SettleInv'
<1>1. /\ Moved(r, "begun", q[r].nonce, q[r].retry) /\ q[r].at = "none"
      /\ UNCHANGED <<ends, ini, do, wire, accept, disc>>
  BY BeginsAlone, BeginMoves DEF OnceInv
<1>2. \/ res' = res /\ (r.kind = "register" => FALSE)
      \/ \E s \in Settlements : /\ r = Reg(s) /\ res[s] = "signed"
                                /\ res' = [res EXCEPT ![s] = "registering"]
  BY BeginsAlone
<1>3. ASSUME NEW s \in Settlements PROVE SettleOne(s)'
  <2>1. SettleOne(s) /\ Edges(s)' = Edges(s) /\ Reg(s) \in Requests
    BY <1>1, RequestNames DEF SettleInv, Edges
  <2>2. CASE r # Reg(s)
    <3>1. q'[Reg(s)] = q[Reg(s)]
      BY <1>1, <2>1, <2>2 DEF Moved
    <3>2. res'[s] = res[s]
      BY <1>2, <2>2 DEF OnceInv, Types
    <3>3. QED
      BY <1>1, <2>1, <3>1, <3>2 DEF SettleOne, Underway
  <2>3. CASE r = Reg(s)
    <3>1. res[s] = "signed" /\ res'[s] = "registering"
      BY <1>2, <2>3, RequestNames DEF OnceInv, Types, Reg
    <3>2. q'[Reg(s)].at = "begun"
      BY <1>1, <2>3 DEF Moved
    <3>3. QED
      BY <1>1, <2>1, <3>1, <3>2 DEF SettleOne
  <2>4. QED
    BY <2>2, <2>3
<1>4. QED
  BY <1>1, <1>3 DEF SettleInv

\* A step of the handshake of s, which concerns no other settlement.
LEMMA SettleHandshake ==
    ASSUME OnceInv, SettleInv, NEW s \in Settlements, Handshake(s)
    PROVE  SettleInv'
<1>1. /\ UNCHANGED <<ends, q, disc>> /\ Types
      /\ SettleOne(s) /\ Edges(s)' = Edges(s)
  BY HandshakeAlone DEF OnceInv, SettleInv, Edges
<1>2. ASSUME \/ ini' = ini
             \/ \E x : ini' = [ini EXCEPT ![s] = x],
             \/ res' = res
             \/ \E x : res' = [res EXCEPT ![s] = x],
             \/ wire' = wire
             \/ \E x : wire' = [wire EXCEPT ![s] = x],
             accept' \subseteq accept \cup {s}, accept \subseteq accept',
             do' \in [Settlements -> [init : {"no", "ok", "err", "timeout"},
                                      resp : {"no", "ok", "err", "timeout"}]],
             \A t \in Settlements : t # s => do'[t] = do[t],
             SettleOne(s)'
      PROVE  SettleInv'
  <2>1. ASSUME NEW t \in Settlements, t # s PROVE SettleOne(t)'
    <3>1. /\ ini'[t] = ini[t] /\ res'[t] = res[t] /\ wire'[t] = wire[t] /\ do'[t] = do[t]
          /\ t \in accept' <=> t \in accept
      BY <1>1, <1>2, <2>1 DEF Types, SettleInv
    <3>2. SettleOne(t) /\ Edges(t)' = Edges(t)
      BY <1>1 DEF SettleInv, Edges
    <3>3. QED
      BY <1>1, <3>1, <3>2 DEF SettleOne, Underway
  <2>2. wire' = [t \in Settlements |-> wire'[t]] /\ disc' = [t \in Settlements |-> disc'[t]]
    BY <1>1, <1>2 DEF SettleInv
  <2>3. QED
    BY <1>2, <2>1, <2>2 DEF SettleInv
<1> DEFINE DoType == [init : {"no", "ok", "err", "timeout"}, resp : {"no", "ok", "err", "timeout"}]
<1>3. do \in [Settlements -> DoType]
  BY DEF SettleInv
<1>4. CASE InitSend(s)
  <2>1. /\ ini[s] = "none" /\ ini' = [ini EXCEPT ![s] = "sent"]
        /\ wire' = [wire EXCEPT ![s] = NewSignedEntry(MakeEntry(ends[s].init, ends[s].resp),
                                                      ends[s].init)]
        /\ UNCHANGED <<res, do, accept>>
    BY <1>4 DEF InitSend
  <2>2. ini'[s] = "sent" /\ wire'[s] = NewSignedEntry(MakeEntry(ends[s].init, ends[s].resp), ends[s].init)
    BY <1>1, <2>1 DEF Types, SettleInv
  <2>3. SettleOne(s)'
    BY <1>1, <2>1, <2>2 DEF SettleOne, Underway
  <2>4. QED
    BY <1>2, <1>3, <2>1, <2>3
<1>5. CASE InitRead(s)
  <2>1. PICK x \in {"accepted", "rejected"} : /\ ini' = [ini EXCEPT ![s] = x]
                                              /\ x = "accepted" => s \in accept
    BY <1>5 DEF InitRead
  <2>2. ini[s] = "sent" /\ UNCHANGED <<res, do, wire, accept>>
    BY <1>5 DEF InitRead
  <2>3. ini'[s] = x
    BY <1>1, <2>1 DEF Types
  <2>4. SettleOne(s)'
    BY <1>1, <2>1, <2>2, <2>3 DEF SettleOne, Underway
  <2>5. QED
    BY <1>2, <1>3, <2>1, <2>2, <2>4
<1>6. CASE InitDone(s)
  <2>1. /\ ini[s] \in {"accepted", "rejected"} /\ ini' = [ini EXCEPT ![s] = "done"]
        /\ UNCHANGED <<res, wire, accept>>
    BY <1>6 DEF InitDone
  <2>2. /\ do' \in [Settlements -> DoType]
        /\ \A t \in Settlements : t # s => do'[t] = do[t]
        /\ do'[s].init = "ok" => ini[s] = "accepted" \/ do[s].init = "ok"
    BY <1>3, <1>6 DEF InitDone
  <2>3. ini'[s] = "done"
    BY <1>1, <2>1 DEF Types
  <2>4. SettleOne(s)'
    BY <1>1, <2>1, <2>2, <2>3 DEF SettleOne, Underway
  <2>5. QED
    BY <1>2, <2>1, <2>2, <2>4
<1>7. CASE RespReceive(s)
  <2>1. res[s] = "none" /\ UNCHANGED <<ini, do, accept>>
    BY <1>7 DEF RespReceive
  <2>2. CASE /\ wire[s] # NoEntry /\ wire' = [wire EXCEPT ![s] = Sign(@, ends[s].resp)]
             /\ res' = [res EXCEPT ![s] = "signed"]
    <3>1. /\ ini[s] # "none"
          /\ wire[s] = NewSignedEntry(MakeEntry(ends[s].init, ends[s].resp), ends[s].init)
      BY <1>1, <2>1, <2>2 DEF SettleOne
    <3>2. ends[s].init \in Nat /\ ends[s].resp \in Nat /\ ends[s].init # ends[s].resp
      BY <1>1, SettlementAssumption DEF Types
    <3>3. wire'[s].sigs = Edges(s)
      BY <2>2, <3>1, <3>2, SignedByBoth DEF SettleInv, Edges
    <3>4. res'[s] = "signed"
      BY <1>1, <2>2 DEF Types
    <3>5. SettleOne(s)'
      BY <1>1, <2>1, <3>1, <3>3, <3>4 DEF SettleOne, Underway
    <3>6. QED
      BY <1>2, <1>3, <2>1, <2>2, <3>5
  <2>3. CASE res' = [res EXCEPT ![s] = "failed"] /\ UNCHANGED wire
    <3>1. res'[s] = "failed"
      BY <1>1, <2>3 DEF Types
    <3>2. SettleOne(s)'
      BY <1>1, <2>1, <2>3, <3>1 DEF SettleOne, Underway
    <3>3. QED
      BY <1>2, <1>3, <2>1, <2>3, <3>2
  <2>4. QED
    BY <1>7, <2>2, <2>3 DEF RespReceive
<1>8. CASE RespAccept(s)
  <2>1. PICK x \in {"registered", "failed"} :
          /\ res' = [res EXCEPT ![s] = x]
          /\ (accept' = accept \cup {s} /\ x = "registered") \/ accept' = accept
    BY <1>8 DEF RespAccept
  <2>2. res[s] = "registering" /\ q[Reg(s)].at \in Ended /\ UNCHANGED <<ini, do, wire>>
    BY <1>8 DEF RespAccept
  <2>3. res'[s] = x
    BY <1>1, <2>1 DEF Types
  <2>4. SettleOne(s)'
    BY <1>1, <2>1, <2>2, <2>3 DEF SettleOne, Underway
  <2>5. QED
    BY <1>2, <1>3, <2>1, <2>2, <2>4
<1>9. CASE RespDone(s)
  <2>1. /\ res[s] \in {"registered", "failed"} /\ res' = [res EXCEPT ![s] = "done"]
        /\ UNCHANGED <<ini, wire, accept>>
    BY <1>9 DEF RespDone
  <2>2. /\ do' \in [Settlements -> DoType]
        /\ \A t \in Settlements : t # s => do'[t] = do[t]
        /\ do'[s].init = do[s].init
    BY <1>3, <1>9 DEF RespDone
  <2>3. res'[s] = "done"
    BY <1>1, <2>1 DEF Types
  <2>4. SettleOne(s)'
    BY <1>1, <2>1, <2>2, <2>3 DEF SettleOne, Underway
  <2>5. QED
    BY <1>2, <2>1, <2>2, <2>4
<1>10. CASE Break(s)
  <2>1. UNCHANGED <<ini, res, do, wire, accept>>
    BY <1>10 DEF Break, hsVars
  <2>2. SettleOne(s)'
    BY <1>1, <2>1 DEF SettleOne, Underway
  <2>3. QED
    BY <1>2, <1>3, <2>1, <2>2
<1>11. ASSUME NEW side \in {"init", "resp"}, TimeLimit(s, side) PROVE SettleInv'
  <2>1. UNCHANGED <<ini, res, wire, accept>>
    BY <1>11 DEF TimeLimit
  <2>2. do' = [do EXCEPT ![s].init = "timeout"] \/ do' = [do EXCEPT ![s].resp = "timeout"]
    BY <1>11 DEF TimeLimit
  <2>3. /\ do' \in [Settlements -> DoType]
        /\ \A t \in Settlements : t # s => do'[t] = do[t]
        /\ do'[s].init = "ok" => do[s].init = "ok"
    BY <1>3, <2>2
  <2>4. SettleOne(s)'
    BY <1>1, <2>1, <2>3 DEF SettleOne, Underway
  <2>5. QED
    BY <1>2, <2>1, <2>3, <2>4
<1>12. QED
  BY <1>4, <1>5, <1>6, <1>7, <1>8, <1>9, <1>10, <1>11 DEF Handshake

LEMMA SettleNext == OnceInv /\ SettleInv /\ [Next]_vars => SettleInv'
<1> SUFFICES ASSUME OnceInv, SettleInv, [Next]_vars PROVE SettleInv'
  OBVIOUS
<1>1. CASE UNCHANGED vars
  BY <1>1 DEF vars, hsVars, authVars, discVars, SettleInv, SettleOne, Edges, Underway
<1>2. QED
  BY <1>1, NextSplit, SettleRequest, SettleBegins, SettleHandshake

LEMMA SettleInit == Init => SettleInv
  BY RequestNames DEF Init, SettleInv, SettleOne, Underway

\* Whichever visor initiates, whatever else runs, breaks or times out: a settlement that
\* succeeds for the initiator has put the transport into the discovery with both
\* signatures in their places, unless the responder's request was lost, cancelled or
\* refused, which the responder only logs.
THEOREM SettledTheorem == Spec => []SettledIsRegistered
<1>1. SettleInv => SettledIsRegistered
  BY DEF SettleInv, SettleOne, SettledIsRegistered, Edges, Ended
<1>2. QED
  BY <1>1, OnceInit, OnceStep, SettleInit, SettleNext, PTL DEF Spec

-----------------------------------------------------------------------------
(* The responder's outcome follows its acceptance.                         *)

AgreeInv ==
    \A s \in Settlements : s \in accept /\ res[s] = "done" => do[s].resp \in {"ok", "timeout"}

LEMMA AgreeHandshake ==
    ASSUME OnceInv, SettleInv, AgreeInv, NEW s \in Settlements, Handshake(s)
    PROVE  AgreeInv'
<1>1. /\ res \in [Settlements -> {"none", "signed", "registering", "registered", "failed", "done"}]
      /\ do \in [Settlements -> [init : {"no", "ok", "err", "timeout"},
                                 resp : {"no", "ok", "err", "timeout"}]]
      /\ s \in accept => res[s] \in {"registered", "done"}
  BY DEF OnceInv, Types, SettleInv, SettleOne
<1>2. CASE InitSend(s) \/ InitRead(s) \/ RespReceive(s) \/ Break(s)
  <2>1. accept' = accept /\ do' = do
        /\ (res' = res \/ \E x \in {"signed", "failed"} : res' = [res EXCEPT ![s] = x])
    BY <1>2 DEF InitSend, InitRead, RespReceive, Break, hsVars
  <2>2. QED
    BY <1>1, <2>1 DEF AgreeInv
<1>3. CASE InitDone(s)
  <2>1. accept' = accept /\ res' = res /\ \E x : do' = [do EXCEPT ![s].init = x]
    BY <1>3 DEF InitDone
  <2>2. \A t \in Settlements : do'[t].resp = do[t].resp
    BY <1>1, <2>1
  <2>3. QED
    BY <2>1, <2>2 DEF AgreeInv
<1>4. CASE RespAccept(s)
  <2>1. /\ accept' \subseteq accept \cup {s} /\ do' = do
        /\ \E x \in {"registered", "failed"} : res' = [res EXCEPT ![s] = x]
    BY <1>4 DEF RespAccept
  <2>2. QED
    BY <1>1, <2>1 DEF AgreeInv
<1>5. CASE RespDone(s)
  <2>1. /\ accept' = accept /\ res' = [res EXCEPT ![s] = "done"]
        /\ res[s] \in {"registered", "failed"}
        /\ do' = [do EXCEPT ![s].resp = IF @ = "timeout" THEN @
                                        ELSE IF res[s] = "registered" THEN "ok" ELSE "err"]
    BY <1>5 DEF RespDone
  <2>2. s \in accept => do'[s].resp \in {"ok", "timeout"}
    BY <1>1, <2>1
  <2>3. \A t \in Settlements : t # s => do'[t] = do[t] /\ res'[t] = res[t]
    BY <1>1, <2>1
  <2>4. QED
    BY <2>1, <2>2, <2>3 DEF AgreeInv
<1>6. ASSUME NEW side \in {"init", "resp"}, TimeLimit(s, side)
      PROVE  AgreeInv'
  <2>1. accept' = accept /\ res' = res
    BY <1>6 DEF TimeLimit
  <2>2. do' = [do EXCEPT ![s].init = "timeout"] \/ do' = [do EXCEPT ![s].resp = "timeout"]
    BY <1>6 DEF TimeLimit
  <2>3. \A t \in Settlements : do'[t].resp = do[t].resp \/ do'[t].resp = "timeout"
    BY <1>1, <2>2
  <2>4. QED
    BY <2>1, <2>3 DEF AgreeInv
<1>7. QED
  BY <1>2, <1>3, <1>4, <1>5, <1>6 DEF Handshake

LEMMA AgreeNext == OnceInv /\ SettleInv /\ AgreeInv /\ [Next]_vars => AgreeInv'
<1>1. SUFFICES ASSUME OnceInv, SettleInv, AgreeInv, [Next]_vars
               PROVE  AgreeInv'
  OBVIOUS
<1>2. ASSUME NEW r \in Requests, Request(r) \/ RequestLost(r)
      PROVE  AgreeInv'
  BY <1>1, <1>2, RequestAlone DEF AgreeInv
<1>3. ASSUME NEW r \in Requests, Begins(r)
      PROVE  AgreeInv'
  <2>1. /\ accept' = accept /\ do' = do
        /\ res' = res \/ \E s \in Settlements : res' = [res EXCEPT ![s] = "registering"]
    BY <1>1, <1>3, BeginsAlone
  <2>2. \A s \in Settlements : res'[s] = "done" => res[s] = "done"
    BY <1>1, <2>1 DEF OnceInv, Types
  <2>3. QED
    BY <1>1, <2>1, <2>2 DEF AgreeInv
<1>4. CASE UNCHANGED vars
  BY <1>1, <1>4 DEF vars, hsVars, AgreeInv
<1>5. QED
  BY <1>1, <1>2, <1>3, <1>4, NextSplit, AgreeHandshake

\* The two ends of a settlement never disagree on a success of the initiator: when the
\* initiating visor's handshake succeeds, the responding one's ends with success too, or
\* has returned at its time limit before; it cannot end with an error, whichever
\* connections break and whichever answers of the discovery are lost.
THEOREM AgreeTheorem == Spec => []ResponderAgrees
<1>1. Init => AgreeInv
  BY DEF Init, AgreeInv
<1>2. SettleInv /\ AgreeInv => ResponderAgrees
  BY DEF SettleInv, SettleOne, AgreeInv, ResponderAgrees
<1>3. QED
  BY <1>1, <1>2, OnceInit, OnceStep, SettleInit, SettleNext, AgreeNext, PTL DEF Spec
=============================================================================

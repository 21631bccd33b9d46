------------------------------ MODULE Settlement ------------------------------
(***************************************************************************)
(* The settlement of transports (pkg/transport/handshake.go, entry.go):    *)
(* the initiating visor sends the signed entry, the responding one checks  *)
(* and signs it, registers it with the transport discovery and accepts,    *)
(* and the initiator reports the status.  Both talk to the discovery       *)
(* through clients (pkg/transport-discovery/client) that number their      *)
(* requests with nonces (internal/httpauth): settlements of one visor      *)
(* share a client, and every DiscoverTransports call of the visor's RPC    *)
(* makes another one of the same key.                                      *)
(*                                                                         *)
(* The discovery is external: it has one expected nonce per key, takes the *)
(* requests that carry it, and keeps entries and statuses as the mock of   *)
(* pkg/transport/discovery.go does.                                        *)
(***************************************************************************)
EXTENDS Naturals, FiniteSets

CONSTANTS
    Visors,          \* public keys: numbers, as SortEdges compares them
    MaxSettlements,  \* bound on the settlements
    Lookups,         \* visors whose RPC looks transports up, once each
    MaxFaults        \* bound on connections and requests lost, and time limits passed

ASSUME SettlementAssumption ==
    /\ Visors \subseteq Nat /\ Lookups \subseteq Visors
    /\ MaxSettlements \in Nat /\ MaxFaults \in Nat

Settlements == 1..MaxSettlements

\* The requests: of settlement s, or of the lookup of visor s.
Requests == [kind : {"register", "status"}, of : Settlements]
                \cup [kind : {"lookup"}, of : Lookups]
Reg(s) == [kind |-> "register", of |-> s]
Stat(s) == [kind |-> "status", of |-> s]
LookupOf(v) == [kind |-> "lookup", of |-> v]

VARIABLES
    ends,      \* ends[s]: [init, resp], the visors that settle s
    ini,       \* ini[s]: the initiator's goroutine
    res,       \* res[s]: the responder's goroutine
    do,        \* do[s]: what Do has returned: [init, resp]
    wire,      \* wire[s]: the signed entry sent, and then countersigned, or NoEntry
    accept,    \* settlements whose acceptance is on the connection
    broken,    \* settlements whose connection is broken
    q,         \* q[r]: request r: [at, nonce, retry]
    nonce,     \* nonce[v]: of the client of visor v
    own,       \* own[v]: nonce of the client of v's lookup
    srv,       \* srv[v]: the nonce the discovery expects next
    disc,      \* disc[s]: the signatures of the entry registered, or NoSigs
    up,        \* settlements whose status in the discovery is up
    faults,
    execs,     \* auxiliary: execs[r]: how often the discovery executed r
    contended  \* auxiliary: requests that overlapped with another after reading a nonce

hsVars == <<ini, res, do, wire, accept>>
authVars == <<q, nonce, own>>
discVars == <<srv, disc, up, execs>>
vars == <<ends, hsVars, broken, authVars, discVars, faults, contended>>

-----------------------------------------------------------------------------
(* Entries                                                                 *)

NoSig == 0
NoSigs == <<NoSig, NoSig>>

SortEdges(a, b) == IF a < b THEN <<a, b>> ELSE <<b, a>>

\* The id of a transport is made of its sorted edges and its type.
MakeEntry(a, b) == SortEdges(a, b)

EdgeIndex(entry, pk) ==
    IF entry[1] = pk THEN 1 ELSE IF entry[2] = pk THEN 2 ELSE 0

\* Sign puts the signature where the signer's edge is.
Sign(se, pk) == [se EXCEPT !.sigs = [@ EXCEPT ![EdgeIndex(se.entry, pk)] = pk]]

NewSignedEntry(entry, pk) == Sign([entry |-> entry, sigs |-> NoSigs], pk)
NoEntry == [entry |-> NoSigs, sigs |-> NoSigs]

\* receiveAndVerifyEntry at the visor pk for a connection with remote.
Verified(se, pk, remote) ==
    /\ se.entry = MakeEntry(pk, remote)
    /\ se.sigs[EdgeIndex(se.entry, remote)] = remote

-----------------------------------------------------------------------------
Owner(r) ==
    CASE r.kind = "register" -> ends[r.of].resp
      [] r.kind = "status" -> ends[r.of].init
      [] OTHER -> r.of

\* The time limit of the settlement has cancelled the context of the request.
Cancelled(r) ==
    CASE r.kind = "register" -> do[r.of].resp = "timeout"
      [] r.kind = "status" -> do[r.of].init = "timeout"
      [] OTHER -> FALSE

Ended == {"ok", "failed", "refused", "error"}
Underway(r) == q[r].at \notin {"none"} \cup Ended
MaxNonce == Cardinality(Requests)

TypeOK ==
    /\ ends \in [Settlements -> {e \in [init : Visors, resp : Visors] : e.init # e.resp}]
    /\ ini \in [Settlements -> {"none", "sent", "accepted", "rejected", "done"}]
    /\ res \in [Settlements -> {"none", "signed", "registering", "registered", "failed", "done"}]
    /\ do \in [Settlements -> [init : {"no", "ok", "err", "timeout"},
                               resp : {"no", "ok", "err", "timeout"}]]
    /\ \A s \in Settlements : \A i \in {1, 2} : wire[s].sigs[i] \in {NoSig, wire[s].entry[i]}
    /\ accept \subseteq Settlements /\ broken \subseteq Settlements
    /\ q \in [Requests -> [at : {"none", "begun", "sent", "taken", "denied", "invalid",
                                 "fetched", "set"} \cup Ended,
                           nonce : 0..MaxNonce, retry : BOOLEAN]]
    /\ nonce \in [Visors -> 0..MaxNonce] /\ own \in [Visors -> 0..MaxNonce]
    /\ srv \in [Visors -> 0..MaxNonce]
    /\ \A s \in Settlements : disc[s] # NoSigs => wire[s] # NoEntry
    /\ up \subseteq {s \in Settlements : disc[s] # NoSigs}
    /\ faults \in 0..MaxFaults
    /\ execs \in [Requests -> 0..2] /\ contended \subseteq Requests

Init ==
    /\ ends \in [Settlements -> {e \in [init : Visors, resp : Visors] : e.init # e.resp}]
    /\ ini = [s \in Settlements |-> "none"]
    /\ res = [s \in Settlements |-> "none"]
    /\ do = [s \in Settlements |-> [init |-> "no", resp |-> "no"]]
    /\ wire = [s \in Settlements |-> NoEntry]
    /\ accept = {} /\ broken = {}
    /\ q = [r \in Requests |-> [at |-> "none", nonce |-> 0, retry |-> FALSE]]
    /\ nonce = [v \in Visors |-> 0] /\ own = [v \in Visors |-> 0]
    /\ srv = [v \in Visors |-> 0]
    /\ disc = [s \in Settlements |-> NoSigs]
    /\ up = {}
    /\ faults = 0
    /\ execs = [r \in Requests |-> 0] /\ contended = {}

-----------------------------------------------------------------------------
(* A request of httpauth.Client.Do                                         *)

\* contended' once r is in state at: r and the others of its visor that are under way.  A
\* request that ends is forgotten, unless it was refused.
Contend(r, at) ==
    LET rivals == {o \in Requests \ {r} : Owner(o) = Owner(r) /\ Underway(o)}
    IN contended' = IF at \in Ended THEN contended \ {o \in {r} : at # "refused"}
                    ELSE contended \cup rivals \cup {o \in {r} : rivals # {}}

\* r goes on to at; what an ended request held is forgotten.
Step(r, at) ==
    /\ q' = [q EXCEPT ![r] = IF at \in Ended THEN [at |-> at, nonce |-> 0, retry |-> FALSE]
                             ELSE [@ EXCEPT !.at = at]]
    /\ Contend(r, at)

CurrentNonce(r) == IF r.kind = "lookup" THEN own[r.of] ELSE nonce[Owner(r)]

PutNonce(r, n) ==
    IF r.kind = "lookup" THEN own' = [own EXCEPT ![r.of] = n] /\ UNCHANGED nonce
    ELSE nonce' = [nonce EXCEPT ![Owner(r)] = n] /\ UNCHANGED own

\* doRequest: signed with the nonce the client has at this moment.
DoRequest(r) ==
    /\ q[r].at \in {"begun", "set"}
    /\ ~Cancelled(r)
    /\ q' = [q EXCEPT ![r].at = "sent", ![r].nonce = CurrentNonce(r)]
    /\ Contend(r, "sent")
    /\ UNCHANGED <<ends, hsVars, broken, nonce, own, discVars, faults>>

\* The context is over: the request is not sent, or its answer not waited for.
RequestCancelled(r) ==
    /\ q[r].at \in {"begun", "set", "sent", "taken", "denied"}
    /\ Cancelled(r)
    /\ Step(r, "error")
    /\ UNCHANGED <<ends, hsVars, broken, nonce, own, discVars, faults>>

\* What the discovery tells, and isNonceValid reads from its answer.
IsNonceValid(r) == q[r].nonce = srv[Owner(r)]

\* The discovery: a request with the nonce it expects is executed.  A status of an entry
\* it does not have is answered with an error.
Discovery(r) ==
    /\ q[r].at = "sent"
    /\ LET v == Owner(r)
           unknown == r.kind = "status" /\ disc[r.of] = NoSigs
       IN \/ /\ IsNonceValid(r)
             /\ srv' = [srv EXCEPT ![v] = @ + 1]
             /\ execs' = [execs EXCEPT ![r] = @ + 1]
             /\ Step(r, IF unknown THEN "denied" ELSE "taken")
             /\ disc' = IF r.kind = "register" THEN [disc EXCEPT ![r.of] = wire[r.of].sigs]
                        ELSE disc
             /\ up' = CASE r.kind = "register" -> up \cup {r.of}
                        [] r.kind = "status" /\ ~unknown ->
                              IF ini[r.of] = "accepted" THEN up \cup {r.of} ELSE up \ {r.of}
                        [] OTHER -> up
          \/ /\ ~IsNonceValid(r)
             /\ Step(r, IF q[r].retry THEN "refused" ELSE "invalid")
             /\ UNCHANGED <<srv, disc, up, execs>>
    /\ UNCHANGED <<ends, hsVars, broken, nonce, own, faults>>

RepeatsLost(r) ==
    /\ q[r].at \in {"sent", "taken", "denied", "invalid"}
    /\ faults < MaxFaults /\ faults' = faults + 1
    /\ Step(r, "begun")
    /\ UNCHANGED <<ends, hsVars, broken, nonce, own, discVars>>

\* The discovery has executed the request, and the answer is lost; or nothing arrived.
RequestLost(r) ==
    /\ q[r].at \in {"sent", "taken", "denied", "invalid"}
    /\ faults < MaxFaults /\ faults' = faults + 1
    /\ Step(r, "error")
    /\ UNCHANGED <<ends, hsVars, broken, nonce, own, discVars>>

\* After an invalid nonce the one expected is fetched ...
FetchNonce(r) ==
    /\ q[r].at = "invalid"
    /\ q' = [q EXCEPT ![r].at = "fetched", ![r].nonce = srv[Owner(r)], ![r].retry = TRUE]
    /\ Contend(r, "fetched")
    /\ UNCHANGED <<ends, hsVars, broken, nonce, own, discVars, faults>>

FetchedUnused(r) ==
    /\ q[r].at = "fetched"
    /\ Step(r, "set")
    /\ UNCHANGED <<ends, hsVars, broken, nonce, own, discVars, faults>>

\* ... and becomes the client's; then the request is made once more.
SetNonce(r) ==
    /\ q[r].at = "fetched"
    /\ PutNonce(r, q[r].nonce)
    /\ Step(r, "set")
    /\ UNCHANGED <<ends, hsVars, broken, discVars, faults>>

\* The nonce counts on only for StatusOK: RegisterTransports is answered with
\* StatusCreated.  The client of a lookup is dropped with its answer.
Answered(r) ==
    /\ q[r].at \in {"taken", "denied"}
    /\ IF q[r].at = "taken" /\ r.kind = "status" THEN PutNonce(r, CurrentNonce(r) + 1)
       ELSE UNCHANGED <<nonce, own>>
    /\ Step(r, IF q[r].at = "taken" THEN "ok" ELSE "failed")
    /\ UNCHANGED <<ends, hsVars, broken, discVars, faults>>

Begin(r) == q' = [q EXCEPT ![r].at = "begun"] /\ Contend(r, "begun")

\* DiscoverTransports of the RPC: NewClient fetches the nonce, then the request begins.
Lookup(v) ==
    LET r == LookupOf(v)
    IN /\ q[r].at = "none"
       /\ own' = [own EXCEPT ![v] = srv[v]]
       /\ Begin(r)
       /\ UNCHANGED <<ends, hsVars, broken, nonce, discVars, faults>>

-----------------------------------------------------------------------------
(* The initiator                                                           *)

InitSend(s) ==
    /\ ini[s] = "none"
    /\ wire' = [wire EXCEPT ![s] = NewSignedEntry(MakeEntry(ends[s].init, ends[s].resp),
                                                  ends[s].init)]
    /\ ini' = [ini EXCEPT ![s] = "sent"]
    /\ UNCHANGED <<ends, res, do, accept, broken, authVars, discVars, faults, contended>>

\* The acceptance is read, or the read fails.
InitRead(s) ==
    /\ ini[s] = "sent"
    /\ \/ s \in accept /\ ini' = [ini EXCEPT ![s] = "accepted"]
       \/ s \in broken /\ ini' = [ini EXCEPT ![s] = "rejected"]
    /\ UNCHANGED <<ends, res, do, wire, accept, broken, authVars, discVars, faults, contended>>

\* The deferred UpdateStatuses, with the outcome.
InitStatus(s) ==
    /\ ini[s] \in {"accepted", "rejected"} /\ q[Stat(s)].at = "none"
    /\ Begin(Stat(s))
    /\ UNCHANGED <<ends, hsVars, broken, nonce, own, discVars, faults>>

InitDone(s) ==
    /\ ini[s] \in {"accepted", "rejected"} /\ q[Stat(s)].at \in Ended
    /\ ini' = [ini EXCEPT ![s] = "done"]
    /\ do' = [do EXCEPT ![s].init = IF @ = "timeout" THEN @
                                    ELSE IF ini[s] = "accepted" THEN "ok" ELSE "err"]
    /\ UNCHANGED <<ends, res, wire, accept, broken, authVars, discVars, faults, contended>>

-----------------------------------------------------------------------------
(* The responder                                                           *)

\* The responder reads the entry and signs it, or fails.
RespReceive(s) ==
    /\ res[s] = "none"
    /\ \/ /\ wire[s] # NoEntry /\ Verified(wire[s], ends[s].resp, ends[s].init)
          /\ wire' = [wire EXCEPT ![s] = Sign(@, ends[s].resp)]
          /\ res' = [res EXCEPT ![s] = "signed"]
       \/ /\ s \in broken
          /\ res' = [res EXCEPT ![s] = "failed"]
          /\ UNCHANGED wire
    /\ UNCHANGED <<ends, ini, do, accept, broken, authVars, discVars, faults, contended>>

RespRegister(s) ==
    /\ res[s] = "signed"
    /\ res' = [res EXCEPT ![s] = "registering"]
    /\ Begin(Reg(s))
    /\ UNCHANGED <<ends, ini, do, wire, accept, broken, nonce, own, discVars, faults>>

AcceptsFirst(s) ==
    /\ res[s] = "registering" /\ s \notin broken
    /\ accept' = accept \cup {s}
    /\ res' = [res EXCEPT ![s] = "registered"]
    /\ UNCHANGED <<ends, ini, do, wire, broken, authVars, discVars, faults, contended>>

RejectsSilently(s) ==
    /\ res[s] = "registering" /\ q[Reg(s)].at \in Ended
    /\ \/ /\ q[Reg(s)].at = "ok" /\ s \notin broken
          /\ accept' = accept \cup {s}
          /\ res' = [res EXCEPT ![s] = "registered"]
       \/ /\ q[Reg(s)].at # "ok" \/ s \in broken
          /\ res' = [res EXCEPT ![s] = "failed"]
          /\ UNCHANGED accept
    /\ UNCHANGED <<ends, ini, do, wire, broken, authVars, discVars, faults, contended>>

\* An error of RegisterTransports is only logged; the transport is accepted.
RespAccept(s) ==
    /\ res[s] = "registering" /\ q[Reg(s)].at \in Ended
    /\ \/ /\ s \notin broken
          /\ accept' = accept \cup {s}
          /\ res' = [res EXCEPT ![s] = "registered"]
       \/ /\ s \in broken
          /\ res' = [res EXCEPT ![s] = "failed"]
          /\ UNCHANGED accept
    /\ UNCHANGED <<ends, ini, do, wire, broken, authVars, discVars, faults, contended>>

RespDone(s) ==
    /\ res[s] \in {"registered", "failed"}
    /\ res' = [res EXCEPT ![s] = "done"]
    /\ do' = [do EXCEPT ![s].resp = IF @ = "timeout" THEN @
                                    ELSE IF res[s] = "registered" THEN "ok" ELSE "err"]
    /\ UNCHANGED <<ends, ini, wire, accept, broken, authVars, discVars, faults, contended>>

-----------------------------------------------------------------------------
\* Do returns at the time limit; its goroutine goes on with a context that is over.
TimeLimit(s, side) ==
    /\ faults < MaxFaults /\ faults' = faults + 1
    /\ do[s][side] = "no" /\ (IF side = "init" THEN ini[s] ELSE res[s]) # "done"
    /\ do' = [do EXCEPT ![s][side] = "timeout"]
    /\ UNCHANGED <<ends, ini, res, wire, accept, broken, authVars, discVars, contended>>

\* The connection breaks.
Break(s) ==
    /\ faults < MaxFaults /\ faults' = faults + 1
    /\ s \notin broken /\ ini[s] # "none"
    /\ broken' = broken \cup {s}
    /\ UNCHANGED <<ends, hsVars, authVars, discVars, contended>>

Request(r) ==
    DoRequest(r) \/ RequestCancelled(r) \/ Discovery(r) \/ FetchNonce(r) \/ SetNonce(r) \/ Answered(r)

System ==
    \/ \E r \in Requests : Request(r)
    \/ \E s \in Settlements : InitRead(s) \/ InitStatus(s) \/ InitDone(s)
                              \/ RespReceive(s) \/ RespRegister(s) \/ RespAccept(s) \/ RespDone(s)

Environment ==
    \/ \E s \in Settlements : InitSend(s) \/ Break(s)
                              \/ \E side \in {"init", "resp"} : TimeLimit(s, side)
    \/ \E r \in Requests : RequestLost(r)
    \/ \E v \in Lookups : Lookup(v)

Next == System \/ Environment
Spec == Init /\ [][Next]_vars

-----------------------------------------------------------------------------
(* Properties                                                              *)

\* When the initiator's settlement succeeds the transport is in the discovery, signed by
\* both edges, each signature at the place of its edge whichever visor initiated, unless
\* the responder's request was lost, cancelled or refused: it registers before it accepts.
SettledIsRegistered ==
    \A s \in Settlements :
        (do[s].init = "ok" /\ q[Reg(s)].at \notin {"error", "refused"}) =>
            disc[s] = SortEdges(ends[s].init, ends[s].resp)

\* The discovery executes no request twice: Do only repeats one that it did not take.
AtMostOnce == \A r \in Requests : execs[r] <= 1

\* A request is refused for its nonce, after the one retry, only when another request of
\* the same visor was under way at the same time: a client that has lost count, as it
\* does with every RegisterTransports, with answers that are lost and with clients of the
\* same key, finds it again by itself.
RefusedOnlyWhenContended ==
    \A r \in Requests : q[r].at = "refused" => r \in contended

\* If the initiator's settlement succeeds, so does the responder's, unless its time limit
\* passed.
ResponderAgrees ==
    \A s \in Settlements :
        (do[s].init = "ok" /\ res[s] = "done") => do[s].resp \in {"ok", "timeout"}

\* The two ends agree on a success; and when nothing is left to do, every settlement that
\* was begun has ended on both sides.
SettlementEnds ==
    /\ ResponderAgrees
    /\ ~ ENABLED System =>
          \A s \in Settlements : ini[s] # "none" => ini[s] = "done" /\ res[s] = "done"
==============================================================================

------------------------------ MODULE AppProofs ------------------------------
(***************************************************************************)
(* The protocol between an app and its visor keeps its promise, for any    *)
(* behaviour of users, network and owner, and loops do not end unnoticed.  *)
(***************************************************************************)
EXTENDS App, FiniteSetTheorems, WellFoundedInduction, TLAPS

-----------------------------------------------------------------------------
(* The calls.                                                              *)

\* A call that is answered has been handled.
ReplyInv ==
    /\ status \in [Calls -> {"none", "waiting", "ok", "err", "eof", "failed"}]
    /\ stage \in [Calls -> {"none", "sent", "writing", "replied", "over"}]
    /\ outcome \in [Calls -> {"none", "ok", "err"}]
    /\ \A c \in Calls : stage[c] = "replied" => outcome[c] \in {"ok", "err"}

\* What a step may do to the calls, besides a Send, a ServeResponse and the closing.
Handled(c, o) ==
    /\ stage[c] \in {"sent", "writing"}
    /\ o \in {"ok", "err"}
    /\ Reply(c, o)

Forwards(c) ==
    /\ stage[c] = "sent"
    /\ stage' = [stage EXCEPT ![c] = "writing"]
    /\ UNCHANGED <<chans, rw, status, id, outcome, late>>

LEMMA CallNames ==
    /\ InitApp \in Calls /\ Create \in Calls
    /\ \A k \in Conns : \A cmd \in {"send", "close", "shut"} : AppCall(cmd, k) \in Calls
    /\ \A l \in Loops : \A cmd \in {"confirm", "send", "closed"} : VisorCall(cmd, l) \in Calls
    /\ \A c \in Calls : c.at \in Ends /\ c # NoCall
<1>1. InitApp \in Calls /\ Create \in Calls
  BY DEF Calls
<1>2. \A k \in Conns : \A cmd \in {"send", "close", "shut"} : AppCall(cmd, k) \in Calls
  BY DEF Calls
<1>3. \A l \in Loops : \A cmd \in {"confirm", "send", "closed"} : VisorCall(cmd, l) \in Calls
  BY DEF Calls
<1>4. \A c \in Calls : c.at \in Ends
  BY DEF Calls, InitApp, Create, AppCall, VisorCall, Ends
<1>5. NoCall.at \notin Ends
  BY DEF NoCall, Ends
<1>6. QED
  BY <1>1, <1>2, <1>3, <1>4, <1>5, Zenon

LEMMA WireSplit ==
    ASSUME [Next]_vars
    PROVE  \/ UNCHANGED wire
           \/ \E c \in Calls : Send(c)
           \/ \E c \in Calls : \E o \in {"ok", "err"} : Handled(c, o)
           \/ \E c \in Calls : Forwards(c)
           \/ \E c \in Calls : ServeResponse(c)
           \/ \E e \in Ends : CloseAll(e)
           \/ \E e \in Ends : ClosePipe(e)
<1>1. CASE \/ \E l \in Loops : HandleConfirm(l) \/ HandleClosed(l)
           \/ \E c \in Calls : HandleAtVisor(c)
           \/ \E k \in Conns : Forwarded(k)
  BY <1>1, CallNames DEF HandleConfirm, HandleClosed, HandleAtVisor, Forwarded, Arrived, Handled
<1>2. ASSUME NEW l \in Loops, HandleSend(l) \/ UserReads(l) \/ HandleSendFails(l)
      PROVE  \/ \E c \in Calls : \E o \in {"ok", "err"} : Handled(c, o)
             \/ \E c \in Calls : Forwards(c)
  <2>1. VisorCall("send", l) \in Calls
    BY CallNames
  <2>2. \/ Handled(VisorCall("send", l), "ok") \/ Handled(VisorCall("send", l), "err")
        \/ Forwards(VisorCall("send", l))
    BY <1>2 DEF HandleSend, UserReads, HandleSendFails, ForwardEnds, Arrived, Handled, Forwards
  <2>3. QED
    BY <2>1, <2>2
<1>3. CASE \/ New \/ DialSend
           \/ \E k \in Conns : ServeConnLock(k) \/ CloseSend(k) \/ ServeConnSend(k)
           \/ \E l \in Loops : ConfirmLoop(l) \/ ConsumePacket(l) \/ LoopClosed(l)
  BY <1>3, CallNames DEF New, DialSend, ServeConnLock, CloseSend, ServeConnSend, ConfirmLoop,
     ConsumePacket, LoopClosed
<1>4. CASE CloseDrains \/ CloseEnds \/ VisorCloses \/ VisorClosed \/ StopApp
  BY <1>4 DEF CloseDrains, CloseEnds, VisorCloses, VisorClosed, StopApp, Ends
<1>5. CASE \/ DialReturns \/ AcceptReturns \/ CloseUnlock \/ CloseLock
           \/ \E k \in Conns : ServeConnSent(k) \/ ServeConnEnd(k) \/ CloseConn(k) \/ UserCloses(k)
  BY <1>5 DEF DialReturns, AcceptReturns, CloseUnlock, CloseLock, ServeConnSent, ServeConnEnd,
     CloseConn, UserCloses
<1>6. CASE UNCHANGED vars
  BY <1>6 DEF vars
<1>7. QED
  BY <1>1, <1>2, <1>3, <1>4, <1>5, <1>6 DEF Next, Internal, Readers, External

\* A call that is made stays made, and what was handled stays so.
Grows ==
    \A c \in Calls : /\ status[c] # "none" => status'[c] # "none"
                     /\ outcome[c] # "none" => outcome'[c] # "none"

LEMMA ReplyStep ==
    ASSUME ReplyInv, [Next]_vars
    PROVE  ReplyInv' /\ Grows
<1> USE DEF ReplyInv, Grows
<1>1. CASE UNCHANGED wire
  BY <1>1 DEF wire
<1>2. ASSUME NEW c \in Calls, Send(c) PROVE ReplyInv' /\ Grows
  <2>1. \E x \in {"waiting", "failed"} : status' = [status EXCEPT ![c] = x]
    BY <1>2 DEF Send
  <2>2. \E x \in {"sent", "over"} : stage' = [stage EXCEPT ![c] = x]
    BY <1>2 DEF Send
  <2>3. UNCHANGED outcome
    BY <1>2 DEF Send
  <2>4. QED
    BY <2>1, <2>2, <2>3
<1>3. ASSUME NEW c \in Calls, NEW o \in {"ok", "err"}, Handled(c, o) PROVE ReplyInv' /\ Grows
  BY <1>3 DEF Handled, Reply
<1>4. ASSUME NEW c \in Calls, Forwards(c) PROVE ReplyInv' /\ Grows
  BY <1>4 DEF Forwards
<1>5. ASSUME NEW c \in Calls, ServeResponse(c) PROVE ReplyInv' /\ Grows
  <2>1. stage[c] = "replied" /\ outcome[c] \in {"ok", "err"}
    BY <1>5 DEF ServeResponse
  <2>2. status' = status \/ \E d : status' = [status EXCEPT ![d] = outcome[c]]
    BY <1>5 DEF ServeResponse
  <2>3. stage' = [stage EXCEPT ![c] = "over"] /\ UNCHANGED outcome
    BY <1>5 DEF ServeResponse
  <2>4. QED
    BY <2>1, <2>2, <2>3
<1>6. ASSUME NEW e \in Ends, CloseAll(e) PROVE ReplyInv' /\ Grows
  BY <1>6 DEF CloseAll
<1>7. ASSUME NEW e \in Ends, ClosePipe(e) PROVE ReplyInv' /\ Grows
  BY <1>7 DEF ClosePipe
<1>8. QED
  BY <1>1, <1>2, <1>3, <1>4, <1>5, <1>6, <1>7, WireSplit

LEMMA ReplyInit == Init => ReplyInv
  BY DEF Init, ReplyInv

-----------------------------------------------------------------------------
(* The ids.                                                                *)

WireTypes ==
    /\ chans \in [Ends -> [IDs -> Calls \cup {NoCall}]]
    /\ rw \in [Ends -> {"open", "drained", "closed"}]
    /\ id \in [Calls -> IDs]
    /\ late \subseteq Calls

\* A call is handled once it is sent.
CallInv ==
    \A c \in Calls : /\ status[c] = "none" <=> stage[c] = "none"
                     /\ stage[c] \in {"none", "sent", "writing"} => outcome[c] = "none"

\* Who holds an id of end e: one call, which waits or could not be written, and a late
\* one after closeAll.
Holders ==
    \A e \in Ends : \A i \in IDs : chans[e][i] # NoCall =>
        /\ chans[e][i].at = e
        /\ status[chans[e][i]] \in {"waiting", "failed"}
        /\ status[chans[e][i]] = "waiting" => id[chans[e][i]] = i
        /\ \A j \in IDs : chans[e][j] = chans[e][i] => j = i
        /\ rw[e] = "drained" => chans[e][i] \in late

\* The calls of an end that is open hold their ids as long as they wait, and they wait as
\* long as they are under way.
Waiters ==
    \A c \in Calls : rw[c.at] = "open" =>
        /\ c \notin late
        /\ status[c] = "waiting" => chans[c.at][id[c]] = c
        /\ stage[c] \in {"sent", "writing", "replied"} => status[c] = "waiting"

\* A write fails when an end is closed.
FailedIsClosed == (\E c \in Calls : status[c] = "failed") => \E e \in Ends : rw[e] = "closed"

WireInv ==
    ReplyInv /\ CallInv /\ WireTypes /\ Holders /\ Waiters /\ FailedIsClosed

\* A set of natural numbers has a least one.
LEMMA LeastNat ==
    ASSUME NEW T \in SUBSET Nat, T # {}
    PROVE  \E k \in T : \A j \in T : k <= j
<1> DEFINE Less == OpToRel(<, Nat)
<1>1. \A j, k \in Nat : j < k => <<j, k>> \in Less
  BY DEF OpToRel
<1>2. IsWellFoundedOn(Less, Nat)
  BY NatLessThanWellFounded, Zenon
<1> HIDE DEF Less
<1>3. PICK k \in T : \A j \in T : ~(<<j, k>> \in Less)
  BY <1>2, WFMin, Zenon
<1>4. ASSUME NEW j \in T
      PROVE  k <= j
  <2>1. j \in Nat /\ k \in Nat
    OBVIOUS
  <2>2. ~(j < k)
    BY <1>1, <1>3, <2>1, Zenon
  <2>3. QED
    BY <2>1, <2>2
<1>5. QED
  BY <1>4

\* The ids last: the code has 255, the calls of the model are 17.
EnoughIDs == Cardinality(Calls) <= MaxIDs

LEMMA CallsFinite == IsFiniteSet(Calls)
<1> DEFINE OfConn(k) == {AppCall("send", k), AppCall("close", k), AppCall("shut", k)}
           OfLoop(l) == {VisorCall("confirm", l), VisorCall("send", l), VisorCall("closed", l)}
<1>1. \A S, T : IsFiniteSet(S) /\ IsFiniteSet(T) => IsFiniteSet(S \cup T)
  BY FS_Union
<1>2. ASSUME NEW x, NEW y, NEW z PROVE IsFiniteSet({x, y, z})
  <2>1. {x, y, z} = ({x} \cup {y}) \cup {z}
    OBVIOUS
  <2>2. IsFiniteSet({x}) /\ IsFiniteSet({y}) /\ IsFiniteSet({z})
    BY FS_Singleton
  <2>3. IsFiniteSet({x} \cup {y})
    BY <1>1, <2>2
  <2>4. QED
    BY <1>1, <2>1, <2>2, <2>3
<1>3. \A k : IsFiniteSet(OfConn(k)) /\ IsFiniteSet(OfLoop(k))
  BY <1>2
<1>4. IsFiniteSet({InitApp, Create, Create})
  BY <1>2
<1>5. {AppCall(cmd, k) : cmd \in {"send", "close", "shut"}, k \in Conns}
      = (OfConn("dialled") \cup OfConn("own")) \cup OfConn("incoming")
  BY DEF Conns
<1>6. {VisorCall(cmd, l) : cmd \in {"confirm", "send", "closed"}, l \in Loops}
      = OfLoop("out") \cup OfLoop("in")
  BY DEF Loops
<1>7. Calls = ({InitApp, Create, Create}
               \cup ((OfConn("dialled") \cup OfConn("own")) \cup OfConn("incoming")))
              \cup (OfLoop("out") \cup OfLoop("in"))
  BY <1>5, <1>6 DEF Calls
<1> HIDE DEF OfConn, OfLoop
<1>8. IsFiniteSet((OfConn("dialled") \cup OfConn("own")) \cup OfConn("incoming"))
      /\ IsFiniteSet(OfLoop("out") \cup OfLoop("in"))
  BY <1>1, <1>3
<1>9. QED
  BY <1>1, <1>4, <1>7, <1>8

\* chanList.add finds the lowest id that is free.
LEMMA AddFindsFree ==
    ASSUME WireInv, EnoughIDs, NEW c \in Calls, status[c] = "none"
    PROVE  AddChan(c.at) \in IDs /\ chans[c.at][AddChan(c.at)] = NoCall
<1> DEFINE e == c.at
<1>1. e \in Ends /\ chans[e] \in [IDs -> Calls \cup {NoCall}]
  BY CallNames DEF WireInv, WireTypes
<1>2. Free(e) # {}
  <2>1. SUFFICES ASSUME Free(e) = {} PROVE FALSE
    OBVIOUS
  <2>2. chans[e] \in [IDs -> Calls \ {c}]
    <3>1. \A i \in IDs : chans[e][i] # NoCall /\ chans[e][i] # c
      BY <1>1, <2>1 DEF WireInv, Holders, Free
    <3>2. QED
      BY <1>1, <3>1
  <2>3. \A i, j \in IDs : chans[e][i] = chans[e][j] => i = j
    BY <1>1, <2>1 DEF WireInv, Holders, Free
  <2>4. IsFiniteSet(IDs) /\ Cardinality(IDs) = MaxIDs
    <3>1. IsFiniteSet(0 .. MaxIDs - 1)
          /\ Cardinality(0 .. MaxIDs - 1) = IF 0 > MaxIDs - 1 THEN 0 ELSE MaxIDs - 1 - 0 + 1
      BY FS_Interval, AppAssumption
    <3>2. QED
      BY <3>1, AppAssumption DEF IDs
  <2>5. IsFiniteSet(Calls \ {c}) /\ Cardinality(Calls \ {c}) = Cardinality(Calls) - 1
    BY CallsFinite, FS_RemoveElement
  <2>6. Cardinality(Calls) \in Nat
    BY CallsFinite, FS_CardinalityType
  <2>7. Cardinality(Calls \ {c}) < Cardinality(IDs)
    BY <2>4, <2>5, <2>6, AppAssumption DEF EnoughIDs
  <2>8. \E i, j \in IDs : i # j /\ chans[e][i] = chans[e][j]
    <3> DEFINE S == IDs
               T == Calls \ {c}
               f == chans[e]
    <3>1. IsFiniteSet(S) /\ IsFiniteSet(T) /\ Cardinality(T) < Cardinality(S) /\ f \in [S -> T]
      BY <2>2, <2>4, <2>5, <2>7
    <3> HIDE DEF S, T, f
    <3>2. \E i, j \in S : i # j /\ f[i] = f[j]
      BY <3>1, FS_PigeonHole
    <3>3. QED
      BY <3>2 DEF S, f
  <2>9. QED
    BY <2>3, <2>8
<1>3. Free(e) \in SUBSET Nat
  BY AppAssumption DEF Free, IDs
<1>4. \E i \in Free(e) : \A j \in Free(e) : i <= j
  BY <1>2, <1>3, LeastNat
<1>5. AddChan(e) \in Free(e)
  BY <1>2, <1>4 DEF AddChan
<1>6. QED
  BY <1>5 DEF Free

\* A Send takes an id that nobody holds.
LEMMA WireSend ==
    ASSUME WireInv, EnoughIDs, NEW c \in Calls, Send(c)
    PROVE  WireTypes' /\ CallInv' /\ Holders' /\ Waiters' /\ FailedIsClosed'
<1> DEFINE e == c.at
           i == AddChan(e)
<1>1. e \in Ends /\ i \in IDs /\ chans[e][i] = NoCall /\ status[c] = "none"
  BY CallNames, AddFindsFree DEF Send
<1>2. /\ chans' = [chans EXCEPT ![e] = [j \in IDs |-> IF j = i THEN c ELSE chans[e][j]]]
      /\ UNCHANGED <<rw, outcome>>
  <2>1. IDs \cup {i} = IDs
    BY <1>1
  <2>2. chans \in [Ends -> [IDs -> Calls \cup {NoCall}]]
    BY DEF WireInv, WireTypes
  <2>3. QED
    BY <1>1, <2>1, <2>2 DEF Send
<1>3. \/ /\ CanWrite
         /\ id' = [id EXCEPT ![c] = i]
         /\ status' = [status EXCEPT ![c] = "waiting"]
         /\ stage' = [stage EXCEPT ![c] = "sent"]
      \/ /\ ~CanWrite
         /\ id' = [id EXCEPT ![c] = 0]
         /\ status' = [status EXCEPT ![c] = "failed"]
         /\ stage' = [stage EXCEPT ![c] = "over"]
  BY DEF Send
<1>4. late' = IF rw[e] = "open" THEN late ELSE late \cup {c}
  BY DEF Send
<1>5. \A d \in Calls : d.at \in Ends /\ d # NoCall
  BY CallNames
<1>6. \A k \in Ends : \A j \in IDs :
         chans'[k][j] = IF k = e /\ j = i THEN c ELSE chans[k][j]
  BY <1>1, <1>2 DEF WireInv, WireTypes
<1>7. \A d \in Calls : d # c => /\ status'[d] = status[d] /\ stage'[d] = stage[d]
                                /\ id'[d] = id[d] /\ (d \in late' <=> d \in late)
  BY <1>3, <1>4 DEF WireInv, ReplyInv, WireTypes
<1>8. stage[c] = "none" /\ outcome[c] = "none"
  BY <1>1 DEF WireInv, CallInv
<1>9. \/ CanWrite /\ id'[c] = i /\ status'[c] = "waiting" /\ stage'[c] = "sent"
      \/ ~CanWrite /\ status'[c] = "failed" /\ stage'[c] = "over"
  BY <1>3 DEF WireInv, ReplyInv, WireTypes
<1>10. WireTypes'
  <2>1. 0 \in IDs
    BY AppAssumption DEF IDs
  <2>2. id' \in [Calls -> IDs] /\ late' \subseteq Calls
    BY <1>1, <1>3, <1>4, <2>1 DEF WireInv, WireTypes
  <2>3. chans' \in [Ends -> [IDs -> Calls \cup {NoCall}]]
    BY <1>1, <1>2 DEF WireInv, WireTypes
  <2>4. QED
    BY <1>2, <2>2, <2>3 DEF WireInv, WireTypes
<1>11. CallInv'
  BY <1>2, <1>7, <1>8, <1>9 DEF WireInv, CallInv
<1>12. \A k \in Ends : \A j \in IDs : chans[k][j] # c
  BY <1>1, <1>5 DEF WireInv, Holders
<1>13. Holders'
  <2>1. SUFFICES ASSUME NEW k \in Ends, NEW j \in IDs, chans'[k][j] # NoCall
                 PROVE  /\ chans'[k][j].at = k
                        /\ status'[chans'[k][j]] \in {"waiting", "failed"}
                        /\ status'[chans'[k][j]] = "waiting" => id'[chans'[k][j]] = j
                        /\ \A m \in IDs : chans'[k][m] = chans'[k][j] => m = j
                        /\ rw'[k] = "drained" => chans'[k][j] \in late'
    BY DEF Holders
  <2>2. CASE k = e /\ j = i
    <3>1. chans'[k][j] = c
      BY <1>6, <2>2
    <3>2. \A m \in IDs : chans'[k][m] = c => m = j
      BY <1>6, <1>12, <2>2
    <3>3. rw'[k] = "drained" => c \in late'
      BY <1>2, <1>4, <2>2
    <3>4. QED
      BY <1>9, <2>2, <3>1, <3>2, <3>3
  <2>3. CASE ~(k = e /\ j = i)
    <3>1. chans'[k][j] = chans[k][j] /\ chans[k][j] \in Calls /\ chans[k][j] # c
      BY <1>6, <1>12, <2>1, <2>3 DEF WireInv, WireTypes
    <3>2. \A m \in IDs : chans'[k][m] = chans[k][j] => m = j
      BY <1>6, <2>1, <3>1 DEF WireInv, Holders
    <3>3. QED
      BY <1>2, <1>7, <2>1, <3>1, <3>2 DEF WireInv, Holders
  <2>4. QED
    BY <2>2, <2>3
<1>14. Waiters'
  <2>1. SUFFICES ASSUME NEW d \in Calls, rw[d.at] = "open"
                 PROVE  /\ d \notin late'
                        /\ status'[d] = "waiting" => chans'[d.at][id'[d]] = d
                        /\ stage'[d] \in {"sent", "writing", "replied"} => status'[d] = "waiting"
    BY <1>2 DEF Waiters
  <2>2. CASE d = c
    <3>1. c \notin late'
      BY <1>4, <2>1, <2>2 DEF WireInv, Waiters
    <3>2. QED
      BY <1>1, <1>6, <1>9, <2>2, <3>1
  <2>3. CASE d # c
    <3>1. status[d] = "waiting" => chans'[d.at][id[d]] = d
      <4>1. d.at \in Ends /\ id[d] \in IDs
        BY <1>5 DEF WireInv, WireTypes
      <4>2. status[d] = "waiting" => chans[d.at][id[d]] = d
        BY <2>1 DEF WireInv, Waiters
      <4>3. QED
        BY <1>1, <1>5, <1>6, <4>1, <4>2
    <3>2. QED
      BY <1>7, <2>1, <2>3, <3>1 DEF WireInv, Waiters
  <2>4. QED
    BY <2>2, <2>3
<1>15. FailedIsClosed'
  BY <1>2, <1>7, <1>9 DEF WireInv, FailedIsClosed, CanWrite
<1>16. QED
  BY <1>10, <1>11, <1>13, <1>14, <1>15

\* An answer ends the call that holds its id: the one it answers as long as its end is
\* open, and a late one after closeAll.
LEMMA AnswerIsOwn ==
    ASSUME WireInv, NEW c \in Calls, ServeResponse(c), chans[c.at][id[c]] # NoCall
    PROVE  /\ chans[c.at][id[c]] \in Calls
           /\ chans[c.at][id[c]] \notin late =>
                chans[c.at][id[c]] = c /\ status[c] = "waiting"
<1>1. c.at \in Ends /\ id[c] \in IDs
  BY CallNames DEF WireInv, WireTypes
<1>2. stage[c] = "replied" /\ rw[c.at] # "closed"
  BY DEF ServeResponse
<1>3. chans[c.at][id[c]] \in Calls
  BY <1>1 DEF WireInv, WireTypes
<1>4. chans[c.at][id[c]] \notin late => rw[c.at] = "open"
  BY <1>1, <1>2 DEF WireInv, WireTypes, Holders
<1>5. rw[c.at] = "open" => status[c] = "waiting" /\ chans[c.at][id[c]] = c
  BY <1>2 DEF WireInv, Waiters
<1>6. QED
  BY <1>3, <1>4, <1>5

LEMMA WireAnswer ==
    ASSUME WireInv, NEW c \in Calls, ServeResponse(c)
    PROVE  WireTypes' /\ CallInv' /\ Holders' /\ Waiters' /\ FailedIsClosed'
<1> DEFINE e == c.at
           i == id[c]
           d == chans[e][i]
<1>1. e \in Ends /\ i \in IDs /\ \A x \in Calls : x.at \in Ends /\ x # NoCall
  BY CallNames DEF WireInv, WireTypes
<1>2. /\ stage[c] = "replied"
      /\ stage' = [stage EXCEPT ![c] = "over"]
      /\ id' = [id EXCEPT ![c] = 0]
      /\ UNCHANGED <<rw, outcome, late>>
  BY DEF ServeResponse
<1>3. \/ d = NoCall /\ UNCHANGED <<chans, status>>
      \/ /\ d # NoCall
         /\ chans' = [chans EXCEPT ![e][i] = NoCall]
         /\ status' = [status EXCEPT ![d] = outcome[c]]
  BY DEF ServeResponse, Pull
<1>4. d # NoCall => d \in Calls /\ d.at = e /\ status[d] \in {"waiting", "failed"}
  BY <1>1 DEF WireInv, WireTypes, Holders
<1>5. outcome[c] \in {"ok", "err"}
  BY <1>2 DEF WireInv, ReplyInv
<1>6. /\ \A k \in Ends : \A j \in IDs :
            chans'[k][j] = IF k = e /\ j = i THEN NoCall ELSE chans[k][j]
      /\ \A x \in Calls : status'[x] = IF x = d THEN outcome[c] ELSE status[x]
  <2>1. CASE d = NoCall /\ UNCHANGED <<chans, status>>
    BY <1>1, <2>1
  <2>2. CASE /\ d # NoCall
             /\ chans' = [chans EXCEPT ![e][i] = NoCall]
             /\ status' = [status EXCEPT ![d] = outcome[c]]
    BY <1>1, <1>4, <2>2 DEF WireInv, WireTypes, ReplyInv
  <2>3. QED
    BY <1>3, <2>1, <2>2
<1>7. \A x \in Calls : x # c => stage'[x] = stage[x] /\ id'[x] = id[x]
  BY <1>2 DEF WireInv, WireTypes, ReplyInv
<1>8. stage'[c] = "over"
  BY <1>2 DEF WireInv, ReplyInv
<1> HIDE DEF d, e, i
<1>9. WireTypes'
  <2>1. 0 \in IDs
    BY AppAssumption DEF IDs
  <2>2. id' \in [Calls -> IDs]
    BY <1>2, <2>1 DEF WireInv, WireTypes
  <2>3. chans' \in [Ends -> [IDs -> Calls \cup {NoCall}]]
    BY <1>1, <1>3 DEF WireInv, WireTypes
  <2>4. QED
    BY <1>2, <2>2, <2>3 DEF WireInv, WireTypes
<1>10. CallInv'
  <2>1. \A x \in Calls : status'[x] = "none" <=> status[x] = "none"
    BY <1>1, <1>4, <1>5, <1>6
  <2>2. QED
    BY <1>2, <1>7, <1>8, <2>1 DEF WireInv, CallInv
\* A call that waits under its id is answered with it.
<1>11. \A k \in Ends : \A j \in IDs :
          chans'[k][j] # NoCall => /\ chans[k][j] = chans'[k][j]
                                   /\ chans[k][j] \in Calls
                                   /\ chans[k][j] # d
                                   /\ status[chans[k][j]] = "waiting" => chans[k][j] # c
  <2>1. SUFFICES ASSUME NEW k \in Ends, NEW j \in IDs, chans'[k][j] # NoCall
                 PROVE  /\ chans[k][j] = chans'[k][j]
                        /\ chans[k][j] \in Calls
                        /\ chans[k][j] # d
                        /\ status[chans[k][j]] = "waiting" => chans[k][j] # c
    OBVIOUS
  <2>2. chans[k][j] = chans'[k][j] /\ ~(k = e /\ j = i)
    BY <1>6, <2>1
  <2>3. chans[k][j] \in Calls /\ chans[k][j].at = k
    BY <2>1, <2>2 DEF WireInv, WireTypes, Holders
  <2>4. chans[k][j] # d
    <3>1. chans[k][j] = chans[e][i] => k = e
      BY <1>1, <1>4, <2>3 DEF d
    <3>2. chans[e][j] = chans[e][i] /\ chans[e][i] # NoCall => j = i
      BY <1>1 DEF WireInv, Holders
    <3>3. QED
      BY <2>1, <2>2, <3>1, <3>2 DEF d
  <2>5. status[chans[k][j]] = "waiting" => chans[k][j] # c
    <3>1. status[chans[k][j]] = "waiting" => id[chans[k][j]] = j
      BY <2>1, <2>2 DEF WireInv, Holders
    <3>2. chans[k][j] = c => k = e
      BY <2>3 DEF e
    <3>3. QED
      BY <2>2, <3>1, <3>2 DEF i
  <2>6. QED
    BY <2>2, <2>3, <2>4, <2>5
<1>12. Holders'
  <2>1. SUFFICES ASSUME NEW k \in Ends, NEW j \in IDs, chans'[k][j] # NoCall
                 PROVE  /\ chans'[k][j].at = k
                        /\ status'[chans'[k][j]] \in {"waiting", "failed"}
                        /\ status'[chans'[k][j]] = "waiting" => id'[chans'[k][j]] = j
                        /\ \A m \in IDs : chans'[k][m] = chans'[k][j] => m = j
                        /\ rw'[k] = "drained" => chans'[k][j] \in late'
    BY DEF Holders
  <2>2. /\ chans'[k][j] = chans[k][j]
        /\ status'[chans[k][j]] = status[chans[k][j]]
        /\ status[chans[k][j]] = "waiting" => id'[chans[k][j]] = id[chans[k][j]]
    BY <1>6, <1>7, <1>11, <2>1
  <2>3. \A m \in IDs : chans'[k][m] = chans[k][j] => chans[k][m] = chans[k][j]
    BY <1>11, <2>1, <2>2
  <2>4. QED
    BY <1>2, <2>1, <2>2, <2>3 DEF WireInv, Holders
<1>13. Waiters'
  <2>1. SUFFICES ASSUME NEW x \in Calls, rw[x.at] = "open"
                 PROVE  /\ x \notin late
                        /\ status'[x] = "waiting" => chans'[x.at][id'[x]] = x
                        /\ stage'[x] \in {"sent", "writing", "replied"} => status'[x] = "waiting"
    BY <1>2 DEF Waiters
  <2>2. x.at \in Ends /\ id[x] \in IDs /\ x # NoCall
    BY <1>1 DEF WireInv, WireTypes
  <2>3. CASE x = d
    <3>1. x.at = e
      BY <1>4, <2>2, <2>3
    <3>2. x = c
      BY <1>2, <2>1, <2>3, <3>1 DEF WireInv, Waiters, d, e, i
    <3>3. QED
      BY <1>5, <1>6, <1>8, <2>1, <2>3, <3>2 DEF WireInv, Waiters
  <2>4. CASE x # d
    <3>1. x # c
      BY <1>2, <2>1, <2>4 DEF WireInv, Waiters, d, e, i
    <3>2. status[x] = "waiting" => chans'[x.at][id[x]] = x
      BY <1>6, <2>1, <2>2, <2>4 DEF WireInv, Waiters, d
    <3>3. QED
      BY <1>6, <1>7, <2>1, <2>4, <3>1, <3>2 DEF WireInv, Waiters
  <2>5. QED
    BY <2>3, <2>4
<1>14. FailedIsClosed'
  BY <1>2, <1>5, <1>6 DEF WireInv, FailedIsClosed
<1>15. QED
  BY <1>9, <1>10, <1>12, <1>13, <1>14

\* Every step keeps the ids with those who wait.
LEMMA WireStep ==
    ASSUME WireInv, EnoughIDs, [Next]_vars
    PROVE  WireInv'
<1>1. ReplyInv'
  BY ReplyStep DEF WireInv
<1> DEFINE Rest == WireTypes' /\ CallInv' /\ Holders' /\ Waiters' /\ FailedIsClosed'
<1>2. ASSUME UNCHANGED wire PROVE Rest
  <2>1. UNCHANGED <<chans, rw, status, id, stage, outcome, late>>
    BY <1>2 DEF wire
  <2>2. WireTypes' /\ CallInv'
    BY <2>1 DEF WireInv, WireTypes, CallInv
  <2>3. Holders'
    BY <2>1 DEF WireInv, Holders
  <2>4. Waiters' /\ FailedIsClosed'
    BY <2>1 DEF WireInv, Waiters, FailedIsClosed
  <2>5. QED
    BY <2>2, <2>3, <2>4
<1>3. ASSUME NEW c \in Calls, Send(c) \/ ServeResponse(c) PROVE Rest
  BY <1>3, WireSend, WireAnswer
<1>4. ASSUME NEW c \in Calls, NEW o \in {"ok", "err"}, Handled(c, o) PROVE Rest
  <2>1. /\ stage[c] \in {"sent", "writing"}
        /\ outcome' = [outcome EXCEPT ![c] = o]
        /\ \E x \in {"replied", "over"} : stage' = [stage EXCEPT ![c] = x]
        /\ UNCHANGED <<chans, rw, status, id, late>>
    BY <1>4 DEF Handled, Reply
  <2>2. CallInv'
    BY <2>1 DEF WireInv, ReplyInv, CallInv
  <2>3. Waiters'
    BY <2>1 DEF WireInv, ReplyInv, Waiters
  <2>4. QED
    BY <2>1, <2>2, <2>3 DEF WireInv, WireTypes, Holders, FailedIsClosed
<1>5. ASSUME NEW c \in Calls, Forwards(c) PROVE Rest
  <2>1. CallInv'
    BY <1>5 DEF Forwards, WireInv, ReplyInv, CallInv
  <2>2. Waiters'
    BY <1>5 DEF Forwards, WireInv, ReplyInv, Waiters
  <2>3. QED
    BY <1>5, <2>1, <2>2 DEF Forwards, WireInv, WireTypes, Holders, FailedIsClosed
<1>6. ASSUME NEW e \in Ends, CloseAll(e) PROVE Rest
  <2>1. /\ rw[e] = "open"
        /\ rw' = [rw EXCEPT ![e] = "drained"]
        /\ chans' = [chans EXCEPT ![e] = [i \in IDs |-> NoCall]]
        /\ \A c \in Calls : status'[c] = IF \E i \in IDs : chans[e][i] = c THEN "eof" ELSE status[c]
        /\ UNCHANGED <<id, stage, outcome, late>>
    BY <1>6 DEF CloseAll
  <2>2. \A c \in Calls : c # NoCall /\ c.at \in Ends
    BY CallNames
  <2>3. \A c \in Calls : \/ c.at # e /\ status'[c] = status[c]
                         \/ c.at = e /\ status'[c] = status[c]
                         \/ c.at = e /\ status'[c] = "eof" /\ status[c] \in {"waiting", "failed"}
    BY <1>6, <2>1, <2>2 DEF WireInv, Holders
  <2>4. WireTypes'
    BY <2>1 DEF WireInv, WireTypes
  <2>5. CallInv'
    BY <2>1, <2>3 DEF WireInv, CallInv
  <2>6. \A k \in Ends : \A i \in IDs : chans'[k][i] = IF k = e THEN NoCall ELSE chans[k][i]
    BY <2>1 DEF WireInv, WireTypes
  <2>7. \A k \in Ends : k # e => rw'[k] = rw[k]
    BY <2>1 DEF WireInv, WireTypes
  <2>8. Holders'
    <3>1. SUFFICES ASSUME NEW k \in Ends, NEW j \in IDs, chans'[k][j] # NoCall
                   PROVE  /\ chans'[k][j].at = k
                          /\ status'[chans'[k][j]] \in {"waiting", "failed"}
                          /\ status'[chans'[k][j]] = "waiting" => id'[chans'[k][j]] = j
                          /\ \A m \in IDs : chans'[k][m] = chans'[k][j] => m = j
                          /\ rw'[k] = "drained" => chans'[k][j] \in late'
      BY DEF Holders
    <3>2. k # e /\ chans[k][j] # NoCall /\ \A m \in IDs : chans'[k][m] = chans[k][m]
      BY <2>6, <3>1
    <3>3. chans[k][j] \in Calls /\ chans[k][j].at = k
      BY <3>2 DEF WireInv, WireTypes, Holders
    <3>4. status'[chans[k][j]] = status[chans[k][j]]
      BY <2>3, <3>2, <3>3
    <3>5. QED
      BY <2>1, <2>7, <3>2, <3>3, <3>4 DEF WireInv, Holders
  <2>9. Waiters'
    <3>1. SUFFICES ASSUME NEW c \in Calls, rw'[c.at] = "open"
                   PROVE  /\ c \notin late
                          /\ status'[c] = "waiting" => chans'[c.at][id[c]] = c
                          /\ stage[c] \in {"sent", "writing", "replied"} => status'[c] = "waiting"
      BY <2>1 DEF Waiters
    <3>2. c.at # e /\ c.at \in Ends /\ id[c] \in IDs
      BY <1>6, <2>1, <2>2, <3>1 DEF WireInv, WireTypes
    <3>3. rw[c.at] = "open" /\ status'[c] = status[c] /\ chans'[c.at][id[c]] = chans[c.at][id[c]]
      BY <2>3, <2>6, <2>7, <3>1, <3>2
    <3>4. QED
      BY <3>3 DEF WireInv, Waiters
  <2>10. FailedIsClosed'
    <3>1. \A c \in Calls : status'[c] = "failed" => status[c] = "failed"
      BY <2>3
    <3>2. \A k \in Ends : rw[k] = "closed" => rw'[k] = "closed"
      BY <2>1, <2>7
    <3>3. QED
      BY <3>1, <3>2 DEF WireInv, FailedIsClosed
  <2>11. QED
    BY <2>4, <2>5, <2>8, <2>9, <2>10
<1>7. ASSUME NEW e \in Ends, ClosePipe(e) PROVE Rest
  <2>1. /\ rw' = [rw EXCEPT ![e] = "closed"]
        /\ \A c \in Calls : stage'[c] = IF \/ c.at = e /\ stage[c] = "replied"
                                           \/ c.at # e /\ stage[c] = "sent"
                                        THEN "over" ELSE stage[c]
        /\ UNCHANGED <<chans, status, id, outcome, late>>
    BY <1>7 DEF ClosePipe
  <2>2. \A k \in Ends : rw'[k] = IF k = e THEN "closed" ELSE rw[k]
    BY <2>1 DEF WireInv, WireTypes
  <2>3. \A c \in Calls : c.at \in Ends
    BY CallNames
  <2>4. WireTypes'
    BY <2>1 DEF WireInv, WireTypes
  <2>5. CallInv'
    BY <2>1 DEF WireInv, CallInv
  <2>6. Holders'
    BY <2>1, <2>2 DEF WireInv, Holders
  <2>7. Waiters'
    BY <2>1, <2>2, <2>3 DEF WireInv, Waiters
  <2>8. FailedIsClosed'
    BY <2>1, <2>2 DEF FailedIsClosed
  <2>9. QED
    BY <2>4, <2>5, <2>6, <2>7, <2>8
<1>8. Rest
  <2> HIDE DEF Rest
  <2>1. \A c \in Calls : (Send(c) \/ ServeResponse(c) => Rest) /\ (Forwards(c) => Rest)
    BY <1>3, <1>5, Zenon DEF Rest
  <2>2. \A c \in Calls : \A o \in {"ok", "err"} : Handled(c, o) => Rest
    BY <1>4, Zenon DEF Rest
  <2>3. \A e \in Ends : CloseAll(e) \/ ClosePipe(e) => Rest
    BY <1>6, <1>7, Zenon DEF Rest
  <2>4. UNCHANGED wire => Rest
    BY <1>2, Zenon DEF Rest
  <2>5. QED
    BY <2>1, <2>2, <2>3, <2>4, WireSplit, Zenon
<1>9. QED
  BY <1>1, <1>8 DEF WireInv

LEMMA WireInit == Init => WireInv
<1>1. SUFFICES ASSUME Init PROVE WireInv
  OBVIOUS
<1>2. 0 \in IDs
  BY AppAssumption DEF IDs
<1>3. ReplyInv
  BY <1>1, ReplyInit
<1>4. WireTypes /\ CallInv /\ FailedIsClosed
  BY <1>1, <1>2 DEF Init, WireTypes, CallInv, FailedIsClosed
<1>5. Holders /\ Waiters
  BY <1>1 DEF Init, Holders, Waiters
<1>6. QED
  BY <1>3, <1>4, <1>5 DEF WireInv

\* While both ends are open no id of chanList leaks and none is shared, for any number of
\* ids that is enough for the calls.
THEOREM IdsTheorem == ASSUME EnoughIDs PROVE Spec => []IdsBelongToWaiters
<1>1. ASSUME WireInv PROVE IdsBelongToWaiters
  <2>1. SUFFICES ASSUME \A e \in Ends : rw[e] = "open"
                 PROVE  /\ \A c \in Calls : status[c] = "waiting" => chans[c.at][id[c]] = c
                        /\ \A e \in Ends : Cardinality({i \in IDs : chans[e][i] # NoCall})
                              = Cardinality({c \in Calls : c.at = e /\ status[c] = "waiting"})
    BY DEF IdsBelongToWaiters
  <2>2. \A c \in Calls : /\ c # NoCall /\ c.at \in Ends /\ status[c] # "failed"
                         /\ status[c] = "waiting" => chans[c.at][id[c]] = c
    BY <1>1, <2>1, CallNames DEF WireInv, Waiters, FailedIsClosed
  <2>3. ASSUME NEW e \in Ends
        PROVE  Cardinality({i \in IDs : chans[e][i] # NoCall})
               = Cardinality({c \in Calls : c.at = e /\ status[c] = "waiting"})
    <3> DEFINE S == {i \in IDs : chans[e][i] # NoCall}
               T == {c \in Calls : c.at = e /\ status[c] = "waiting"}
               f == [i \in S |-> chans[e][i]]
    <3>1. f \in [S -> T]
      BY <1>1, <2>2 DEF WireInv, WireTypes, Holders
    <3>2. \A i, j \in S : f[i] = f[j] => i = j
      BY <1>1 DEF WireInv, Holders
    <3>3. \A c \in T : \E i \in S : f[i] = c
      <4>1. SUFFICES ASSUME NEW c \in T PROVE \E i \in S : f[i] = c
        OBVIOUS
      <4>2. id[c] \in IDs /\ chans[e][id[c]] = c /\ c # NoCall
        BY <1>1, <2>2 DEF WireInv, WireTypes
      <4>3. id[c] \in S /\ f[id[c]] = c
        BY <4>2
      <4>4. QED
        BY <4>3
    <3>4. IsFiniteSet(S)
      <4>1. IsFiniteSet(IDs)
        BY FS_Interval, AppAssumption DEF IDs
      <4>2. S \in SUBSET IDs
        OBVIOUS
      <4>3. QED
        BY <4>1, <4>2, FS_Subset
    <3> HIDE DEF S, T, f
    <3>5. ExistsBijection(S, T)
      BY <3>1, <3>2, <3>3 DEF ExistsBijection, Bijection, Injection, IsInjective, Surjection
    <3>6. Cardinality(T) = Cardinality(S)
      BY <3>4, <3>5, FS_Bijection
    <3>7. QED
      BY <3>6 DEF S, T
  <2>4. QED
    BY <2>2, <2>3
<1>2. WireInv /\ [Next]_vars => WireInv'
  BY WireStep
<1>3. QED
  BY <1>1, <1>2, WireInit, PTL DEF Spec

-----------------------------------------------------------------------------
(* The promise.                                                            *)

\* What the promise sees of a call that is not late.
ResultOf(c) ==
    IF c \in late THEN "none" ELSE
    CASE status[c] = "waiting" -> "pending"
      [] status[c] \in {"eof", "failed"} -> "gone"
      [] OTHER -> status[c]
OutcomeOf(c) == IF c \in late THEN "none" ELSE outcome[c]
ResultsSeen == [c \in Calls |-> ResultOf(c)]
OutcomesSeen == [c \in Calls |-> OutcomeOf(c)]
Seen == INSTANCE Calls WITH Call <- Calls, result <- ResultsSeen, outcome <- OutcomesSeen

LEMMA ResultCases ==
    ASSUME ReplyInv, NEW c \in Calls
    PROVE  /\ c \in late => ResultOf(c) = "none" /\ OutcomeOf(c) = "none"
           /\ c \notin late => /\ OutcomeOf(c) = outcome[c]
                               /\ status[c] = "none" => ResultOf(c) = "none"
                               /\ status[c] = "waiting" => ResultOf(c) = "pending"
                               /\ status[c] \in {"eof", "failed"} => ResultOf(c) = "gone"
                               /\ status[c] \in {"ok", "err"} => ResultOf(c) = status[c]
                               /\ status[c] # "none" => ResultOf(c) # "none"
  BY DEF ReplyInv, ResultOf, OutcomeOf

\* A step of the wire is a step of the promise.
LEMMA PromiseStep ==
    ASSUME WireInv, EnoughIDs, [Next]_vars
    PROVE  [Seen!Next]_<<ResultsSeen, OutcomesSeen>>
<1> DEFINE Goal == [Seen!Next]_<<ResultsSeen, OutcomesSeen>>
<1>1. ReplyInv /\ ReplyInv'
  BY ReplyStep DEF WireInv
<1>2. /\ \A c \in Calls : ResultsSeen[c] = ResultOf(c) /\ OutcomesSeen[c] = OutcomeOf(c)
      /\ \A c \in Calls : ResultsSeen'[c] = ResultOf(c)' /\ OutcomesSeen'[c] = OutcomeOf(c)'
      /\ ResultsSeen = [c \in Calls |-> ResultsSeen[c]]
      /\ ResultsSeen' = [c \in Calls |-> ResultsSeen'[c]]
      /\ OutcomesSeen = [c \in Calls |-> OutcomesSeen[c]]
      /\ OutcomesSeen' = [c \in Calls |-> OutcomesSeen'[c]]
  BY DEF ResultsSeen, OutcomesSeen
<1>3. ASSUME NEW c \in Calls,
             \A d \in Calls : d # c => ResultOf(d)' = ResultOf(d) /\ OutcomeOf(d)' = OutcomeOf(d)
      PROVE  /\ ResultsSeen' = [ResultsSeen EXCEPT ![c] = ResultsSeen'[c]]
             /\ OutcomesSeen' = [OutcomesSeen EXCEPT ![c] = OutcomesSeen'[c]]
             /\ ResultOf(c)' = ResultOf(c) => UNCHANGED ResultsSeen
             /\ OutcomeOf(c)' = OutcomeOf(c) => UNCHANGED OutcomesSeen
  BY <1>2, <1>3
<1>4. ASSUME NEW c \in Calls, Send(c) PROVE Goal
  <2>1. /\ status[c] = "none"
        /\ \E x \in {"waiting", "failed"} : status' = [status EXCEPT ![c] = x]
        /\ UNCHANGED outcome
        /\ late' = late \/ (rw[c.at] # "open" /\ late' = late \cup {c})
    BY <1>4 DEF Send
  <2>2. outcome[c] = "none" /\ stage[c] = "none"
    BY <2>1 DEF WireInv, CallInv
  <2>3. \A d \in Calls : d # c => ResultOf(d)' = ResultOf(d) /\ OutcomeOf(d)' = OutcomeOf(d)
    BY <1>1, <2>1 DEF ReplyInv, ResultOf, OutcomeOf
  <2>4. ResultOf(c) = "none" /\ OutcomeOf(c)' = OutcomeOf(c)
        /\ ResultOf(c)' \in {"none", "pending", "gone"}
    BY <1>1, <2>1, <2>2 DEF ReplyInv, ResultOf, OutcomeOf
  <2>5. UNCHANGED OutcomesSeen
    BY <1>3, <2>3, <2>4
  <2>6. CASE ResultOf(c)' = "none"
    BY <1>3, <2>3, <2>4, <2>5, <2>6
  <2>7. CASE ResultOf(c)' # "none"
    <3>1. Seen!Begin(c)
      BY <1>2, <1>3, <2>3, <2>4, <2>5, <2>7 DEF Seen!Begin
    <3>2. Seen!Changed(c)
      BY <1>2, <2>4, <2>7 DEF Seen!Changed
    <3>3. QED
      BY <3>1, <3>2 DEF Seen!Next
  <2>8. QED
    BY <2>6, <2>7
<1>5. ASSUME NEW c \in Calls, NEW o \in {"ok", "err"}, Handled(c, o) PROVE Goal
  <2>1. /\ stage[c] \in {"sent", "writing"}
        /\ outcome' = [outcome EXCEPT ![c] = o]
        /\ UNCHANGED <<status, late>>
    BY <1>5 DEF Handled, Reply
  <2>2. status[c] # "none" /\ outcome[c] = "none"
    BY <2>1 DEF WireInv, CallInv
  <2>3. \A d \in Calls : d # c => ResultOf(d)' = ResultOf(d) /\ OutcomeOf(d)' = OutcomeOf(d)
    BY <1>1, <2>1 DEF ReplyInv, ResultOf, OutcomeOf
  <2>4. ResultOf(c)' = ResultOf(c)
    BY <1>1, <2>1 DEF ReplyInv, ResultOf
  <2>5. UNCHANGED ResultsSeen
    BY <1>3, <2>3, <2>4
  <2>6. CASE c \in late
    <3>1. OutcomeOf(c)' = OutcomeOf(c)
      BY <2>1, <2>6 DEF OutcomeOf
    <3>2. QED
      BY <1>3, <2>3, <2>5, <3>1
  <2>7. CASE c \notin late
    <3>1. OutcomeOf(c) = "none" /\ OutcomeOf(c)' = o /\ ResultOf(c) # "none"
      <4>1. outcome'[c] = o
        BY <1>1, <2>1 DEF ReplyInv
      <4>2. QED
        BY <1>1, <2>1, <2>2, <2>7, <4>1, ResultCases DEF OutcomeOf
    <3>2. Seen!Execute(c)
      BY <1>2, <1>3, <2>3, <2>5, <3>1 DEF Seen!Execute, Seen!Outcomes
    <3>3. Seen!Changed(c)
      BY <1>2, <3>1 DEF Seen!Changed
    <3>4. QED
      BY <3>2, <3>3 DEF Seen!Next
  <2>8. QED
    BY <2>6, <2>7
<1>6. ASSUME NEW c \in Calls, ServeResponse(c) PROVE Goal
  <2> DEFINE d == chans[c.at][id[c]]
  <2>1. stage[c] = "replied" /\ UNCHANGED <<outcome, late>>
    BY <1>6 DEF ServeResponse
  <2>2. outcome[c] \in {"ok", "err"}
    BY <1>1, <2>1 DEF ReplyInv
  <2>3. \/ d = NoCall /\ UNCHANGED status
        \/ d # NoCall /\ status' = [status EXCEPT ![d] = outcome[c]]
    BY <1>6 DEF ServeResponse
  <2>4. CASE UNCHANGED status
    BY <2>1, <2>4 DEF ResultsSeen, OutcomesSeen, ResultOf, OutcomeOf
  <2>5. CASE d # NoCall /\ status' = [status EXCEPT ![d] = outcome[c]]
    <3>1. PICK x \in Calls : x = d /\ (x \notin late => x = c /\ status[c] = "waiting")
      BY <1>6, <2>5, AnswerIsOwn
    <3> HIDE DEF d
    <3>2. \A y \in Calls : y # x => ResultOf(y)' = ResultOf(y) /\ OutcomeOf(y)' = OutcomeOf(y)
      BY <1>1, <2>1, <2>5, <3>1 DEF ReplyInv, ResultOf, OutcomeOf
    <3>3. OutcomeOf(x)' = OutcomeOf(x)
      BY <2>1 DEF OutcomeOf
    <3>4. UNCHANGED OutcomesSeen
      BY <1>3, <3>1, <3>2, <3>3
    <3>5. CASE x \in late
      <4>1. ResultOf(x)' = ResultOf(x)
        BY <2>1, <3>5 DEF ResultOf
      <4>2. QED
        BY <1>3, <3>1, <3>2, <3>4, <4>1
    <3>6. CASE x \notin late
      <4>1. x = c /\ status[c] = "waiting" /\ status'[c] = outcome[c]
        BY <1>1, <2>5, <3>1, <3>6 DEF ReplyInv
      <4>2. ResultOf(c) = "pending" /\ OutcomeOf(c) = outcome[c]
        BY <1>1, <3>6, <4>1, ResultCases
      <4>3. ResultOf(c)' = outcome[c]
        BY <2>1, <2>2, <3>6, <4>1 DEF ResultOf
      <4>4. Seen!Return(c)
        BY <1>2, <1>3, <2>2, <3>2, <3>4, <4>1, <4>2, <4>3 DEF Seen!Return, Seen!Outcomes
      <4>5. Seen!Changed(c)
        BY <1>2, <2>2, <4>2, <4>3 DEF Seen!Changed
      <4>6. QED
        BY <4>4, <4>5 DEF Seen!Next
    <3>7. QED
      BY <3>5, <3>6
  <2>6. QED
    BY <2>3, <2>4, <2>5
<1>7. ASSUME NEW e \in Ends, CloseAll(e) PROVE Goal
  <2>1. /\ \A c \in Calls : status'[c] = IF \E i \in IDs : chans[e][i] = c THEN "eof" ELSE status[c]
        /\ UNCHANGED <<outcome, late>>
    BY <1>7 DEF CloseAll
  <2>2. \A c \in Calls : \/ status'[c] = status[c]
                         \/ status'[c] = "eof" /\ status[c] \in {"waiting", "failed"}
    BY <2>1, CallNames DEF WireInv, Holders
  <2>3. UNCHANGED OutcomesSeen
    BY <2>1 DEF OutcomesSeen, OutcomeOf
  <2>4. \A c \in Calls : \/ ResultOf(c)' = ResultOf(c)
                         \/ ResultOf(c)' = "gone" /\ ResultOf(c) = "pending"
    BY <2>1, <2>2 DEF ResultOf
  <2>5. Seen!Lose
    BY <1>2, <2>3, <2>4 DEF Seen!Lose
  <2>6. QED
    BY <2>5 DEF Seen!Next
<1>8. ASSUME UNCHANGED <<status, outcome, late>> PROVE Goal
  BY <1>8 DEF ResultsSeen, OutcomesSeen, ResultOf, OutcomeOf
<1>9. QED
  <2>1. UNCHANGED wire => UNCHANGED <<status, outcome, late>>
    BY DEF wire
  <2>2. \A c \in Calls : Forwards(c) => UNCHANGED <<status, outcome, late>>
    BY DEF Forwards
  <2>3. \A e \in Ends : ClosePipe(e) => UNCHANGED <<status, outcome, late>>
    BY DEF ClosePipe
  <2> HIDE DEF Goal
  <2>4. UNCHANGED <<status, outcome, late>> => Goal
    BY <1>8, Zenon DEF Goal
  <2>5. \A c \in Calls : Send(c) \/ ServeResponse(c) => Goal
    BY <1>4, <1>6, Zenon DEF Goal
  <2>6. \A c \in Calls : \A o \in {"ok", "err"} : Handled(c, o) => Goal
    BY <1>5, Zenon DEF Goal
  <2>7. \A e \in Ends : CloseAll(e) => Goal
    BY <1>7, Zenon DEF Goal
  <2>8. Goal
    BY <2>1, <2>2, <2>3, <2>4, <2>5, <2>6, <2>7, WireSplit, Zenon
  <2>9. QED
    BY <2>8 DEF Goal

\* Send returns the outcome of its own call or the news that the connection is gone, and a
\* call is handled at most once, unless it is made after closeAll: the protocol between
\* app and visor refines Calls.
THEOREM PromiseTheorem == ASSUME EnoughIDs PROVE Spec => KeepsPromise
<1>1. Init => Promise!Init
  BY DEF Init, Promise!Init
<1>2. WireInv /\ [Next]_vars => WireInv'
  BY WireStep
<1>3. WireInv /\ [Next]_vars => [Seen!Next]_<<ResultsSeen, OutcomesSeen>>
  BY PromiseStep
<1>4. [Seen!Next]_<<ResultsSeen, OutcomesSeen>> =>
      [Promise!Next]_<<[c \in Calls |->
                          IF c \in late THEN "none" ELSE
                          CASE status[c] = "waiting" -> "pending"
                            [] status[c] \in {"eof", "failed"} -> "gone"
                            [] OTHER -> status[c]],
                       [c \in Calls |-> IF c \in late THEN "none" ELSE outcome[c]]>>
  BY Zenon DEF ResultsSeen, OutcomesSeen, ResultOf, OutcomeOf, Seen!Next, Seen!Changed, Seen!Begin,
     Seen!Execute, Seen!Return, Seen!Lose, Seen!Outcomes, Promise!Next, Promise!Changed,
     Promise!Begin, Promise!Execute, Promise!Return, Promise!Lose, Promise!Outcomes
<1>5. QED
  BY <1>1, <1>2, <1>3, <1>4, WireInit, PTL DEF Spec, KeepsPromise, Promise!Spec

-----------------------------------------------------------------------------
(* The loops.                                                              *)

Told(l) ==
    \/ outcome[VisorCall("closed", l)] # "none"
    \/ \E j \in Conns : /\ LoopOf(j) = l
                        /\ \/ status[AppCall("close", j)] # "none"
                           \/ status[AppCall("shut", j)] # "none"

\* A loop that has lost its connection is one the visor has been told of.
ToldInv ==
    /\ ReplyInv
    /\ conns \in [Loops -> Conns \cup {NoConn}]
    /\ serving \in [Conns -> {"none", "read", "sending", "ending", "closing", "done"}]
    /\ \A k \in Conns :
         /\ serving[k] = "closing" => status[AppCall("close", k)] # "none"
         /\ serving[k] = "done" => Told(LoopOf(k))
         /\ serving[k] # "none" /\ conns[LoopOf(k)] = NoConn => Told(LoopOf(k))

\* Every action keeps the invariant of the loops.
LEMMA ToldStep ==
    ASSUME ToldInv, [Next]_vars
    PROVE  ToldInv'
<1>1. ReplyInv' /\ Grows
  BY ReplyStep DEF ToldInv
<1>2. \A l \in Loops : Told(l) => Told(l)'
  BY <1>1, CallNames DEF Told, Grows
<1>3. \A k \in Conns : LoopOf(k) \in Loops /\ k # NoConn /\ AppCall("close", k) \in Calls
  BY CallNames DEF LoopOf, Loops, Conns, NoConn
<1>4. \A k \in Conns : status[AppCall("close", k)] # "none" => status'[AppCall("close", k)] # "none"
  BY <1>1, <1>3 DEF Grows
<1>5. CASE UNCHANGED <<conns, serving>>
  BY <1>1, <1>2, <1>3, <1>4, <1>5 DEF ToldInv
<1>6. ASSUME NEW k \in Conns, Register(k) PROVE ToldInv'
  BY <1>1, <1>2, <1>3, <1>4, <1>6 DEF ToldInv, Register
<1>7. ASSUME NEW k \in Conns, ServeConnSend(k) \/ ServeConnSent(k) PROVE ToldInv'
  <2>1. UNCHANGED conns /\ serving[k] # "none"
        /\ \E x \in {"sending", "read", "ending"} : serving' = [serving EXCEPT ![k] = x]
    BY <1>7 DEF ServeConnSend, ServeConnSent
  <2>2. QED
    BY <1>1, <1>2, <1>3, <1>4, <2>1 DEF ToldInv
<1>8. ASSUME NEW k \in Conns, ServeConnLock(k) PROVE ToldInv'
  <2>1. /\ UNCHANGED conns /\ serving[k] # "none"
        /\ serving' = [serving EXCEPT ![k] = "closing"]
    BY <1>8 DEF ServeConnLock, Ending
  <2>2. status'[AppCall("close", k)] # "none"
    BY <1>3, <1>8 DEF ServeConnLock, Send, ToldInv, ReplyInv
  <2>3. QED
    BY <1>1, <1>2, <1>3, <1>4, <2>1, <2>2 DEF ToldInv
<1>9. ASSUME NEW k \in Conns, ServeConnEnd(k) PROVE ToldInv'
  <2>1. Told(LoopOf(k))
    BY <1>3, <1>9 DEF ServeConnEnd, Ending, ToldInv, Told
  <2>2. /\ conns' = [conns EXCEPT ![LoopOf(k)] = NoConn]
        /\ serving' = [serving EXCEPT ![k] = "done"]
    BY <1>9 DEF ServeConnEnd
  <2>3. QED
    BY <1>1, <1>2, <1>3, <1>4, <2>1, <2>2 DEF ToldInv
<1>10. ASSUME NEW l \in Loops, HandleClosed(l) PROVE ToldInv'
  <2>1. Told(l)'
    <3>1. VisorCall("closed", l) \in Calls
      BY CallNames
    <3>2. outcome' = [outcome EXCEPT ![VisorCall("closed", l)] = "ok"]
      BY <1>10 DEF HandleClosed, Reply
    <3>3. QED
      BY <3>1, <3>2 DEF ToldInv, ReplyInv, Told
  <2>2. UNCHANGED serving /\ (conns' = conns \/ conns' = [conns EXCEPT ![l] = NoConn])
    BY <1>10 DEF HandleClosed
  <2>3. QED
    BY <1>1, <1>2, <1>3, <1>4, <2>1, <2>2 DEF ToldInv
<1>11. \/ UNCHANGED <<conns, serving>>
       \/ \E k \in Conns : \/ Register(k) \/ ServeConnSend(k) \/ ServeConnSent(k)
                           \/ ServeConnLock(k) \/ ServeConnEnd(k)
       \/ \E l \in Loops : HandleClosed(l)
  <2>1. CASE \/ \E c \in Calls : ServeResponse(c) \/ HandleAtVisor(c)
             \/ \E k \in Conns : Forwarded(k)
             \/ \E l \in Loops : HandleConfirm(l) \/ HandleSend(l) \/ UserReads(l) \/ HandleSendFails(l)
    BY <2>1 DEF ServeResponse, HandleAtVisor, Forwarded, HandleConfirm, HandleSend, UserReads,
       HandleSendFails, ForwardEnds, lib
  <2>2. CASE DialReturns \/ AcceptReturns
    BY <2>2 DEF DialReturns, AcceptReturns, Conns
  <2>3. CASE \/ New \/ CloseUnlock \/ CloseDrains \/ CloseEnds \/ VisorClosed
             \/ \E k \in Conns : CloseSend(k) \/ CloseConn(k) \/ UserCloses(k)
    BY <2>3 DEF New, CloseUnlock, CloseDrains, CloseEnds, VisorClosed, CloseSend, CloseConn,
       UserCloses, lib
  <2>4. CASE \/ DialSend \/ CloseLock \/ VisorCloses \/ StopApp
             \/ \E l \in Loops : ConfirmLoop(l) \/ ConsumePacket(l) \/ LoopClosed(l)
    BY <2>4 DEF DialSend, CloseLock, VisorCloses, StopApp, ConfirmLoop, ConsumePacket, LoopClosed,
       lib
  <2>5. CASE UNCHANGED vars
    BY <2>5 DEF vars, lib
  <2>6. QED
    BY <2>1, <2>2, <2>3, <2>4, <2>5 DEF Next, Internal, Readers, External
<1>12. QED
  BY <1>5, <1>6, <1>7, <1>8, <1>9, <1>10, <1>11

\* However the end of serveConn, closeConn, App.Close and a second connection of the same
\* loop come together: no serveConn ends without the visor having been told of its loop,
\* or having told.
THEOREM ToldTheorem == Spec => []EndedLoopsAreTold
<1>1. Init => ToldInv
  BY ReplyInit DEF Init, ToldInv
<1>2. ToldInv => EndedLoopsAreTold
  BY DEF ToldInv, Told, EndedLoopsAreTold
<1>3. QED
  BY <1>1, <1>2, ToldStep, PTL DEF Spec
=============================================================================

------------------------- MODULE RoutingTableProofs -------------------------
(***************************************************************************)
(* What the routing table guarantees for every size of the id space, every *)
(* set of keep-alives and any number of restarts.                          *)
(***************************************************************************)
EXTENDS RoutingTable, TLAPS

-----------------------------------------------------------------------------
(* The partial functions the table is made of.                             *)

\* Storing a value under a route id, as the maps of both tables do, yields
\* again a map from route ids.
LEMMA PutTyped ==
    ASSUME NEW S, NEW f \in Partial(S), NEW id \in RouteID, NEW v \in S
    PROVE  /\ Put(f, id, v) \in Partial(S)
           /\ DOMAIN Put(f, id, v) = DOMAIN f \cup {id}
<1>1. PICK ids \in SUBSET RouteID : f \in [ids -> S]
  BY DEF Partial
<1>2. Put(f, id, v) \in [ids \cup {id} -> S]
  BY <1>1 DEF Put
<1>3. ids \cup {id} \in SUBSET RouteID
  BY <1>1
<1>4. QED
  BY <1>1, <1>2, <1>3 DEF Partial, Put

\* So does deleting a set of route ids.
LEMMA DropTyped ==
    ASSUME NEW S, NEW f \in Partial(S), NEW ids
    PROVE  /\ Drop(f, ids) \in Partial(S)
           /\ DOMAIN Drop(f, ids) = DOMAIN f \ ids
<1>1. PICK D \in SUBSET RouteID : f \in [D -> S]
  BY DEF Partial
<1>2. Drop(f, ids) \in [D \ ids -> S]
  BY <1>1 DEF Drop
<1>3. D \ ids \in SUBSET RouteID
  BY <1>1
<1>4. QED
  BY <1>1, <1>2, <1>3 DEF Partial, Drop

\* The empty map is a map from route ids.
LEMMA EmptyTyped ==
    ASSUME NEW S
    PROVE  Empty \in Partial(S) /\ DOMAIN Empty = {}
<1>1. Empty \in [{} -> S]
  BY DEF Empty
<1>2. QED
  BY <1>1 DEF Partial, Empty

\* A map from route ids has route ids for its keys and S for its values.
LEMMA PartialElements ==
    ASSUME NEW S, NEW f \in Partial(S)
    PROVE  DOMAIN f \subseteq RouteID /\ \A id \in DOMAIN f : f[id] \in S
  BY DEF Partial

\* Both allocators stay within the width of a route id.
LEMMA AssignedTyped ==
    ASSUME nextID \in RouteID, CanAssign
    PROVE  Assigned \in RouteID
<1>1. nextID \in Nat /\ nextID <= MaxRouteID /\ MaxRouteID \in Nat
  BY RoutingTableAssumption DEF RouteID
<1>2. CASE Persistent
  BY <1>1, <1>2 DEF Assigned, CanAssign, RouteID
<1>3. CASE ~Persistent
  <2>1. (nextID + 1) % (MaxRouteID + 1) \in 0..MaxRouteID
    BY <1>1
  <2>2. QED
    BY <1>3, <2>1 DEF Assigned, RouteID
<1>4. QED
  BY <1>2, <1>3

-----------------------------------------------------------------------------
(* Typing.                                                                 *)

\* Every reachable state of the table is well typed: in particular the id of
\* a rule and of an activity record fits a RouteID and ages stay bounded.
THEOREM Typing == Spec => []TypeOK
<1>1. Init => TypeOK
  BY EmptyTyped, RoutingTableAssumption
  DEF Init, TypeOK, RouteID, Holder, NoLookup
<1>2. TypeOK /\ [Next]_vars => TypeOK'
  <2> SUFFICES ASSUME TypeOK, [Next]_vars PROVE TypeOK'
    OBVIOUS
  <2> USE DEF TypeOK, Holder
  <2>z. 0 \in Age /\ NoLookup \in [id : RouteID, keepAlive : KeepAlives \cup {0}]
    BY RoutingTableAssumption DEF Age, NoLookup, RouteID
  <2>1. ASSUME NEW k \in KeepAlives, AddRule(k) PROVE TypeOK'
    BY <2>1, <2>z, AssignedTyped, PutTyped DEF AddRule, TableAddRule
  <2>2. ASSUME NEW k \in KeepAlives, AddRoutingRule(k) PROVE TypeOK'
    BY <2>2, AssignedTyped, PutTyped DEF AddRoutingRule, TableAddRule
  <2>3. ASSUME NEW id \in RouteID, RuleRead(id) PROVE TypeOK'
    BY <2>3, PartialElements DEF RuleRead
  <2>4. CASE RuleRefresh
    <3>1. looked.id \in RouteID
      OBVIOUS
    <3>2. activity' \in Partial(Age)
      BY <2>4, <2>z, <3>1, PutTyped DEF RuleRefresh
    <3>3. QED
      BY <2>4, <2>z, <3>2 DEF RuleRefresh
  <2>5. CASE CleanupRange
    BY <2>5, PartialElements DEF CleanupRange
  <2>6. CASE CleanupDelete
    BY <2>6, DropTyped DEF CleanupDelete
  <2>7. CASE CleanupActivity
    BY <2>7, DropTyped DEF CleanupActivity
  <2>8. ASSUME NEW id \in RouteID, NEW k \in KeepAlives, SetRule(id, k)
        PROVE  TypeOK'
    BY <2>8, PutTyped DEF SetRule
  <2>9. ASSUME NEW ids \in SUBSET RouteID, DeleteRules(ids) PROVE TypeOK'
    BY <2>9, DropTyped DEF DeleteRules
  <2>10. CASE Tick
    <3>1. PICK ids \in SUBSET RouteID : activity \in [ids -> Age]
      BY DEF Partial
    <3>2. activity' \in [ids -> Age]
      BY <2>10, <3>1, RoutingTableAssumption DEF Tick, Age
    <3>3. activity' \in Partial(Age)
      BY <3>1, <3>2 DEF Partial
    <3>4. QED
      BY <2>10, <3>3 DEF Tick
  <2>11. CASE Restart
    <3>1. rules' \in Partial(KeepAlives) /\ activity' \in Partial(Age)
      BY <2>11, EmptyTyped DEF Restart
    <3>2. nextID' \in RouteID /\ restarts' \in 0..MaxRestarts
      BY <2>11, RoutingTableAssumption DEF Restart, RouteID
    <3>3. QED
      BY <2>11, <2>z, <3>1, <3>2 DEF Restart
  <2>12. CASE UNCHANGED vars
    BY <2>12 DEF vars
  <2>13. QED
    BY <2>1, <2>2, <2>3, <2>4, <2>5, <2>6, <2>7, <2>8, <2>9, <2>10, <2>11, <2>12
    DEF Next, Cleanup
<1>3. QED
  BY <1>1, <1>2, PTL DEF Spec

-----------------------------------------------------------------------------
(* Safety.                                                                 *)

IInv == TypeOK /\ ActivityAdded /\ SetAsideIsIdle

\* Only the managed AddRule gives an id an activity record, and only a lookup
\* that finds it fresh renews it; both need the mutex a cleanup holds.
LEMMA IInvInvariant == Spec => []IInv
<1>1. Init => ActivityAdded /\ SetAsideIsIdle
  BY EmptyTyped DEF Init, ActivityAdded, SetAsideIsIdle
<1>2. TypeOK /\ TypeOK' /\ ActivityAdded /\ SetAsideIsIdle /\ [Next]_vars
        => ActivityAdded' /\ SetAsideIsIdle'
  <2> SUFFICES ASSUME TypeOK, TypeOK', ActivityAdded, SetAsideIsIdle, [Next]_vars
               PROVE  ActivityAdded' /\ SetAsideIsIdle'
    OBVIOUS
  <2> USE DEF ActivityAdded, SetAsideIsIdle
  <2>t. activity \in Partial(Age) /\ rules \in Partial(KeepAlives)
    BY DEF TypeOK
  <2>1. ASSUME NEW k \in KeepAlives, AddRule(k)
        PROVE  ActivityAdded' /\ SetAsideIsIdle'
    BY <2>1 DEF AddRule, Put
  <2>2. ASSUME NEW k \in KeepAlives, AddRoutingRule(k)
        PROVE  ActivityAdded' /\ SetAsideIsIdle'
    BY <2>2 DEF AddRoutingRule
  <2>3. ASSUME NEW id \in RouteID, RuleRead(id)
        PROVE  ActivityAdded' /\ SetAsideIsIdle'
    BY <2>3 DEF RuleRead
  <2>4. CASE RuleRefresh
    BY <2>4 DEF RuleRefresh, RuleIsTimedOut, Put
  <2>5. CASE CleanupRange
    <3>1. \A id \in expired' \cap DOMAIN activity' :
             \E k \in KeepAlives : activity'[id] > k
      BY <2>5, <2>t, PartialElements DEF CleanupRange, RuleIsTimedOut
    <3>2. QED
      BY <2>5, <3>1 DEF CleanupRange
  <2>6. CASE CleanupDelete
    BY <2>6 DEF CleanupDelete
  <2>7. CASE CleanupActivity
    BY <2>7 DEF CleanupActivity, Drop
  <2>8. ASSUME NEW id \in RouteID, NEW k \in KeepAlives, SetRule(id, k)
        PROVE  ActivityAdded' /\ SetAsideIsIdle'
    BY <2>8 DEF SetRule
  <2>9. ASSUME NEW ids \in SUBSET RouteID, DeleteRules(ids)
        PROVE  ActivityAdded' /\ SetAsideIsIdle'
    BY <2>9 DEF DeleteRules
  <2>10. CASE Tick
    <3>1. /\ DOMAIN activity' = DOMAIN activity
          /\ UNCHANGED <<mu, expired, added>>
      BY <2>10 DEF Tick
    <3>2. ASSUME NEW id \in DOMAIN activity, NEW k \in KeepAlives, activity[id] > k
          PROVE  activity'[id] > k
      <4>1. activity[id] \in Nat /\ k \in Nat /\ MaxAge \in Nat /\ k < MaxAge
        BY <2>t, PartialElements, RoutingTableAssumption DEF Age
      <4>2. activity'[id] = IF activity[id] < MaxAge THEN activity[id] + 1 ELSE MaxAge
        BY <2>10 DEF Tick
      <4>3. QED
        BY <3>2, <4>1, <4>2
    <3>3. QED
      BY <3>1, <3>2
  <2>11. CASE Restart
    BY <2>11, EmptyTyped DEF Restart
  <2>12. CASE UNCHANGED vars
    BY <2>12 DEF vars
  <2>13. QED
    BY <2>1, <2>2, <2>3, <2>4, <2>5, <2>6, <2>7, <2>8, <2>9, <2>10, <2>11, <2>12
    DEF Next, Cleanup
<1>3. QED
  BY <1>1, <1>2, Typing, PTL DEF Spec, IInv

\* Cleanup deletes no id that a lookup or a reservation used within the
\* keep-alive it was collected for, although the table's own methods run
\* between its range and its delete.
THEOREM CleanupSafe == Spec => []CleanupSparesActive
<1>1. IInv => CleanupSparesActive
  BY DEF IInv, SetAsideIsIdle, CleanupSparesActive
<1>2. QED
  BY <1>1, IInvInvariant, PTL

\* A rule kept by BoltDB across a restart is never served again, nor is one
\* that SetRule stores under an id from before the restart.
THEOREM RestoredDead == Spec => []RestoredRulesAreDead
<1>1. IInv => RestoredRulesAreDead
  BY DEF IInv, ActivityAdded, RestoredRulesAreDead, RuleIsTimedOut
<1>2. QED
  BY <1>1, IInvInvariant, PTL

\* Every id handed out lies at or below the persisted sequence.
LEMMA KnownBelow == Spec => []KnownBelowSequence
<1>1. Init => KnownBelowSequence
  BY DEF Init, KnownBelowSequence
<1>2. TypeOK /\ KnownBelowSequence /\ [Next]_vars => KnownBelowSequence'
  <2> SUFFICES ASSUME TypeOK, KnownBelowSequence, [Next]_vars, Persistent
               PROVE  \A id \in known' : id <= nextID'
    BY DEF KnownBelowSequence
  <2>t. nextID \in Nat /\ known \subseteq Nat
    BY RoutingTableAssumption DEF TypeOK, RouteID
  <2>1. ASSUME NEW k \in KeepAlives, TableAddRule(k)
        PROVE  \A id \in known' : id <= nextID'
    BY <2>1, <2>t DEF TableAddRule, Assigned, KnownBelowSequence
  <2>2. ASSUME UNCHANGED <<known, nextID>>
        PROVE  \A id \in known' : id <= nextID'
    BY <2>2 DEF KnownBelowSequence
  <2>3. QED
    BY <2>1, <2>2
    DEF Next, Cleanup, AddRule, AddRoutingRule, RuleRead, RuleRefresh, CleanupRange,
        CleanupDelete, CleanupActivity, SetRule, DeleteRules, Tick, Restart, vars
<1>3. QED
  BY <1>1, <1>2, Typing, PTL DEF Spec

\* With a BoltDB table no route id is ever assigned twice, whatever the number
\* of restarts: a late request of a setup node cannot meet its id in a new role.
THEOREM BoltNeverReissues ==
    ASSUME Persistent
    PROVE  Spec => NeverReissued
<1>1. TypeOK /\ KnownBelowSequence /\ [Next]_vars
        => [nextID' # nextID => known' # known]_vars
  <2> SUFFICES ASSUME TypeOK, KnownBelowSequence, Next
               PROVE  nextID' # nextID => known' # known
    BY DEF vars
  <2>t. nextID \in Nat /\ known \subseteq Nat
    BY RoutingTableAssumption DEF TypeOK, RouteID
  <2>1. ASSUME NEW k \in KeepAlives, TableAddRule(k)
        PROVE  known' # known
    <3>1. nextID + 1 \in known' /\ nextID + 1 \notin known
      BY <2>1, <2>t DEF TableAddRule, Assigned, KnownBelowSequence
    <3>2. QED
      BY <3>1
  <2>2. QED
    BY <2>1
    DEF Next, Cleanup, AddRule, AddRoutingRule, RuleRead, RuleRefresh, CleanupRange,
        CleanupDelete, CleanupActivity, SetRule, DeleteRules, Tick, Restart
<1>2. QED
  BY <1>1, Typing, KnownBelow, PTL DEF Spec, NeverReissued
=============================================================================

---------------------------- MODULE RoutingTable ----------------------------
(***************************************************************************)
(* One visor's routing table: the table proper (in memory or in BoltDB,    *)
(* pkg/routing), the activity bookkeeping the router wraps it in           *)
(* (pkg/router/managed_routing_table.go), and the paths by which the       *)
(* setup-request handlers, the packet loop, the garbage collector and the  *)
(* visor's RPC reach them concurrently.                                    *)
(*                                                                         *)
(* A stored rule is reduced to its keep-alive, the only field the table    *)
(* looks at.  A time stamp in `activity' is reduced to its age, counted in *)
(* ticks and saturating at MaxAge, which no keep-alive reaches.            *)
(*                                                                         *)
(* The mutex mu of managedRoutingTable is held by AddRule, Rule and        *)
(* Cleanup.  SetRule, DeleteRules and RangeRules are the embedded table's  *)
(* own methods and take no mu, so they run between the steps of a lookup   *)
(* or of a cleanup.                                                        *)
(***************************************************************************)
EXTENDS Integers, FiniteSets

CONSTANTS
    MaxRouteID,   \* math.MaxUint32
    KeepAlives,   \* the keep-alive times rules are stored with
    MaxAge,       \* ages saturate here
    Persistent,   \* TRUE: boltDBRoutingTable, FALSE: inMemoryRoutingTable
    MaxRestarts   \* bound on the restarts of the visor in a behaviour

ASSUME RoutingTableAssumption ==
    /\ MaxRouteID \in Nat \ {0}
    /\ KeepAlives \subseteq Nat
    /\ MaxAge \in Nat
    /\ \A k \in KeepAlives : k < MaxAge
    /\ Persistent \in BOOLEAN
    /\ MaxRestarts \in Nat

VARIABLES
    rules,      \* the stored rules: RouteID -> keep-alive, a partial function
    nextID,     \* the last id assigned: nextID, or the bucket's sequence
    activity,   \* age of the last use of an id, a partial function
    mu,         \* who holds managedRoutingTable.mu
    looked,     \* the rule a lookup read from the table, while it holds mu
    expired,    \* expiredIDs of the running Cleanup
    known,      \* auxiliary: the ids ever handed out, which peers may name
    added,      \* auxiliary: ids the managed AddRule assigned since the start
    restarts    \* restarts so far

vars == <<rules, nextID, activity, mu, looked, expired, known, added, restarts>>

RouteID == 0..MaxRouteID
Age == 0..MaxAge
Holder == {"free", "rule", "gcDelete", "gcActivity"}
Partial(S) == UNION {[ids -> S] : ids \in SUBSET RouteID}
NoLookup == [id |-> 0, keepAlive |-> 0]

TypeOK ==
    /\ rules \in Partial(KeepAlives)
    /\ nextID \in RouteID
    /\ activity \in Partial(Age)
    /\ mu \in Holder
    /\ looked \in [id : RouteID, keepAlive : KeepAlives \cup {0}]
    /\ expired \subseteq RouteID
    /\ known \subseteq RouteID
    /\ added \subseteq RouteID
    /\ restarts \in 0..MaxRestarts

\* The empty partial function, and one with id set or a set of ids dropped.
Empty == [id \in {} |-> 0]
Put(f, id, v) == [i \in DOMAIN f \cup {id} |-> IF i = id THEN v ELSE f[i]]
Drop(f, ids) == [i \in DOMAIN f \ ids |-> f[i]]

Init ==
    /\ rules = Empty
    /\ nextID = 0
    /\ activity = Empty
    /\ mu = "free"
    /\ looked = NoLookup
    /\ expired = {}
    /\ known = {}
    /\ added = {}
    /\ restarts = 0

-----------------------------------------------------------------------------
(* The allocator of route ids.                                             *)

\* atomic.AddUint32 wraps; the bucket's sequence is a uint64, and an id above
\* MaxUint32 aborts the transaction that drew it.
Assigned == IF Persistent THEN nextID + 1 ELSE (nextID + 1) % (MaxRouteID + 1)

UnguardedAssign == TRUE

\* The in-memory guard compares the still zero result with MaxUint32 and so
\* never refuses.
CanAssign == Persistent => nextID < MaxRouteID

\* inMemoryRoutingTable.AddRule, boltDBRoutingTable.AddRule
TableAddRule(k) ==
    /\ CanAssign
    /\ nextID' = Assigned
    /\ rules' = Put(rules, Assigned, k)
    /\ known' = known \cup {Assigned}

-----------------------------------------------------------------------------
(* managedRoutingTable.                                                    *)

RuleIsTimedOut(id, k) == id \in DOMAIN activity => activity[id] > k

\* AddRule, as occupyRouteID calls it for each id of a reservation.
AddRule(k) ==
    /\ mu = "free"
    /\ TableAddRule(k)
    /\ activity' = Put(activity, Assigned, 0)
    /\ added' = added \cup {Assigned}
    /\ UNCHANGED <<mu, looked, expired, restarts>>

\* A lookup that does not take mu.
UnlockedRule(id) ==
    /\ id \in DOMAIN rules
    /\ ~RuleIsTimedOut(id, rules[id])
    /\ activity' = Put(activity, id, 0)
    /\ UNCHANGED <<rules, nextID, mu, looked, expired, known, added, restarts>>

\* Rule, up to the read of the table.  An absent rule is an error at once.
RuleRead(id) ==
    /\ mu = "free"
    /\ id \in DOMAIN rules
    /\ mu' = "rule"
    /\ looked' = [id |-> id, keepAlive |-> rules[id]]
    /\ UNCHANGED <<rules, nextID, activity, expired, known, added, restarts>>

\* Rule, from the timeout check on: the rule is refused, or its id refreshed.
RuleRefresh ==
    /\ mu = "rule"
    /\ mu' = "free"
    /\ looked' = NoLookup
    /\ activity' = IF RuleIsTimedOut(looked.id, looked.keepAlive)
                     THEN activity
                     ELSE Put(activity, looked.id, 0)
    /\ UNCHANGED <<rules, nextID, expired, known, added, restarts>>

\* A range that takes an id without activity for a live one.
RangeSkipsUnused ==
    /\ mu = "free"
    /\ mu' = "gcDelete"
    /\ expired' = {id \in DOMAIN rules \cap DOMAIN activity : activity[id] > rules[id]}
    /\ UNCHANGED <<rules, nextID, activity, looked, known, added, restarts>>

\* Cleanup: the range over the table collects the ids that timed out, ...
CleanupRange ==
    /\ mu = "free"
    /\ mu' = "gcDelete"
    /\ expired' = {id \in DOMAIN rules : RuleIsTimedOut(id, rules[id])}
    /\ UNCHANGED <<rules, nextID, activity, looked, known, added, restarts>>

\* ... the table deletes their rules, whatever they are by then, ...
CleanupDelete ==
    /\ mu = "gcDelete"
    /\ mu' = "gcActivity"
    /\ rules' = Drop(rules, expired)
    /\ UNCHANGED <<nextID, activity, looked, expired, known, added, restarts>>

\* ... and deleteActivity forgets when they were used.
CleanupActivity ==
    /\ mu = "gcActivity"
    /\ mu' = "free"
    /\ activity' = Drop(activity, expired)
    /\ expired' = {}
    /\ UNCHANGED <<rules, nextID, looked, known, added, restarts>>

-----------------------------------------------------------------------------
(* The table's own methods, reached without mu.                            *)

\* A SetRule that counts as a use of the id.
SetRuleRefreshes(id, k) ==
    /\ rules' = Put(rules, id, k)
    /\ activity' = Put(activity, id, 0)
    /\ UNCHANGED <<nextID, mu, looked, expired, known, added, restarts>>

\* SetRule, called by setRoutingRules and by confirmLoop with an id the visor
\* handed out, perhaps before it restarted, and by the RPC with any id.
SetRule(id, k) ==
    /\ rules' = Put(rules, id, k)
    /\ UNCHANGED <<nextID, activity, mu, looked, expired, known, added, restarts>>

\* DeleteRules, called by deleteRoutingRules, by RemoveLoopRule and by the RPC.
DeleteRules(ids) ==
    /\ rules' = Drop(rules, ids)
    /\ UNCHANGED <<nextID, activity, mu, looked, expired, known, added, restarts>>

\* RPC.AddRoutingRule adds to the visor's table, not to the managed one.
AddRoutingRule(k) ==
    /\ TableAddRule(k)
    /\ UNCHANGED <<activity, mu, looked, expired, added, restarts>>

-----------------------------------------------------------------------------
(* The environment.                                                        *)

Tick ==
    /\ activity' = [id \in DOMAIN activity |->
                      IF activity[id] < MaxAge THEN activity[id] + 1 ELSE MaxAge]
    /\ UNCHANGED <<rules, nextID, mu, looked, expired, known, added, restarts>>

\* A restart that loses the sequence of the bucket.
RestartLosesSequence ==
    /\ restarts < MaxRestarts
    /\ restarts' = restarts + 1
    /\ nextID' = 0
    /\ activity' = Empty
    /\ mu' = "free"
    /\ looked' = NoLookup
    /\ expired' = {}
    /\ added' = {}
    /\ UNCHANGED <<rules, known>>

\* The process stops anywhere and manageRoutingTable starts with an empty
\* activity map over what the table kept.
Restart ==
    /\ restarts < MaxRestarts
    /\ restarts' = restarts + 1
    /\ rules' = IF Persistent THEN rules ELSE Empty
    /\ nextID' = IF Persistent THEN nextID ELSE 0
    /\ activity' = Empty
    /\ mu' = "free"
    /\ looked' = NoLookup
    /\ expired' = {}
    /\ added' = {}
    /\ UNCHANGED known

Cleanup == CleanupRange \/ CleanupDelete \/ CleanupActivity

Next ==
    \/ \E k \in KeepAlives : AddRule(k) \/ AddRoutingRule(k)
    \/ \E id \in RouteID : RuleRead(id)
    \/ RuleRefresh
    \/ Cleanup
    \/ \E id \in RouteID, k \in KeepAlives : SetRule(id, k)
    \/ \E ids \in SUBSET RouteID : DeleteRules(ids)
    \/ Tick
    \/ Restart

Spec == Init /\ [][Next]_vars

\* A lookup that holds mu returns; a cleanup that holds it runs to its end;
\* the ticker of rtGarbageCollectLoop keeps starting cleanups, and a Go mutex
\* in starvation mode hands itself to the waiter, so a cleanup that waits for
\* mu while lookups come and go gets it.
Fairness ==
    /\ WF_vars(RuleRefresh)
    /\ SF_vars(CleanupRange)
    /\ WF_vars(CleanupDelete)
    /\ WF_vars(CleanupActivity)

FairSpec == Spec /\ Fairness

-----------------------------------------------------------------------------
(* Properties.                                                             *)

\* An id the garbage collector is about to delete has been idle for longer
\* than some keep-alive: no lookup and no reservation (Rule, AddRule) slips in
\* between the range of Cleanup and its DeleteRules.
CleanupSparesActive ==
    mu = "gcDelete" =>
        \A id \in expired \cap DOMAIN activity :
            \E k \in KeepAlives : activity[id] > k

\* A rule under an id that the managed table did not assign since the process
\* started (one BoltDB kept across a restart, one set under an old id, one the
\* RPC added) is timed out: Rule never serves it, whatever SetRule stores there.
RestoredRulesAreDead ==
    \A id \in DOMAIN rules \ added : RuleIsTimedOut(id, rules[id])

\* The inductive invariant behind the two: the activity map holds ids that the
\* managed AddRule assigned since the start, and nothing refreshes an id that
\* Cleanup has set aside, in either of its phases.
ActivityAdded == DOMAIN activity \subseteq added
SetAsideIsIdle ==
    mu \in {"gcDelete", "gcActivity"} =>
        \A id \in expired \cap DOMAIN activity :
            \E k \in KeepAlives : activity[id] > k

\* The ids a BoltDB table ever handed out are those its sequence went through.
KnownBelowSequence == Persistent => \A id \in known : id <= nextID

\* The BoltDB table never assigns an id twice, restarts included: whenever the
\* sequence moves, the set of ids ever handed out grows.
NeverReissued == [][nextID' # nextID => known' # known]_vars

\* Every rule that timed out is collected, or stored anew with a keep-alive
\* that it has not outlived.
Overdue(id) == id \in DOMAIN rules /\ RuleIsTimedOut(id, rules[id])
ExpiredCollected == \A id \in RouteID : Overdue(id) ~> ~Overdue(id)
=============================================================================

-------------------------------- MODULE Calls --------------------------------
(***************************************************************************)
(* What Protocol.Send promises its callers (pkg/app/protocol.go): a call   *)
(* is carried out at most once by the other side, and returns either the   *)
(* outcome of its own execution or the news that the connection is gone.   *)
(* The promise says nothing of when; App shows that its calls keep it.     *)
(***************************************************************************)
CONSTANT Call        \* the calls that may be made

VARIABLES
    result,          \* result[c]: "none", "pending", what it returned, or "gone"
    outcome          \* outcome[c]: what the other side made of it, or "none"

Outcomes == {"ok", "err"}

Init ==
    /\ result = [c \in Call |-> "none"]
    /\ outcome = [c \in Call |-> "none"]

Begin(c) ==
    /\ result[c] = "none"
    /\ result'[c] \in {"pending", "gone"}
    /\ result' = [result EXCEPT ![c] = result'[c]]
    /\ UNCHANGED outcome

\* The other side does not know whether the caller still waits.
Execute(c) ==
    /\ result[c] # "none"
    /\ outcome[c] = "none"
    /\ outcome'[c] \in Outcomes
    /\ outcome' = [outcome EXCEPT ![c] = outcome'[c]]
    /\ UNCHANGED result

Return(c) ==
    /\ result[c] = "pending"
    /\ outcome[c] \in Outcomes
    /\ result'[c] = outcome[c]
    /\ result' = [result EXCEPT ![c] = outcome[c]]
    /\ UNCHANGED outcome

\* The connection goes away under any number of pending calls at once.
Lose ==
    /\ \A c \in Call : result'[c] # result[c] => result[c] = "pending" /\ result'[c] = "gone"
    /\ result' = [c \in Call |-> result'[c]]
    /\ UNCHANGED outcome

Changed(c) == result'[c] # result[c] \/ outcome'[c] # outcome[c]

Next == \/ \E c \in {d \in Call : Changed(d)} : Begin(c) \/ Execute(c) \/ Return(c)
        \/ Lose

Spec == Init /\ [][Next]_<<result, outcome>>
=============================================================================

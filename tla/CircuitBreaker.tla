--------------------------- MODULE CircuitBreaker ---------------------------
(****************************************************************************)
(* What the breaker around the agent ConfigMaps promises: after Threshold   *)
(* failed writes in a row no configuration is written to the ConfigMap of a *)
(* namespace until its window has passed, one success starts the count      *)
(* anew, and so does the end of the window.  Namespaces do not disturb each *)
(* other.  Taking the key out of a ConfigMap is no business of the breaker. *)
(****************************************************************************)
EXTENDS Naturals

CONSTANTS
    Namespaces,     \* the namespaces with a ConfigMap
    Threshold,      \* failures in a row that open the circuit
    Configs,        \* configurations
    None,           \* no ConfigMap
    NoKey           \* a ConfigMap without a configuration

VARIABLES
    streak,     \* failures in a row; at the threshold the circuit is open
    store       \* what each ConfigMap holds

Init ==
    /\ streak = [c \in Namespaces |-> 0]
    /\ store = [c \in Namespaces |-> None]

(* A write that is tried may reach the store or not, whatever its answer is. *)
Try(c) ==
    /\ streak[c] < Threshold
    /\ \/ UNCHANGED store
       \/ \E v \in Configs : store' = [store EXCEPT ![c] = v]

Succeed(c) == Try(c) /\ streak' = [streak EXCEPT ![c] = 0]

Fail(c) == Try(c) /\ streak' = [streak EXCEPT ![c] = @ + 1]

WindowPasses(c) ==
    /\ streak[c] = Threshold
    /\ streak' = [streak EXCEPT ![c] = 0]
    /\ UNCHANGED store

RemoveKey(c) ==
    /\ store' = [store EXCEPT ![c] = NoKey]
    /\ UNCHANGED streak

(* The counts are kept in memory only. *)
Restart ==
    /\ streak' = [c \in Namespaces |-> 0]
    /\ UNCHANGED store

Next ==
    \/ \E c \in Namespaces : Succeed(c) \/ Fail(c) \/ WindowPasses(c) \/ RemoveKey(c)
    \/ Restart

Spec == Init /\ [][Next]_<<streak, store>>
=============================================================================

------------------------------ MODULE AtomicStore ------------------------------
(***************************************************************************)
(* What an artifact store promises its callers: a map from names to their  *)
(* current generation that changes in one step, generations that are never *)
(* reused, and reads that return generations current at one moment.        *)
(***************************************************************************)
CONSTANTS Clients, Names, Ids, None

VARIABLES
    current,   \* the generation of each name
    used,      \* generations that were ever current
    answer     \* the last answer each client got

Init ==
    /\ current = [n \in Names |-> None]
    /\ used = {}
    /\ answer = [c \in Clients |-> {}]

Publish(n, i) ==
    /\ i \notin used
    /\ current' = [current EXCEPT ![n] = i]
    /\ used' = used \cup {i}
    /\ UNCHANGED answer

Delete(n) ==
    /\ current[n] # None
    /\ current' = [current EXCEPT ![n] = None]
    /\ UNCHANGED <<used, answer>>

Get(c, n) ==
    /\ current[n] # None
    /\ answer' = [answer EXCEPT ![c] = {current[n]}]
    /\ UNCHANGED <<current, used>>

List(c) ==
    /\ answer' = [answer EXCEPT ![c] = {current[n] : n \in Names} \ {None}]
    /\ UNCHANGED <<current, used>>

Next ==
    \/ \E n \in Names : Delete(n) \/ \E i \in Ids : Publish(n, i)
    \/ \E c \in Clients : List(c) \/ \E n \in Names : Get(c, n)

Spec == Init /\ [][Next]_<<current, used, answer>>
=============================================================================

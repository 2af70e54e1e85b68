----------------------------- MODULE OnceOnly -----------------------------
(* What an idempotency key promises: the first request performed under a key *)
(* owns it for ever, with its outcome, and no key is performed twice.        *)
EXTENDS Integers

CONSTANTS Keys, Receipts, None

VARIABLES owner, performed

vars == <<owner, performed>>

Init == owner = [k \in Keys |-> None] /\ performed = [k \in Keys |-> 0]

Perform(k, r) ==
    /\ owner[k] = None
    /\ performed[k] = 0
    /\ owner' = [owner EXCEPT ![k] = r]
    /\ performed' = [performed EXCEPT ![k] = 1]

Next == \E k \in Keys, r \in Receipts : Perform(k, r)

Spec == Init /\ [][Next]_vars
=============================================================================

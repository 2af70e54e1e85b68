--------------------------- MODULE SingleUseGrant ---------------------------
(***************************************************************************)
(* What the approval lifecycle of app/memory promises: a grant is offered  *)
(* once, is then either spent or withdrawn and never both, and a spent     *)
(* grant permits each item of its batch to be attempted at most once.      *)
(***************************************************************************)
EXTENDS Naturals

CONSTANTS Grants, Items

VARIABLES status,   \* "absent", "offered", "spent" or "withdrawn"
          attempts  \* how often each item was attempted under each grant

vars == <<status, attempts>>

Init ==
    /\ status = [g \in Grants |-> "absent"]
    /\ attempts = [g \in Grants |-> [i \in Items |-> 0]]

Decide(g, from, to) ==
    /\ status[g] = from
    /\ status' = [status EXCEPT ![g] = to]
    /\ UNCHANGED attempts

Offer(g)    == Decide(g, "absent", "offered")
Spend(g)    == Decide(g, "offered", "spent")
Withdraw(g) == Decide(g, "offered", "withdrawn")

Attempt(g, i) ==
    /\ status[g] = "spent"
    /\ attempts[g][i] = 0
    /\ attempts' = [attempts EXCEPT ![g][i] = 1]
    /\ UNCHANGED status

Next ==
    \E g \in Grants :
        Offer(g) \/ Spend(g) \/ Withdraw(g) \/ \E i \in Items : Attempt(g, i)

Spec == Init /\ [][Next]_vars
=============================================================================

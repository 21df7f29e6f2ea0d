---------------------------- MODULE BirthdayRequests ----------------------------
(***************************************************************************)
(* What the confirmation of birthdays promises, without tasks or locks: a  *)
(* request is pending until it is confirmed, replaced by a later one of    *)
(* the same author, or expires with a notice; each of the three is final.  *)
(***************************************************************************)
CONSTANTS Authors, Requests

VARIABLES
    author,     \* who made each request
    status      \* what has become of it

vars == <<author, status>>

Statuses == {"none", "pending", "confirmed", "replaced", "expired"}

Init ==
    /\ author \in [Requests -> Authors]
    /\ status = [k \in Requests |-> "none"]

\* At most one request of an author is pending.
Submit(k) ==
    /\ status[k] = "none"
    /\ status' = [j \in Requests |->
                    IF j = k THEN "pending"
                    ELSE IF author[j] = author[k] /\ status[j] = "pending" THEN "replaced"
                    ELSE status[j]]

Settle(k, outcome) ==
    /\ status[k] = "pending"
    /\ status' = [status EXCEPT ![k] = outcome]

Next ==
    /\ \E k \in Requests : Submit(k) \/ Settle(k, "confirmed") \/ Settle(k, "expired")
    /\ UNCHANGED author

Spec == Init /\ [][Next]_vars
=============================================================================

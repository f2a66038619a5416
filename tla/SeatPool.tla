------------------------------ MODULE SeatPool ------------------------------
(***************************************************************************)
(* What the admission control of /recommend promises, whatever threads and *)
(* coroutines carry it out: at most Limit requests hold a seat, a request  *)
(* is refused only while every seat is taken, the recommendation work of a *)
(* request runs at most once and only inside its seat, and a seat comes    *)
(* back once, when no work runs in it (admission.py, module docstring).    *)
(***************************************************************************)
EXTENDS Integers, FiniteSets

CONSTANTS Requests, Limit

VARIABLES seats,   \* the requests that hold a seat
          busy,    \* the requests whose work is running
          begun,   \* the requests whose work has ever begun
          seen     \* the requests that were admitted or refused

poolVars == <<seats, busy, begun, seen>>

Init == /\ seats = {}
        /\ busy = {}
        /\ begun = {}
        /\ seen = {}

Admit(r) == /\ r \notin seen
            /\ Cardinality(seats) < Limit
            /\ seats' = seats \union {r}
            /\ seen' = seen \union {r}
            /\ UNCHANGED <<busy, begun>>

Refuse(r) == /\ r \notin seen
             /\ Cardinality(seats) = Limit
             /\ seen' = seen \union {r}
             /\ UNCHANGED <<seats, busy, begun>>

BeginWork(r) == /\ r \in seats \ begun
                /\ busy' = busy \union {r}
                /\ begun' = begun \union {r}
                /\ UNCHANGED <<seats, seen>>

EndWork(r) == /\ r \in busy
              /\ busy' = busy \ {r}
              /\ UNCHANGED <<seats, begun, seen>>

Return(r) == /\ r \in seats \ busy
             /\ seats' = seats \ {r}
             /\ UNCHANGED <<busy, begun, seen>>

Next == \E r \in Requests : \/ Admit(r) \/ Refuse(r)
                            \/ BeginWork(r) \/ EndWork(r)
                            \/ Return(r)

Spec == Init /\ [][Next]_poolVars
=============================================================================

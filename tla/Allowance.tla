------------------------------ MODULE Allowance ------------------------------
(***************************************************************************)
(* What a rate limit of Capacity requests per Window promises: in any span *)
(* of time a key is served at most Capacity requests plus its share of the *)
(* span, a request within that allowance is never refused, and the headers *)
(* tell exactly what is left and when the next request will be served.     *)
(***************************************************************************)
EXTENDS Naturals, Sequences, FiniteSetsExt

CONSTANTS Key, Capacity, Window

VARIABLES clock,   \* seconds
          served,  \* the times at which requests of each key were served
          answer   \* the last answer of the limiter

Init == /\ clock = 0
        /\ served = [k \in Key |-> << >>]
        /\ answer = [admitted |-> TRUE, remaining |-> Capacity, retry |-> 0]

Fits(times) ==
    \A i, j \in 1..Len(times) : i <= j =>
        (j - i + 1) * Window <= Capacity * Window + (times[j] - times[i]) * Capacity

\* The history of k with n more requests served at time t.
Serving(k, n, t) == served[k] \o [i \in 1..n |-> t]

Admit(k) ==
    /\ Fits(Serving(k, 1, clock))
    /\ served' = [served EXCEPT ![k] = Serving(k, 1, clock)]
    /\ answer' = [admitted |-> TRUE, retry |-> 0,
                  remaining |-> Max({n \in 0..Capacity : Fits(Serving(k, n + 1, clock))})]
    /\ UNCHANGED clock

Reject(k) ==
    /\ ~Fits(Serving(k, 1, clock))
    /\ answer' = [admitted |-> FALSE, remaining |-> 0,
                  retry |-> Min({s \in 1..Window : Fits(Serving(k, 1, clock + s))})]
    /\ UNCHANGED <<clock, served>>

Tick == clock' = clock + 1 /\ UNCHANGED <<served, answer>>

Next == Tick \/ \E k \in Key : Admit(k) \/ Reject(k)

Spec == Init /\ [][Next]_<<clock, served, answer>>
=============================================================================

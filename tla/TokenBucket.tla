----------------------------- MODULE TokenBucket -----------------------------
(***************************************************************************)
(* What the per-client rate limit promises (internal/middleware/           *)
(* rate_limit.go): a client's requests draw from a bucket of Burst tokens  *)
(* that fills at a steady rate.  The limiter may forget a client, but only *)
(* while its bucket is full, and then only the requests that were being    *)
(* decided at that moment may get through without paying.                  *)
(***************************************************************************)
EXTENDS Naturals

CONSTANTS
    Client,
    Caller,     \* requests that can be in flight at once
    Burst       \* tokens a client may use at once

VARIABLES
    level,      \* level[c]: tokens left to client c
    loose       \* loose[c]: requests of c that do not pay

Init ==
    /\ level = [c \in Client |-> Burst]
    /\ loose = [c \in Client |-> {}]

Pay(c) ==
    /\ level[c] > 0
    /\ level' = [level EXCEPT ![c] = @ - 1]
    /\ UNCHANGED loose

Refill ==
    /\ level' = [c \in Client |-> IF level[c] < Burst THEN level[c] + 1 ELSE Burst]
    /\ UNCHANGED loose

Forget(c) ==
    /\ level[c] = Burst
    /\ \E S \in SUBSET Caller : loose' = [loose EXCEPT ![c] = @ \cup S]
    /\ UNCHANGED level

Settle(c) ==
    /\ \E w \in loose[c] : loose' = [loose EXCEPT ![c] = @ \ {w}]
    /\ UNCHANGED level

Next == Refill \/ \E c \in Client : Pay(c) \/ Forget(c) \/ Settle(c)

Spec == Init /\ [][Next]_<<level, loose>>
=============================================================================

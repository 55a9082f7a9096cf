----------------------------- MODULE RateLimiter -----------------------------
(***************************************************************************)
(* The two rate limits every request passes first (internal/middleware/    *)
(* rate_limit.go, installed by cmd/api/main.go before authentication, so   *)
(* that a client is always an IP address): one bucket for all requests and *)
(* one per client, in a map that a goroutine sweeps for full buckets.  The *)
(* map is guarded by a mutex; a bucket has a lock of its own, and a request*)
(* takes its token after it let the mutex go.                              *)
(***************************************************************************)
EXTENDS Integers, FiniteSets

CONSTANTS
    Worker,         \* goroutines serving requests
    Client,         \* IP addresses
    Bucket,         \* rate.Limiter objects
    NoClient, NoBucket,
    Burst,          \* RATE_LIMIT_CLIENT_BURST
    GlobalBurst,    \* RATE_LIMIT_GLOBAL_BURST
    MaxRequests     \* bound: requests that arrive

ASSUME ConstantsAssumption ==
    /\ NoClient \notin Client /\ NoBucket \notin Bucket
    /\ Burst \in Nat \ {0} /\ GlobalBurst \in Nat \ {0}
    /\ MaxRequests \in Nat

VARIABLES
    limiters,   \* the map: limiters[c] is the bucket of client c
    tokens,     \* tokens[b]: what bucket b holds
    global,     \* what the bucket of all requests holds
    sweep,      \* the cleanup goroutine; while it is on it holds the mutex
    task,       \* task[w]: the request worker w decides on
    due,        \* due[c]: what a bucket that is never dropped would hold (history)
    lent,       \* lent[c]: requests of c that got through unpaid         (history)
    requests

vars == <<limiters, tokens, global, sweep, task, due, lent, requests>>

\* behind: the sweep found this request's bucket full after the request had fetched it.
Task == [pc: {"idle", "fetch", "take"}, client: Client \cup {NoClient},
         bucket: Bucket \cup {NoBucket}, behind: BOOLEAN]
Idle == [pc |-> "idle", client |-> NoClient, bucket |-> NoBucket, behind |-> FALSE]

\* at is the client whose bucket was found full and is about to be deleted.
Resting == [on |-> FALSE, todo |-> {}, at |-> NoClient]

TypeOK ==
    /\ limiters \in [Client -> Bucket \cup {NoBucket}]
    /\ tokens \in [Bucket -> 0..Burst]
    /\ global \in 0..GlobalBurst
    /\ sweep \in [on: BOOLEAN, todo: SUBSET Client, at: Client \cup {NoClient}]
    /\ task \in [Worker -> Task]
    /\ due \in [Client -> Int]
    /\ lent \in [Client -> Nat]
    /\ requests \in 0..MaxRequests

Init ==
    /\ limiters = [c \in Client |-> NoBucket]
    /\ tokens = [b \in Bucket |-> Burst]
    /\ global = GlobalBurst
    /\ sweep = Resting
    /\ task = [w \in Worker |-> Idle]
    /\ due = [c \in Client |-> Burst]
    /\ lent = [c \in Client |-> 0]
    /\ requests = 0

(***************************************************************************)
(* A request.                                                              *)
(***************************************************************************)

Arrive(w, c) ==
    /\ task[w].pc = "idle" /\ requests < MaxRequests
    /\ requests' = requests + 1
    /\ global > 0
    /\ global' = global - 1
    /\ task' = [task EXCEPT ![w] = [Idle EXCEPT !.pc = "fetch", !.client = c]]
    /\ UNCHANGED <<limiters, tokens, sweep, due, lent>>

RefuseGlobal(w) ==
    /\ task[w].pc = "idle" /\ requests < MaxRequests
    /\ global = 0
    /\ requests' = requests + 1
    /\ UNCHANGED <<limiters, tokens, global, sweep, task, due, lent>>

Held == {limiters[c] : c \in Client} \cup {task[w].bucket : w \in Worker}

Spare == Bucket \ Held

\* getLimiter: the client's bucket, or rate.NewLimiter, which is full.
GetLimiter(w) ==
    /\ task[w].pc = "fetch"
    /\ LET c == task[w].client
           missing == limiters[c] = NoBucket
           b == IF missing THEN CHOOSE x \in Spare : TRUE ELSE limiters[c]
       IN /\ missing => Spare # {}
          /\ limiters' = [limiters EXCEPT ![c] = b]
          /\ tokens' = IF missing THEN [tokens EXCEPT ![b] = Burst] ELSE tokens
          /\ task' = [task EXCEPT ![w].pc = "take", ![w].bucket = b]
    /\ UNCHANGED <<global, sweep, due, lent, requests>>

\* Mutant of Fetch: the lookup of the client is lost.
FetchAlwaysNew(w) ==
    /\ task[w].pc = "fetch" /\ ~sweep.on
    /\ Spare # {}
    /\ LET b == CHOOSE x \in Spare : TRUE IN
       /\ limiters' = [limiters EXCEPT ![task[w].client] = b]
       /\ tokens' = [tokens EXCEPT ![b] = Burst]
       /\ task' = [task EXCEPT ![w].pc = "take", ![w].bucket = b]
    /\ UNCHANGED <<global, sweep, due, lent, requests>>

Fetch(w) == ~sweep.on /\ GetLimiter(w)

Take(w) ==
    /\ task[w].pc = "take"
    /\ LET t == task[w] IN
       /\ tokens[t.bucket] > 0
       /\ tokens' = [tokens EXCEPT ![t.bucket] = @ - 1]
       /\ due' = [due EXCEPT ![t.client] = @ - 1]
       /\ lent' = IF t.behind THEN [lent EXCEPT ![t.client] = @ + 1] ELSE lent
    /\ task' = [task EXCEPT ![w] = Idle]
    /\ UNCHANGED <<limiters, global, sweep, requests>>

Refuse(w) ==
    /\ task[w].pc = "take"
    /\ tokens[task[w].bucket] = 0
    /\ task' = [task EXCEPT ![w] = Idle]
    /\ UNCHANGED <<limiters, tokens, global, sweep, due, lent, requests>>

(***************************************************************************)
(* Time: every bucket gains a token.                                       *)
(***************************************************************************)

Filled(n, size) == IF n < size THEN n + 1 ELSE size

Tick ==
    /\ tokens' = [b \in Bucket |-> Filled(tokens[b], Burst)]
    /\ global' = Filled(global, GlobalBurst)
    /\ due' = [c \in Client |-> Filled(due[c], Burst)]
    /\ UNCHANGED <<limiters, sweep, task, lent, requests>>

(***************************************************************************)
(* The cleanup, every five minutes, entry by entry under the mutex.        *)
(***************************************************************************)

SweepStart ==
    /\ ~sweep.on
    /\ sweep' = [on |-> TRUE, todo |-> {c \in Client : limiters[c] # NoBucket},
                 at |-> NoClient]
    /\ UNCHANGED <<limiters, tokens, global, task, due, lent, requests>>

\* Mutants of Full: any token will do, or none ever does.
FullIfAny(b) == tokens[b] > 0
FullNever(b) == tokens[b] > Burst

Full(b) == tokens[b] = Burst

Holds(w, b) == task[w].pc = "take" /\ task[w].bucket = b

SweepCheck(c) ==
    /\ sweep.on /\ sweep.at = NoClient /\ c \in sweep.todo
    /\ IF Full(limiters[c])
       THEN /\ sweep' = [sweep EXCEPT !.at = c]
            /\ task' = [w \in Worker |->
                  [task[w] EXCEPT !.behind = @ \/ Holds(w, limiters[c])]]
       ELSE /\ sweep' = [sweep EXCEPT !.todo = @ \ {c}]
            /\ UNCHANGED task
    /\ UNCHANGED <<limiters, tokens, global, due, lent, requests>>

SweepDelete(c) ==
    /\ sweep.at = c
    /\ limiters' = [limiters EXCEPT ![c] = NoBucket]
    /\ sweep' = [sweep EXCEPT !.todo = @ \ {c}, !.at = NoClient]
    /\ UNCHANGED <<tokens, global, task, due, lent, requests>>

\* Mutant of SweepEnd: the mutex is not let go.
SweepEndLocked ==
    /\ sweep.on /\ sweep.todo = {}
    /\ UNCHANGED vars

SweepEnd ==
    /\ sweep.on /\ sweep.todo = {}
    /\ sweep' = Resting
    /\ UNCHANGED <<limiters, tokens, global, task, due, lent, requests>>

Serve(w) == Fetch(w) \/ Take(w) \/ Refuse(w)

Sweeping == SweepStart \/ SweepEnd \/ \E c \in Client : SweepCheck(c) \/ SweepDelete(c)

Next ==
    \/ \E w \in Worker, c \in Client : Arrive(w, c)
    \/ \E w \in Worker : RefuseGlobal(w) \/ Serve(w)
    \/ Tick
    \/ Sweeping

\* Goroutines run, sync.RWMutex hands itself to a waiter that has waited long (hence
\* strong fairness for Fetch), time passes and the ticker of the cleanup keeps firing.
Fairness ==
    /\ \A w \in Worker : SF_vars(Fetch(w)) /\ WF_vars(Take(w)) /\ WF_vars(Refuse(w))
    /\ WF_vars(Tick)
    /\ WF_vars(Sweeping)

Spec == Init /\ [][Next]_vars
FairSpec == Spec /\ Fairness

(***************************************************************************)
(* Properties.                                                             *)
(***************************************************************************)

\* How far the buckets can be overdrawn: a client is never granted more than a bucket
\* that is never dropped would grant, but for the requests that held its bucket when
\* a sweep found it full (cleanupOldLimiters drops it under them).
OverdraftExplained == \A c \in Client : due[c] + lent[c] >= 0

\* A request draws from the very bucket the map has for its client, unless a sweep found
\* that bucket full behind it: two requests of one client never draw from two buckets
\* otherwise (getLimiter under the mutex against the check and the delete of the sweep).
DrawsFromTheMap ==
    \A w \in Worker :
        task[w].pc = "take" /\ ~task[w].behind => limiters[task[w].client] = task[w].bucket

\* What a client sees of its limit: its bucket in the map, or a full one if there is none
\* or the sweep has found it full and is about to delete it.
Level(c) ==
    IF limiters[c] = NoBucket \/ sweep.at = c THEN Burst ELSE tokens[limiters[c]]

Limit == INSTANCE TokenBucket WITH
    Caller <- Worker,
    level <- [c \in Client |-> Level(c)],
    loose <- [c \in Client |-> {w \in Worker : task[w].client = c /\ task[w].behind}]

\* The limiter with its map, its mutex and its sweep implements the abstract bucket.
ImplementsTokenBucket == Limit!Spec

\* A request that has got past the global limit is decided, although the sweep takes the
\* mutex again and again.
RequestsDecided == \A w \in Worker : task[w].pc # "idle" ~> task[w].pc = "idle"

\* The sweep does what it is there for ("to prevent memory leaks"): the entry of a client
\* that stays away disappears.
Asks(c) == \E w \in Worker : task[w].client = c
IdleClientsDropped ==
    \A c \in Client : <>[](~Asks(c)) => <>[](limiters[c] = NoBucket)
=============================================================================

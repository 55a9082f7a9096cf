-------------------------- MODULE RateLimiter_proofs --------------------------
(***************************************************************************)
(* Proofs about RateLimiter, for any number of requests, clients, buckets  *)
(* and any burst: the map, its mutex and its sweep never let two requests  *)
(* of a client draw from two buckets unseen, and what clients are granted  *)
(* is what TokenBucket allows.                                             *)
(***************************************************************************)
EXTENDS RateLimiter, TLAPS

\* The fields of a request fit its stage.
Formed(w) ==
    /\ task[w].pc = "idle" <=> task[w].client = NoClient
    /\ task[w].pc = "take" <=> task[w].bucket # NoBucket
    /\ task[w].behind => task[w].pc = "take"

\* A request whose bucket was found full behind it holds one that is about to leave the
\* map, or has left it.
Draws(w) ==
    task[w].pc = "take" =>
        /\ \A c \in Client : limiters[c] = task[w].bucket => c = task[w].client
        /\ ~task[w].behind => limiters[task[w].client] = task[w].bucket
        /\ task[w].behind =>
               limiters[task[w].client] # task[w].bucket \/ sweep.at = task[w].client

Separate ==
    \A c \in Client, d \in Client : limiters[c] = limiters[d] /\ limiters[c] # NoBucket => c = d

\* The sweep works through entries that stay, and the one it is about to delete is held
\* by none but those it found behind it.
Sweeps ==
    /\ ~sweep.on => sweep.todo = {}
    /\ \A c \in sweep.todo : limiters[c] # NoBucket
    /\ sweep.at # NoClient =>
           /\ sweep.at \in sweep.todo
           /\ \A w \in Worker : Holds(w, limiters[sweep.at]) => task[w].behind

\* What the client has been granted without paying covers what its bucket does not show.
Covered(c) == due[c] <= Burst /\ due[c] + lent[c] >= Level(c)

IInv ==
    /\ TypeOK
    /\ \A w \in Worker : Formed(w) /\ Draws(w)
    /\ Separate
    /\ Sweeps
    /\ \A c \in Client : Covered(c)

-------------------------------------------------------------------------------

LEMMA LevelTyped ==
    ASSUME TypeOK, NEW c \in Client
    PROVE  Level(c) \in 0..Burst
BY ConstantsAssumption DEF TypeOK, Level

LEMMA InitSound == Init => IInv
<1> SUFFICES ASSUME Init PROVE IInv
  OBVIOUS
<1>1. TypeOK
  BY ConstantsAssumption DEF Init, TypeOK, Task, Idle, Resting
<1>2. \A w \in Worker : Formed(w) /\ Draws(w)
  BY DEF Init, Idle, Formed, Draws
<1>3. Separate /\ Sweeps
  BY DEF Init, Resting, Separate, Sweeps
<1>4. \A c \in Client : Covered(c)
  BY ConstantsAssumption DEF Init, Covered, Level, Resting
<1> QED
  BY <1>1, <1>2, <1>3, <1>4 DEF IInv

-------------------------------------------------------------------------------

LEMMA ArriveStep ==
    ASSUME IInv, NEW w \in Worker, NEW a \in Client, Arrive(w, a)
    PROVE  IInv'
<1>0. TypeOK /\ (\A v \in Worker : Formed(v) /\ Draws(v)) /\ Separate /\ Sweeps
      /\ \A c \in Client : Covered(c)
  BY DEF IInv
<1>1. PICK t \in Task : t = [Idle EXCEPT !.pc = "fetch", !.client = a]
  BY DEF Idle, Task
<1>2. /\ task' = [task EXCEPT ![w] = t]
      /\ t.pc = "fetch" /\ t.client = a /\ t.bucket = NoBucket /\ ~t.behind
      /\ UNCHANGED <<limiters, tokens, sweep, due, lent>>
      /\ requests' = requests + 1 /\ requests < MaxRequests /\ global' = global - 1 /\ global > 0
  BY <1>1 DEF Arrive, Idle
<1>3. task'[w] = t /\ task' \in [Worker -> Task] /\ \A v \in Worker \ {w} : task'[v] = task[v]
  BY <1>0, <1>2 DEF TypeOK
<1>4. TypeOK'
  BY <1>0, <1>2, <1>3, ConstantsAssumption DEF TypeOK
<1>5. ASSUME NEW v \in Worker PROVE Formed(v)' /\ Draws(v)'
  BY <1>0, <1>2, <1>3, ConstantsAssumption DEF Formed, Draws
<1>6. Separate' /\ Sweeps'
  BY <1>0, <1>2, <1>3 DEF Separate, Sweeps, Holds
<1>7. \A c \in Client : Covered(c)'
  BY <1>0, <1>2 DEF Covered, Level
<1> QED
  BY <1>4, <1>5, <1>6, <1>7 DEF IInv

LEMMA FetchStep ==
    ASSUME IInv, NEW w \in Worker, Fetch(w)
    PROVE  IInv'
<1>0. TypeOK /\ (\A v \in Worker : Formed(v) /\ Draws(v)) /\ Separate /\ Sweeps
      /\ \A c \in Client : Covered(c)
  BY DEF IInv
<1>1. PICK a \in Client : a = task[w].client
  BY <1>0 DEF Fetch, GetLimiter, Formed, TypeOK, Task
<1>2. PICK b \in Bucket :
        /\ limiters' = [limiters EXCEPT ![a] = b]
        /\ task' = [task EXCEPT ![w].pc = "take", ![w].bucket = b]
        /\ \/ limiters[a] = NoBucket /\ b \in Spare /\ tokens' = [tokens EXCEPT ![b] = Burst]
           \/ limiters[a] = b /\ tokens' = tokens
  BY <1>0, <1>1 DEF Fetch, GetLimiter, Spare, TypeOK
<1>3. /\ task[w].pc = "fetch" /\ ~sweep.on /\ task[w] \in Task
      /\ UNCHANGED <<global, sweep, due, lent, requests>>
  BY <1>0 DEF Fetch, GetLimiter, TypeOK
<1>4. PICK t \in Task : t = [task[w] EXCEPT !.pc = "take", !.bucket = b]
  BY <1>3 DEF Task
<1>5. t.pc = "take" /\ t.bucket = b /\ t.client = a /\ ~t.behind
  BY <1>0, <1>1, <1>3, <1>4 DEF Task, Formed
<1>6. task'[w] = t /\ task' \in [Worker -> Task] /\ \A v \in Worker \ {w} : task'[v] = task[v]
  BY <1>0, <1>2, <1>4 DEF TypeOK
<1>7. /\ limiters'[a] = b /\ \A c \in Client \ {a} : limiters'[c] = limiters[c]
      /\ limiters' \in [Client -> Bucket \cup {NoBucket}]
  BY <1>0, <1>2 DEF TypeOK
<1>8. b # NoBucket /\ a # NoClient /\ Burst \in Nat
  BY ConstantsAssumption
<1>9. \A c \in Client \ {a} : limiters[c] # b
  BY <1>0, <1>2, <1>8 DEF Spare, Held, Separate
<1>10. \A v \in Worker \ {w} : task[v].pc = "take" /\ task[v].bucket = b => task[v].client = a
  BY <1>0, <1>2 DEF Spare, Held, Draws
<1>11. sweep.todo = {} /\ sweep.at = NoClient
  BY <1>0, <1>3 DEF Sweeps
<1>12. tokens' \in [Bucket -> 0..Burst] /\ tokens'[b] = (IF limiters[a] = NoBucket THEN Burst ELSE tokens[b])
       /\ \A x \in Bucket \ {b} : tokens'[x] = tokens[x]
  BY <1>0, <1>2, <1>8 DEF TypeOK
<1>13. TypeOK'
  BY <1>0, <1>3, <1>6, <1>7, <1>12 DEF TypeOK
<1>14. ASSUME NEW v \in Worker PROVE Formed(v)' /\ Draws(v)'
  <2>1. CASE v = w
    BY <1>5, <1>6, <1>7, <1>8, <1>9, <2>1 DEF Formed, Draws
  <2>2. CASE v # w
    <3>1. Formed(v)'
      BY <1>0, <1>6, <2>2 DEF Formed
    <3>2. ASSUME task[v].pc = "take" PROVE Draws(v)'
      <4>1. task[v].client \in Client /\ task[v].bucket \in Bucket
        BY <1>0, <3>2 DEF Formed, TypeOK, Task
      <4>2. task[v].client = a => limiters[a] = b \/ task[v].behind
        BY <1>0, <1>2, <1>8, <3>2, <4>1, ConstantsAssumption DEF Draws
      <4>3. limiters[a] = NoBucket => task[v].bucket # b
        BY <1>2, <1>8 DEF Spare, Held
      <4> QED
        BY <1>0, <1>2, <1>3, <1>6, <1>7, <1>10, <1>11, <2>2, <3>2, <4>1, <4>2, <4>3 DEF Draws
    <3> QED
      BY <1>6, <2>2, <3>1, <3>2 DEF Draws
  <2> QED
    BY <2>1, <2>2
<1>15. Separate'
  BY <1>0, <1>7, <1>9 DEF Separate
<1>16. Sweeps'
  BY <1>3, <1>11 DEF Sweeps
<1>17. ASSUME NEW c \in Client PROVE Covered(c)'
  <2>1. Level(c)' = Level(c)
    <3>1. CASE c = a
      BY <1>3, <1>7, <1>8, <1>11, <1>12, <1>2, <3>1 DEF Level
    <3>2. CASE c # a
      BY <1>0, <1>3, <1>7, <1>9, <1>12, <3>2 DEF Level, TypeOK
    <3> QED
      BY <3>1, <3>2
  <2> QED
    BY <1>0, <1>3, <2>1 DEF Covered
<1> QED
  BY <1>13, <1>14, <1>15, <1>16, <1>17 DEF IInv

\* The level of a client after one of its requests took a token: a request found behind
\* the sweep takes from a bucket that does not count any more.
LEMMA TakeLevels ==
    ASSUME IInv, NEW w \in Worker, Take(w), NEW a \in Client, a = task[w].client
    PROVE  /\ \A c \in Client \ {a} : Level(c)' = Level(c)
           /\ task[w].behind => Level(a)' = Level(a)
           /\ ~task[w].behind => Level(a) > 0 /\ Level(a)' = Level(a) - 1
<1>0. TypeOK /\ (\A v \in Worker : Formed(v) /\ Draws(v)) /\ Separate /\ Sweeps
      /\ \A c \in Client : Covered(c)
  BY DEF IInv
<1>1. /\ task[w].pc = "take" /\ task[w].client \in Client /\ task[w].bucket \in Bucket
  BY <1>0 DEF Take, Formed, TypeOK, Task
<1>2. PICK b \in Bucket : b = task[w].bucket
  BY <1>1
<1>3. /\ tokens[b] > 0 /\ tokens' = [tokens EXCEPT ![b] = @ - 1] /\ UNCHANGED <<limiters, sweep>>
  BY <1>2 DEF Take
<1>4. /\ \A c \in Client : limiters[c] = b => c = a
      /\ ~task[w].behind => limiters[a] = b
      /\ task[w].behind => limiters[a] # b \/ sweep.at = a
  BY <1>0, <1>1, <1>2 DEF Draws
<1>5. ~task[w].behind => sweep.at # a
  <2>1. SUFFICES ASSUME ~task[w].behind, sweep.at = a PROVE FALSE
    OBVIOUS
  <2>2. Holds(w, limiters[sweep.at])
    BY <1>1, <1>2, <1>4, <2>1 DEF Holds
  <2>3. sweep.at # NoClient
    BY <2>1, ConstantsAssumption
  <2> QED
    BY <1>0, <2>1, <2>2, <2>3 DEF Sweeps
<1>6. \A x \in Bucket \ {b} : tokens'[x] = tokens[x]
  BY <1>0, <1>3 DEF TypeOK
<1>7. tokens'[b] = tokens[b] - 1
  BY <1>0, <1>3 DEF TypeOK
<1>8. b # NoBucket
  BY ConstantsAssumption
<1>9. ASSUME NEW c \in Client, limiters[c] # b PROVE Level(c)' = Level(c)
  BY <1>0, <1>3, <1>6, <1>9 DEF Level, TypeOK
<1>10. ASSUME task[w].behind PROVE Level(a)' = Level(a)
  BY <1>3, <1>4, <1>9, <1>10 DEF Level
<1>11. ASSUME ~task[w].behind PROVE Level(a) > 0 /\ Level(a)' = Level(a) - 1
  BY <1>3, <1>4, <1>5, <1>7, <1>8, <1>11 DEF Level
<1> QED
  BY <1>1, <1>2, <1>4, <1>9, <1>10, <1>11

LEMMA TakeStep ==
    ASSUME IInv, NEW w \in Worker, Take(w)
    PROVE  IInv'
<1>0. TypeOK /\ (\A v \in Worker : Formed(v) /\ Draws(v)) /\ Separate /\ Sweeps
      /\ \A c \in Client : Covered(c)
  BY DEF IInv
<1>1. PICK a \in Client : a = task[w].client
  BY <1>0 DEF Take, Formed, TypeOK, Task
<1>2. PICK b \in Bucket : b = task[w].bucket
  BY <1>0 DEF Take, Formed, TypeOK, Task
<1>3. /\ tokens' = [tokens EXCEPT ![b] = @ - 1] /\ tokens[b] > 0
      /\ due' = [due EXCEPT ![a] = @ - 1]
      /\ lent' = IF task[w].behind THEN [lent EXCEPT ![a] = @ + 1] ELSE lent
      /\ task' = [task EXCEPT ![w] = Idle] /\ UNCHANGED <<limiters, global, sweep, requests>>
  BY <1>1, <1>2 DEF Take
<1>4. Idle \in Task
  BY DEF Idle, Task
<1>5. task'[w] = Idle /\ task' \in [Worker -> Task] /\ \A v \in Worker \ {w} : task'[v] = task[v]
  BY <1>0, <1>3, <1>4 DEF TypeOK
<1>6. tokens' \in [Bucket -> 0..Burst]
  <2>1. tokens[b] - 1 \in 0..Burst
    BY <1>0, <1>3, ConstantsAssumption DEF TypeOK
  <2> QED
    BY <1>0, <1>3, <2>1 DEF TypeOK
<1>7. TypeOK'
  BY <1>0, <1>3, <1>5, <1>6 DEF TypeOK
<1>8. ASSUME NEW v \in Worker PROVE Formed(v)' /\ Draws(v)'
  <2>1. CASE v = w
    BY <1>5, <2>1, ConstantsAssumption DEF Formed, Draws, Idle
  <2>2. CASE v # w
    BY <1>0, <1>3, <1>5, <2>2 DEF Formed, Draws
  <2> QED
    BY <2>1, <2>2
<1>9. Separate'
  BY <1>0, <1>3 DEF Separate
<1>10. Sweeps'
  BY <1>0, <1>3, <1>5 DEF Sweeps, Holds, Idle
<1>11. ASSUME NEW c \in Client PROVE Covered(c)'
  <2>1. /\ due[c] \in Int /\ lent[c] \in Nat /\ Level(c) \in 0..Burst /\ Burst \in Nat /\ Covered(c)
    BY <1>0, LevelTyped, ConstantsAssumption DEF TypeOK
  <2>2. CASE c = a
    <3>1. due'[c] = due[c] - 1 /\ lent'[c] = IF task[w].behind THEN lent[c] + 1 ELSE lent[c]
      BY <1>0, <1>3, <2>2 DEF TypeOK
    <3>2. Level(c)' = IF task[w].behind THEN Level(c) ELSE Level(c) - 1
      BY <1>1, <2>2, TakeLevels
    <3> QED
      BY <2>1, <3>1, <3>2 DEF Covered
  <2>3. CASE c # a
    <3>1. due'[c] = due[c] /\ lent'[c] = lent[c]
      BY <1>0, <1>3, <2>3 DEF TypeOK
    <3>2. Level(c)' = Level(c)
      BY <1>1, <2>3, TakeLevels
    <3> QED
      BY <2>1, <3>1, <3>2 DEF Covered
  <2> QED
    BY <2>2, <2>3
<1> QED
  BY <1>7, <1>8, <1>9, <1>10, <1>11 DEF IInv

LEMMA RefuseStep ==
    ASSUME IInv, NEW w \in Worker, Refuse(w)
    PROVE  IInv'
<1>0. TypeOK /\ (\A v \in Worker : Formed(v) /\ Draws(v)) /\ Separate /\ Sweeps
      /\ \A c \in Client : Covered(c)
  BY DEF IInv
<1>1. task' = [task EXCEPT ![w] = Idle]
      /\ UNCHANGED <<limiters, tokens, global, sweep, due, lent, requests>>
  BY DEF Refuse
<1>2. Idle \in Task
  BY DEF Idle, Task
<1>3. task'[w] = Idle /\ task' \in [Worker -> Task] /\ \A v \in Worker \ {w} : task'[v] = task[v]
  BY <1>0, <1>1, <1>2 DEF TypeOK
<1>4. TypeOK'
  BY <1>0, <1>1, <1>3 DEF TypeOK
<1>5. ASSUME NEW v \in Worker PROVE Formed(v)' /\ Draws(v)'
  <2>1. CASE v = w
    BY <1>3, <2>1, ConstantsAssumption DEF Formed, Draws, Idle
  <2>2. CASE v # w
    BY <1>0, <1>1, <1>3, <2>2 DEF Formed, Draws
  <2> QED
    BY <2>1, <2>2
<1>6. Separate' /\ Sweeps'
  BY <1>0, <1>1, <1>3 DEF Separate, Sweeps, Holds, Idle
<1>7. \A c \in Client : Covered(c)'
  BY <1>0, <1>1 DEF Covered, Level
<1> QED
  BY <1>4, <1>5, <1>6, <1>7 DEF IInv

\* Steps that change no bucket, no entry of the map and no request.
LEMMA IdleStep ==
    ASSUME IInv, UNCHANGED <<limiters, tokens, task, due, lent>>, Sweeps',
           global' \in 0..GlobalBurst, requests' \in 0..MaxRequests,
           sweep' \in [on: BOOLEAN, todo: SUBSET Client, at: Client \cup {NoClient}],
           sweep'.at = sweep.at
    PROVE  IInv'
<1>0. TypeOK /\ (\A v \in Worker : Formed(v) /\ Draws(v)) /\ Separate /\ Sweeps
      /\ \A c \in Client : Covered(c)
  BY DEF IInv
<1>1. TypeOK'
  BY <1>0 DEF TypeOK
<1>2. \A v \in Worker : Formed(v)' /\ Draws(v)'
  BY <1>0 DEF Formed, Draws
<1>3. Separate'
  BY <1>0 DEF Separate
<1>4. \A c \in Client : Covered(c)'
  BY <1>0 DEF Covered, Level
<1> QED
  BY <1>1, <1>2, <1>3, <1>4 DEF IInv

\* Every bucket fills at the same rate, whether the map still has it or not.
LEMMA TickLevels ==
    ASSUME IInv, Tick, NEW c \in Client
    PROVE  Level(c)' = Filled(Level(c), Burst)
<1>1. /\ TypeOK /\ tokens' = [b \in Bucket |-> Filled(tokens[b], Burst)]
      /\ UNCHANGED <<limiters, sweep>>
  BY DEF IInv, Tick
<1>2. CASE limiters[c] = NoBucket \/ sweep.at = c
  BY <1>1, <1>2, ConstantsAssumption DEF Level, Filled
<1>3. CASE ~(limiters[c] = NoBucket \/ sweep.at = c)
  <2>1. limiters[c] \in Bucket
    BY <1>1, <1>3 DEF TypeOK
  <2>2. tokens'[limiters[c]] = Filled(tokens[limiters[c]], Burst)
    BY <1>1, <2>1
  <2> QED
    BY <1>1, <1>3, <2>2 DEF Level
<1> QED
  BY <1>2, <1>3

LEMMA TickStep ==
    ASSUME IInv, Tick
    PROVE  IInv'
<1>0. TypeOK /\ (\A v \in Worker : Formed(v) /\ Draws(v)) /\ Separate /\ Sweeps
      /\ \A c \in Client : Covered(c)
  BY DEF IInv
<1>1. /\ tokens' = [b \in Bucket |-> Filled(tokens[b], Burst)]
      /\ global' = Filled(global, GlobalBurst)
      /\ due' = [c \in Client |-> Filled(due[c], Burst)]
      /\ UNCHANGED <<limiters, sweep, task, lent, requests>>
  BY DEF Tick
<1>2. tokens' \in [Bucket -> 0..Burst] /\ global' \in 0..GlobalBurst /\ due' \in [Client -> Int]
  BY <1>0, <1>1, ConstantsAssumption DEF TypeOK, Filled
<1>3. TypeOK'
  BY <1>0, <1>1, <1>2 DEF TypeOK
<1>4. \A v \in Worker : Formed(v)' /\ Draws(v)'
  BY <1>0, <1>1 DEF Formed, Draws
<1>5. Separate' /\ Sweeps'
  BY <1>0, <1>1 DEF Separate, Sweeps, Holds
<1>6. ASSUME NEW c \in Client PROVE Covered(c)'
  <2>1. /\ due[c] \in Int /\ lent[c] \in Nat /\ Level(c) \in 0..Burst /\ Burst \in Nat /\ Covered(c)
    BY <1>0, LevelTyped, ConstantsAssumption DEF TypeOK
  <2>2. Level(c)' = Filled(Level(c), Burst) /\ due'[c] = Filled(due[c], Burst) /\ lent' = lent
    BY <1>1, TickLevels
  <2> QED
    BY <2>1, <2>2 DEF Covered, Filled
<1> QED
  BY <1>3, <1>4, <1>5, <1>6 DEF IInv

\* The sweep finds a bucket: a full one is taken from nobody but those it marks.
LEMMA CheckStep ==
    ASSUME IInv, NEW a \in Client, SweepCheck(a)
    PROVE  IInv'
<1>0. TypeOK /\ (\A v \in Worker : Formed(v) /\ Draws(v)) /\ Separate /\ Sweeps
      /\ \A c \in Client : Covered(c)
  BY DEF IInv
<1>1. /\ sweep.on /\ sweep.at = NoClient /\ a \in sweep.todo
      /\ UNCHANGED <<limiters, tokens, global, due, lent, requests>>
  BY DEF SweepCheck
<1>2. limiters[a] # NoBucket /\ limiters[a] \in Bucket
  BY <1>0, <1>1 DEF Sweeps, TypeOK
<1>3. CASE ~Full(limiters[a])
  <2>1. sweep' = [sweep EXCEPT !.todo = @ \ {a}] /\ task' = task
    BY <1>3 DEF SweepCheck
  <2>2. /\ sweep'.at = sweep.at /\ sweep'.todo = sweep.todo \ {a} /\ sweep'.on = sweep.on
        /\ sweep' \in [on: BOOLEAN, todo: SUBSET Client, at: Client \cup {NoClient}]
    BY <1>0, <2>1 DEF TypeOK
  <2>3. Sweeps'
    BY <1>0, <1>1, <2>1, <2>2 DEF Sweeps, Holds
  <2>4. global' \in 0..GlobalBurst /\ requests' \in 0..MaxRequests
    BY <1>0, <1>1 DEF TypeOK
  <2> QED
    BY <1>1, <2>1, <2>2, <2>3, <2>4, IdleStep
<1>4. CASE Full(limiters[a])
  <2>1. /\ sweep' = [sweep EXCEPT !.at = a]
        /\ task' = [w \in Worker |-> [task[w] EXCEPT !.behind = @ \/ Holds(w, limiters[a])]]
    BY <1>4 DEF SweepCheck
  <2>2. /\ sweep'.at = a /\ sweep'.todo = sweep.todo /\ sweep'.on = sweep.on
        /\ sweep' \in [on: BOOLEAN, todo: SUBSET Client, at: Client \cup {NoClient}]
    BY <1>0, <2>1 DEF TypeOK
  <2>3. ASSUME NEW w \in Worker
        PROVE  /\ task'[w].pc = task[w].pc /\ task'[w].client = task[w].client
               /\ task'[w].bucket = task[w].bucket
               /\ task'[w].behind <=> task[w].behind \/ Holds(w, limiters[a])
               /\ task'[w] \in Task
    <3>1. task[w] \in Task
      BY <1>0 DEF TypeOK
    <3>2. PICK x \in BOOLEAN : x <=> task[w].behind \/ Holds(w, limiters[a])
      OBVIOUS
    <3>3. (task[w].behind \/ Holds(w, limiters[a])) = x
      BY <3>1, <3>2 DEF Task, Holds
    <3>4. task'[w] = [task[w] EXCEPT !.behind = x]
      BY <2>1, <3>3
    <3> QED
      BY <3>1, <3>2, <3>4 DEF Task
  <2>4. task' \in [Worker -> Task]
    <3>1. task' = [w \in Worker |-> task'[w]]
      BY <2>1
    <3> QED
      BY <2>3, <3>1
  <2>5. TypeOK'
    BY <1>0, <1>1, <2>2, <2>4 DEF TypeOK
  <2>6. ASSUME NEW v \in Worker PROVE Formed(v)' /\ Draws(v)'
    <3>1. Holds(v, limiters[a]) => task[v].pc = "take" /\ task[v].client = a
      BY <1>0 DEF Holds, Draws
    <3>2. Formed(v)'
      BY <1>0, <2>3, <3>1 DEF Formed
    <3>3. Draws(v)'
      <4>1. SUFFICES ASSUME task[v].pc = "take" PROVE Draws(v)'
        BY <2>3 DEF Draws
      <4>2. task[v].client \in Client
        BY <1>0, <4>1 DEF Formed, TypeOK, Task
      <4>3. task[v].behind => limiters[task[v].client] # task[v].bucket
        BY <1>0, <1>1, <4>1, <4>2, ConstantsAssumption DEF Draws
      <4> QED
        BY <1>0, <1>1, <2>2, <2>3, <3>1, <4>1, <4>3 DEF Draws
    <3> QED
      BY <3>2, <3>3
  <2>7. Separate'
    BY <1>0, <1>1 DEF Separate
  <2>8. Sweeps'
    BY <1>0, <1>1, <2>2, <2>3 DEF Sweeps, Holds
  <2>9. ASSUME NEW c \in Client PROVE Covered(c)'
    <3>1. Level(c)' = Level(c)
      BY <1>1, <1>2, <1>4, <2>2, ConstantsAssumption DEF Level, Full
    <3> QED
      BY <1>0, <1>1, <3>1 DEF Covered
  <2> QED
    BY <2>5, <2>6, <2>7, <2>8, <2>9 DEF IInv
<1> QED
  BY <1>3, <1>4

LEMMA DeleteStep ==
    ASSUME IInv, NEW a \in Client, SweepDelete(a)
    PROVE  IInv'
<1>0. TypeOK /\ (\A v \in Worker : Formed(v) /\ Draws(v)) /\ Separate /\ Sweeps
      /\ \A c \in Client : Covered(c)
  BY DEF IInv
<1>1. /\ sweep.at = a /\ limiters' = [limiters EXCEPT ![a] = NoBucket]
      /\ sweep' = [sweep EXCEPT !.todo = @ \ {a}, !.at = NoClient]
      /\ UNCHANGED <<tokens, global, task, due, lent, requests>>
  BY DEF SweepDelete
<1>2. /\ a # NoClient /\ a \in sweep.todo /\ limiters[a] # NoBucket
      /\ \A w \in Worker : Holds(w, limiters[a]) => task[w].behind
  BY <1>0, <1>1, ConstantsAssumption DEF Sweeps
<1>3. /\ sweep'.at = NoClient /\ sweep'.todo = sweep.todo \ {a} /\ sweep'.on = sweep.on
      /\ sweep' \in [on: BOOLEAN, todo: SUBSET Client, at: Client \cup {NoClient}]
  BY <1>0, <1>1 DEF TypeOK
<1>4. /\ limiters'[a] = NoBucket /\ \A c \in Client \ {a} : limiters'[c] = limiters[c]
      /\ limiters' \in [Client -> Bucket \cup {NoBucket}]
  BY <1>0, <1>1 DEF TypeOK
<1>5. TypeOK'
  BY <1>0, <1>1, <1>3, <1>4 DEF TypeOK
<1>6. ASSUME NEW v \in Worker PROVE Formed(v)' /\ Draws(v)'
  <2>1. Formed(v)'
    BY <1>0, <1>1 DEF Formed
  <2>2. ASSUME task[v].pc = "take" PROVE Draws(v)'
    <3>1. task[v].client \in Client /\ task[v].bucket # NoBucket
      BY <1>0, <2>2 DEF Formed, TypeOK, Task
    <3>2. \A c \in Client : limiters'[c] = task[v].bucket => c = task[v].client
      BY <1>0, <1>4, <2>2, <3>1 DEF Draws
    <3>3. ~task[v].behind => limiters'[task[v].client] = task[v].bucket
      BY <1>0, <1>2, <1>4, <2>2, <3>1 DEF Draws, Holds
    <3>4. task[v].behind => limiters'[task[v].client] # task[v].bucket
      BY <1>0, <1>1, <1>4, <2>2, <3>1 DEF Draws
    <3> QED
      BY <1>1, <3>2, <3>3, <3>4 DEF Draws
  <2> QED
    BY <1>1, <2>1, <2>2 DEF Draws
<1>7. Separate'
  BY <1>0, <1>4 DEF Separate
<1>8. Sweeps'
  BY <1>0, <1>2, <1>3, <1>4 DEF Sweeps, TypeOK
<1>9. ASSUME NEW c \in Client PROVE Covered(c)'
  <2>1. Level(c)' = Level(c)
    BY <1>1, <1>2, <1>3, <1>4, ConstantsAssumption DEF Level
  <2> QED
    BY <1>0, <1>1, <2>1 DEF Covered
<1> QED
  BY <1>5, <1>6, <1>7, <1>8, <1>9 DEF IInv

\* Arrivals that are turned away at once, and the beginning and the end of a sweep.
LEMMA OtherStep ==
    ASSUME IInv,
           \/ \E w \in Worker : RefuseGlobal(w)
           \/ SweepStart \/ SweepEnd \/ UNCHANGED vars
    PROVE  IInv'
<1>0. TypeOK /\ (\A v \in Worker : Formed(v) /\ Draws(v)) /\ Separate /\ Sweeps
      /\ \A c \in Client : Covered(c)
  BY DEF IInv
<1>1. UNCHANGED <<limiters, tokens, global, task, due, lent>>
  BY DEF RefuseGlobal, SweepStart, SweepEnd, vars
<1>2. global' \in 0..GlobalBurst /\ requests' \in 0..MaxRequests
  BY <1>0, <1>1, ConstantsAssumption DEF RefuseGlobal, SweepStart, SweepEnd, vars, TypeOK
<1>3. CASE sweep' = sweep
  BY <1>0, <1>1, <1>2, <1>3, IdleStep DEF Sweeps, Holds, TypeOK
<1>4. CASE SweepStart
  <2>1. ~sweep.on /\ sweep' = [on |-> TRUE, todo |-> {c \in Client : limiters[c] # NoBucket},
                               at |-> NoClient]
    BY <1>4 DEF SweepStart
  <2>2. sweep.at = NoClient
    BY <1>0, <2>1 DEF Sweeps
  <2>3. Sweeps'
    BY <1>1, <2>1 DEF Sweeps
  <2>4. /\ sweep'.at = sweep.at
        /\ sweep' \in [on: BOOLEAN, todo: SUBSET Client, at: Client \cup {NoClient}]
    BY <2>1, <2>2
  <2> QED
    BY <1>1, <1>2, <2>3, <2>4, IdleStep
<1>5. CASE SweepEnd
  <2>1. sweep.todo = {} /\ sweep' = Resting
    BY <1>5 DEF SweepEnd
  <2>2. sweep.at = NoClient
    BY <1>0, <2>1 DEF Sweeps
  <2>3. Sweeps'
    BY <2>1 DEF Sweeps, Resting
  <2>4. /\ sweep'.at = sweep.at
        /\ sweep' \in [on: BOOLEAN, todo: SUBSET Client, at: Client \cup {NoClient}]
    BY <2>1, <2>2 DEF Resting
  <2> QED
    BY <1>1, <1>2, <2>3, <2>4, IdleStep
<1> QED
  BY <1>3, <1>4, <1>5 DEF RefuseGlobal, vars

-------------------------------------------------------------------------------

\* The inductive invariant of the limiter (getLimiter, Allow and cleanupOldLimiters).
THEOREM LimiterInvariant == Spec => []IInv
<1>1. Init => IInv
  BY InitSound
<1>2. IInv /\ [Next]_vars => IInv'
  BY ArriveStep, FetchStep, TakeStep, RefuseStep, TickStep, CheckStep, DeleteStep, OtherStep
     DEF Next, Serve, Sweeping
<1> QED
  BY <1>1, <1>2, PTL DEF Spec

\* Every variable keeps its type; no bucket is ever overfilled or overdrawn.
THEOREM TypeCorrect == Spec => []TypeOK
<1>1. IInv => TypeOK
  BY DEF IInv
<1> QED
  BY <1>1, LimiterInvariant, PTL

\* Two requests of one client draw from two buckets only if a sweep found one of them full
\* behind the request that holds it.
THEOREM OneBucketPerClient == Spec => []DrawsFromTheMap
<1>1. IInv => DrawsFromTheMap
  BY DEF IInv, Draws, DrawsFromTheMap
<1> QED
  BY <1>1, LimiterInvariant, PTL

\* However often the map is swept, a client gets no more than one bucket would have granted
\* it, but for the requests whose bucket was dropped under them.
THEOREM OverdraftBounded == Spec => []OverdraftExplained
<1>1. IInv => OverdraftExplained
  <2> SUFFICES ASSUME IInv, NEW c \in Client PROVE due[c] + lent[c] >= 0
    BY DEF OverdraftExplained
  <2>1. Level(c) \in 0..Burst /\ due[c] \in Int /\ lent[c] \in Nat
    BY LevelTyped DEF IInv, TypeOK
  <2> QED
    BY <2>1, ConstantsAssumption DEF IInv, Covered
<1> QED
  BY <1>1, LimiterInvariant, PTL

-------------------------------------------------------------------------------
(***************************************************************************)
(* The limiter implements TokenBucket: its state as the client sees it.    *)
(***************************************************************************)

level == [c \in Client |-> Level(c)]
loose == [c \in Client |-> {w \in Worker : task[w].client = c /\ task[w].behind}]

LEMMA Unseen ==
    ASSUME \A c \in Client : Level(c)' = Level(c),
           \A w \in Worker : /\ task'[w].behind <=> task[w].behind
                             /\ task[w].behind => task'[w].client = task[w].client
    PROVE  UNCHANGED <<level, loose>>
BY DEF level, loose

\* A request that does not have to pay is done.
LEMMA SettleMaps ==
    ASSUME NEW w \in Worker, NEW a \in Client, a = task[w].client, task[w].behind,
           task'[w] = Idle, \A v \in Worker \ {w} : task'[v] = task[v]
    PROVE  w \in loose[a] /\ loose' = [loose EXCEPT ![a] = @ \ {w}]
<1>1. task'[w].client = NoClient /\ ~task'[w].behind /\ NoClient \notin Client
  BY ConstantsAssumption DEF Idle
<1>2. {v \in Worker : task'[v].client = a /\ task'[v].behind}
      = {v \in Worker : task[v].client = a /\ task[v].behind} \ {w}
  BY <1>1
<1>3. ASSUME NEW c \in Client, c # a
      PROVE  {v \in Worker : task'[v].client = c /\ task'[v].behind}
             = {v \in Worker : task[v].client = c /\ task[v].behind}
  BY <1>1, <1>3
<1>4. /\ loose'[a] = loose[a] \ {w}
      /\ \A c \in Client \ {a} : loose'[c] = loose[c]
  BY <1>2, <1>3 DEF loose
<1>5. w \in loose[a]
  BY DEF loose
<1>6. /\ loose = [c \in Client |-> loose[c]]
      /\ loose' = [c \in Client |-> loose'[c]]
  BY DEF loose
<1> HIDE DEF loose
<1> QED
  BY <1>4, <1>5, <1>6

\* A request that is decided: it pays, or it is one that does not have to.
LEMMA TakeMaps ==
    ASSUME IInv, NEW w \in Worker, Take(w), NEW a \in Client, a = task[w].client
    PROVE  Limit!Pay(a) \/ Limit!Settle(a)
<1>0. TypeOK /\ \A v \in Worker : Formed(v)
  BY DEF IInv
<1>1. /\ \A c \in Client \ {a} : Level(c)' = Level(c)
      /\ task[w].behind => Level(a)' = Level(a)
      /\ ~task[w].behind => Level(a) > 0 /\ Level(a)' = Level(a) - 1
  BY TakeLevels
<1>2. task' = [task EXCEPT ![w] = Idle]
  BY DEF Take
<1>3. task'[w] = Idle /\ \A v \in Worker \ {w} : task'[v] = task[v]
  BY <1>0, <1>2 DEF TypeOK
<1>4. Idle.client = NoClient /\ ~Idle.behind /\ NoClient \notin Client
  BY ConstantsAssumption DEF Idle
<1>5. CASE task[w].behind
  <2>1. level' = level
    BY <1>1, <1>5 DEF level
  <2>2. w \in loose[a] /\ loose' = [loose EXCEPT ![a] = @ \ {w}]
    BY <1>3, <1>5, SettleMaps
  <2> QED
    BY <2>1, <2>2 DEF Limit!Settle, level, loose
<1>6. CASE ~task[w].behind
  <2>1. level[a] > 0 /\ level' = [level EXCEPT ![a] = @ - 1]
    BY <1>1, <1>6 DEF level
  <2>2. loose' = loose
    BY <1>3, <1>4, <1>6 DEF loose
  <2> QED
    BY <2>1, <2>2 DEF Limit!Pay, level, loose
<1> QED
  BY <1>5, <1>6

LEMMA RefuseMaps ==
    ASSUME IInv, NEW w \in Worker, Refuse(w)
    PROVE  (\E c \in Client : Limit!Settle(c)) \/ UNCHANGED <<level, loose>>
<1>0. TypeOK /\ \A v \in Worker : Formed(v)
  BY DEF IInv
<1>1. PICK a \in Client : a = task[w].client
  BY <1>0 DEF Refuse, Formed, TypeOK, Task
<1>2. task' = [task EXCEPT ![w] = Idle] /\ UNCHANGED <<limiters, tokens, sweep>>
  BY DEF Refuse
<1>3. task'[w] = Idle /\ \A v \in Worker \ {w} : task'[v] = task[v]
  BY <1>0, <1>2 DEF TypeOK
<1>4. Idle.client = NoClient /\ ~Idle.behind /\ NoClient \notin Client
  BY ConstantsAssumption DEF Idle
<1>5. \A c \in Client : Level(c)' = Level(c)
  BY <1>2 DEF Level
<1>6. CASE task[w].behind
  <2>1. level' = level
    BY <1>5 DEF level
  <2>2. w \in loose[a] /\ loose' = [loose EXCEPT ![a] = @ \ {w}]
    BY <1>1, <1>3, <1>6, SettleMaps
  <2> QED
    BY <2>1, <2>2 DEF Limit!Settle, level, loose
<1>7. CASE ~task[w].behind
  BY <1>3, <1>4, <1>5, <1>7, Unseen
<1> QED
  BY <1>6, <1>7

LEMMA TickMaps ==
    ASSUME IInv, Tick
    PROVE  Limit!Refill
<1>1. \A c \in Client : Level(c)' = Filled(Level(c), Burst)
  BY TickLevels
<1>2. level' = [c \in Client |-> IF level[c] < Burst THEN level[c] + 1 ELSE Burst]
  BY <1>1 DEF level, Filled
<1>3. loose' = loose
  BY DEF Tick, loose
<1> QED
  BY <1>2, <1>3 DEF Limit!Refill, level, loose

\* The sweep forgets a client when it finds its bucket full, not when it deletes the entry.
LEMMA CheckMaps ==
    ASSUME IInv, NEW a \in Client, SweepCheck(a)
    PROVE  Limit!Forget(a) \/ UNCHANGED <<level, loose>>
<1>0. TypeOK /\ (\A v \in Worker : Formed(v) /\ Draws(v)) /\ Sweeps
  BY DEF IInv
<1>1. /\ sweep.on /\ sweep.at = NoClient /\ a \in sweep.todo
      /\ UNCHANGED <<limiters, tokens>>
  BY DEF SweepCheck
<1>2. limiters[a] # NoBucket /\ a # NoClient
  BY <1>0, <1>1, ConstantsAssumption DEF Sweeps
<1>3. CASE ~Full(limiters[a])
  <2>1. task' = task /\ sweep'.at = sweep.at
    BY <1>0, <1>3 DEF SweepCheck, TypeOK
  <2>2. \A c \in Client : Level(c)' = Level(c)
    BY <1>1, <2>1 DEF Level
  <2> QED
    BY <2>1, <2>2, Unseen
<1>4. CASE Full(limiters[a])
  <2>1. /\ sweep'.at = a
        /\ task' = [w \in Worker |-> [task[w] EXCEPT !.behind = @ \/ Holds(w, limiters[a])]]
    BY <1>0, <1>4 DEF SweepCheck, TypeOK
  <2>2. \A c \in Client : Level(c)' = Level(c)
    BY <1>1, <1>2, <1>4, <2>1, ConstantsAssumption DEF Level, Full
  <2>3. level' = level /\ level[a] = Burst
    BY <1>1, <1>2, <1>4, <2>2 DEF level, Level, Full
  <2>4. PICK S \in SUBSET Worker : S = {w \in Worker : Holds(w, limiters[a])}
    OBVIOUS
  <2>5. \A w \in S : task[w].client = a
    BY <1>0, <2>4 DEF Holds, Draws
  <2>6. ASSUME NEW w \in Worker
        PROVE  /\ task'[w].client = task[w].client
               /\ task'[w].behind <=> task[w].behind \/ w \in S
    <3>1. task[w] \in Task
      BY <1>0 DEF TypeOK
    <3> QED
      BY <2>1, <2>4, <3>1 DEF Task
  <2>7. loose' = [loose EXCEPT ![a] = @ \cup S]
    <3>1. ASSUME NEW c \in Client, c # a
          PROVE  {w \in Worker : task'[w].client = c /\ task'[w].behind}
                 = {w \in Worker : task[w].client = c /\ task[w].behind}
      BY <2>5, <2>6, <3>1
    <3>2. {w \in Worker : task'[w].client = a /\ task'[w].behind}
          = {w \in Worker : task[w].client = a /\ task[w].behind} \cup S
      BY <2>5, <2>6
    <3> QED
      BY <3>1, <3>2 DEF loose
  <2> QED
    BY <2>3, <2>7 DEF Limit!Forget, level, loose
<1> QED
  BY <1>3, <1>4

\* All other steps are not seen.
LEMMA OthersUnseen ==
    ASSUME IInv,
           \/ \E w \in Worker, c \in Client : Arrive(w, c)
           \/ \E w \in Worker : RefuseGlobal(w) \/ Fetch(w)
           \/ \E c \in Client : SweepDelete(c)
           \/ SweepStart \/ SweepEnd \/ UNCHANGED vars
    PROVE  UNCHANGED <<level, loose>>
<1>0. TypeOK /\ (\A v \in Worker : Formed(v)) /\ Separate /\ Sweeps
  BY DEF IInv
<1>1. ASSUME NEW w \in Worker, NEW a \in Client, Arrive(w, a)
      PROVE  UNCHANGED <<level, loose>>
  <2>1. \A c \in Client : Level(c)' = Level(c)
    BY <1>1 DEF Arrive, Level
  <2>2. \A v \in Worker : /\ task'[v].behind <=> task[v].behind
                          /\ task[v].behind => task'[v].client = task[v].client
    BY <1>0, <1>1 DEF Arrive, Idle, Formed, TypeOK
  <2> QED
    BY <2>1, <2>2, Unseen
<1>2. ASSUME NEW w \in Worker, Fetch(w) PROVE UNCHANGED <<level, loose>>
  <2>1. PICK a \in Client : a = task[w].client
    BY <1>0, <1>2 DEF Fetch, GetLimiter, Formed, TypeOK, Task
  <2>2. PICK b \in Bucket :
          /\ limiters' = [limiters EXCEPT ![a] = b]
          /\ task' = [task EXCEPT ![w].pc = "take", ![w].bucket = b]
          /\ \/ limiters[a] = NoBucket /\ b \in Spare /\ tokens' = [tokens EXCEPT ![b] = Burst]
             \/ limiters[a] = b /\ tokens' = tokens
    BY <1>0, <1>2, <2>1 DEF Fetch, GetLimiter, Spare, TypeOK
  <2>3. sweep' = sweep /\ sweep.at = NoClient /\ a # NoClient /\ b # NoBucket
    BY <1>0, <1>2, ConstantsAssumption DEF Fetch, GetLimiter, Sweeps
  <2>4. /\ limiters'[a] = b /\ \A c \in Client \ {a} : limiters'[c] = limiters[c] /\ limiters[c] # b
    BY <1>0, <2>2, <2>3 DEF TypeOK, Spare, Held, Separate
  <2>5. /\ limiters[a] = NoBucket => tokens'[b] = Burst
        /\ limiters[a] # NoBucket => tokens' = tokens /\ limiters[a] = b
        /\ \A x \in Bucket \ {b} : tokens'[x] = tokens[x]
    BY <1>0, <2>2, <2>3 DEF TypeOK
  <2>6. ASSUME NEW c \in Client PROVE Level(c)' = Level(c)
    <3>1. CASE c = a
      BY <2>3, <2>4, <2>5, <3>1 DEF Level
    <3>2. CASE c # a
      <4>1. limiters[c] = NoBucket \/ limiters[c] \in Bucket \ {b}
        BY <1>0, <2>4, <3>2 DEF TypeOK
      <4> QED
        BY <2>3, <2>4, <2>5, <3>2, <4>1 DEF Level
    <3> QED
      BY <3>1, <3>2
  <2>7. \A v \in Worker : task'[v].behind = task[v].behind /\ task'[v].client = task[v].client
    BY <1>0, <2>2 DEF TypeOK, Task
  <2> QED
    BY <2>6, <2>7, Unseen
<1>3. ASSUME NEW a \in Client, SweepDelete(a) PROVE UNCHANGED <<level, loose>>
  <2>1. /\ sweep.at = a /\ sweep'.at = NoClient /\ task' = task /\ tokens' = tokens /\ a # NoClient
        /\ limiters'[a] = NoBucket /\ \A c \in Client \ {a} : limiters'[c] = limiters[c]
    BY <1>0, <1>3, ConstantsAssumption DEF SweepDelete, TypeOK
  <2>2. \A c \in Client : Level(c)' = Level(c)
    BY <2>1, ConstantsAssumption DEF Level
  <2> QED
    BY <2>1, <2>2, Unseen
<1>4. ASSUME (\E w \in Worker : RefuseGlobal(w)) \/ SweepStart \/ SweepEnd \/ UNCHANGED vars
      PROVE  UNCHANGED <<level, loose>>
  <2>1. UNCHANGED <<limiters, tokens, task>> /\ sweep'.at = sweep.at
    BY <1>0, <1>4 DEF RefuseGlobal, SweepStart, SweepEnd, Resting, Sweeps, vars
  <2>2. \A c \in Client : Level(c)' = Level(c)
    BY <2>1 DEF Level
  <2> QED
    BY <2>1, <2>2, Unseen
<1> QED
  BY <1>1, <1>2, <1>3, <1>4

\* The map, its mutex and its sweep implement one bucket per client, which the limiter may
\* forget while it is full: for every number of clients and requests and every burst.
THEOREM LimiterImplementsBucket == Spec => ImplementsTokenBucket
<1>1. Init => Limit!Init
  <2> SUFFICES ASSUME Init PROVE Limit!Init
    OBVIOUS
  <2>1. level = [c \in Client |-> Burst]
    BY DEF Init, level, Level
  <2>2. loose = [c \in Client |-> {}]
    BY DEF Init, loose, Idle
  <2> QED
    BY <2>1, <2>2 DEF Limit!Init, level, loose
<1>2. ASSUME IInv, [Next]_vars PROVE Limit!Next \/ UNCHANGED <<level, loose>>
  <2>1. ASSUME NEW w \in Worker, Take(w) PROVE Limit!Next
    <3>1. PICK a \in Client : a = task[w].client
      BY <1>2, <2>1 DEF IInv, Take, Formed, TypeOK, Task
    <3> QED
      BY <1>2, <2>1, <3>1, TakeMaps DEF Limit!Next
  <2>2. ASSUME NEW w \in Worker, Refuse(w) PROVE Limit!Next \/ UNCHANGED <<level, loose>>
    BY <1>2, <2>2, RefuseMaps DEF Limit!Next
  <2>3. ASSUME Tick PROVE Limit!Next
    BY <1>2, <2>3, TickMaps DEF Limit!Next
  <2>4. ASSUME NEW a \in Client, SweepCheck(a) PROVE Limit!Next \/ UNCHANGED <<level, loose>>
    BY <1>2, <2>4, CheckMaps DEF Limit!Next
  <2> QED
    BY <1>2, <2>1, <2>2, <2>3, <2>4, OthersUnseen DEF Next, Serve, Sweeping
<1>3. IInv /\ [Next]_vars
      => [Limit!Next]_<<[c \in Client |-> Level(c)],
                        [c \in Client |-> {w \in Worker : task[w].client = c /\ task[w].behind}]>>
  BY <1>2 DEF level, loose
<1> QED
  BY <1>1, <1>3, LimiterInvariant, PTL DEF Spec, ImplementsTokenBucket, Limit!Spec
===============================================================================

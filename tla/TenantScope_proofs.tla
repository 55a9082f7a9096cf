-------------------------- MODULE TenantScope_proofs --------------------------
(***************************************************************************)
(* Proofs about TenantScope, for any number of workers, tenants and agents *)
(* and any limits.  What a request may answer rests on what its            *)
(* transaction holds, so the inductive invariant ties the two together:    *)
(* what is inserted and what is left make up what was asked for (Tallied), *)
(* and no two transactions hold one row (RowOwned, Drafted).  The plan     *)
(* (QuotaInv) is an invariant beside it: of all steps only an admission    *)
(* books anything, and it borrows what it did not count.                   *)
(***************************************************************************)
EXTENDS TenantScope, FiniteSetTheorems, TLAPS

\* TypeOK, but for the history.
Typed ==
    /\ limit \in [Tenant -> Unlimited..MaxLimit]
    /\ rows \in [Agent -> Record]
    /\ draft \in [Worker -> [Agent -> Change]]
    /\ task \in [Worker -> Task]
    /\ requests \in 0..MaxRequests

\* A row that is not there belongs to no open transaction.
RowOwned(a) == rows[a].st # "live" => rows[a].by = NoWorker

\* A transaction changes rows that are there, its own or committed.
Drafted(w, a) ==
    draft[w][a] # "none" => rows[a].st # "free" /\ rows[a].by \in {NoWorker, w}

InStage(w) ==
    /\ task[w].pc \in {"check", "insert"} => task[w].kind = "create" /\ task[w].left > 0
    /\ task[w].pc \in {"find", "write"} =>
          task[w].kind \in {"update", "delete"} /\ ~task[w].aborted

Tallied(w) ==
    /\ IsFiniteSet(Inserted(w))
    /\ task[w].pc \in {"check", "insert", "ok"} /\ task[w].kind = "create" =>
          Cardinality(Inserted(w)) + task[w].left = task[w].want
    /\ task[w].pc = "ok" /\ task[w].kind = "create" => task[w].left = 0

Answers(w) ==
    task[w].pc = "ok" =>
        /\ ~task[w].aborted
        /\ task[w].kind = "update" => draft[w][task[w].agent] = "saved"

Served(w) == task[w].cause = "policy" => task[w].tenant = NoTenant

Clean(w) == task[w].pc = "idle" => Inserted(w) = {}

Sound(w) == InStage(w) /\ Tallied(w) /\ Answers(w) /\ Served(w) /\ Clean(w)

Table == \A a \in Agent : RowOwned(a) /\ \A w \in Worker : Drafted(w, a)

IInv == Typed /\ Table /\ \A w \in Worker : Sound(w)

-------------------------------------------------------------------------------

LEMMA InitSound == Init => IInv
<1> SUFFICES ASSUME Init PROVE IInv
  OBVIOUS
<1>1. MaxImport \in Nat /\ MaxRequests \in Nat /\ NoWorker \notin Worker
  BY ConstantsAssumption
<1>2. Typed
  BY <1>1 DEF Init, Typed, Record, Free, Change, NoDraft, Task, Idle
<1>3. Table
  BY DEF Init, Table, RowOwned, Drafted, Free, NoDraft
<1>4. ASSUME NEW w \in Worker PROVE Sound(w)
  <2>1. Inserted(w) = {}
    BY <1>1 DEF Init, Inserted, Free
  <2>2. IsFiniteSet(Inserted(w))
    BY <2>1, FS_EmptySet
  <2> QED
    BY <2>1, <2>2
       DEF Init, Idle, Sound, InStage, Tallied, Answers, Served, Clean
<1> QED
  BY <1>2, <1>3, <1>4 DEF IInv

\* A request whose transaction nothing happens to stays sound.
LEMMA Bystander ==
    ASSUME NEW v \in Worker, Sound(v),
           task'[v] = task[v], draft'[v] = draft[v], Inserted(v)' = Inserted(v)
    PROVE  Sound(v)'
<1>1. InStage(v)'
  BY DEF Sound, InStage
<1>2. Tallied(v)'
  BY DEF Sound, Tallied
<1>3. Answers(v)'
  BY DEF Sound, Answers
<1>4. Served(v)' /\ Clean(v)'
  BY DEF Sound, Served, Clean
<1> QED
  BY <1>1, <1>2, <1>3, <1>4 DEF Sound

LEMMA TableStays ==
    ASSUME Table, UNCHANGED <<rows, draft>>
    PROVE  Table'
BY DEF Table, RowOwned, Drafted

\* A step that leaves the tables alone and moves one request.
LEMMA QuietStep ==
    ASSUME IInv, NEW w \in Worker, UNCHANGED <<rows, draft>>,
           Typed', \A v \in Worker \ {w} : task'[v] = task[v], Sound(w)'
    PROVE  IInv'
<1>1. Table'
  BY TableStays DEF IInv
<1>2. ASSUME NEW v \in Worker, v # w PROVE Sound(v)'
  <2>1. Inserted(v)' = Inserted(v)
    BY DEF Inserted
  <2> QED
    BY <1>2, <2>1, Bystander DEF IInv
<1> QED
  BY <1>1, <1>2 DEF IInv

\* A request gives up: it answers an error, whatever its transaction holds.
LEMMA FailStep ==
    ASSUME IInv, NEW w \in Worker, UNCHANGED <<limit, rows, draft, requests>>,
           NEW cause \in {"policy", "aborted", "other"},
           cause = "policy" => task[w].tenant = NoTenant,
           Err(w, cause) \/ (Failed(w) /\ cause = "other")
    PROVE  IInv'
<1>1. task[w] \in Task /\ task \in [Worker -> Task]
  BY DEF IInv, Typed
<1>2. PICK b \in BOOLEAN :
         task' = [task EXCEPT ![w].pc = "fail", ![w].aborted = b, ![w].cause = cause]
  <2>1. CASE Err(w, cause)
    BY <2>1 DEF Err
  <2>2. CASE Failed(w) /\ cause = "other"
    <3>1. task[w].aborted \in BOOLEAN
      BY <1>1 DEF Task
    <3>2. task' = [task EXCEPT ![w].pc = "fail", ![w].aborted = task[w].aborted,
                               ![w].cause = cause]
      BY <1>1, <2>2 DEF Failed, Task
    <3> QED
      BY <3>1, <3>2
  <2> QED
    BY <2>1, <2>2
<1>3. task'[w] = [task[w] EXCEPT !.pc = "fail", !.aborted = b, !.cause = cause]
  BY <1>1, <1>2
<1>4. task'[w] \in Task
  BY <1>1, <1>3 DEF Task
<1>5. Typed'
  BY <1>1, <1>2, <1>4 DEF IInv, Typed
<1>6. /\ task'[w].pc = "fail" /\ task'[w].cause = cause
      /\ task'[w].tenant = task[w].tenant
  BY <1>1, <1>3 DEF Task
<1>7. Sound(w)'
  <2>1. Inserted(w)' = Inserted(w)
    BY DEF Inserted
  <2> QED
    BY <1>6, <2>1 DEF IInv, Sound, InStage, Tallied, Answers, Served, Clean
<1>8. \A v \in Worker \ {w} : task'[v] = task[v]
  BY <1>1, <1>2
<1> QED
  BY <1>5, <1>7, <1>8, QuietStep

LEMMA IdleTyped == Idle \in Task
<1>1. 0 \in 0..MaxImport
  BY ConstantsAssumption
<1> QED
  BY <1>1 DEF Task, Idle

LEMMA ArriveStep ==
    ASSUME IInv, NEW w \in Worker, NEW t \in Tenant \cup {NoTenant}, Arrive(w, t)
    PROVE  IInv'
<1>1. /\ task \in [Worker -> Task] /\ task[w].pc = "idle" /\ Sound(w)
      /\ MaxImport \in Nat /\ MaxRequests \in Nat
  <2>1. MaxImport \in Nat /\ MaxRequests \in Nat
    BY ConstantsAssumption
  <2>2. task[w].pc = "idle"
    BY DEF Arrive
  <2> QED
    BY <2>1, <2>2 DEF IInv, Typed
<1>2. Inserted(w) = {} /\ Inserted(w)' = Inserted(w) /\ IsFiniteSet(Inserted(w))
  BY <1>1 DEF Sound, Clean, Tallied, Inserted, Arrive
<1>3. Cardinality(Inserted(w)) = 0
  BY <1>2, FS_EmptySet
<1>4. requests' \in 0..MaxRequests
  <2>1. requests < MaxRequests /\ requests' = requests + 1
    BY DEF Arrive
  <2>2. requests \in 0..MaxRequests
    BY DEF IInv, Typed
  <2> QED
    BY <1>1, <2>1, <2>2
<1>5. ASSUME NEW next \in Task, task' = [task EXCEPT ![w] = next],
             ~next.aborted, next.cause = "none",
             \/ next.pc = "check" /\ next.kind = "create" /\ next.left = next.want
                /\ next.left > 0
             \/ next.pc = "find" /\ next.kind \in {"update", "delete"}
      PROVE  IInv'
  <2>1. task'[w] = next /\ \A v \in Worker \ {w} : task'[v] = task[v]
    BY <1>1, <1>5
  <2>2. Typed'
    BY <1>4, <1>5 DEF IInv, Typed, Arrive
  <2>3. InStage(w)' /\ Answers(w)' /\ Served(w)' /\ Clean(w)'
    BY <1>5, <2>1 DEF InStage, Answers, Served, Clean
  <2>4. next.left \in Nat
    BY <1>1, <1>5 DEF Task
  <2>5. Tallied(w)'
    BY <1>2, <1>3, <1>5, <2>1, <2>4 DEF Tallied
  <2>6. Sound(w)'
    BY <2>3, <2>5 DEF Sound
  <2> QED
    BY <2>1, <2>2, <2>6, QuietStep DEF Arrive
<1>6. CASE \E n \in 1..MaxImport :
             task' = [task EXCEPT ![w] = [Idle EXCEPT !.pc = "check", !.kind = "create",
                                          !.tenant = t, !.want = n, !.left = n]]
  <2>1. PICK n \in 1..MaxImport :
             task' = [task EXCEPT ![w] = [Idle EXCEPT !.pc = "check", !.kind = "create",
                                          !.tenant = t, !.want = n, !.left = n]]
    BY <1>6
  <2> DEFINE next == [Idle EXCEPT !.pc = "check", !.kind = "create",
                                  !.tenant = t, !.want = n, !.left = n]
  <2>2. next \in Task
    <3>1. n \in 0..MaxImport
      BY <1>1
    <3> QED
      BY <3>1, IdleTyped DEF Task
  <2>3. /\ ~next.aborted /\ next.cause = "none" /\ next.pc = "check"
        /\ next.kind = "create" /\ next.left = next.want /\ next.left > 0
    BY <1>1 DEF Idle
  <2> HIDE DEF next
  <2>4. task' = [task EXCEPT ![w] = next]
    BY <2>1 DEF next
  <2> QED
    BY <1>5, <2>2, <2>3, <2>4
<1>7. CASE \E kind \in {"update", "delete"}, a \in Agent :
             task' = [task EXCEPT ![w] = [Idle EXCEPT !.pc = "find", !.kind = kind,
                                          !.tenant = t, !.agent = a]]
  <2>1. PICK kind \in {"update", "delete"}, a \in Agent :
             task' = [task EXCEPT ![w] = [Idle EXCEPT !.pc = "find", !.kind = kind,
                                          !.tenant = t, !.agent = a]]
    BY <1>7
  <2> DEFINE next == [Idle EXCEPT !.pc = "find", !.kind = kind, !.tenant = t, !.agent = a]
  <2>2. next \in Task
    BY IdleTyped DEF Task
  <2>3. /\ ~next.aborted /\ next.cause = "none" /\ next.pc = "find"
        /\ next.kind \in {"update", "delete"}
    BY DEF Idle
  <2> HIDE DEF next
  <2>4. task' = [task EXCEPT ![w] = next]
    BY <2>1 DEF next
  <2> QED
    BY <1>5, <2>2, <2>3, <2>4
<1> QED
  BY <1>6, <1>7 DEF Arrive

\* The check lets a request through, or fails while it is made.
LEMMA AdmitStep ==
    ASSUME IInv, NEW w \in Worker, UNCHANGED <<limit, rows, draft, requests>>,
           task[w].pc = "check", NEW b \in BOOLEAN,
           task' = [task EXCEPT ![w].pc = "insert", ![w].aborted = b]
    PROVE  IInv'
<1>1. task \in [Worker -> Task] /\ task[w] \in Task /\ Sound(w)
  BY DEF IInv, Typed
<1>2. task'[w] = [task[w] EXCEPT !.pc = "insert", !.aborted = b]
  BY <1>1
<1>3. task'[w] \in Task
  BY <1>1, <1>2 DEF Task
<1>4. Typed'
  BY <1>1, <1>2, <1>3 DEF IInv, Typed
<1>5. /\ task'[w].pc = "insert" /\ task'[w].kind = task[w].kind
      /\ task'[w].left = task[w].left /\ task'[w].want = task[w].want
      /\ task'[w].cause = task[w].cause /\ task'[w].tenant = task[w].tenant
  BY <1>1, <1>2 DEF Task
<1>6. Inserted(w)' = Inserted(w)
  BY DEF Inserted
<1>7. Sound(w)'
  BY <1>1, <1>5, <1>6 DEF Sound, InStage, Tallied, Answers, Served, Clean
<1>8. \A v \in Worker \ {w} : task'[v] = task[v]
  BY <1>1
<1> QED
  BY <1>4, <1>7, <1>8, QuietStep

LEMMA CheckStep ==
    ASSUME IInv, NEW w \in Worker, Check(w) \/ CheckFails(w)
    PROVE  IInv'
<1>1. task \in [Worker -> Task] /\ task[w] \in Task
  BY DEF IInv, Typed
<1>2. CASE Check(w) /\ Admit(w)
  <2>1. task[w].aborted \in BOOLEAN
    BY <1>1 DEF Task
  <2>2. task' = [task EXCEPT ![w].pc = "insert", ![w].aborted = task[w].aborted]
    BY <1>1, <1>2 DEF Admit, Task
  <2> QED
    BY <1>2, <2>1, <2>2, AdmitStep DEF Check
<1>3. CASE Check(w) /\ Failed(w)
  BY <1>3, FailStep DEF Check
<1>4. CASE CheckFails(w)
  BY <1>4, AdmitStep DEF CheckFails
<1>5. Check(w) => Admit(w) \/ Failed(w)
  BY DEF Check
<1> QED
  BY <1>2, <1>3, <1>4, <1>5

\* An agent is inserted: the request's transaction holds one more.
LEMMA InsertedStep ==
    ASSUME IInv, NEW w \in Worker, NEW a \in Agent,
           task[w].pc = "insert", ~task[w].aborted, rows[a].st = "free",
           rows' = [rows EXCEPT ![a] = Stamped(w)],
           task' = [task EXCEPT ![w].left = @ - 1,
                                ![w].pc = IF task[w].left = 1 THEN "ok" ELSE @],
           UNCHANGED <<limit, draft, requests>>
    PROVE  IInv'
<1>1. /\ task \in [Worker -> Task] /\ task[w] \in Task /\ Sound(w) /\ Table
      /\ rows \in [Agent -> Record] /\ draft \in [Worker -> [Agent -> Change]]
  BY DEF IInv, Typed
<1>2. MaxImport \in Nat /\ NoWorker \notin Worker
  BY ConstantsAssumption
<1>3. /\ task[w].kind = "create" /\ task[w].left > 0
      /\ task[w].left \in 0..MaxImport /\ task[w].want \in 0..MaxImport
  BY <1>1 DEF Sound, InStage, Task
<1>4. task'[w] = [task[w] EXCEPT !.left = @ - 1,
                                 !.pc = IF task[w].left = 1 THEN "ok" ELSE @]
  BY <1>1
<1>5. /\ task'[w].kind = "create" /\ task'[w].left = task[w].left - 1
      /\ task'[w].pc = (IF task[w].left = 1 THEN "ok" ELSE "insert")
      /\ task'[w].want = task[w].want /\ task'[w].aborted = task[w].aborted
      /\ task'[w].cause = task[w].cause /\ task'[w].tenant = task[w].tenant
  BY <1>1, <1>3, <1>4 DEF Task
<1>6. task[w].left - 1 \in 0..MaxImport
  BY <1>2, <1>3
<1>7. task'[w] \in Task
  BY <1>1, <1>4, <1>5, <1>6 DEF Task
<1>8. /\ rows'[a] = Stamped(w) /\ rows'[a].st = "live" /\ rows'[a].by = w
      /\ \A b \in Agent \ {a} : rows'[b] = rows[b]
  BY <1>1 DEF Stamped
<1>9. rows'[a] \in Record
  BY <1>1, <1>8 DEF Stamped, Record, Task
<1>10. Typed'
  BY <1>1, <1>7, <1>9 DEF IInv, Typed
<1>11. rows[a].by = NoWorker /\ \A v \in Worker : draft[v][a] = "none"
  BY <1>1 DEF Table, RowOwned, Drafted
<1>12. ASSUME NEW b \in Agent PROVE RowOwned(b)' /\ \A v \in Worker : Drafted(v, b)'
  BY <1>1, <1>8, <1>11 DEF Table, RowOwned, Drafted
<1>13. Table'
  BY <1>12 DEF Table
<1>14. Inserted(w)' = Inserted(w) \cup {a} /\ a \notin Inserted(w)
  BY <1>2, <1>8, <1>11 DEF Inserted
<1>15. /\ IsFiniteSet(Inserted(w)')
       /\ Cardinality(Inserted(w)') = Cardinality(Inserted(w)) + 1
       /\ Cardinality(Inserted(w)) \in Nat
  BY <1>1, <1>14, FS_AddElement, FS_CardinalityType DEF Sound, Tallied
<1>16. Cardinality(Inserted(w)) + task[w].left = task[w].want
  BY <1>1, <1>3 DEF Sound, Tallied
<1>17. Tallied(w)'
  BY <1>3, <1>5, <1>15, <1>16 DEF Tallied
<1>18. InStage(w)' /\ Answers(w)' /\ Served(w)' /\ Clean(w)'
  BY <1>1, <1>3, <1>5 DEF Sound, InStage, Answers, Served, Clean
<1>19. ASSUME NEW v \in Worker, v # w PROVE Sound(v)'
  <2>1. Inserted(v)' = Inserted(v)
    BY <1>2, <1>8, <1>11, <1>19 DEF Inserted
  <2>2. task'[v] = task[v]
    BY <1>1, <1>19
  <2>3. Sound(v)
    BY DEF IInv
  <2> QED
    BY <2>1, <2>2, <2>3, Bystander
<1> QED
  BY <1>10, <1>13, <1>17, <1>18, <1>19 DEF IInv, Sound

LEMMA InsertStep ==
    ASSUME IInv, NEW w \in Worker, Insert(w) \/ InsertFails(w)
    PROVE  IInv'
<1>1. Route(w, "create") = IF task[w].tenant = NoTenant THEN "refused" ELSE "tx"
  BY DEF Route, Hooked
<1>2. MayInsert(w, "tx") <=> task[w].tenant # NoTenant
  BY DEF MayInsert, Guc
<1>3. CASE Insert(w) /\ Err(w, "aborted") /\ UNCHANGED rows
  BY <1>3, FailStep DEF Insert
<1>4. CASE Insert(w) /\ task[w].tenant = NoTenant /\ Err(w, "policy") /\ UNCHANGED rows
  BY <1>4, FailStep DEF Insert
<1>5. CASE InsertFails(w)
  BY <1>5, FailStep DEF InsertFails
<1>6. ASSUME Insert(w), ~(Err(w, "aborted") /\ UNCHANGED rows),
             ~(task[w].tenant = NoTenant /\ Err(w, "policy") /\ UNCHANGED rows)
      PROVE  IInv'
  <2>1. /\ task[w].pc = "insert" /\ ~task[w].aborted
        /\ \E a \in Agent :
              /\ rows[a].st = "free"
              /\ rows' = [rows EXCEPT ![a] = Stamped(w)]
              /\ task' = [task EXCEPT ![w].left = @ - 1,
                                      ![w].pc = IF task[w].left = 1 THEN "ok" ELSE @]
    BY <1>1, <1>2, <1>6 DEF Insert
  <2>2. PICK a \in Agent :
              /\ rows[a].st = "free"
              /\ rows' = [rows EXCEPT ![a] = Stamped(w)]
              /\ task' = [task EXCEPT ![w].left = @ - 1,
                                      ![w].pc = IF task[w].left = 1 THEN "ok" ELSE @]
    BY <2>1
  <2>3. UNCHANGED <<limit, draft, requests>>
    BY <1>6 DEF Insert
  <2> QED
    BY <2>1, <2>2, <2>3, InsertedStep
<1> QED
  BY <1>3, <1>4, <1>5, <1>6

\* A request goes on to its write, or its answer, on the rows its transaction has.
LEMMA FindStep ==
    ASSUME IInv, NEW w \in Worker, Find(w)
    PROVE  IInv'
<1>1. /\ task \in [Worker -> Task] /\ task[w] \in Task /\ Sound(w)
      /\ task[w].pc = "find"
  BY DEF IInv, Typed, Find
<1>2. Route(w, "read") = "refused" => task[w].tenant = NoTenant
  BY DEF Route, Hooked
<1>3. CASE Err(w, "policy") /\ Route(w, "read") = "refused"
  BY <1>2, <1>3, FailStep DEF Find
<1>4. CASE Failed(w)
  BY <1>4, FailStep DEF Find
<1>5. CASE task' = [task EXCEPT ![w].pc = "write"]
  <2>1. /\ task'[w] = [task[w] EXCEPT !.pc = "write"]
        /\ \A v \in Worker \ {w} : task'[v] = task[v]
    BY <1>1, <1>5
  <2>2. task'[w] \in Task
    BY <1>1, <2>1 DEF Task
  <2>3. Typed'
    BY <1>1, <1>5, <2>2 DEF Find, IInv, Typed
  <2>4. /\ task'[w].pc = "write" /\ task'[w].kind = task[w].kind
        /\ task'[w].aborted = task[w].aborted
        /\ task'[w].cause = task[w].cause /\ task'[w].tenant = task[w].tenant
    BY <1>1, <2>1 DEF Task
  <2>5. Inserted(w)' = Inserted(w)
    BY DEF Find, Inserted
  <2>6. Sound(w)'
    BY <1>1, <2>4, <2>5 DEF Sound, InStage, Tallied, Answers, Served, Clean
  <2> QED
    BY <2>1, <2>3, <2>6, QuietStep DEF Find
<1> QED
  BY <1>3, <1>4, <1>5 DEF Find

\* The write of an agent the transaction sees.
LEMMA WrittenStep ==
    ASSUME IInv, NEW w \in Worker, NEW change \in {"saved", "deleted"},
           task[w].pc = "write", task[w].agent \in Visible(w, "tx"),
           task[w].kind = "update" => change = "saved",
           draft' = [draft EXCEPT ![w][task[w].agent] = change],
           task' = [task EXCEPT ![w].pc = "ok"],
           UNCHANGED <<limit, rows, requests>>
    PROVE  IInv'
<1>1. /\ task \in [Worker -> Task] /\ task[w] \in Task /\ Sound(w) /\ Table
      /\ draft \in [Worker -> [Agent -> Change]]
  BY DEF IInv, Typed
<1> DEFINE a == task[w].agent
<1>2. /\ a \in Agent /\ rows[a].st = "live" /\ rows[a].by \in {NoWorker, w}
  BY DEF Visible
<1>3. /\ task'[w] = [task[w] EXCEPT !.pc = "ok"]
      /\ \A v \in Worker \ {w} : task'[v] = task[v]
  BY <1>1
<1>4. task'[w] \in Task
  BY <1>1, <1>3 DEF Task
<1>5. change \in Change
  BY DEF Change
<1>6. Typed'
  BY <1>1, <1>4, <1>5 DEF IInv, Typed
<1>7. /\ task'[w].pc = "ok" /\ task'[w].kind = task[w].kind /\ task'[w].agent = task[w].agent
      /\ task'[w].aborted = task[w].aborted
      /\ task'[w].cause = task[w].cause /\ task'[w].tenant = task[w].tenant
  BY <1>1, <1>3 DEF Task
<1>8. task[w].kind \in {"update", "delete"} /\ ~task[w].aborted
  BY <1>1 DEF Sound, InStage
<1> HIDE DEF a
<1>9. /\ draft' = [draft EXCEPT ![w][a] = change]
  BY DEF a
<1>10. draft'[w][a] = change
  BY <1>1, <1>2, <1>9
<1>11. \A v \in Worker, b \in Agent : v # w \/ b # a => draft'[v][b] = draft[v][b]
  BY <1>1, <1>9
<1>12. \A v \in Worker \ {w} : draft'[v] = draft[v]
  BY <1>1, <1>9
<1>13. Table'
  <2>1. ASSUME NEW b \in Agent PROVE RowOwned(b)'
    BY <1>1 DEF Table, RowOwned
  <2>2. ASSUME NEW b \in Agent, NEW v \in Worker PROVE Drafted(v, b)'
    <3>1. CASE v = w /\ b = a
      BY <1>2, <3>1 DEF Drafted
    <3>2. CASE v # w \/ b # a
      BY <1>1, <1>11, <3>2 DEF Table, Drafted
    <3> QED
      BY <3>1, <3>2
  <2> QED
    BY <2>1, <2>2 DEF Table
<1>14. Inserted(w)' = Inserted(w)
  BY DEF Inserted
<1>15. Answers(w)'
  BY <1>7, <1>8, <1>10 DEF Answers, a
<1>16. Sound(w)'
  BY <1>1, <1>7, <1>8, <1>14, <1>15 DEF Sound, InStage, Tallied, Served, Clean
<1>17. ASSUME NEW v \in Worker, v # w PROVE Sound(v)'
  <2>1. Inserted(v)' = Inserted(v)
    BY DEF Inserted
  <2>2. Sound(v)
    BY DEF IInv
  <2> QED
    BY <1>3, <1>12, <1>17, <2>1, <2>2, Bystander
<1> QED
  BY <1>6, <1>13, <1>16, <1>17 DEF IInv

\* A delete that matched no row.
LEMMA MissedStep ==
    ASSUME IInv, NEW w \in Worker, task[w].pc = "write", task[w].kind = "delete",
           task' = [task EXCEPT ![w].pc = "ok"], UNCHANGED <<limit, rows, draft, requests>>
    PROVE  IInv'
<1>1. task \in [Worker -> Task] /\ task[w] \in Task /\ Sound(w)
  BY DEF IInv, Typed
<1>2. /\ task'[w] = [task[w] EXCEPT !.pc = "ok"]
      /\ \A v \in Worker \ {w} : task'[v] = task[v]
  BY <1>1
<1>3. task'[w] \in Task
  BY <1>1, <1>2 DEF Task
<1>4. Typed'
  BY <1>1, <1>3 DEF IInv, Typed
<1>5. /\ task'[w].pc = "ok" /\ task'[w].kind = "delete"
      /\ task'[w].aborted = task[w].aborted
      /\ task'[w].cause = task[w].cause /\ task'[w].tenant = task[w].tenant
  BY <1>1, <1>2 DEF Task
<1>6. Inserted(w)' = Inserted(w)
  BY DEF Inserted
<1>7. Sound(w)'
  BY <1>1, <1>5, <1>6 DEF Sound, InStage, Tallied, Answers, Served, Clean
<1> QED
  BY <1>2, <1>4, <1>7, QuietStep

LEMMA WriteStep ==
    ASSUME IInv, NEW w \in Worker, Write(w)
    PROVE  IInv'
<1> DEFINE t == task[w]
<1>1. t.kind \in {"update", "delete"} /\ t.pc = "write"
  BY DEF IInv, Sound, InStage, Write
<1>2. /\ Route(w, "read") = Route(w, t.kind)
      /\ Route(w, t.kind) = (IF t.tenant = NoTenant THEN "refused" ELSE "tx")
  BY <1>1 DEF Route, Hooked
<1>3. UNCHANGED <<limit, rows, requests>>
  BY DEF Write
<1>4. CASE t.tenant = NoTenant
  <2>1. Err(w, "policy") /\ UNCHANGED draft
    BY <1>2, <1>4 DEF Write
  <2> QED
    BY <1>3, <1>4, <2>1, FailStep
<1>5. CASE t.tenant # NoTenant /\ t.agent \in Visible(w, "tx")
  <2> DEFINE change == IF t.kind = "delete" THEN "deleted" ELSE "saved"
  <2>1. /\ draft' = [draft EXCEPT ![w][t.agent] = change]
        /\ task' = [task EXCEPT ![w].pc = "ok"]
    BY <1>2, <1>5 DEF Write
  <2>2. /\ change \in {"saved", "deleted"}
        /\ t.kind = "update" => change = "saved"
    OBVIOUS
  <2> HIDE DEF change
  <2> QED
    BY <1>1, <1>3, <1>5, <2>1, <2>2, WrittenStep
<1>6. CASE t.tenant # NoTenant /\ t.agent \notin Visible(w, "tx")
  <2>1. /\ UNCHANGED draft
        /\ IF t.kind = "delete" THEN task' = [task EXCEPT ![w].pc = "ok"] ELSE Failed(w)
    BY <1>2, <1>6 DEF Write
  <2>2. CASE t.kind = "delete"
    BY <1>1, <1>3, <2>1, <2>2, MissedStep
  <2>3. CASE t.kind # "delete"
    BY <1>3, <2>1, <2>3, FailStep
  <2> QED
    BY <2>2, <2>3
<1> QED
  BY <1>4, <1>5, <1>6

\* A transaction is over: its rows are nobody's, and those of others stay theirs.
LEMMA OverStep ==
    ASSUME IInv, NEW w \in Worker, Over(w),
           rows' \in [Agent -> Record],
           \A a \in Agent :
              /\ rows[a].by = w => rows'[a].by = NoWorker
              /\ rows[a].by # w =>
                    /\ rows'[a].by = rows[a].by
                    /\ rows[a].st # "free" => rows'[a].st # "free"
              /\ rows'[a].st # "live" => rows'[a].by = NoWorker
    PROVE  IInv'
<1>1. /\ task \in [Worker -> Task] /\ draft \in [Worker -> [Agent -> Change]] /\ Table
  BY DEF IInv, Typed
<1>2. NoWorker \notin Worker
  BY ConstantsAssumption
<1>3. /\ task'[w] = Idle /\ draft'[w] = NoDraft
      /\ \A v \in Worker \ {w} : task'[v] = task[v] /\ draft'[v] = draft[v]
  BY <1>1 DEF Over
<1>4. NoDraft \in [Agent -> Change]
  BY DEF NoDraft, Change
<1>5. Typed'
  BY <1>1, <1>4, IdleTyped DEF Over, IInv, Typed
<1>6. ASSUME NEW a \in Agent, NEW v \in Worker PROVE Drafted(v, a)'
  <2>1. CASE v = w
    BY <1>3, <2>1 DEF Drafted, NoDraft
  <2>2. CASE v # w
    BY <1>1, <1>2, <1>3, <2>2 DEF Table, Drafted
  <2> QED
    BY <2>1, <2>2
<1>7. Table'
  BY <1>6 DEF Table, RowOwned
<1>8. Inserted(w)' = {}
  BY <1>2 DEF Inserted
<1>9. IsFiniteSet(Inserted(w)')
  BY <1>8, FS_EmptySet
<1>10. Sound(w)'
  BY <1>3, <1>8, <1>9 DEF Sound, InStage, Tallied, Answers, Served, Clean, Idle
<1>11. ASSUME NEW v \in Worker, v # w PROVE Sound(v)'
  <2>1. Inserted(v)' = Inserted(v)
    BY <1>2, <1>11 DEF Inserted
  <2>2. Sound(v)
    BY DEF IInv
  <2> QED
    BY <1>3, <1>11, <2>1, <2>2, Bystander
<1> QED
  BY <1>5, <1>7, <1>10, <1>11 DEF IInv

LEMMA Committed ==
    ASSUME IInv, NEW w \in Worker, Commit(w), NEW a \in Agent
    PROVE  /\ rows'[a] \in Record
           /\ rows[a].by = w => rows'[a].st = "live" /\ rows'[a].by = NoWorker
           /\ rows[a].by # w =>
                 /\ rows'[a].by = rows[a].by
                 /\ rows[a].st # "free" <=> rows'[a].st # "free"
           /\ rows'[a].st # "live" => rows'[a].by = NoWorker
<1>1. /\ rows[a] \in Record /\ RowOwned(a) /\ Drafted(w, a)
      /\ draft[w][a] \in Change
  BY DEF IInv, Typed, Table
<1>2. NoWorker \notin Worker
  BY ConstantsAssumption
<1>3. CASE rows[a].by = w
  <2>1. rows'[a] = [rows[a] EXCEPT !.by = NoWorker]
    BY <1>3 DEF Commit
  <2>2. rows[a].st = "live"
    BY <1>1, <1>2, <1>3 DEF RowOwned
  <2> QED
    BY <1>1, <1>3, <2>1, <2>2 DEF Record
<1>4. CASE rows[a].by # w /\ draft[w][a] = "none"
  <2>1. rows'[a] = rows[a]
    BY <1>4 DEF Commit
  <2> QED
    BY <1>1, <1>4, <2>1 DEF RowOwned
<1>5. CASE rows[a].by # w /\ draft[w][a] = "saved"
  <2>1. rows'[a] = [rows[a] EXCEPT !.saved = TRUE]
    BY <1>5 DEF Commit
  <2>2. rows[a].by = NoWorker /\ rows[a].st # "free"
    BY <1>1, <1>5 DEF Drafted
  <2> QED
    BY <1>1, <1>5, <2>1, <2>2 DEF Record
<1>6. CASE rows[a].by # w /\ draft[w][a] = "deleted"
  <2>1. rows'[a] = [rows[a] EXCEPT !.st = "gone"]
    BY <1>6 DEF Commit
  <2>2. rows[a].by = NoWorker /\ rows[a].st # "free"
    BY <1>1, <1>6 DEF Drafted
  <2> QED
    BY <1>1, <1>6, <2>1, <2>2 DEF Record
<1> QED
  BY <1>1, <1>3, <1>4, <1>5, <1>6 DEF Change

LEMMA RolledBack ==
    ASSUME IInv, NEW w \in Worker, Rollback(w), NEW a \in Agent
    PROVE  /\ rows'[a] \in Record
           /\ rows[a].by = w => rows'[a].st = "free" /\ rows'[a].by = NoWorker
           /\ rows[a].by # w => rows'[a] = rows[a]
           /\ rows'[a].st # "live" => rows'[a].by = NoWorker
<1>1. rows[a] \in Record /\ RowOwned(a)
  BY DEF IInv, Typed, Table
<1>2. CASE rows[a].by = w
  BY <1>2 DEF Rollback, Free, Record
<1>3. CASE rows[a].by # w
  BY <1>1, <1>3 DEF Rollback, RowOwned
<1> QED
  BY <1>2, <1>3

LEMMA EndStep ==
    ASSUME IInv, NEW w \in Worker, Release(w) \/ Lose(w)
    PROVE  IInv'
<1>1. Over(w) /\ (Commit(w) \/ Rollback(w))
  BY DEF Release, Lose
<1>2. rows' = [a \in Agent |-> rows'[a]]
  BY <1>1 DEF Commit, Rollback
<1>3. CASE Commit(w)
  <2>1. rows' \in [Agent -> Record]
    BY <1>2, <1>3, Committed
  <2> QED
    BY <1>1, <1>3, <2>1, Committed, OverStep
<1>4. CASE Rollback(w)
  <2>1. rows' \in [Agent -> Record]
    BY <1>2, <1>4, RolledBack
  <2> QED
    BY <1>1, <1>4, <2>1, RolledBack, OverStep
<1> QED
  BY <1>1, <1>3, <1>4

LEMMA IInvStep ==
    ASSUME IInv, [Next]_vars
    PROVE  IInv'
<1>1. ASSUME NEW w \in Worker, NEW t \in Tenant \cup {NoTenant}, Arrive(w, t) PROVE IInv'
  BY <1>1, ArriveStep
<1>2. ASSUME NEW w \in Worker, Check(w) \/ CheckFails(w) PROVE IInv'
  BY <1>2, CheckStep
<1>3. ASSUME NEW w \in Worker, Insert(w) \/ InsertFails(w) PROVE IInv'
  BY <1>3, InsertStep
<1>4. ASSUME NEW w \in Worker, Find(w) PROVE IInv'
  BY <1>4, FindStep
<1>5. ASSUME NEW w \in Worker, Write(w) PROVE IInv'
  BY <1>5, WriteStep
<1>6. ASSUME NEW w \in Worker, Release(w) \/ Lose(w) PROVE IInv'
  BY <1>6, EndStep
<1>7. CASE UNCHANGED vars
  <2>1. Typed' /\ Table'
    BY <1>7, TableStays DEF IInv, Typed, vars
  <2>2. ASSUME NEW w \in Worker PROVE Sound(w)'
    <3>1. Inserted(w)' = Inserted(w)
      BY <1>7 DEF Inserted, vars
    <3>2. Sound(w)
      BY DEF IInv
    <3> QED
      BY <1>7, <3>1, <3>2, Bystander DEF vars
  <2> QED
    BY <2>1, <2>2 DEF IInv
<1> QED
  BY <1>1, <1>2, <1>3, <1>4, <1>5, <1>6, <1>7 DEF Next

-------------------------------------------------------------------------------

\* The inductive invariant of the requests and their transactions (tenantscope,
\* tenantstamp, the agents' repository), for any number of either.
THEOREM ScopeInvariant == Spec => []IInv
<1>1. Init => IInv
  BY InitSound
<1>2. IInv /\ [Next]_vars => IInv'
  BY IInvStep
<1> QED
  BY <1>1, <1>2, PTL DEF Spec

\* What a request has answered is in its transaction: no update is lost silently, and an
\* import that is answered has inserted all its agents.
THEOREM NoSilentLoss == Spec => []AnswersAreWritten
<1>1. IInv => AnswersAreWritten
  <2> SUFFICES ASSUME IInv, NEW w \in Worker, task[w].pc = "ok"
               PROVE  /\ ~task[w].aborted
                      /\ task[w].kind = "update" => draft[w][task[w].agent] = "saved"
                      /\ task[w].kind = "create" => Cardinality(Inserted(w)) = task[w].want
    BY DEF AnswersAreWritten
  <2>1. Answers(w) /\ Tallied(w)
    BY DEF IInv, Sound
  <2>2. Cardinality(Inserted(w)) \in Nat
    BY <2>1, FS_CardinalityType DEF Tallied
  <2> QED
    BY <2>1, <2>2 DEF Answers, Tallied
<1> QED
  BY <1>1, ScopeInvariant, PTL

\* Neither policy nor plugin refuses a statement of a request whose tenant is bound.
THEOREM BoundRequestsServed == Spec => []BoundIsServed
<1>1. IInv => BoundIsServed
  BY DEF IInv, Sound, Served, BoundIsServed
<1> QED
  BY <1>1, ScopeInvariant, PTL

\* What FateShared says of one step, one request and one agent.
Together(w, a) ==
    /\ rows[a].st = "free" /\ rows'[a].st # "free" => rows'[a].by \in Worker
    /\ a \in Inserted(w) /\ rows'[a].by # w =>
          /\ task'[w].pc = "idle"
          /\ \A b \in Inserted(w) : rows'[b].st = rows'[a].st /\ rows'[b].by # w

LEMMA TogetherStep ==
    ASSUME IInv, [Next]_vars, NEW w \in Worker, NEW a \in Agent
    PROVE  Together(w, a)
<1>1. rows \in [Agent -> Record] /\ task \in [Worker -> Task]
  BY DEF IInv, Typed
<1>2. NoWorker \notin Worker
  BY ConstantsAssumption
<1>3. CASE UNCHANGED rows
  BY <1>3 DEF Together, Inserted
<1>4. ASSUME NEW v \in Worker, NEW b \in Agent, rows[b].st = "free",
             rows' = [rows EXCEPT ![b] = Stamped(v)]
      PROVE  Together(w, a)
  <2>1. rows'[b].by = v /\ \A c \in Agent \ {b} : rows'[c] = rows[c]
    BY <1>1, <1>4 DEF Stamped
  <2>2. rows[b].by = NoWorker
    BY <1>4 DEF IInv, Table, RowOwned
  <2> QED
    BY <1>2, <2>1, <2>2 DEF Together, Inserted
<1>5. ASSUME NEW v \in Worker, Over(v), Commit(v) PROVE Together(w, a)
  <2>1. task'[v].pc = "idle"
    BY <1>1, <1>5 DEF Over, Idle
  <2>2. \A b \in Agent :
           /\ rows[b].by = v => rows'[b].st = "live" /\ rows'[b].by = NoWorker
           /\ rows[b].by # v =>
                 /\ rows'[b].by = rows[b].by
                 /\ rows[b].st # "free" <=> rows'[b].st # "free"
    BY <1>5, Committed
  <2>3. \A b \in Agent : rows[b].st = "free" => rows[b].by = NoWorker
    BY DEF IInv, Table, RowOwned
  <2>4. CASE w = v
    BY <1>2, <2>1, <2>2, <2>3, <2>4 DEF Together, Inserted
  <2>5. CASE w # v
    BY <1>2, <2>2, <2>3, <2>5 DEF Together, Inserted
  <2> QED
    BY <2>4, <2>5
<1>6. ASSUME NEW v \in Worker, Over(v), Rollback(v) PROVE Together(w, a)
  <2>1. task'[v].pc = "idle"
    BY <1>1, <1>6 DEF Over, Idle
  <2>2. \A b \in Agent :
           /\ rows[b].by = v => rows'[b].st = "free" /\ rows'[b].by = NoWorker
           /\ rows[b].by # v =>
                 /\ rows'[b].by = rows[b].by
                 /\ rows[b].st # "free" <=> rows'[b].st # "free"
    BY <1>6, RolledBack
  <2>3. \A b \in Agent : rows[b].st = "free" => rows[b].by = NoWorker
    BY DEF IInv, Table, RowOwned
  <2>4. CASE w = v
    BY <1>2, <2>1, <2>2, <2>3, <2>4 DEF Together, Inserted
  <2>5. CASE w # v
    BY <1>2, <2>2, <2>3, <2>5 DEF Together, Inserted
  <2> QED
    BY <2>4, <2>5
<1>7. ASSUME NEW v \in Worker, Release(v) \/ Lose(v)
      PROVE  Over(v) /\ (Commit(v) \/ Rollback(v))
  BY <1>7 DEF Release, Lose
<1>8. ASSUME NEW v \in Worker, Insert(v), rows' # rows
      PROVE  \E b \in Agent : rows[b].st = "free" /\ rows' = [rows EXCEPT ![b] = Stamped(v)]
  BY <1>8 DEF Insert
<1>9. \/ UNCHANGED rows
      \/ \E v \in Worker : Insert(v) \/ Release(v) \/ Lose(v)
  BY DEF Next, vars, Arrive, Check, CheckFails, InsertFails, Find, Write
<1> QED
  BY <1>3, <1>4, <1>5, <1>6, <1>7, <1>8, <1>9

\* The agents of one request become visible to others, or vanish, together and only when
\* the request is over.
THEOREM AgentsShareFate == Spec => FateShared
<1>1. IInv /\ [Next]_vars => \A w \in Worker, a \in Agent : Together(w, a)
  BY TogetherStep
<1>2. ASSUME IInv, [Next]_vars
      PROVE  \A w \in Worker, a \in Agent :
          /\ rows[a].st = "free" /\ rows'[a].st # "free" => rows'[a].by \in Worker
          /\ a \in Inserted(w) /\ rows'[a].by # w =>
                /\ task'[w].pc = "idle"
                /\ \A b \in Inserted(w) : rows'[b].st = rows'[a].st /\ rows'[b].by # w
  BY <1>1, <1>2 DEF Together
<1> QED
  BY <1>2, ScopeInvariant, PTL DEF Spec, FateShared

-------------------------------------------------------------------------------
\* The plan, with the type of the history it speaks of.
QuotaInv == borrowed \in [Tenant -> Nat] /\ QuotaKept

LEMMA BooksFinite ==
    ASSUME NEW t
    PROVE  /\ IsFiniteSet(Owned(t)) /\ IsFiniteSet(Due(t))
           /\ Cardinality(Owned(t)) \in Nat /\ Cardinality(Due(t)) \in Nat
<1>1. IsFiniteSet(Agent) /\ IsFiniteSet(Worker) /\ MaxImport \in Nat
  BY ConstantsAssumption
<1>2. IsFiniteSet(Owned(t))
  BY <1>1, FS_Subset DEF Owned
<1>3. IsFiniteSet(1..MaxImport)
  BY <1>1, FS_Interval
<1>4. IsFiniteSet(Worker \X (1..MaxImport))
  BY <1>1, <1>3, FS_Product
<1>5. Due(t) \in SUBSET (Worker \X (1..MaxImport))
  BY DEF Due
<1>6. IsFiniteSet(Due(t))
  BY <1>4, <1>5, FS_Subset
<1> QED
  BY <1>2, <1>6, FS_CardinalityType

\* A step that books nothing more keeps the plan.
LEMMA NoMoreBooked ==
    ASSUME QuotaInv, UNCHANGED <<limit, borrowed>>,
           ASSUME NEW t \in Tenant PROVE Owned(t)' \subseteq Owned(t),
           ASSUME NEW t \in Tenant PROVE Due(t)' \subseteq Due(t),
           IInv
    PROVE  QuotaInv'
<1>1. ASSUME NEW t \in Tenant, limit[t] # Unlimited
      PROVE  Booked(t)' <= limit[t] + borrowed[t]
  <2>1. IsFiniteSet(Owned(t)) /\ IsFiniteSet(Due(t))
        /\ Cardinality(Owned(t)) \in Nat /\ Cardinality(Due(t)) \in Nat
    BY BooksFinite
  <2>2. Owned(t)' \in SUBSET Owned(t) /\ Due(t)' \in SUBSET Due(t)
    OBVIOUS
  <2>3. /\ IsFiniteSet(Owned(t)') /\ Cardinality(Owned(t)') <= Cardinality(Owned(t))
        /\ IsFiniteSet(Due(t)') /\ Cardinality(Due(t)') <= Cardinality(Due(t))
    BY <2>1, <2>2, FS_Subset
  <2>4. Cardinality(Owned(t)') \in Nat /\ Cardinality(Due(t)') \in Nat
    BY <2>3, FS_CardinalityType
  <2>5. Booked(t) <= limit[t] + borrowed[t]
    BY <1>1 DEF QuotaInv, QuotaKept
  <2>6. limit[t] \in Int /\ borrowed[t] \in Nat
    BY ConstantsAssumption DEF IInv, Typed, QuotaInv, Unlimited
  <2> QED
    BY <2>1, <2>3, <2>4, <2>5, <2>6 DEF Booked
<1> QED
  BY <1>1 DEF QuotaInv, QuotaKept

LEMMA DueIs ==
    ASSUME NEW t, NEW v \in Worker, NEW k
    PROVE  <<v, k>> \in Due(t) <=>
              /\ k \in 1..MaxImport /\ k <= task[v].left
              /\ task[v].tenant = t /\ task[v].pc = "insert" /\ ~task[v].aborted
BY DEF Due, Promised

LEMMA DueIsNext ==
    ASSUME NEW t, NEW v \in Worker, NEW k
    PROVE  <<v, k>> \in Due(t)' <=>
              /\ k \in 1..MaxImport /\ k <= task'[v].left
              /\ task'[v].tenant = t /\ task'[v].pc = "insert" /\ ~task'[v].aborted
BY DEF Due, Promised

\* A request that is about to insert is the only one that has agents due.
LEMMA DueOfOthers ==
    ASSUME NEW w \in Worker, NEW t,
           \A v \in Worker \ {w} : task'[v] = task[v],
           ~(task'[w].pc = "insert" /\ ~task'[w].aborted)
    PROVE  Due(t)' \subseteq Due(t)
<1> SUFFICES ASSUME NEW d \in Due(t)' PROVE d \in Due(t)
  OBVIOUS
<1>1. PICK v \in Worker, k \in 1..MaxImport : d = <<v, k>>
  BY DEF Due
<1>2. v # w
  BY <1>1, DueIsNext
<1> QED
  BY <1>1, <1>2, DueIs, DueIsNext

\* The requests of other tenants owe nothing to this one.
LEMMA DueElsewhere ==
    ASSUME NEW w \in Worker, NEW t, task[w].tenant # t, task'[w].tenant # t,
           \A v \in Worker \ {w} : task'[v] = task[v]
    PROVE  Due(t)' = Due(t)
<1>1. ASSUME NEW v \in Worker, NEW k \in 1..MaxImport
      PROVE  <<v, k>> \in Due(t)' <=> <<v, k>> \in Due(t)
  <2>1. CASE v = w
    BY <2>1, DueIs, DueIsNext
  <2>2. CASE v # w
    BY <2>2, DueIs, DueIsNext
  <2> QED
    BY <2>1, <2>2
<1>2. Due(t) \subseteq Worker \X (1..MaxImport) /\ Due(t)' \subseteq Worker \X (1..MaxImport)
  BY DEF Due
<1> QED
  BY <1>1, <1>2

LEMMA AdmissionKeepsPlan ==
    ASSUME IInv, QuotaInv, NEW w \in Worker, Check(w), Admit(w),
           NEW t \in Tenant, task[w].tenant = t, limit[t] # Unlimited
    PROVE  QuotaInv'
<1>1. /\ task \in [Worker -> Task] /\ task[w] \in Task /\ task[w].pc = "check"
      /\ UNCHANGED <<limit, rows>>
      /\ task' = [task EXCEPT ![w].pc = "insert"]
  BY DEF IInv, Typed, Check, Admit
<1>2. PICK n \in 0..MaxImport : n = task[w].left
  BY <1>1 DEF Task
<1>a. /\ n \in Nat /\ task[w].want \in Nat /\ MaxImport \in Nat
      /\ 1..n \subseteq 1..MaxImport
  BY <1>1, ConstantsAssumption DEF Task
<1>3. n <= task[w].want
  <2>1. Cardinality(Inserted(w)) \in Nat
    BY FS_CardinalityType DEF IInv, Sound, Tallied
  <2>2. task[w].kind = "create"
    BY <1>1 DEF IInv, Sound, InStage
  <2>3. Cardinality(Inserted(w)) + n = task[w].want
    BY <1>1, <1>2, <2>2 DEF IInv, Sound, Tallied
  <2> QED
    BY <1>a, <2>1, <2>3
<1>4. /\ task'[w].pc = "insert" /\ task'[w].left = n /\ task'[w].tenant = t
      /\ \A v \in Worker \ {w} : task'[v] = task[v]
  BY <1>1, <1>2 DEF Task
<1>5. /\ Counted(w) + task[w].want <= limit[t]
      /\ borrowed' = [borrowed EXCEPT ![t] = @ + Excess(Booked(t) - Counted(w))]
  <2>1. t # NoTenant
    BY ConstantsAssumption
  <2>2. ~Failed(w)
    <3>1. Failed(w) => task'[w].pc = "fail"
      BY <1>1 DEF Failed, Task
    <3> QED
      BY <1>4, <3>1
  <2> QED
    BY <2>1, <2>2 DEF Check, Evaluate
<1>6. Counted(w) \in Nat
  <2>1. IsFiniteSet(Agent)
    BY ConstantsAssumption
  <2>2. IsFiniteSet(Visible(w, "tx"))
    BY <2>1, FS_Subset DEF Visible
  <2> QED
    BY <2>2, FS_CardinalityType DEF Counted
<1>7. ASSUME NEW s \in Tenant PROVE Booked(s) \in Nat /\ Owned(s)' = Owned(s)
  <2>1. Cardinality(Owned(s)) \in Nat /\ Cardinality(Due(s)) \in Nat
    BY BooksFinite
  <2> QED
    BY <1>1, <2>1 DEF Booked, Owned
<1> DEFINE slots == {w} \X (1..n)
<1>8. IsFiniteSet(slots) /\ Cardinality(slots) = n
  <2>1. IsFiniteSet({w}) /\ Cardinality({w}) = 1
    BY FS_Singleton
  <2>2. IsFiniteSet(1..n) /\ Cardinality(1..n) = n
    BY <1>a, FS_Interval
  <2>3. IsFiniteSet(slots) /\ Cardinality(slots) = Cardinality({w}) * Cardinality(1..n)
    BY <2>1, <2>2, FS_Product
  <2> QED
    BY <1>a, <2>1, <2>2, <2>3
<1>9. Booked(t)' <= Booked(t) + n /\ Booked(t)' \in Nat
  <2>1. ASSUME NEW d \in Due(t)' PROVE d \in Due(t) \cup slots
    <3>1. PICK v \in Worker, k \in 1..MaxImport : d = <<v, k>>
      BY DEF Due
    <3>2. CASE v = w
      <4>1. k <= n
        BY <1>4, <3>1, <3>2, DueIsNext
      <4> QED
        BY <1>a, <3>1, <3>2, <4>1
    <3>3. CASE v # w
      BY <1>4, <3>1, <3>3, DueIs, DueIsNext
    <3> QED
      BY <3>2, <3>3
  <2>2. IsFiniteSet(Due(t)) /\ Cardinality(Due(t)) \in Nat /\ Cardinality(Owned(t)) \in Nat
    BY BooksFinite
  <2> HIDE DEF slots
  <2>3. /\ IsFiniteSet(Due(t) \cup slots)
        /\ Cardinality(Due(t) \cup slots) = Cardinality(Due(t)) + n - Cardinality(Due(t) \cap slots)
    BY <1>8, <2>2, FS_Union
  <2>4. Cardinality(Due(t) \cap slots) \in Nat
    BY <2>2, FS_Intersection, FS_CardinalityType
  <2>5. Due(t)' \in SUBSET (Due(t) \cup slots)
    BY <2>1
  <2>6. IsFiniteSet(Due(t)') /\ Cardinality(Due(t)') <= Cardinality(Due(t) \cup slots)
    BY <2>3, <2>5, FS_Subset
  <2>7. Cardinality(Due(t)') \in Nat /\ Cardinality(Due(t) \cup slots) \in Nat
    BY <2>3, <2>6, FS_CardinalityType
  <2>8. Booked(t)' = Cardinality(Owned(t)) + Cardinality(Due(t)')
    BY <1>7 DEF Booked
  <2> QED
    BY <1>a, <2>2, <2>3, <2>4, <2>6, <2>7, <2>8 DEF Booked
<1>10. ASSUME NEW s \in Tenant, s # t PROVE Booked(s)' = Booked(s)
  <2>1. Due(s)' = Due(s)
    BY <1>4, <1>10, DueElsewhere
  <2> QED
    BY <1>7, <2>1 DEF Booked
<1>11. /\ borrowed' \in [Tenant -> Nat]
       /\ borrowed'[t] >= borrowed[t] + (Booked(t) - Counted(w))
       /\ \A s \in Tenant : borrowed'[s] >= borrowed[s]
  <2>1. borrowed \in [Tenant -> Nat] /\ Booked(t) - Counted(w) \in Int
    BY <1>6, <1>7 DEF QuotaInv
  <2>2. Excess(Booked(t) - Counted(w)) \in Nat
        /\ Excess(Booked(t) - Counted(w)) >= Booked(t) - Counted(w)
    BY <2>1 DEF Excess
  <2> HIDE DEF Excess
  <2> QED
    BY <1>5, <2>1, <2>2
<1>12. ASSUME NEW s \in Tenant, limit[s] # Unlimited
       PROVE  Booked(s)' <= limit[s] + borrowed'[s]
  <2>1. /\ limit[s] \in Int /\ limit[t] \in Int /\ borrowed[s] \in Nat
        /\ borrowed[t] \in Nat /\ borrowed'[s] \in Nat
    BY <1>11, ConstantsAssumption DEF IInv, Typed, QuotaInv, Unlimited
  <2>3. CASE s = t
    <3>1. Booked(t)' <= limit[t] + borrowed'[t]
      BY <1>a, <1>3, <1>5, <1>6, <1>7, <1>9, <1>11, <2>1, <2>3
    <3> QED
      BY <2>3, <3>1
  <2>4. CASE s # t
    <3>1. Booked(s) <= limit[s] + borrowed[s]
      BY <1>12 DEF QuotaInv, QuotaKept
    <3> QED
      BY <1>7, <1>10, <1>11, <2>1, <2>4, <3>1
  <2> QED
    BY <2>3, <2>4
<1> QED
  BY <1>1, <1>11, <1>12 DEF QuotaInv, QuotaKept

\* An insert turns an agent that was due into one that is there.
LEMMA InsertionKeepsPlan ==
    ASSUME IInv, QuotaInv, NEW w \in Worker, NEW a \in Agent,
           task[w].pc = "insert", ~task[w].aborted, rows[a].st = "free",
           rows' = [rows EXCEPT ![a] = Stamped(w)],
           task' = [task EXCEPT ![w].left = @ - 1,
                                ![w].pc = IF task[w].left = 1 THEN "ok" ELSE @],
           UNCHANGED <<limit, borrowed>>
    PROVE  QuotaInv'
<1>1. /\ task \in [Worker -> Task] /\ task[w] \in Task /\ rows \in [Agent -> Record]
  BY DEF IInv, Typed
<1>a. MaxImport \in Nat
  BY ConstantsAssumption
<1>2. PICK n \in 1..MaxImport : n = task[w].left
  BY <1>1, <1>a DEF IInv, Sound, InStage, Task
<1>3. /\ task'[w].left = n - 1 /\ task'[w].tenant = task[w].tenant
      /\ \A v \in Worker \ {w} : task'[v] = task[v]
  BY <1>1, <1>2 DEF Task
<1>4. /\ rows'[a].st = "live" /\ rows'[a].tenant = task[w].tenant
      /\ \A b \in Agent \ {a} : rows'[b] = rows[b]
  BY <1>1 DEF Stamped
<1>5. ASSUME NEW t \in Tenant
      PROVE  /\ Booked(t)' <= Booked(t) /\ Booked(t)' \in Nat /\ Booked(t) \in Nat
  <2>1. /\ IsFiniteSet(Owned(t)) /\ IsFiniteSet(Due(t))
        /\ Cardinality(Owned(t)) \in Nat /\ Cardinality(Due(t)) \in Nat
    BY BooksFinite
  <2>2. CASE t = task[w].tenant
    <3>1. Owned(t)' = Owned(t) \cup {a} /\ a \notin Owned(t)
      BY <1>4, <2>2 DEF Owned
    <3>2. <<w, n>> \in Due(t)
      BY <1>2, <1>a, <2>2, DueIs
    <3>3. ASSUME NEW e \in Due(t)' PROVE e \in Due(t) \ {<<w, n>>}
      <4>1. PICK v \in Worker, k \in 1..MaxImport : e = <<v, k>>
        BY DEF Due
      <4>2. CASE v = w
        <5>1. k <= n - 1
          <6>1. <<v, k>> \in Due(t)'
            BY <4>1
          <6>2. k <= task'[v].left
            BY <6>1, DueIsNext
          <6> QED
            BY <1>3, <4>2, <6>2
        <5>2. k <= n /\ k # n
          BY <1>a, <5>1
        <5>3. <<w, k>> \in Due(t)
          BY <1>2, <2>2, <5>2, DueIs
        <5> QED
          BY <4>1, <4>2, <5>2, <5>3
      <4>3. CASE v # w
        <5>1. <<v, k>> \in Due(t)
          <6>1. <<v, k>> \in Due(t)'
            BY <4>1
          <6>2. task'[v] = task[v]
            BY <1>3, <4>3
          <6>3. /\ k <= task[v].left /\ task[v].tenant = t /\ task[v].pc = "insert"
                /\ ~task[v].aborted
            <7>1. /\ k <= task'[v].left /\ task'[v].tenant = t /\ task'[v].pc = "insert"
                  /\ ~task'[v].aborted
              BY <6>1, DueIsNext
            <7> QED
              BY <6>2, <7>1
          <6> QED
            BY <6>3, DueIs
        <5> QED
          BY <4>1, <4>3, <5>1
      <4> QED
        BY <4>2, <4>3
    <3>5. /\ Cardinality(Owned(t)') = Cardinality(Owned(t)) + 1
      BY <2>1, <3>1, FS_AddElement
    <3>6. IsFiniteSet(Due(t) \ {<<w, n>>})
          /\ Cardinality(Due(t) \ {<<w, n>>}) = Cardinality(Due(t)) - 1
      BY <2>1, <3>2, FS_RemoveElement
    <3>4. Due(t)' \in SUBSET (Due(t) \ {<<w, n>>})
      BY <3>3
    <3>7. /\ IsFiniteSet(Due(t)')
          /\ Cardinality(Due(t)') <= Cardinality(Due(t) \ {<<w, n>>})
      BY <3>4, <3>6, FS_Subset
    <3>8. Cardinality(Due(t)') \in Nat
      BY <3>7, FS_CardinalityType
    <3> QED
      BY <2>1, <3>5, <3>6, <3>7, <3>8 DEF Booked
  <2>3. CASE t # task[w].tenant
    <3>1. Owned(t)' = Owned(t)
      BY <1>4, <2>3 DEF Owned
    <3>2. Due(t)' = Due(t)
      BY <1>3, <2>3, DueElsewhere
    <3> QED
      BY <2>1, <3>1, <3>2 DEF Booked
  <2> QED
    BY <2>2, <2>3
<1>6. ASSUME NEW t \in Tenant, limit[t] # Unlimited
      PROVE  Booked(t)' <= limit[t] + borrowed[t]
  <2>1. limit[t] \in Int /\ borrowed[t] \in Nat
    BY ConstantsAssumption DEF IInv, Typed, QuotaInv, Unlimited
  <2>2. Booked(t) <= limit[t] + borrowed[t]
    BY <1>6 DEF QuotaInv, QuotaKept
  <2> QED
    BY <1>5, <2>1, <2>2
<1> QED
  BY <1>6 DEF QuotaInv, QuotaKept

\* A request over, or given up, takes no agent more.
LEMMA EndKeepsPlan ==
    ASSUME IInv, QuotaInv, NEW w \in Worker, Release(w) \/ Lose(w)
    PROVE  QuotaInv'
<1>1. /\ task \in [Worker -> Task] /\ rows \in [Agent -> Record]
      /\ draft \in [Worker -> [Agent -> Change]] /\ NoTenant \notin Tenant
      /\ NoWorker \notin Worker
  BY ConstantsAssumption DEF IInv, Typed
<1>2. Over(w) /\ (Commit(w) \/ Rollback(w))
  BY DEF Release, Lose
<1>3. /\ UNCHANGED <<limit, borrowed>> /\ task'[w].pc = "idle"
      /\ \A v \in Worker \ {w} : task'[v] = task[v]
  BY <1>1, <1>2 DEF Over, Idle
<1>4. ASSUME NEW t \in Tenant PROVE Owned(t)' \subseteq Owned(t)
  <2> SUFFICES ASSUME NEW a \in Agent, rows'[a].st = "live", rows'[a].tenant = t
               PROVE  rows[a].st = "live" /\ rows[a].tenant = t
    BY DEF Owned
  <2>1. rows[a] \in Record /\ RowOwned(a)
    BY DEF IInv, Typed, Table
  <2>2. CASE Rollback(w)
    BY <2>1, <2>2, <1>1 DEF Rollback, Free
  <2>3. CASE Commit(w)
    <3>1. CASE rows[a].by = w
      BY <1>1, <2>1, <2>3, <3>1 DEF Commit, Record, RowOwned
    <3>2. CASE rows[a].by # w /\ draft[w][a] = "deleted"
      BY <2>1, <2>3, <3>2 DEF Commit, Record
    <3>3. CASE rows[a].by # w /\ draft[w][a] = "none"
      BY <2>1, <2>3, <3>3 DEF Commit
    <3>4. CASE rows[a].by # w /\ draft[w][a] = "saved"
      BY <2>1, <2>3, <3>4 DEF Commit, Record
    <3> QED
      BY <1>1, <3>1, <3>2, <3>3, <3>4 DEF Change
  <2> QED
    BY <1>2, <2>2, <2>3
<1>5. ASSUME NEW t \in Tenant PROVE Due(t)' \subseteq Due(t)
  BY <1>3, DueOfOthers
<1> QED
  BY <1>3, <1>4, <1>5, NoMoreBooked

\* So does a step of a request that leaves the rows as they are and does not go on to insert.
LEMMA QuietKeepsPlan ==
    ASSUME IInv, QuotaInv, NEW w \in Worker, UNCHANGED <<limit, rows, borrowed>>,
           \A v \in Worker \ {w} : task'[v] = task[v],
           ~(task'[w].pc = "insert" /\ ~task'[w].aborted)
    PROVE  QuotaInv'
<1>1. ASSUME NEW t \in Tenant PROVE Owned(t)' \subseteq Owned(t)
  BY DEF Owned
<1>2. ASSUME NEW t \in Tenant PROVE Due(t)' \subseteq Due(t)
  BY DueOfOthers
<1> QED
  BY <1>1, <1>2, NoMoreBooked

LEMMA CheckKeepsPlan ==
    ASSUME IInv, QuotaInv, NEW w \in Worker, Check(w)
    PROVE  QuotaInv'
<1>1. /\ task \in [Worker -> Task] /\ task[w] \in Task /\ UNCHANGED <<limit, rows>>
      /\ NoTenant \notin Tenant
  BY ConstantsAssumption DEF IInv, Typed, Check
<1>2. CASE Failed(w) /\ UNCHANGED borrowed
  <2>1. /\ \A v \in Worker \ {w} : task'[v] = task[v]
        /\ task'[w].pc = "fail"
    BY <1>1, <1>2 DEF Failed, Task
  <2> QED
    BY <1>1, <1>2, <2>1, QuietKeepsPlan
<1>3. CASE Admit(w) /\ task[w].tenant \in Tenant /\ limit[task[w].tenant] # Unlimited
  BY <1>3, AdmissionKeepsPlan
<1>4. CASE Admit(w) /\ (task[w].tenant = NoTenant \/ limit[task[w].tenant] = Unlimited)
  <2>1. /\ task'[w].tenant = task[w].tenant /\ \A v \in Worker \ {w} : task'[v] = task[v]
        /\ UNCHANGED borrowed
    BY <1>1, <1>4 DEF Admit, Task, Check
  <2>2. ASSUME NEW t \in Tenant, limit[t] # Unlimited
        PROVE  Booked(t)' <= limit[t] + borrowed[t]
    <3>1. task[w].tenant # t
      BY <1>1, <1>4, <2>2
    <3>2. Due(t)' = Due(t)
      BY <2>1, <3>1, DueElsewhere
    <3>3. Owned(t)' = Owned(t)
      BY <1>1 DEF Owned
    <3> QED
      BY <2>2, <3>2, <3>3 DEF QuotaInv, QuotaKept, Booked
  <2> QED
    BY <1>1, <2>1, <2>2 DEF QuotaInv, QuotaKept
<1>5. task[w].tenant \in Tenant \/ task[w].tenant = NoTenant
  BY <1>1 DEF Task
<1> QED
  BY <1>2, <1>3, <1>4, <1>5 DEF Check

LEMMA QuotaStep ==
    ASSUME IInv, QuotaInv, [Next]_vars
    PROVE  QuotaInv'
<1>0. /\ task \in [Worker -> Task] /\ \A w \in Worker : task[w] \in Task
  BY DEF IInv, Typed
<1>1. CASE UNCHANGED vars
  BY <1>1 DEF QuotaInv, QuotaKept, Booked, Owned, Due, Promised, vars
<1>2. ASSUME NEW w \in Worker, NEW t \in Tenant \cup {NoTenant}, Arrive(w, t)
      PROVE  QuotaInv'
  <2>1. UNCHANGED <<limit, rows, borrowed>> /\ \A v \in Worker \ {w} : task'[v] = task[v]
    BY <1>0, <1>2 DEF Arrive
  <2>2. task'[w].pc \in {"check", "find"}
    BY <1>0, <1>2 DEF Arrive, Idle
  <2> QED
    BY <2>1, <2>2, QuietKeepsPlan
<1>3. ASSUME NEW w \in Worker, CheckFails(w) PROVE QuotaInv'
  <2>1. /\ UNCHANGED <<limit, rows, borrowed>> /\ \A v \in Worker \ {w} : task'[v] = task[v]
        /\ task'[w].aborted
    BY <1>0, <1>3 DEF CheckFails, Task
  <2> QED
    BY <2>1, QuietKeepsPlan
<1>4. ASSUME NEW w \in Worker, Insert(w) PROVE QuotaInv'
  <2>1. CASE UNCHANGED rows /\ (Err(w, "aborted") \/ Err(w, "policy"))
    <3>1. /\ UNCHANGED <<limit, borrowed>> /\ \A v \in Worker \ {w} : task'[v] = task[v]
          /\ task'[w].pc = "fail"
      BY <1>0, <1>4, <2>1 DEF Insert, Err, Task
    <3> QED
      BY <2>1, <3>1, QuietKeepsPlan
  <2>2. CASE ~task[w].aborted /\ \E a \in Agent :
               /\ rows[a].st = "free" /\ rows' = [rows EXCEPT ![a] = Stamped(w)]
               /\ task' = [task EXCEPT ![w].left = @ - 1,
                                       ![w].pc = IF task[w].left = 1 THEN "ok" ELSE @]
    BY <1>4, <2>2, InsertionKeepsPlan DEF Insert
  <2> QED
    BY <1>4, <2>1, <2>2 DEF Insert
<1>5. ASSUME NEW w \in Worker, InsertFails(w) PROVE QuotaInv'
  <2>1. /\ UNCHANGED <<limit, rows, borrowed>> /\ \A v \in Worker \ {w} : task'[v] = task[v]
        /\ task'[w].pc = "fail"
    BY <1>0, <1>5 DEF InsertFails, Err, Failed, Task
  <2> QED
    BY <2>1, QuietKeepsPlan
<1>6. ASSUME NEW w \in Worker, Find(w) PROVE QuotaInv'
  <2>1. /\ UNCHANGED <<limit, rows, borrowed>> /\ \A v \in Worker \ {w} : task'[v] = task[v]
        /\ task'[w].pc \in {"fail", "write"}
    BY <1>0, <1>6 DEF Find, Err, Failed, Task
  <2> QED
    BY <2>1, QuietKeepsPlan
<1>7. ASSUME NEW w \in Worker, Write(w) PROVE QuotaInv'
  <2>1. /\ UNCHANGED <<limit, rows, borrowed>> /\ \A v \in Worker \ {w} : task'[v] = task[v]
        /\ task'[w].pc \in {"fail", "ok"}
    BY <1>0, <1>7 DEF Write, Err, Failed, Task
  <2> QED
    BY <2>1, QuietKeepsPlan
<1> QED
  BY <1>1, <1>2, <1>3, <1>4, <1>5, <1>6, <1>7, CheckKeepsPlan, EndKeepsPlan DEF Next

LEMMA InitQuota == Init => QuotaInv
<1> SUFFICES ASSUME Init PROVE QuotaInv
  OBVIOUS
<1>1. MaxLimit \in Nat
  BY ConstantsAssumption
<1>2. ASSUME NEW t \in Tenant, limit[t] # Unlimited
      PROVE  Booked(t) <= limit[t] + borrowed[t]
  <2>1. Owned(t) = {} /\ Due(t) = {}
    BY DEF Init, Owned, Due, Promised, Free, Idle
  <2>2. Booked(t) = 0
    BY <2>1, FS_EmptySet DEF Booked
  <2>3. limit[t] \in -1..MaxLimit /\ limit[t] # -1 /\ borrowed[t] = 0
    BY <1>2 DEF Init, Unlimited
  <2> QED
    BY <1>1, <2>2, <2>3
<1> QED
  BY <1>2 DEF QuotaInv, QuotaKept, Init

\* The plan holds (QuotaKept): a tenant's agents, with those its requests have been let to
\* insert, pass its limit by no more than what was under way, and not counted, when
\* agentquota.Check let a request pass.
THEOREM PlanHolds == Spec => []QuotaKept
<1>1. QuotaInv => QuotaKept
  BY DEF QuotaInv
<1> QED
  BY <1>1, InitQuota, QuotaStep, ScopeInvariant, PTL DEF Spec

\* Every variable keeps its type, the history of loans with it.
THEOREM TypesKept == Spec => []TypeOK
<1>1. IInv /\ QuotaInv => TypeOK
  BY DEF IInv, Typed, QuotaInv, TypeOK
<1> QED
  BY <1>1, InitQuota, QuotaStep, ScopeInvariant, PTL DEF Spec
===============================================================================

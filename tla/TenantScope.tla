----------------------------- MODULE TenantScope -----------------------------
(***************************************************************************)
(* The agents of the enterprise build.  Each request under /api/v1 has one *)
(* transaction, on which the SDK has set app.current_tenant_id; row-level  *)
(* security shows a connection the rows of that tenant alone, and none to  *)
(* a connection of the pool, where it is not set.  Two gorm plugins route  *)
(* the statements of a request onto its transaction: tenantscope the reads *)
(* and tenantstamp the writes, which it also stamps with the tenant.  The  *)
(* plan of a tenant limits its agents (agentquota): the rows are counted   *)
(* first and inserted later.  The transaction ends when the handler has    *)
(* returned and its answer is written.                                     *)
(***************************************************************************)
EXTENDS Integers, FiniteSets

CONSTANTS
    Worker,         \* goroutines serving requests
    Tenant,
    Agent,          \* ids of evo_core_agents, never used twice
    NoTenant, NoAgent, NoWorker,
    MaxLimit,       \* bound: the largest limit of a plan
    MaxImport,      \* bound: agents in a file
    MaxRequests     \* bound: requests that arrive

ASSUME ConstantsAssumption ==
    /\ NoTenant \notin Tenant /\ NoAgent \notin Agent /\ NoWorker \notin Worker
    /\ IsFiniteSet(Worker) /\ IsFiniteSet(Agent)
    /\ MaxLimit \in Nat /\ MaxImport \in Nat \ {0} /\ MaxRequests \in Nat

VARIABLES
    limit,      \* limit[t]: limits->>'agents' of the plan; -1: no subscription, no limit
    rows,       \* evo_core_agents, the uncommitted inserts included
    draft,      \* draft[w]: what worker w's transaction does to rows it did not insert
    task,       \* task[w]: the request worker w serves
    borrowed,   \* borrowed[t]: agents admitted past the limit for a known reason (history)
    requests

vars == <<limit, rows, draft, task, borrowed, requests>>

Unlimited == -1

\* by: the worker whose transaction has inserted the row and is still open.
Record == [st: {"free", "live", "gone"}, tenant: Tenant \cup {NoTenant},
           saved: BOOLEAN, by: Worker \cup {NoWorker}]

Change == {"none", "saved", "deleted"}

\* tenant: app.current_tenant_id of the transaction.  want: agents to create; left: those
\* not inserted yet.  aborted: a statement failed, the transaction takes no other.
Task == [pc: {"idle", "check", "insert", "find", "write", "ok", "fail"},
         kind: {"none", "create", "update", "delete"},
         tenant: Tenant \cup {NoTenant}, agent: Agent \cup {NoAgent},
         want: 0..MaxImport, left: 0..MaxImport, aborted: BOOLEAN,
         cause: {"none", "policy", "aborted", "other"}]

Idle == [pc |-> "idle", kind |-> "none", tenant |-> NoTenant, agent |-> NoAgent,
         want |-> 0, left |-> 0, aborted |-> FALSE, cause |-> "none"]

TypeOK ==
    /\ limit \in [Tenant -> Unlimited..MaxLimit]
    /\ rows \in [Agent -> Record]
    /\ draft \in [Worker -> [Agent -> Change]]
    /\ task \in [Worker -> Task]
    /\ borrowed \in [Tenant -> Nat]
    /\ requests \in 0..MaxRequests

Free == [st |-> "free", tenant |-> NoTenant, saved |-> FALSE, by |-> NoWorker]
NoDraft == [a \in Agent |-> "none"]

Init ==
    /\ limit \in [Tenant -> Unlimited..MaxLimit]
    /\ rows = [a \in Agent |-> Free]
    /\ draft = [w \in Worker |-> NoDraft]
    /\ task = [w \in Worker |-> Idle]
    /\ borrowed = [t \in Tenant |-> 0]
    /\ requests = 0

(***************************************************************************)
(* Statements.                                                             *)
(***************************************************************************)

\* The statements for which the plugins register a callback.
\* Mutants of Hooked: one for updates is missing, or one for creates.
HookedNoUpdate == {"create", "delete", "read"}
HookedNoCreate == {"update", "delete", "read"}

Hooked == {"create", "update", "delete", "read"}

\* tenantscope.bindRead and tenantstamp.routeScopedTenantWrite: such a statement on a table
\* of tenants goes onto the transaction, or is refused where there is none.
Route(w, statement) ==
    CASE statement \notin Hooked     -> "pool"
      [] task[w].tenant = NoTenant   -> "refused"
      [] OTHER                       -> "tx"

\* The tenant the session says, as the policies read it.
Guc(w, conn) == IF conn = "tx" THEN task[w].tenant ELSE NoTenant

\* USING (tenant_id = app.current_tenant_id), which is NULL on the pool.
Visible(w, conn) ==
    {a \in Agent :
        /\ rows[a].st = "live" /\ rows[a].tenant # NoTenant
        /\ rows[a].tenant = Guc(w, conn)
        /\ rows[a].by \in {NoWorker, w}
        /\ draft[w][a] # "deleted"}

\* WITH CHECK, for the tenant the row is stamped with.
MayInsert(w, conn) == task[w].tenant # NoTenant /\ Guc(w, conn) = task[w].tenant

\* A statement that errs aborts the transaction it runs on, and none succeeds after it.
Err(w, cause) ==
    task' = [task EXCEPT ![w].pc = "fail", ![w].aborted = TRUE, ![w].cause = cause]

\* The handler gives up, and no statement failed.
Failed(w) == task' = [task EXCEPT ![w].pc = "fail", ![w].cause = "other"]

\* Another transaction holds the lock of the row.
Locked(w, a) == \E v \in Worker \ {w} : draft[v][a] # "none"

(***************************************************************************)
(* Requests.  One that reaches its handler with no tenant bound (NoTenant) *)
(* stands for the paths the middleware does not see.                       *)
(***************************************************************************)

Arrive(w, t) ==
    /\ task[w].pc = "idle" /\ requests < MaxRequests
    /\ requests' = requests + 1
    /\ \/ \E n \in 1..MaxImport :
             task' = [task EXCEPT ![w] = [Idle EXCEPT !.pc = "check", !.kind = "create",
                                          !.tenant = t, !.want = n, !.left = n]]
       \/ \E kind \in {"update", "delete"}, a \in Agent :
             task' = [task EXCEPT ![w] = [Idle EXCEPT !.pc = "find", !.kind = kind,
                                          !.tenant = t, !.agent = a]]
    /\ UNCHANGED <<limit, rows, draft, borrowed>>

\* COUNT(*) on the transaction.
Counted(w) == Cardinality(Visible(w, "tx"))

\* Mutant of Evaluate: the limit itself is passed.
EvaluateLoose(count, additional, max) == count + additional <= max + 1

Evaluate(count, additional, max) == count + additional <= max

\* The requests that are about to insert agents of t; an aborted transaction will not.
Promised(t) ==
    {w \in Worker : task[w].tenant = t /\ task[w].pc = "insert" /\ ~task[w].aborted}

\* Agents of t, committed or not, and those admitted and not inserted: each with the
\* request that is to insert it.
Owned(t) == {a \in Agent : rows[a].st = "live" /\ rows[a].tenant = t}
Due(t) == {d \in Worker \X (1..MaxImport) : d[1] \in Promised(t) /\ d[2] <= task[d[1]].left}

Booked(t) == Cardinality(Owned(t)) + Cardinality(Due(t))

Excess(n) == IF n > 0 THEN n ELSE 0

Admit(w) == task' = [task EXCEPT ![w].pc = "insert"]

\* agentquota.Check: the requests under way are not counted.
Check(w) ==
    /\ task[w].pc = "check"
    /\ LET t == task[w].tenant
           max == limit[t]
           n == task[w].want
       IN IF t = NoTenant \/ max = Unlimited THEN Admit(w) /\ UNCHANGED borrowed
          ELSE IF Evaluate(Counted(w), n, max)
          THEN /\ Admit(w)
               /\ borrowed' = [borrowed EXCEPT ![t] =
                      @ + Excess(Booked(t) - Counted(w))]
          ELSE Failed(w) /\ UNCHANGED borrowed
    /\ UNCHANGED <<limit, rows, draft, requests>>

\* A read of the check fails and the check lets the request pass; but the read ran on the
\* transaction.
CheckFails(w) ==
    /\ task[w].pc = "check" /\ task[w].tenant # NoTenant
    /\ task' = [task EXCEPT ![w].pc = "insert", ![w].aborted = TRUE]
    /\ UNCHANGED <<limit, rows, draft, borrowed, requests>>

\* Mutant of Insert: gorm's own transaction commits the request's.
InsertEarly(w) ==
    /\ task[w].pc = "insert" /\ ~task[w].aborted /\ MayInsert(w, "tx")
    /\ \E a \in Agent :
          /\ rows[a].st = "free"
          /\ rows' = [rows EXCEPT ![a] = [st |-> "live", tenant |-> task[w].tenant,
                                          saved |-> FALSE, by |-> NoWorker]]
          /\ task' = [task EXCEPT ![w].left = @ - 1, ![w].pc = IF task[w].left = 1 THEN "ok" ELSE @]
    /\ UNCHANGED <<limit, draft, borrowed, requests>>

\* The row as the request's transaction holds it, stamped with its tenant.
Stamped(w) == [st |-> "live", tenant |-> task[w].tenant, saved |-> FALSE, by |-> w]

\* One agent of the file, or the one of a create.
Insert(w) ==
    LET conn == Route(w, "create") IN
    /\ task[w].pc = "insert"
    /\ IF task[w].aborted THEN Err(w, "aborted") /\ UNCHANGED rows
       ELSE IF conn = "refused" \/ ~MayInsert(w, conn) THEN Err(w, "policy") /\ UNCHANGED rows
       ELSE \E a \in Agent :
               /\ rows[a].st = "free"
               /\ rows' = [rows EXCEPT ![a] = Stamped(w)]
               /\ task' = [task EXCEPT ![w].left = @ - 1,
                                       ![w].pc = IF task[w].left = 1 THEN "ok" ELSE @]
    /\ UNCHANGED <<limit, draft, borrowed, requests>>

\* An agent of the file is refused by validation, before any statement, or the database
\* refuses it.
InsertFails(w) ==
    /\ task[w].pc = "insert"
    /\ Failed(w) \/ (~task[w].aborted /\ Err(w, "other"))
    /\ UNCHANGED <<limit, rows, draft, borrowed, requests>>

\* GetByID.
Find(w) ==
    LET conn == Route(w, "read") IN
    /\ task[w].pc = "find"
    /\ IF conn = "refused" THEN Err(w, "policy")
       ELSE IF task[w].agent \in Visible(w, conn)
       THEN task' = [task EXCEPT ![w].pc = "write"]
       ELSE Failed(w)
    /\ UNCHANGED <<limit, rows, draft, borrowed, requests>>

\* Updates(agent).First(&agent): no row updated is no error, no row read is.  Delete does
\* not look at the rows it affected.
Write(w) ==
    LET t == task[w]
        conn == Route(w, t.kind)
        hit == t.agent \in Visible(w, conn)
    IN
    /\ t.pc = "write" /\ ~Locked(w, t.agent)
    /\ IF conn = "refused" THEN Err(w, "policy") /\ UNCHANGED draft
       ELSE /\ draft' = IF ~hit THEN draft
                        ELSE [draft EXCEPT ![w][t.agent] =
                                 IF t.kind = "delete" THEN "deleted" ELSE "saved"]
            /\ IF t.kind = "delete" \/ t.agent \in Visible(w, Route(w, "read"))
               THEN task' = [task EXCEPT ![w].pc = "ok"]
               ELSE Failed(w)
    /\ UNCHANGED <<limit, rows, borrowed, requests>>

(***************************************************************************)
(* The end of the request's transaction, in the SDK.                       *)
(***************************************************************************)

Inserted(w) == {a \in Agent : rows[a].by = w}

Commit(w) ==
    rows' = [a \in Agent |->
        IF rows[a].by = w THEN [rows[a] EXCEPT !.by = NoWorker]
        ELSE CASE draft[w][a] = "saved"   -> [rows[a] EXCEPT !.saved = TRUE]
               [] draft[w][a] = "deleted" -> [rows[a] EXCEPT !.st = "gone"]
               [] OTHER                   -> rows[a]]

Rollback(w) == rows' = [a \in Agent |-> IF rows[a].by = w THEN Free ELSE rows[a]]

Over(w) ==
    /\ task' = [task EXCEPT ![w] = Idle]
    /\ draft' = [draft EXCEPT ![w] = NoDraft]
    /\ UNCHANGED <<limit, borrowed, requests>>

\* A request that was answered an error may be committed or not; COMMIT of an aborted
\* transaction rolls it back.
Release(w) ==
    /\ task[w].pc \in {"ok", "fail"}
    /\ \/ ~task[w].aborted /\ Commit(w)
       \/ (task[w].aborted \/ task[w].pc = "fail") /\ Rollback(w)
    /\ Over(w)

\* The connection is lost, whatever the request has answered.
Lose(w) ==
    /\ task[w].pc # "idle"
    /\ Rollback(w)
    /\ Over(w)

Next ==
    \/ \E w \in Worker, t \in Tenant \cup {NoTenant} : Arrive(w, t)
    \/ \E w \in Worker : \/ Check(w) \/ CheckFails(w) \/ Insert(w) \/ InsertFails(w)
                         \/ Find(w) \/ Write(w) \/ Release(w) \/ Lose(w)

Spec == Init /\ [][Next]_vars

(***************************************************************************)
(* Properties.                                                             *)
(***************************************************************************)

\* The plan holds: the agents of a tenant, with those its requests are about to insert,
\* pass its limit only by what overlapping requests had not committed when they were
\* counted ("KNOWN LIMITATION" of agentquota.Check).
QuotaKept ==
    \A t \in Tenant : limit[t] # Unlimited => Booked(t) <= limit[t] + borrowed[t]

\* What a request has answered is in its transaction: an update that found its agent has
\* changed it, and never silently no row, and an import has inserted all its agents.
AnswersAreWritten ==
    \A w \in Worker :
        task[w].pc = "ok" =>
            /\ ~task[w].aborted
            /\ task[w].kind = "update" => draft[w][task[w].agent] = "saved"
            /\ task[w].kind = "create" => Cardinality(Inserted(w)) = task[w].want

\* Neither policy nor plugin refuses a statement of a request whose tenant is bound.
BoundIsServed == \A w \in Worker : task[w].cause = "policy" => task[w].tenant = NoTenant

\* The agents of one request share its fate: they become visible to others, or vanish,
\* together, and only when the request is over.
FateShared ==
    [][\A w \in Worker, a \in Agent :
          /\ rows[a].st = "free" /\ rows'[a].st # "free" => rows'[a].by \in Worker
          /\ a \in Inserted(w) /\ rows'[a].by # w =>
                /\ task'[w].pc = "idle"
                /\ \A b \in Inserted(w) : rows'[b].st = rows'[a].st /\ rows'[b].by # w]_vars
=============================================================================

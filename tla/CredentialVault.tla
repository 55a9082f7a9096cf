--------------------------- MODULE CredentialVault ---------------------------
(***************************************************************************)
(* The integration credential vault (pkg/integration_credential) together  *)
(* with the two stores it is checked against: the agents' OAuth            *)
(* connections, which live in evo_core_agent_integrations, and the         *)
(* consumers, whose rows name a credential by id with no foreign key.      *)
(*                                                                         *)
(* Every HTTP request runs in a goroutine of its own and no handler opens  *)
(* a transaction, so a worker executes its request one SQL statement at a  *)
(* time and the statements of different workers interleave freely.  One    *)
(* action is one statement together with the Go code up to the next one.   *)
(***************************************************************************)
EXTENDS Naturals

CONSTANTS
    Worker,         \* goroutines serving requests
    Cred,           \* ids the database may ever hand out for a vault row
    Integration,    \* rows of evo_core_agent_integrations that hold a token
    Listed,         \* those whose provider is in connectionProviders
    Name,           \* credential names
    CanonName,      \* CanonName[i]: vaultRowName of the connection i
    Consumer,       \* jsonb or column slots that may name a credential
    StoreOf,        \* StoreOf[k]: index of k's store in queries(), 0 if none
    NoOwner,        \* owner_ref IS NULL
    NoCred,         \* the slot names no credential
    NoRequest,      \* what an idle worker serves
    Requests,       \* the requests clients may send
    MaxMoves,       \* bound: writes by users and by the processor
    MaxFaults       \* bound: statements that fail

Scope == {"account", "installation"}

\* A vault row.  An id is "free" until an INSERT draws it and is never drawn
\* again once "deleted"; a deleted row keeps its columns as a record of what
\* the id stood for.  The CHECK constraint of migration 19 ties the value to
\* the kind, so the value needs no column here.
Row == [st: {"free", "stored", "deleted"}, kind: {"static", "oauth"},
        owner: Integration \cup {NoOwner}, name: Name, scope: Scope,
        active: BOOLEAN]

\* list:   GET  /integration-credentials
\* create: POST, update: PUT, delete: DELETE on a static or a mirrored row
\* attach: POST /agents/:id/integrations with a credential_id
Request == [op: {"list", "create", "update", "delete", "attach"},
            cred: Cred, name: Name, scope: Scope \cup {"keep"},
            active: {"on", "off", "keep"}, value: BOOLEAN, priv: BOOLEAN,
            consumer: Consumer]

\* The two sorts of consumer writes: agent_integrations validates the id it
\* stores, every other store takes any id.
ValidatedStore == 1
LastStore == 5

ASSUME ConstantsAssumption ==
    /\ Listed \subseteq Integration
    /\ NoOwner \notin Integration
    /\ NoCred \notin Cred
    /\ NoRequest \notin Request
    /\ Name # {}
    /\ CanonName \in [Integration -> Name]
    /\ StoreOf \in [Consumer -> 0 .. LastStore]
    /\ Requests \subseteq Request
    /\ \A r \in Requests : r.op = "attach" => StoreOf[r.consumer] = ValidatedStore
    /\ MaxMoves \in Nat /\ MaxFaults \in Nat

VARIABLES
    rows,       \* evo_core_integration_credentials
    conn,       \* conn[i]: does integration i hold an access token
    refs,       \* refs[k]: the credential the slot k names
    task,       \* task[w]: what worker w is doing
    moves, faults

vars == <<rows, conn, refs, task, moves, faults>>
stores == <<rows, conn, refs>>
budget == <<moves, faults>>

SyncPC == {"syncConns", "syncRows", "syncWrite"}
DeletePC == {"connGuard", "refGuard", "deleteRow"}
AuthorizedPC == {"load", "write", "toggle"} \cup DeletePC
PC == {"idle", "insert", "authorize", "validate", "attach"}
         \cup SyncPC \cup AuthorizedPC

\* pc is the statement executed next; up and down are the connections the sync
\* still has to upsert and to deactivate; pos is the store the delete guard
\* queries next.  The last four fields are history, read by no action: the
\* consumers that began to name the target in a store the guard had passed, the
\* stores whose catalog probe failed, whether the target's owner was connected
\* behind the guard, and whether the target was promoted to the installation
\* scope after the request was authorized.
Task == [pc: PC, req: Request \cup {NoRequest},
         up: SUBSET Integration, down: SUBSET Integration,
         pos: 1 .. LastStore + 1,
         late: SUBSET Consumer, skipped: SUBSET (1 .. LastStore),
         relinked: BOOLEAN, promoted: BOOLEAN]

Idle == [pc |-> "idle", req |-> NoRequest, up |-> {}, down |-> {}, pos |-> 1,
         late |-> {}, skipped |-> {}, relinked |-> FALSE, promoted |-> FALSE]

------------------------------------------------------------------------------
Stored(c) == rows[c].st = "stored"
OAuthRowOf(i, c) == Stored(c) /\ rows[c].owner = i
ActiveOwners == {i \in Integration : \E c \in Cred : OAuthRowOf(i, c) /\ rows[c].active}
LiveListed == {i \in Listed : conn[i] = "live"}

\* UNIQUE (scope, name): would row d with this scope and name be rejected?
Clash(d, s, n) == \E c \in Cred : /\ c # d /\ Stored(c)
                                  /\ rows[c].scope = s /\ rows[c].name = n

At(w, l) == task[w].pc = l
Become(w, t) == task' = [task EXCEPT ![w] = t]
Goto(w, l) == Become(w, [task[w] EXCEPT !.pc = l])
Respond(w) == Become(w, Idle)

------------------------------------------------------------------------------
Init ==
    /\ rows = [c \in Cred |->
                  [st |-> "free", kind |-> "static", owner |-> NoOwner,
                   name |-> CHOOSE n \in Name : TRUE, scope |-> "account",
                   active |-> TRUE]]
    /\ conn = [i \in Integration |-> "blank"]
    /\ refs = [k \in Consumer |-> NoCred]
    /\ task = [w \in Worker |-> Idle]
    /\ moves = 0 /\ faults = 0

Entry == [list |-> "syncConns", create |-> "insert", update |-> "authorize",
          delete |-> "authorize", attach |-> "validate"]

\* A listing arrives.  List runs OAuthSync.Run before it reads its page.
StartList(w, r) ==
    /\ At(w, "idle") /\ r.op = "list"
    /\ Become(w, [task[w] EXCEPT !.pc = Entry[r.op], !.req = r])
    /\ UNCHANGED <<stores, budget>>

\* A write arrives.  Create wants a value and refuses the installation scope to
\* an unprivileged caller before any statement; ids come from earlier answers.
StartWrite(w, r) ==
    /\ At(w, "idle") /\ r.op # "list" /\ moves < MaxMoves
    /\ r.op = "create" => r.value /\ (r.scope = "installation" => r.priv)
    /\ r.op # "create" => rows[r.cred].st # "free"
    /\ Become(w, [task[w] EXCEPT !.pc = Entry[r.op], !.req = r])
    /\ moves' = moves + 1
    /\ UNCHANGED <<stores, faults>>

------------------------------------------------------------------------------
\* OAuthSync.Run, statement by statement.

SyncReadConnections(w) ==
    /\ At(w, "syncConns")
    /\ Become(w, [task[w] EXCEPT !.pc = "syncRows", !.up = LiveListed])
    /\ UNCHANGED <<stores, budget>>

\* The rest of Run: back to the page once nothing is left to write.
SyncWith(w, up, down) ==
    IF up \cup down = {}
    THEN Respond(w)
    ELSE Become(w, [task[w] EXCEPT !.pc = "syncWrite", !.up = up, !.down = down])

\* Mutant: an inactive row counts as present.
SyncReadRowsAnyState(w) ==
    /\ At(w, "syncRows")
    /\ SyncWith(w, {i \in task[w].up : ~ \E c \in Cred : OAuthRowOf(i, c)},
                   ActiveOwners \ task[w].up)
    /\ UNCHANGED <<stores, budget>>

\* Mutant: every live connection is upserted, present or not.
SyncReadRowsAlways(w) ==
    /\ At(w, "syncRows")
    /\ SyncWith(w, task[w].up, ActiveOwners \ task[w].up)
    /\ UNCHANGED <<stores, budget>>

\* A live connection that has an active row needs nothing; an active row whose
\* owner is not live is to be deactivated.
SyncReadRows(w) ==
    /\ At(w, "syncRows")
    /\ SyncWith(w, task[w].up \ ActiveOwners, ActiveOwners \ task[w].up)
    /\ UNCHANGED <<stores, budget>>

\* Mutant: a plain INSERT, with no conflict on the owner.
SyncInsertNoConflict(w, i, c) ==
    /\ At(w, "syncWrite") /\ i \in task[w].up
    /\ rows[c].st = "free"
    /\ ~ Clash(c, "account", CanonName[i])
    /\ rows' = [rows EXCEPT ![c] = [st |-> "stored", kind |-> "oauth",
                    owner |-> i, name |-> CanonName[i], scope |-> "account",
                    active |-> TRUE]]
    /\ SyncWith(w, task[w].up \ {i}, task[w].down)
    /\ UNCHANGED <<conn, refs, budget>>

\* UpsertOAuthRow meets no row of this owner: INSERT under a new id.
SyncInsert(w, i, c) ==
    /\ At(w, "syncWrite") /\ i \in task[w].up
    /\ ~ \E d \in Cred : OAuthRowOf(i, d)
    /\ rows[c].st = "free"
    /\ ~ Clash(c, "account", CanonName[i])
    /\ rows' = [rows EXCEPT ![c] = [st |-> "stored", kind |-> "oauth",
                    owner |-> i, name |-> CanonName[i], scope |-> "account",
                    active |-> TRUE]]
    /\ SyncWith(w, task[w].up \ {i}, task[w].down)
    /\ UNCHANGED <<conn, refs, budget>>

\* ON CONFLICT (owner_store, owner_ref): DO UPDATE the name and the state.
SyncReactivate(w, i, c) ==
    /\ At(w, "syncWrite") /\ i \in task[w].up
    /\ OAuthRowOf(i, c)
    /\ ~ Clash(c, rows[c].scope, CanonName[i])
    /\ rows' = [rows EXCEPT ![c] = [@ EXCEPT !.name = CanonName[i], !.active = TRUE]]
    /\ SyncWith(w, task[w].up \ {i}, task[w].down)
    /\ UNCHANGED <<conn, refs, budget>>

\* Does another row hold the name that i's row is to have?
NameTaken(i) ==
    IF \E d \in Cred : OAuthRowOf(i, d)
    THEN \E d \in Cred : OAuthRowOf(i, d) /\ Clash(d, rows[d].scope, CanonName[i])
    ELSE \E d \in Cred : /\ Stored(d) /\ rows[d].scope = "account"
                         /\ rows[d].name = CanonName[i]

\* The upsert meets the unique (scope, name): Run returns at its first error.
SyncClash(w, i) ==
    /\ At(w, "syncWrite") /\ i \in task[w].up
    /\ NameTaken(i)
    /\ Respond(w)
    /\ UNCHANGED <<stores, budget>>

\* DeactivateOAuthRow, after the last upsert; no row of that owner is no error.
SyncDeactivate(w, i) ==
    /\ At(w, "syncWrite") /\ task[w].up = {} /\ i \in task[w].down
    /\ rows' = [c \in Cred |-> IF OAuthRowOf(i, c)
                               THEN [rows[c] EXCEPT !.active = FALSE] ELSE rows[c]]
    /\ SyncWith(w, {}, task[w].down \ {i})
    /\ UNCHANGED <<conn, refs, budget>>

------------------------------------------------------------------------------
\* Create: one INSERT, which the unique (scope, name) may reject.

NormalizeScope(s) == IF s = "installation" THEN s ELSE "account"

Insert(w, c) ==
    /\ At(w, "insert") /\ rows[c].st = "free"
    /\ LET r == task[w].req IN
       rows' = IF Clash(c, NormalizeScope(r.scope), r.name) THEN rows
               ELSE [rows EXCEPT ![c] = [st |-> "stored", kind |-> "static",
                        owner |-> NoOwner, name |-> r.name,
                        scope |-> NormalizeScope(r.scope), active |-> TRUE]]
    /\ Respond(w)
    /\ UNCHANGED <<conn, refs, budget>>

\* Mutant: only the requested scope counts.
TouchesInstallationRequested(r) ==
    \/ r.op = "update" /\ r.scope = "installation"
    \/ ~ Stored(r.cred)

\* authorizeScopeWrite: a requested installation scope demands the privilege
\* outright; otherwise the stored scope decides, and a missing row demands it.
TouchesInstallation(r) ==
    \/ r.op = "update" /\ r.scope = "installation"
    \/ ~ Stored(r.cred)
    \/ rows[r.cred].scope = "installation"

Authorize(w) ==
    /\ At(w, "authorize")
    /\ IF TouchesInstallation(task[w].req) /\ ~ task[w].req.priv
       THEN Respond(w) ELSE Goto(w, "load")
    /\ UNCHANGED <<stores, budget>>

\* GetByID of Update and of Delete; a missing row ends the request.
Load(w) ==
    /\ At(w, "load")
    /\ LET r == task[w].req IN
       \/ ~ Stored(r.cred) /\ Respond(w)
       \/ Stored(r.cred) /\ r.op = "update" /\ Goto(w, "write")
       \/ /\ Stored(r.cred) /\ r.op = "delete"
          /\ Goto(w, IF rows[r.cred].kind = "oauth" THEN "connGuard" ELSE "refGuard")
    /\ UNCHANGED <<stores, budget>>

------------------------------------------------------------------------------
\* Update: the UPDATE of the columns sent, then the UPDATE of is_active.

NewScope(c, r) == IF r.scope = "keep" THEN rows[c].scope ELSE r.scope

\* The CHECK rejects a value on an oauth row, the unique index a taken name.
Rejected(c, r) == \/ rows[c].kind = "oauth" /\ r.value
                  \/ Clash(c, NewScope(c, r), r.name)

\* Requests authorized on c before w raises it to the installation scope.
Promoting(v, w, c) ==
    /\ v # w /\ task[v].pc \in AuthorizedPC /\ task[v].req.cred = c
    /\ rows[c].scope = "account" /\ NewScope(c, task[w].req) = "installation"

WriteColumns(w) ==
    /\ At(w, "write")
    /\ LET r == task[w].req
           c == r.cred
       IN  \/ /\ Stored(c) /\ Rejected(c, r)
              /\ Respond(w) /\ UNCHANGED rows
           \/ /\ ~ Stored(c) \/ ~ Rejected(c, r)
              /\ rows' = IF Stored(c)
                         THEN [rows EXCEPT ![c] = [@ EXCEPT !.name = r.name, !.scope = NewScope(c, r)]]
                         ELSE rows
              /\ task' = [v \in Worker |->
                    IF v = w
                    THEN IF r.active = "keep" THEN Idle ELSE [task[w] EXCEPT !.pc = "toggle"]
                    ELSE [task[v] EXCEPT !.promoted = @ \/ Promoting(v, w, c)]]
    /\ UNCHANGED <<conn, refs, budget>>

WriteActive(w) ==
    /\ At(w, "toggle")
    /\ LET r == task[w].req IN
       rows' = IF Stored(r.cred)
               THEN [rows EXCEPT ![r.cred] = [@ EXCEPT !.active = (r.active = "on")]]
               ELSE rows
    /\ Respond(w)
    /\ UNCHANGED <<conn, refs, budget>>

------------------------------------------------------------------------------
\* Delete: refuseIfConnected, refuseIfReferenced, then the DELETE.

\* Mutant: the guard asks for an active row instead of a live connection.
ConnectionGuardByRow(w) ==
    /\ At(w, "connGuard")
    /\ IF rows[task[w].req.cred].active
       THEN Respond(w) ELSE Goto(w, "refGuard")
    /\ UNCHANGED <<stores, budget>>

ConnectionGuard(w) ==
    /\ At(w, "connGuard")
    /\ IF rows[task[w].req.cred].owner \in LiveListed
       THEN Respond(w) ELSE Goto(w, "refGuard")
    /\ UNCHANGED <<stores, budget>>

\* Mutant: the last query is never run.
PassStoreButLast(w, missed) ==
    Become(w, [task[w] EXCEPT !.pos = @ + 1,
                              !.skipped = @ \cup missed,
                              !.pc = IF task[w].pos = LastStore - 1 THEN "deleteRow" ELSE @])

\* Mutant: the loop over the queries does not end.
PassStoreNoEnd(w, missed) ==
    Become(w, [task[w] EXCEPT !.pos = @ + 1, !.skipped = @ \cup missed])

PassStore(w, missed) ==
    Become(w, [task[w] EXCEPT !.pos = @ + 1,
                              !.skipped = @ \cup missed,
                              !.pc = IF task[w].pos = LastStore THEN "deleteRow" ELSE @])

\* One query per store, in order.  The conflict is answered after the last one;
\* answering it at once leaves the same rows.
ReferenceGuard(w) ==
    /\ At(w, "refGuard")
    /\ IF \E k \in Consumer : StoreOf[k] = task[w].pos /\ refs[k] = task[w].req.cred
       THEN Respond(w) ELSE PassStore(w, {})
    /\ UNCHANGED <<stores, budget>>

\* HasTable and HasColumn report a failed catalog query as "not there", so the
\* guard passes over the store.
CatalogFault(w) ==
    /\ At(w, "refGuard") /\ faults < MaxFaults
    /\ PassStore(w, {task[w].pos})
    /\ faults' = faults + 1
    /\ UNCHANGED <<stores, moves>>

DeleteRow(w) ==
    /\ At(w, "deleteRow")
    /\ rows' = IF Stored(task[w].req.cred)
               THEN [rows EXCEPT ![task[w].req.cred] = [@ EXCEPT !.st = "deleted"]]
               ELSE rows
    /\ Respond(w)
    /\ UNCHANGED <<conn, refs, budget>>

------------------------------------------------------------------------------
\* Writes of the consumers.

\* Does slot k begin to name c in a store w's guard on c has passed?
Behind(w, k, c) == /\ task[w].pc \in DeletePC /\ task[w].req.cred = c
                   /\ StoreOf[k] < task[w].pos

\* Mutant: any active row will do.
ValidateAnyKind(w) ==
    /\ At(w, "validate")
    /\ LET c == task[w].req.cred
       IN  IF Stored(c) /\ rows[c].active THEN Goto(w, "attach") ELSE Respond(w)
    /\ UNCHANGED <<stores, budget>>

\* validateCredentialReference: KindOfActive finds an active static row.
Validate(w) ==
    /\ At(w, "validate")
    /\ LET c == task[w].req.cred
       IN  IF Stored(c) /\ rows[c].active /\ rows[c].kind = "static"
           THEN Goto(w, "attach") ELSE Respond(w)
    /\ UNCHANGED <<stores, budget>>

\* The upsert of the agent integration's config.
Attach(w) ==
    /\ At(w, "attach")
    /\ LET c == task[w].req.cred
           k == task[w].req.consumer
       IN  /\ refs' = [refs EXCEPT ![k] = c]
           /\ task' = [v \in Worker |->
                 IF v = w THEN Idle
                 ELSE IF Behind(v, k, c) THEN [task[v] EXCEPT !.late = @ \cup {k}]
                 ELSE task[v]]
    /\ UNCHANGED <<rows, conn, budget>>

\* A custom tool, an MCP server, an agent config or a CRM bot stores a
\* reference: one statement, and no check of the id.
Refer(k, c) ==
    /\ moves < MaxMoves /\ StoreOf[k] # ValidatedStore
    /\ rows[c].st # "free" /\ refs[k] # c
    /\ refs' = [refs EXCEPT ![k] = c]
    /\ task' = [v \in Worker |->
          IF Behind(v, k, c) THEN [task[v] EXCEPT !.late = @ \cup {k}] ELSE task[v]]
    /\ moves' = moves + 1
    /\ UNCHANGED <<rows, conn, faults>>

\* A consumer drops its reference, or is itself deleted.
Detach(k) ==
    /\ moves < MaxMoves /\ refs[k] # NoCred
    /\ refs' = [refs EXCEPT ![k] = NoCred]
    /\ moves' = moves + 1
    /\ UNCHANGED <<rows, conn, task, faults>>

\* The OAuth callback of the processor stores a token; no vault code runs.
Connect(i) ==
    /\ moves < MaxMoves /\ conn[i] = "blank"
    /\ conn' = [conn EXCEPT ![i] = "live"]
    /\ task' = [w \in Worker |->
          IF /\ task[w].pc \in {"refGuard", "deleteRow"}
             /\ rows[task[w].req.cred].owner = i
          THEN [task[w] EXCEPT !.relinked = TRUE] ELSE task[w]]
    /\ moves' = moves + 1
    /\ UNCHANGED <<rows, refs, faults>>

\* agent_integration Delete removes the row, or the processor blanks its token.
Disconnect(i) ==
    /\ moves < MaxMoves /\ conn[i] = "live"
    /\ conn' = [conn EXCEPT ![i] = "blank"]
    /\ moves' = moves + 1
    /\ UNCHANGED <<rows, refs, task, faults>>

\* A statement fails, the client hangs up or the process dies: the request ends
\* where it stands and nothing is rolled back.
Abort(w) ==
    /\ ~ At(w, "idle") /\ faults < MaxFaults
    /\ Respond(w)
    /\ faults' = faults + 1
    /\ UNCHANGED <<stores, moves>>

------------------------------------------------------------------------------
SyncStep(w) ==
    \/ SyncReadConnections(w) \/ SyncReadRows(w)
    \/ \E i \in Integration :
          \/ \E c \in Cred : SyncInsert(w, i, c) \/ SyncReactivate(w, i, c)
          \/ SyncClash(w, i)
          \/ SyncDeactivate(w, i)

WriteStep(w) ==
    \/ \E c \in Cred : Insert(w, c)
    \/ Authorize(w) \/ Load(w) \/ WriteColumns(w) \/ WriteActive(w)
    \/ ConnectionGuard(w) \/ ReferenceGuard(w) \/ DeleteRow(w)
    \/ Validate(w) \/ Attach(w)

Environment ==
    \/ \E i \in Integration : Connect(i) \/ Disconnect(i)
    \/ \E k \in Consumer : Detach(k) \/ \E c \in Cred : Refer(k, c)

Next ==
    \/ \E w \in Worker :
          \/ SyncStep(w) \/ WriteStep(w) \/ CatalogFault(w) \/ Abort(w)
          \/ \E r \in Requests : StartList(w, r) \/ StartWrite(w, r)
    \/ Environment

Spec == Init /\ [][Next]_vars

\* The runtime keeps running a goroutine until its request is answered, and
\* the page that lists the vault keeps being loaded.
Fairness ==
    /\ \A w \in Worker : WF_vars(SyncStep(w) \/ WriteStep(w))
    /\ WF_vars(\E w \in Worker, r \in Requests : StartList(w, r))

FairSpec == Spec /\ Fairness

------------------------------------------------------------------------------
\* Every variable keeps its type.
TypeOK ==
    /\ rows \in [Cred -> Row]
    /\ conn \in [Integration -> {"live", "blank"}]
    /\ refs \in [Consumer -> Cred \cup {NoCred}]
    /\ task \in [Worker -> Task]
    /\ moves \in Nat /\ faults \in Nat

\* However many listings reconcile at once, a connection has at most one row in
\* the vault, and only connections with a listed provider have one
\* (UpsertOAuthRow and the index of migration 20).
OneRowPerConnection ==
    \A c, d \in Cred :
        /\ Stored(c) /\ rows[c].kind = "oauth"
        /\ Stored(d) /\ rows[d].owner = rows[c].owner
        => c = d /\ rows[c].owner \in Listed

\* An agent integration never names a credential that holds no value, whatever
\* happened between the validation and the upsert (validateCredentialReference).
ValidatedReferences ==
    \A k \in Consumer :
        StoreOf[k] = ValidatedStore /\ refs[k] # NoCred
        => rows[refs[k]].kind = "static" /\ rows[refs[k]].st # "free"

\* The step in which w's DELETE removes c.
Removes(w, c) == /\ At(w, "deleteRow") /\ task[w].req.cred = c
                 /\ Stored(c) /\ rows'[c].st = "deleted"

\* A hard delete severs the reference of a guarded store only where its guard
\* could not see it: the consumer attached after its store was queried (the
\* residual race the service documents), or the catalog probe had failed.
ReferencesGuarded ==
    [][\A w \in Worker, c \in Cred : Removes(w, c) =>
          \A k \in Consumer : refs[k] = c /\ StoreOf[k] # 0 =>
              k \in task[w].late \/ StoreOf[k] \in task[w].skipped]_vars

\* The row of a live connection is deleted only if the connection came alive
\* behind the guard (refuseIfConnected).
ConnectionGuarded ==
    [][\A w \in Worker, c \in Cred :
          Removes(w, c) /\ rows[c].owner \in LiveListed => task[w].relinked]_vars

\* The step is w's own: it goes on, or has one row fewer to mirror.
Acts(w) == \/ task'[w].pc # task[w].pc
           \/ task'[w].up # task[w].up \/ task'[w].down # task[w].down

\* w's listing brings c in line with the connection it mirrors: the canonical name
\* and active for one that was live when w looked, inactive for one that was not.
Mirrors(w, c) ==
    /\ At(w, "syncWrite") /\ Stored(c) /\ rows[c].kind = "oauth"
    /\ \/ /\ rows[c].owner \in task[w].up
          /\ rows'[c] = [rows[c] EXCEPT !.name = CanonName[rows[c].owner], !.active = TRUE]
       \/ /\ rows[c].owner \in task[w].down
          /\ rows'[c] = [rows[c] EXCEPT !.active = FALSE]

\* A request without the installation privilege changes a row that is, or
\* becomes, an installation default only if that row was promoted by another
\* request after the authorization (authorizeScopeWrite), or if it mirrors a
\* connection: the sync of anyone's listing renames, reactivates or deactivates an
\* oauth row that was promoted, and leaves its scope (UpsertOAuthRow).
InstallationScopeGuarded ==
    [][\A w \in Worker, c \in Cred :
          /\ Acts(w) /\ rows'[c] # rows[c]
          /\ "installation" \in {rows[c].scope, rows'[c].scope}
          => task[w].req.priv \/ task[w].promoted \/ Mirrors(w, c)]_vars

\* Once nobody writes any more, the listings alone make the active oauth rows
\* those of the live connections, whatever the concurrent syncs left behind;
\* only a row that holds the name of a missing one can prevent it.
ConvergesOrBlocked ==
    <>[](\/ ActiveOwners = LiveListed
         \/ \E i \in LiveListed \ ActiveOwners : NameTaken(i))

\* "Re-running with nothing changed writes nothing" (OAuthSync.Run).
SyncWrites == \E w \in Worker, i \in Integration :
                  \/ SyncDeactivate(w, i)
                  \/ \E c \in Cred : SyncInsert(w, i, c) \/ SyncReactivate(w, i, c)
NoChurn == <>[][~ SyncWrites]_vars

------------------------------------------------------------------------------
\* The inductive invariant behind the safety properties, in named parts.

\* A busy worker serves a request that was sent, the one its statement belongs to.
Serves(t) ==
    /\ t.pc # "idle" => t.req \in Requests
    /\ t.pc = "insert" => t.req.op = "create"
                          /\ (t.req.scope = "installation" => t.req.priv)
    /\ t.pc \in {"validate", "attach"} => t.req.op = "attach"
    /\ t.pc \in {"write", "toggle"} => t.req.op = "update"
    /\ t.pc = "refGuard" => t.pos \in 1 .. LastStore
    /\ t.pc = "deleteRow" => t.pos = LastStore + 1
    /\ t.pc \notin {"refGuard", "deleteRow"} => t.pos = 1
    /\ t.up \subseteq Listed

Serving == \A w \in Worker : Serves(task[w])

\* The kind of an id decides its owner; an id not handed out yet is as Init left it.
OwnedByKind == \A c \in Cred :
    /\ rows[c].kind = "oauth" => rows[c].owner \in Listed
    /\ rows[c].kind = "static" => rows[c].owner = NoOwner
    /\ rows[c].st = "free" => rows[c].kind = "static" /\ rows[c].scope = "account"

OneRowPerOwner == \A c, d \in Cred :
    /\ Stored(c) /\ Stored(d)
    /\ rows[c].owner = rows[d].owner /\ rows[c].owner # NoOwner
    => c = d

\* A write names an id that was handed out.
TargetKnown(t) ==
    t.pc \in {"authorize", "validate", "attach"} \cup AuthorizedPC
    => rows[t.req.cred].st # "free"

\* What a guard has established when it is passed, and the history knows since.
AttachesStatic(t) == t.pc = "attach" => rows[t.req.cred].kind = "static"

PassedStoresClear(t) ==
    t.pc \in {"refGuard", "deleteRow"} =>
        \A k \in Consumer :
            StoreOf[k] # 0 /\ StoreOf[k] < t.pos /\ refs[k] = t.req.cred
            => k \in t.late \/ StoreOf[k] \in t.skipped

OwnerNotLive(t) ==
    /\ t.pc \in {"refGuard", "deleteRow"}
    /\ rows[t.req.cred].owner \in LiveListed
    => t.relinked

ScopeAuthorized(t) ==
    t.pc \in AuthorizedPC /\ ~ t.req.priv /\ ~ t.promoted
    => /\ rows[t.req.cred].scope = "account"
       /\ t.req.op = "update" => t.req.scope # "installation"

Accounted(t) == /\ TargetKnown(t) /\ AttachesStatic(t)
                /\ PassedStoresClear(t) /\ OwnerNotLive(t) /\ ScopeAuthorized(t)

IInv == /\ TypeOK /\ Serving
        /\ OwnedByKind /\ OneRowPerOwner /\ ValidatedReferences
        /\ \A w \in Worker : Accounted(task[w])
==============================================================================

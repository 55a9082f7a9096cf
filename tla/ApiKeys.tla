------------------------------- MODULE ApiKeys -------------------------------
(***************************************************************************)
(* The API keys of AI providers (pkg/api_key): a row pairs a key with the  *)
(* endpoint it belongs to, and a row of installation scope is the default  *)
(* every account inherits, guarded by a privilege of its own.  An update   *)
(* checks, looks up and then writes in up to three statements, none of     *)
(* them in a transaction, so requests on one row interleave between any    *)
(* two.  Names, providers and key hints are left out: a name that is taken *)
(* makes the first statement fail, which any failure of it stands for.     *)
(***************************************************************************)
EXTENDS Integers

CONSTANTS
    Worker,         \* goroutines serving requests
    Row,            \* ids of evo_core_api_keys, never used twice
    Key,            \* keys of providers
    Endpoint,       \* base URLs
    Default,        \* base_url NULL: the provider's own endpoint
    Keep,           \* a field the request leaves out
    NoRow, NoBody,
    MaxRequests     \* bound: requests that arrive

ASSUME ConstantsAssumption ==
    /\ NoRow \notin Row /\ Key # {}
    /\ Default \notin Endpoint /\ Keep \notin Endpoint \cup {Default} \cup Key \cup BOOLEAN
    /\ Keep \notin {"account", "installation"}
    /\ MaxRequests \in Nat

Scope == {"account", "installation"}

Record == [st: {"free", "live", "deleted"}, key: Key, endpoint: Endpoint \cup {Default},
           scope: Scope, active: BOOLEAN]

\* ApiKeyUpdateRequest, after NormalizeScope and NormalizeBaseURL.
Body == [key: Key \cup {Keep}, endpoint: Endpoint \cup {Default, Keep},
         scope: Scope \cup {Keep}, active: BOOLEAN \cup {Keep}]

ASSUME NoBodyAssumption == NoBody \notin Body

VARIABLES
    rows,
    task,       \* task[w]: the update or delete worker w serves
    meant,      \* meant[k]: the row if every update took effect at its first statement (history)
    split,      \* split[k]: columns an update that failed or was overtaken left wrong   (history)
    deletes,    \* deletes[k]: deletes of k answered 204                                 (history)
    requests

vars == <<rows, task, meant, split, deletes, requests>>

Column == {"endpoint", "active"}

\* entitled: RequireInstallationScope lets this caller through.  behind: the row became an
\* installation default after the check.  late: columns a younger update has named since
\* this one's first statement.
Task == [pc: {"idle", "lookup", "first", "clear", "toggle", "reread", "find", "remove"},
         row: Row \cup {NoRow}, body: Body \cup {NoBody}, entitled: BOOLEAN,
         behind: BOOLEAN, late: SUBSET Column]

Idle == [pc |-> "idle", row |-> NoRow, body |-> NoBody, entitled |-> FALSE,
         behind |-> FALSE, late |-> {}]

TypeOK ==
    /\ rows \in [Row -> Record]
    /\ task \in [Worker -> Task]
    /\ meant \in [Row -> Record]
    /\ split \in [Row -> SUBSET Column]
    /\ deletes \in [Row -> Nat]
    /\ requests \in 0..MaxRequests

Free == [st |-> "free", key |-> CHOOSE key \in Key : TRUE, endpoint |-> Default,
         scope |-> "account", active |-> TRUE]

Init ==
    /\ rows = [k \in Row |-> Free]
    /\ task = [w \in Worker |-> Idle]
    /\ meant = [k \in Row |-> Free]
    /\ split = [k \in Row |-> {}]
    /\ deletes = [k \in Row |-> 0]
    /\ requests = 0

Live(k) == rows[k].st = "live"

\* The row as this statement leaves it, if there is one to write to.
Written(k, record) == IF Live(k) THEN [rows EXCEPT ![k] = record] ELSE rows

Given(value, stored) == IF value = Keep THEN stored ELSE value

(***************************************************************************)
(* Create: one statement.                                                  *)
(***************************************************************************)

Create(k, key, endpoint, scope, entitled) ==
    /\ rows[k].st = "free" /\ requests < MaxRequests
    /\ scope = "installation" => entitled
    /\ LET row == [st |-> "live", key |-> key, endpoint |-> endpoint, scope |-> scope,
                   active |-> TRUE]
       IN rows' = [rows EXCEPT ![k] = row] /\ meant' = [meant EXCEPT ![k] = row]
    /\ requests' = requests + 1
    /\ UNCHANGED <<task, split, deletes>>

(***************************************************************************)
(* authorizeScopeWrite: the scope the request names or, if it names        *)
(* another or none, the one stored; a lookup that fails (failed) or finds  *)
(* no row demands the privilege.                                           *)
(***************************************************************************)

\* Mutant of TouchesInstallation: the scope of the request decides alone.
TouchesIfRequested(k, requested, failed) == requested = "installation"

TouchesInstallation(k, requested, failed) ==
    \/ requested = "installation"
    \/ failed
    \/ ~Live(k)
    \/ rows[k].scope = "installation"

Authorize(w, k, requested, entitled, t) ==
    /\ task[w].pc = "idle" /\ requests < MaxRequests
    /\ \E failed \in BOOLEAN :
          task' = IF TouchesInstallation(k, requested, failed) /\ ~entitled
                  THEN task
                  ELSE [task EXCEPT ![w] = t]
    /\ requests' = requests + 1
    /\ UNCHANGED <<rows, meant, split, deletes>>

(***************************************************************************)
(* Update.                                                                 *)
(***************************************************************************)

ArriveUpdate(w, k, body, entitled) ==
    Authorize(w, k, body.scope, entitled,
              [Idle EXCEPT !.pc = "lookup", !.row = k, !.body = body, !.entitled = entitled])

\* apiKeyService.Update looks the row up before it writes.
Lookup(w) ==
    /\ task[w].pc = "lookup"
    /\ task' = [task EXCEPT ![w] = IF Live(@.row) THEN [@ EXCEPT !.pc = "first"] ELSE Idle]
    /\ UNCHANGED <<rows, meant, split, deletes, requests>>

\* What is left to write after the first statement, in this order.
AfterFirst(body) ==
    IF body.endpoint = Default THEN "clear" ELSE IF body.active # Keep THEN "toggle" ELSE "reread"

AfterClear(body) == IF body.active # Keep THEN "toggle" ELSE "reread"

Named(body) == {c \in Column : body[c] # Keep}

\* Updates(struct) skips what is nil or zero: it can set an endpoint but not clear it,
\* and the flag is not in the struct at all.
Struct(row, body) ==
    [row EXCEPT !.key = Given(body.key, @),
                !.scope = Given(body.scope, @),
                !.endpoint = IF body.endpoint \in Endpoint THEN body.endpoint ELSE @]

Whole(row, body) ==
    [row EXCEPT !.key = Given(body.key, @),
                !.scope = Given(body.scope, @),
                !.endpoint = Given(body.endpoint, @),
                !.active = Given(body.active, @)]

\* The scope of k becomes installation behind the requests that were let through before,
\* and the columns of body are younger than theirs.
Overtake(w, k, body) ==
    [v \in Worker |->
        IF v = w \/ task[v].row # k \/ ~Live(k) THEN task[v]
        ELSE [task[v] EXCEPT
                !.behind = @ \/ (body.scope = "installation" /\ rows[k].scope = "account"),
                !.late = IF task[v].pc \in {"clear", "toggle"} THEN @ \cup Named(body) ELSE @]]

First(w) ==
    /\ task[w].pc = "first"
    /\ LET k == task[w].row
           body == task[w].body
       IN /\ rows' = Written(k, Struct(rows[k], body))
          /\ meant' = IF Live(k) THEN [meant EXCEPT ![k] = Whole(@, body)] ELSE meant
          /\ split' = IF Live(k) /\ body.endpoint \in Endpoint
                      THEN [split EXCEPT ![k] = @ \ {"endpoint"}] ELSE split
          /\ task' = [Overtake(w, k, body) EXCEPT ![w].pc = AfterFirst(body)]
    /\ UNCHANGED <<deletes, requests>>

\* The statement of one column: it wins over what a younger update has written.
Settled(w, k, column) ==
    IF column \in task[w].late THEN [split EXCEPT ![k] = @ \cup {column}]
    ELSE [split EXCEPT ![k] = @ \ {column}]

\* Mutant of Clear: the nil pointer travels in the struct, which gorm skips.
ClearSkipped(w) ==
    /\ task[w].pc = "clear"
    /\ task' = [task EXCEPT ![w].pc = AfterClear(task[w].body)]
    /\ UNCHANGED <<rows, meant, split, deletes, requests>>

Clear(w) ==
    /\ task[w].pc = "clear"
    /\ LET k == task[w].row IN
       /\ rows' = Written(k, [rows[k] EXCEPT !.endpoint = Default])
       /\ split' = Settled(w, k, "endpoint")
    /\ task' = [task EXCEPT ![w].pc = AfterClear(task[w].body)]
    /\ UNCHANGED <<meant, deletes, requests>>

Toggle(w) ==
    /\ task[w].pc = "toggle"
    /\ LET k == task[w].row IN
       /\ rows' = Written(k, [rows[k] EXCEPT !.active = task[w].body.active])
       /\ split' = Settled(w, k, "active")
    /\ task' = [task EXCEPT ![w].pc = "reread"]
    /\ UNCHANGED <<meant, deletes, requests>>

\* The row that is answered, or the 404 of one that was deleted meanwhile.
Reread(w) ==
    /\ task[w].pc = "reread"
    /\ task' = [task EXCEPT ![w] = Idle]
    /\ UNCHANGED <<rows, meant, split, deletes, requests>>

\* What statement pc would still have written, and those after it.
Unwritten(t) ==
    (IF t.pc = "clear" THEN {"endpoint"} ELSE {})
        \cup (IF t.pc \in {"clear", "toggle"} /\ t.body.active # Keep THEN {"active"} ELSE {})

\* A statement fails (a name that is taken, the database, the request's context) or the
\* process ends: the statements before it stay.
Fail(w) ==
    /\ task[w].pc # "idle"
    /\ split' = IF task[w].row = NoRow THEN split
                ELSE [split EXCEPT ![task[w].row] = @ \cup Unwritten(task[w])]
    /\ task' = [task EXCEPT ![w] = Idle]
    /\ UNCHANGED <<rows, meant, deletes, requests>>

(***************************************************************************)
(* Delete.                                                                 *)
(***************************************************************************)

ArriveDelete(w, k, entitled) ==
    Authorize(w, k, Keep, entitled,
              [Idle EXCEPT !.pc = "find", !.row = k, !.entitled = entitled])

Find(w) ==
    /\ task[w].pc = "find"
    /\ task' = [task EXCEPT ![w] = IF Live(@.row) THEN [@ EXCEPT !.pc = "remove"] ELSE Idle]
    /\ UNCHANGED <<rows, meant, split, deletes, requests>>

\* Mutant of Deleted: the rows affected are not looked at.
DeletedAnyway(k) == TRUE

Deleted(k) == Live(k)

Remove(w) ==
    /\ task[w].pc = "remove"
    /\ LET k == task[w].row IN
       /\ rows' = Written(k, [rows[k] EXCEPT !.st = "deleted"])
       /\ deletes' = IF Deleted(k) THEN [deletes EXCEPT ![k] = @ + 1] ELSE deletes
    /\ task' = [task EXCEPT ![w] = Idle]
    /\ UNCHANGED <<meant, split, requests>>

Next ==
    \/ \E k \in Row, key \in Key, endpoint \in Endpoint \cup {Default}, scope \in Scope,
          entitled \in BOOLEAN : Create(k, key, endpoint, scope, entitled)
    \/ \E w \in Worker, k \in Row, body \in Body, entitled \in BOOLEAN :
          ArriveUpdate(w, k, body, entitled)
    \/ \E w \in Worker, k \in Row, entitled \in BOOLEAN : ArriveDelete(w, k, entitled)
    \/ \E w \in Worker : \/ Lookup(w) \/ First(w) \/ Clear(w) \/ Toggle(w) \/ Reread(w)
                         \/ Find(w) \/ Remove(w) \/ Fail(w)

Spec == Init /\ [][Next]_vars

(***************************************************************************)
(* Properties.                                                             *)
(***************************************************************************)

\* A worker still has the statement of this column to execute.
Pending(w, k, column) == task[w].row = k /\ column \in Unwritten(task[w])

Explained(k, column) ==
    \/ rows[k][column] = meant[k][column]
    \/ column \in split[k]
    \/ \E w \in Worker : Pending(w, k, column)

\* However its statements interleave with those of others, an update leaves the key, the
\* endpoint and the flag as one statement would have: what differs is an update under way,
\* or one that failed between two statements or was overtaken by a younger update of the
\* same column, which a later update of that column repairs (apiKeyRepository.Update).
SavesAreWhole ==
    \A k \in Row :
        Live(k) =>
            /\ rows[k].key = meant[k].key /\ rows[k].scope = meant[k].scope
            /\ \A column \in Column : Explained(k, column)

\* An installation default is written, made or unmade only by a request that holds the
\* privilege for it, or that was let through while the row still was an account's
\* (authorizeScopeWrite reads the scope, the statements come later).
InstallationGuarded ==
    [][\A w \in Worker, k \in Row :
          /\ rows'[k] # rows[k] /\ Live(k)
          /\ "installation" \in {rows[k].scope, rows'[k].scope}
          /\ task'[w].pc # task[w].pc
          => task[w].entitled \/ task[w].behind]_vars

\* "A nil error means the row is gone ... never a silent success": however many deletes of
\* a row overlap, one is answered 204 and the row stays gone.
DeletedOnce ==
    \A k \in Row : deletes[k] = (IF rows[k].st = "deleted" THEN 1 ELSE 0)
=============================================================================

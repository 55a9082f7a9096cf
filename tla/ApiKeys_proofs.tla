---------------------------- MODULE ApiKeys_proofs ----------------------------
(***************************************************************************)
(* Proofs about ApiKeys, for any number of workers, rows, keys and         *)
(* endpoints.  A statement late in an update is right only because of what *)
(* the statements before it saw, so the inductive invariant says of every  *)
(* request what it was let through for (Authorized), what it still owes    *)
(* the row (OwesEndpoint, OwesFlag) and that it is well-formed (Formed).   *)
(***************************************************************************)
EXTENDS ApiKeys, TLAPS

Updating == {"lookup", "first", "clear", "toggle", "reread"}
Found == {"first", "clear", "toggle", "reread", "remove"}

Formed(w) ==
    /\ task[w].pc # "idle" => task[w].row \in Row
    /\ task[w].pc \in Updating => task[w].body \in Body
    /\ task[w].pc = "clear" => task[w].body.endpoint = Default
    /\ task[w].pc = "toggle" => task[w].body.active # Keep
    /\ task[w].pc \in Found => rows[task[w].row].st # "free"

\* A request without the privilege knows an account's row, and leaves it one.
Authorized(w) ==
    task[w].pc # "idle" /\ ~task[w].entitled /\ ~task[w].behind =>
        /\ rows[task[w].row].st # "free"
        /\ Live(task[w].row) => rows[task[w].row].scope = "account"
        /\ task[w].body \in Body => task[w].body.scope # "installation"

OwesEndpoint(w) ==
    task[w].pc = "clear" /\ Live(task[w].row) /\ "endpoint" \notin task[w].late =>
        meant[task[w].row].endpoint = Default

OwesFlag(w) ==
    /\ task[w].pc \in {"clear", "toggle"} /\ task[w].body.active # Keep
    /\ Live(task[w].row) /\ "active" \notin task[w].late
    => meant[task[w].row].active = task[w].body.active

Sound(w) == Formed(w) /\ Authorized(w) /\ OwesEndpoint(w) /\ OwesFlag(w)

\* SavesAreWhole of one row, column by column.
EndpointExplained(k) ==
    \/ rows[k].endpoint = meant[k].endpoint
    \/ "endpoint" \in split[k]
    \/ \E w \in Worker : task[w].row = k /\ task[w].pc = "clear"

FlagExplained(k) ==
    \/ rows[k].active = meant[k].active
    \/ "active" \in split[k]
    \/ \E w \in Worker : /\ task[w].row = k /\ task[w].pc \in {"clear", "toggle"}
                         /\ task[w].body.active # Keep

RowWhole(k) ==
    Live(k) =>
        /\ rows[k].key = meant[k].key /\ rows[k].scope = meant[k].scope
        /\ EndpointExplained(k) /\ FlagExplained(k)

DeletedOf(k) == deletes[k] = (IF rows[k].st = "deleted" THEN 1 ELSE 0)

IInv ==
    /\ TypeOK
    /\ \A w \in Worker : Sound(w)
    /\ \A k \in Row : RowWhole(k) /\ DeletedOf(k)

-------------------------------------------------------------------------------

\* The invariant is at least what the module promises of its rows.
LEMMA WholeRows == (\A k \in Row : RowWhole(k)) => SavesAreWhole
<1> SUFFICES ASSUME NEW k \in Row, Live(k), RowWhole(k)
             PROVE  /\ rows[k].key = meant[k].key /\ rows[k].scope = meant[k].scope
                    /\ \A column \in Column : Explained(k, column)
  BY DEF SavesAreWhole
<1>1. Explained(k, "endpoint")
  <2>1. ASSUME NEW w \in Worker, task[w].row = k, task[w].pc = "clear"
        PROVE  Pending(w, k, "endpoint")
    BY <2>1 DEF Pending, Unwritten
  <2> QED
    BY <2>1 DEF RowWhole, EndpointExplained, Explained
<1>2. Explained(k, "active")
  <2>1. ASSUME NEW w \in Worker, task[w].row = k, task[w].pc \in {"clear", "toggle"},
               task[w].body.active # Keep
        PROVE  Pending(w, k, "active")
    BY <2>1 DEF Pending, Unwritten
  <2> QED
    BY <2>1 DEF RowWhole, FlagExplained, Explained
<1> QED
  BY <1>1, <1>2 DEF RowWhole, Column

LEMMA InitSound == Init => IInv
<1> SUFFICES ASSUME Init PROVE IInv
  OBVIOUS
<1>1. Free \in Record
  <2>1. (CHOOSE key \in Key : TRUE) \in Key
    BY ConstantsAssumption
  <2> QED
    BY <2>1 DEF Free, Record, Scope
<1>2. TypeOK
  BY <1>1, ConstantsAssumption DEF Init, TypeOK, Task, Idle, Column
<1>3. \A w \in Worker : Sound(w)
  BY DEF Init, Idle, Sound, Formed, Authorized, OwesEndpoint, OwesFlag, Updating, Found
<1>4. \A k \in Row : RowWhole(k) /\ DeletedOf(k)
  BY DEF Init, Free, RowWhole, Live, DeletedOf
<1> QED
  BY <1>2, <1>3, <1>4 DEF IInv
-------------------------------------------------------------------------------

\* What the types say of a well-formed request.
LEMMA BodyTyped ==
    ASSUME NEW body \in Body
    PROVE  /\ body.key \in Key \cup {Keep} /\ body.endpoint \in Endpoint \cup {Default, Keep}
           /\ body.scope \in Scope \cup {Keep} /\ body.active \in BOOLEAN \cup {Keep}
BY DEF Body

\* The row as the first statement leaves it, and as the whole update should.
LEMMA StructWhole ==
    ASSUME NEW body \in Body, NEW row \in Record, NEW sum \in Record
    PROVE  /\ Struct(row, body) \in Record /\ Whole(sum, body) \in Record
           /\ Struct(row, body).st = row.st
           /\ Struct(row, body).scope = Given(body.scope, row.scope)
           /\ Struct(row, body).key = Given(body.key, row.key)
           /\ Whole(sum, body).scope = Given(body.scope, sum.scope)
           /\ Whole(sum, body).key = Given(body.key, sum.key)
           /\ Struct(row, body).active = row.active
           /\ Whole(sum, body).active = Given(body.active, sum.active)
           /\ Whole(sum, body).endpoint = Given(body.endpoint, sum.endpoint)
           /\ body.endpoint \in Endpoint => Struct(row, body).endpoint = body.endpoint
           /\ body.endpoint \notin Endpoint => Struct(row, body).endpoint = row.endpoint
<1>1. /\ body.key \in Key \cup {Keep} /\ body.endpoint \in Endpoint \cup {Default, Keep}
      /\ body.scope \in Scope \cup {Keep} /\ body.active \in BOOLEAN \cup {Keep}
  BY BodyTyped
<1>2. /\ Given(body.key, row.key) \in Key /\ Given(body.key, sum.key) \in Key
      /\ Given(body.scope, row.scope) \in Scope /\ Given(body.scope, sum.scope) \in Scope
      /\ Given(body.endpoint, sum.endpoint) \in Endpoint \cup {Default}
  BY <1>1 DEF Given, Record
<1>3. Given(body.active, sum.active) \in BOOLEAN
  BY <1>1 DEF Given, Record
<1> QED
  BY <1>1, <1>2, <1>3 DEF Struct, Whole, Record

\* What the first statement of an update does, request by request.
LEMMA FirstEffects ==
    ASSUME TypeOK, NEW w \in Worker, Formed(w), First(w)
    PROVE  LET k == task[w].row
               body == task[w].body
           IN /\ k \in Row /\ body \in Body
              /\ task'[w] = [task[w] EXCEPT !.pc = AfterFirst(body)]
              /\ \A v \in Worker \ {w} :
                    /\ task'[v].pc = task[v].pc /\ task'[v].row = task[v].row
                    /\ task'[v].body = task[v].body /\ task'[v].entitled = task[v].entitled
                    /\ task'[v] \in Task
                    /\ task[v].behind => task'[v].behind
                    /\ task[v].late \subseteq task'[v].late
                    /\ task[v].row = k /\ Live(k) /\ body.scope = "installation"
                         /\ rows[k].scope = "account" => task'[v].behind
                    /\ task[v].row = k /\ Live(k) /\ task[v].pc \in {"clear", "toggle"}
                         => Named(body) \subseteq task'[v].late
              /\ task' \in [Worker -> Task]
<1> DEFINE k == task[w].row
           body == task[w].body
<1>1. k \in Row /\ body \in Body
  BY DEF First, Formed, Updating
<1>2. AfterFirst(body) \in {"clear", "toggle", "reread"}
  BY DEF AfterFirst
<1>3. task' = [Overtake(w, k, body) EXCEPT ![w].pc = AfterFirst(body)]
  BY DEF First
<1>4. task'[w] = [task[w] EXCEPT !.pc = AfterFirst(body)]
  BY <1>3 DEF Overtake
<1>5. task'[w] \in Task
  BY <1>2, <1>4 DEF TypeOK, Task
<1>6. ASSUME NEW v \in Worker, v # w
      PROVE  /\ task'[v].pc = task[v].pc /\ task'[v].row = task[v].row
             /\ task'[v].body = task[v].body /\ task'[v].entitled = task[v].entitled
             /\ task'[v] \in Task
             /\ task[v].behind => task'[v].behind
             /\ task[v].late \subseteq task'[v].late
             /\ task[v].row = k /\ Live(k) /\ body.scope = "installation"
                  /\ rows[k].scope = "account" => task'[v].behind
             /\ task[v].row = k /\ Live(k) /\ task[v].pc \in {"clear", "toggle"}
                  => Named(body) \subseteq task'[v].late
  <2> DEFINE b == task[v].behind \/ (body.scope = "installation" /\ rows[k].scope = "account")
             l == IF task[v].pc \in {"clear", "toggle"} THEN task[v].late \cup Named(body)
                  ELSE task[v].late
  <2>0. task[v] \in Task
    BY DEF TypeOK
  <2>1. task'[v] = IF task[v].row # k \/ ~Live(k) THEN task[v]
                   ELSE [task[v] EXCEPT !.behind = b, !.late = l]
    BY <1>3, <1>6 DEF Overtake
  <2>2. b \in BOOLEAN
    BY <2>0 DEF Task
  <2>3. l \in SUBSET Column
    BY <2>0 DEF Task, Named
  <2>4. /\ task[v].behind => b
        /\ body.scope = "installation" /\ rows[k].scope = "account" => b
    OBVIOUS
  <2>5. /\ task[v].late \subseteq l
        /\ task[v].pc \in {"clear", "toggle"} => Named(body) \subseteq l
    OBVIOUS
  <2> HIDE DEF b, l, k, body
  <2>6. CASE task[v].row # k \/ ~Live(k)
    BY <2>0, <2>1, <2>6
  <2>7. CASE ~(task[v].row # k \/ ~Live(k))
    <3> DEFINE t == [task[v] EXCEPT !.behind = b, !.late = l]
    <3>1. /\ t.pc = task[v].pc /\ t.row = task[v].row /\ t.body = task[v].body
          /\ t.entitled = task[v].entitled /\ t.behind = b /\ t.late = l /\ t \in Task
      BY <2>0, <2>2, <2>3 DEF Task
    <3>2. task'[v] = t
      BY <2>1, <2>7
    <3> HIDE DEF t
    <3> QED
      BY <3>1, <3>2, <2>4, <2>5
  <2> QED
    BY <2>6, <2>7
<1>7. task' = [v \in Worker |-> task'[v]]
  BY <1>3 DEF Overtake
<1>8. \A v \in Worker : task'[v] \in Task
  BY <1>5, <1>6
<1>9. task' \in [Worker -> Task]
  BY <1>7, <1>8
<1> HIDE DEF k, body
<1> QED
  BY <1>1, <1>4, <1>6, <1>9 DEF k, body
-------------------------------------------------------------------------------

LEMMA IdleSound ==
    ASSUME NEW w \in Worker, task'[w] = Idle
    PROVE  Sound(w)'
BY DEF Sound, Formed, Authorized, OwesEndpoint, OwesFlag, Updating, Found, Idle

\* A request that nothing happens to, on rows that stay.
LEMMA Bystander ==
    ASSUME NEW v \in Worker, Sound(v), task'[v] = task[v], UNCHANGED <<rows, meant>>
    PROVE  Sound(v)'
BY DEF Sound, Formed, Authorized, OwesEndpoint, OwesFlag, Updating, Found, Live

\* A step that writes no row, of a request that owed the rows nothing.
LEMMA QuietRows ==
    ASSUME IInv, NEW w \in Worker, UNCHANGED <<rows, meant, split, deletes>>,
           task[w].pc \notin {"clear", "toggle"},
           \A v \in Worker \ {w} : task'[v] = task[v],
           NEW k \in Row
    PROVE  RowWhole(k)' /\ DeletedOf(k)'
<1>1. RowWhole(k) /\ DeletedOf(k)
  BY DEF IInv
<1>2. DeletedOf(k)'
  BY <1>1 DEF DeletedOf
<1>3. EndpointExplained(k) => EndpointExplained(k)'
  BY DEF EndpointExplained
<1>4. FlagExplained(k) => FlagExplained(k)'
  BY DEF FlagExplained
<1> QED
  BY <1>1, <1>2, <1>3, <1>4 DEF RowWhole, Live

LEMMA QuietStep ==
    ASSUME IInv, NEW w \in Worker, UNCHANGED <<rows, meant, split, deletes>>,
           requests' \in 0..MaxRequests, task' \in [Worker -> Task],
           task[w].pc \notin {"clear", "toggle"},
           \A v \in Worker \ {w} : task'[v] = task[v],
           Sound(w)'
    PROVE  IInv'
<1>1. TypeOK'
  BY DEF IInv, TypeOK
<1>2. \A v \in Worker : Sound(v)'
  BY Bystander DEF IInv
<1>3. \A k \in Row : RowWhole(k)' /\ DeletedOf(k)'
  BY QuietRows
<1> QED
  BY <1>1, <1>2, <1>3 DEF IInv

LEMMA AuthorizeStep ==
    ASSUME IInv, NEW w \in Worker, NEW k \in Row, NEW requested, NEW entitled \in BOOLEAN,
           NEW t \in Task, Authorize(w, k, requested, entitled, t),
           t.row = k, t.pc \in {"lookup", "find"}, t.entitled = entitled,
           t.pc = "lookup" => t.body \in Body,
           t.body \in Body => t.body.scope = requested
    PROVE  IInv'
<1>1. PICK failed \in BOOLEAN :
        task' = IF TouchesInstallation(k, requested, failed) /\ ~entitled
                THEN task
                ELSE [task EXCEPT ![w] = t]
  BY DEF Authorize
<1>2. /\ UNCHANGED <<rows, meant, split, deletes>> /\ task[w].pc = "idle"
      /\ requests' \in 0..MaxRequests
  BY ConstantsAssumption DEF Authorize, IInv, TypeOK
<1>3. CASE task' = task
  <2>1. Sound(w)'
    BY <1>2, <1>3, Bystander DEF IInv
  <2>2. task' \in [Worker -> Task]
    BY <1>3 DEF IInv, TypeOK
  <2> QED
    BY <1>2, <1>3, <2>1, <2>2, QuietStep
<1>4. CASE task' = [task EXCEPT ![w] = t] /\ ~(TouchesInstallation(k, requested, failed) /\ ~entitled)
  <2>1. /\ task'[w] = t /\ task' \in [Worker -> Task]
        /\ \A v \in Worker \ {w} : task'[v] = task[v]
    BY <1>4 DEF IInv, TypeOK
  <2>2. rows[k] \in Record
    BY DEF IInv, TypeOK
  <2>3. Authorized(w)'
    <3>1. ~entitled => /\ requested # "installation" /\ rows[k].st = "live"
                       /\ rows[k].scope = "account"
      BY <1>4, <2>2 DEF TouchesInstallation, Live, Record, Scope
    <3> QED
      BY <2>1, <1>2, <3>1 DEF Authorized, Live
  <2>4. Formed(w)' /\ OwesEndpoint(w)' /\ OwesFlag(w)'
    BY <2>1 DEF Formed, Updating, Found, OwesEndpoint, OwesFlag
  <2>5. Sound(w)'
    BY <2>3, <2>4 DEF Sound
  <2> QED
    BY <1>2, <2>1, <2>5, QuietStep
<1> QED
  BY <1>1, <1>3, <1>4

\* A step of one request that goes on, or ends, without writing.
LEMMA WaitStep ==
    ASSUME IInv, NEW w \in Worker, Lookup(w) \/ Reread(w) \/ Find(w)
    PROVE  IInv'
<1> DEFINE t == task[w]
<1>1. /\ UNCHANGED <<rows, meant, split, deletes, requests>>
      /\ t.pc \in {"lookup", "reread", "find"} /\ t \in Task /\ TypeOK /\ Sound(w)
  BY DEF Lookup, Reread, Find, IInv, TypeOK
<1>2. PICK u : /\ task' = [task EXCEPT ![w] = u]
               /\ \/ u = Idle
                  \/ t.pc = "lookup" /\ u = [t EXCEPT !.pc = "first"] /\ Live(t.row)
                  \/ t.pc = "find" /\ u = [t EXCEPT !.pc = "remove"] /\ Live(t.row)
  BY DEF Lookup, Reread, Find
<1>3. u \in Task
  <2>1. Idle \in Task
    BY DEF Task, Idle
  <2>2. [t EXCEPT !.pc = "first"] \in Task /\ [t EXCEPT !.pc = "remove"] \in Task
    BY <1>1 DEF Task
  <2> QED
    BY <1>2, <2>1, <2>2
<1>4. /\ task'[w] = u /\ task' \in [Worker -> Task]
      /\ \A v \in Worker \ {w} : task'[v] = task[v]
  BY <1>1, <1>2, <1>3 DEF TypeOK
<1>5. Sound(w)'
  <2>1. CASE u = Idle
    BY <1>4, <2>1, IdleSound
  <2>2. CASE t.pc = "lookup" /\ u = [t EXCEPT !.pc = "first"] /\ Live(t.row)
    <3>1. /\ u.pc = "first" /\ u.row = t.row /\ u.body = t.body
          /\ u.entitled = t.entitled /\ u.behind = t.behind
      BY <1>1, <2>2 DEF Task
    <3> QED
      BY <1>1, <1>4, <2>2, <3>1
         DEF Sound, Formed, Authorized, OwesEndpoint, OwesFlag, Updating, Found, Live
  <2>3. CASE t.pc = "find" /\ u = [t EXCEPT !.pc = "remove"] /\ Live(t.row)
    <3>1. /\ u.pc = "remove" /\ u.row = t.row /\ u.body = t.body
          /\ u.entitled = t.entitled /\ u.behind = t.behind
      BY <1>1, <2>3 DEF Task
    <3> QED
      BY <1>1, <1>4, <2>3, <3>1
         DEF Sound, Formed, Authorized, OwesEndpoint, OwesFlag, Updating, Found, Live
  <2> QED
    BY <1>2, <2>1, <2>2, <2>3
<1>6. t.pc \notin {"clear", "toggle"} /\ requests' \in 0..MaxRequests
  BY <1>1 DEF TypeOK
<1> QED
  BY <1>1, <1>4, <1>5, <1>6, QuietStep

LEMMA CreateStep ==
    ASSUME IInv, NEW k \in Row, NEW key \in Key, NEW endpoint \in Endpoint \cup {Default},
           NEW scope \in Scope, NEW entitled \in BOOLEAN,
           Create(k, key, endpoint, scope, entitled)
    PROVE  IInv'
<1> DEFINE row == [st |-> "live", key |-> key, endpoint |-> endpoint, scope |-> scope,
                   active |-> TRUE]
<1>1. /\ rows' = [rows EXCEPT ![k] = row] /\ meant' = [meant EXCEPT ![k] = row]
      /\ rows[k].st = "free" /\ UNCHANGED <<task, split, deletes>>
      /\ requests' = requests + 1 /\ requests < MaxRequests
  BY DEF Create
<1>2. row \in Record
  BY DEF Record
<1>3. row.st = "live"
  OBVIOUS
<1>4. TypeOK /\ (\A w \in Worker : Sound(w)) /\ \A j \in Row : RowWhole(j) /\ DeletedOf(j)
  BY DEF IInv
<1> HIDE DEF row
<1>5. TypeOK'
  BY <1>1, <1>2, <1>4, ConstantsAssumption DEF TypeOK
<1>6. /\ rows'[k] = row /\ meant'[k] = row
      /\ \A j \in Row \ {k} : rows'[j] = rows[j] /\ meant'[j] = meant[j]
  BY <1>1, <1>4 DEF TypeOK
<1>7. ASSUME NEW w \in Worker PROVE Sound(w)'
  <2>1. Sound(w) /\ task'[w] = task[w]
    BY <1>1, <1>4
  <2>2. Formed(w)'
    BY <1>3, <1>6, <2>1 DEF Sound, Formed, Found, Updating
  <2>3. task[w].pc # "idle" => task[w].row \in Row
    BY <2>1 DEF Sound, Formed
  <2>4. Authorized(w)'
    BY <1>1, <1>6, <2>1, <2>3 DEF Sound, Authorized, Live
  <2>5. task[w].pc \in {"clear", "toggle"} => task[w].row # k
    BY <1>1, <2>1 DEF Sound, Formed, Found
  <2>6. OwesEndpoint(w)'
    BY <1>6, <2>1, <2>3, <2>5 DEF Sound, OwesEndpoint, Live
  <2>7. OwesFlag(w)'
    BY <1>6, <2>1, <2>3, <2>5 DEF Sound, OwesFlag, Live
  <2> QED
    BY <2>2, <2>4, <2>6, <2>7 DEF Sound
<1>8. ASSUME NEW j \in Row PROVE RowWhole(j)' /\ DeletedOf(j)'
  <2>1. CASE j = k
    BY <1>1, <1>3, <1>4, <1>6, <2>1 DEF RowWhole, EndpointExplained, FlagExplained, DeletedOf
  <2>2. CASE j # k
    <3>1. rows'[j] = rows[j] /\ meant'[j] = meant[j]
      BY <1>6, <2>2
    <3>2. EndpointExplained(j) => EndpointExplained(j)'
      BY <1>1, <3>1 DEF EndpointExplained
    <3>3. FlagExplained(j) => FlagExplained(j)'
      BY <1>1, <3>1 DEF FlagExplained
    <3> QED
      BY <1>1, <1>4, <3>1, <3>2, <3>3 DEF RowWhole, DeletedOf, Live
  <2> QED
    BY <2>1, <2>2
<1> QED
  BY <1>5, <1>7, <1>8 DEF IInv
-------------------------------------------------------------------------------

\* The first statement: the row and what it should be move together, and what is left to
\* write is owed.
LEMMA FirstStep ==
    ASSUME IInv, NEW w \in Worker, First(w)
    PROVE  IInv'
<1> DEFINE k == task[w].row
           body == task[w].body
<1>0. TypeOK /\ (\A v \in Worker : Sound(v)) /\ \A j \in Row : RowWhole(j) /\ DeletedOf(j)
  BY DEF IInv
<1>1. Formed(w)
  BY <1>0 DEF Sound
<1>2. /\ k \in Row /\ body \in Body
      /\ task'[w] = [task[w] EXCEPT !.pc = AfterFirst(body)]
      /\ task' \in [Worker -> Task]
  BY <1>0, <1>1, FirstEffects
<1>3. ASSUME NEW v \in Worker, v # w
      PROVE  /\ task'[v].pc = task[v].pc /\ task'[v].row = task[v].row
             /\ task'[v].body = task[v].body /\ task'[v].entitled = task[v].entitled
             /\ task[v].behind => task'[v].behind
             /\ task[v].late \subseteq task'[v].late
             /\ task[v].row = k /\ Live(k) /\ body.scope = "installation"
                  /\ rows[k].scope = "account" => task'[v].behind
             /\ task[v].row = k /\ Live(k) /\ task[v].pc \in {"clear", "toggle"}
                  => Named(body) \subseteq task'[v].late
  BY <1>0, <1>1, <1>3, FirstEffects
<1>4. /\ task'[w].pc = AfterFirst(body) /\ task'[w].row = k /\ task'[w].body = body
      /\ task'[w].entitled = task[w].entitled /\ task'[w].behind = task[w].behind
  BY <1>0, <1>2 DEF TypeOK, Task
<1>5. /\ task[w].pc = "first" /\ UNCHANGED <<deletes, requests>>
      /\ rows' = Written(k, Struct(rows[k], body))
      /\ meant' = IF Live(k) THEN [meant EXCEPT ![k] = Whole(@, body)] ELSE meant
      /\ split' = IF Live(k) /\ body.endpoint \in Endpoint
                  THEN [split EXCEPT ![k] = @ \ {"endpoint"}] ELSE split
  BY DEF First
<1>6. AfterFirst(body) = IF body.endpoint = Default THEN "clear"
                         ELSE IF body.active # Keep THEN "toggle" ELSE "reread"
  BY DEF AfterFirst
<1>7. Default \notin Endpoint /\ Keep \notin Endpoint /\ Keep # Default /\ Keep # "installation"
      /\ Keep # "account"
  BY ConstantsAssumption
<1>8. /\ body.endpoint \in Endpoint \cup {Default, Keep} /\ body.scope \in Scope \cup {Keep}
  BY <1>2, BodyTyped
<1> DEFINE struct == Struct(rows[k], body)
           whole == Whole(meant[k], body)
<1>9. rows[k] \in Record /\ meant[k] \in Record
  BY <1>0, <1>2 DEF TypeOK
<1>10. /\ struct \in Record /\ whole \in Record /\ struct.st = rows[k].st
       /\ struct.scope = Given(body.scope, rows[k].scope)
       /\ struct.key = Given(body.key, rows[k].key)
       /\ whole.scope = Given(body.scope, meant[k].scope)
       /\ whole.key = Given(body.key, meant[k].key)
       /\ struct.active = rows[k].active
       /\ whole.active = Given(body.active, meant[k].active)
       /\ whole.endpoint = Given(body.endpoint, meant[k].endpoint)
       /\ body.endpoint \in Endpoint => struct.endpoint = body.endpoint
       /\ body.endpoint \notin Endpoint => struct.endpoint = rows[k].endpoint
  BY <1>2, <1>9, StructWhole
<1> HIDE DEF struct, whole
<1>11. CASE ~Live(k)
  <2>1. UNCHANGED <<rows, meant, split>>
    BY <1>5, <1>11 DEF Written
  <2>2. TypeOK'
    BY <1>0, <1>2, <1>5, <2>1 DEF TypeOK
  <2>3. ASSUME NEW v \in Worker PROVE Sound(v)'
    <3>1. CASE v = w
      <4>1. Formed(w)'
        BY <1>0, <1>2, <1>4, <1>5, <1>6, <2>1 DEF Sound, Formed, Updating, Found
      <4>2. Authorized(w)'
        BY <1>0, <1>2, <1>4, <1>5, <2>1 DEF Sound, Authorized, Live
      <4>3. OwesEndpoint(w)' /\ OwesFlag(w)'
        BY <1>4, <1>11, <2>1 DEF OwesEndpoint, OwesFlag, Live
      <4> QED
        BY <3>1, <4>1, <4>2, <4>3 DEF Sound
    <3>2. CASE v # w
      <4>1. Formed(v)'
        BY <1>0, <1>3, <2>1, <3>2 DEF Sound, Formed, Updating, Found
      <4>2. Authorized(v)'
        BY <1>0, <1>3, <2>1, <3>2 DEF Sound, Authorized, Live
      <4>3. OwesEndpoint(v)' /\ OwesFlag(v)'
        BY <1>0, <1>3, <2>1, <3>2 DEF Sound, OwesEndpoint, OwesFlag, Live
      <4> QED
        BY <4>1, <4>2, <4>3 DEF Sound
    <3> QED
      BY <3>1, <3>2
  <2>4. ASSUME NEW j \in Row PROVE RowWhole(j)' /\ DeletedOf(j)'
    <3>1. EndpointExplained(j) => EndpointExplained(j)'
      BY <1>3, <1>5, <2>1 DEF EndpointExplained
    <3>2. FlagExplained(j) => FlagExplained(j)'
      BY <1>3, <1>5, <2>1 DEF FlagExplained
    <3> QED
      BY <1>0, <1>5, <2>1, <3>1, <3>2 DEF RowWhole, DeletedOf, Live
  <2> QED
    BY <2>2, <2>3, <2>4 DEF IInv
<1>12. CASE Live(k)
  <2>1. /\ rows' = [rows EXCEPT ![k] = struct] /\ meant' = [meant EXCEPT ![k] = whole]
    BY <1>5, <1>12 DEF Written, struct, whole
  <2>2. /\ rows'[k] = struct /\ meant'[k] = whole
        /\ \A j \in Row \ {k} : rows'[j] = rows[j] /\ meant'[j] = meant[j] /\ split'[j] = split[j]
        /\ body.endpoint \notin Endpoint => split'[k] = split[k]
        /\ split[k] \ {"endpoint"} \subseteq split'[k]
    BY <1>0, <1>2, <1>5, <2>1 DEF TypeOK
  <2>3. split' \in [Row -> SUBSET Column]
    BY <1>0, <1>5 DEF TypeOK
  <2>4. TypeOK'
    BY <1>0, <1>2, <1>5, <1>10, <2>1, <2>3 DEF TypeOK
  <2>5. ASSUME NEW v \in Worker PROVE Formed(v)'
    <3>1. ASSUME NEW j \in Row PROVE rows'[j].st = rows[j].st
      BY <1>10, <2>2
    <3>2. CASE v = w
      BY <1>1, <1>2, <1>4, <1>5, <1>6, <3>1, <3>2 DEF Formed, Updating, Found
    <3>3. CASE v # w
      <4>1. Formed(v)
        BY <1>0 DEF Sound
      <4> QED
        BY <1>3, <3>1, <3>3, <4>1 DEF Formed, Updating, Found
    <3> QED
      BY <3>2, <3>3
  <2>6. ASSUME NEW v \in Worker PROVE Authorized(v)'
    <3>1. Authorized(v) /\ (task[v].pc # "idle" => task[v].row \in Row)
      BY <1>0 DEF Sound, Formed
    <3>2. task'[v].pc # "idle" => task[v].pc # "idle"
      BY <1>3, <1>5
    <3>3. /\ task'[v].row = task[v].row /\ task'[v].body = task[v].body
          /\ task'[v].entitled = task[v].entitled
          /\ task[v].behind => task'[v].behind
      BY <1>3, <1>4
    <3>4. CASE task[v].row # k
      BY <2>2, <3>1, <3>2, <3>3, <3>4 DEF Authorized, Live
    <3>5. CASE task[v].row = k
      <4>1. SUFFICES ASSUME task'[v].pc # "idle", ~task'[v].entitled, ~task'[v].behind
                     PROVE  /\ rows'[k].st # "free" /\ rows'[k].scope = "account"
                            /\ task[v].body \in Body => task[v].body.scope # "installation"
        BY <3>3, <3>5 DEF Authorized, Live
      <4>2. /\ rows[k].st # "free" /\ rows[k].scope = "account"
            /\ task[v].body \in Body => task[v].body.scope # "installation"
        BY <1>12, <3>1, <3>2, <3>3, <3>5, <4>1 DEF Authorized
      <4>3. body.scope # "installation"
        BY <1>2, <1>3, <1>12, <4>1, <4>2, <3>5
      <4>4. struct.scope = "account"
        BY <1>8, <1>10, <4>2, <4>3 DEF Given, Scope
      <4> QED
        BY <1>10, <2>2, <4>2, <4>4
    <3> QED
      BY <3>4, <3>5
  <2>7. ASSUME NEW v \in Worker PROVE OwesEndpoint(v)' /\ OwesFlag(v)'
    <3>1. CASE v = w
      <4>1. body.endpoint = Default => whole.endpoint = Default
        BY <1>7, <1>10 DEF Given
      <4>2. body.active # Keep => whole.active = body.active
        BY <1>10 DEF Given
      <4>3. task'[w].pc = "clear" => body.endpoint = Default
        BY <1>4, <1>6
      <4> QED
        BY <1>4, <2>2, <3>1, <4>1, <4>2, <4>3 DEF OwesEndpoint, OwesFlag
    <3>2. CASE v # w
      <4>1. OwesEndpoint(v) /\ OwesFlag(v) /\ (task[v].pc # "idle" => task[v].row \in Row)
        BY <1>0 DEF Sound, Formed
      <4>2. CASE task[v].row # k
        BY <1>3, <2>2, <3>2, <4>1, <4>2 DEF OwesEndpoint, OwesFlag, Live
      <4>3. CASE task[v].row = k
        <5>1. task[v].pc = "clear" /\ "endpoint" \notin task'[v].late =>
                whole.endpoint = Default
          <6>1. SUFFICES ASSUME task[v].pc = "clear", "endpoint" \notin task'[v].late
                         PROVE  whole.endpoint = Default
            OBVIOUS
          <6>2. "endpoint" \notin Named(body) /\ "endpoint" \notin task[v].late
            BY <1>3, <1>12, <3>2, <4>3, <6>1
          <6>3. body.endpoint = Keep
            BY <6>2 DEF Named, Column
          <6>4. meant[k].endpoint = Default
            BY <1>12, <4>1, <4>3, <6>1, <6>2 DEF OwesEndpoint
          <6> QED
            BY <1>10, <6>3, <6>4 DEF Given
        <5>2. task[v].pc \in {"clear", "toggle"} /\ task[v].body.active # Keep
                /\ "active" \notin task'[v].late => whole.active = task[v].body.active
          <6>1. SUFFICES ASSUME task[v].pc \in {"clear", "toggle"}, task[v].body.active # Keep,
                                "active" \notin task'[v].late
                         PROVE  whole.active = task[v].body.active
            OBVIOUS
          <6>2. "active" \notin Named(body) /\ "active" \notin task[v].late
            BY <1>3, <1>12, <3>2, <4>3, <6>1
          <6>3. body.active = Keep
            BY <6>2 DEF Named, Column
          <6>4. meant[k].active = task[v].body.active
            BY <1>12, <4>1, <4>3, <6>1, <6>2 DEF OwesFlag
          <6> QED
            BY <1>10, <6>3, <6>4 DEF Given
        <5> QED
          BY <1>3, <2>2, <3>2, <4>3, <5>1, <5>2 DEF OwesEndpoint, OwesFlag
      <4> QED
        BY <4>2, <4>3
    <3> QED
      BY <3>1, <3>2
  <2>8. ASSUME NEW j \in Row PROVE RowWhole(j)' /\ DeletedOf(j)'
    <3>1. CASE j # k
      <4>1. EndpointExplained(j) => EndpointExplained(j)'
        BY <1>3, <1>5, <2>2, <3>1 DEF EndpointExplained
      <4>2. FlagExplained(j) => FlagExplained(j)'
        BY <1>3, <1>5, <2>2, <3>1 DEF FlagExplained
      <4> QED
        BY <1>0, <1>5, <2>2, <3>1, <4>1, <4>2 DEF RowWhole, DeletedOf, Live
    <3>2. CASE j = k
      <4>0. RowWhole(j) /\ DeletedOf(j) /\ rows[j].key = meant[j].key
            /\ rows[j].scope = meant[j].scope /\ EndpointExplained(j) /\ FlagExplained(j)
        BY <1>0, <1>2, <1>12, <3>2 DEF RowWhole
      <4>1. DeletedOf(j)'
        BY <1>5, <1>10, <2>2, <3>2, <4>0 DEF DeletedOf
      <4>2. rows'[j].key = meant'[j].key /\ rows'[j].scope = meant'[j].scope
        BY <1>10, <2>2, <3>2, <4>0
      <4>3. EndpointExplained(j)'
        <5>1. CASE body.endpoint \in Endpoint
          BY <1>7, <1>10, <2>2, <3>2, <5>1 DEF EndpointExplained, Given
        <5>2. CASE body.endpoint = Default
          BY <1>4, <1>6, <3>2, <5>2 DEF EndpointExplained
        <5>3. CASE body.endpoint = Keep
          <6>1. rows'[j].endpoint = rows[j].endpoint /\ meant'[j].endpoint = meant[j].endpoint
                /\ split'[j] = split[j]
            BY <1>7, <1>10, <2>2, <3>2, <5>3 DEF Given
          <6> QED
            BY <1>3, <1>5, <3>2, <4>0, <6>1 DEF EndpointExplained
        <5> QED
          BY <1>8, <5>1, <5>2, <5>3
      <4>4. FlagExplained(j)'
        <5>1. CASE body.active # Keep
          BY <1>4, <1>6, <3>2, <5>1 DEF FlagExplained
        <5>2. CASE body.active = Keep
          <6>1. rows'[j].active = rows[j].active /\ meant'[j].active = meant[j].active
                /\ ("active" \in split[j] => "active" \in split'[j])
            BY <1>10, <2>2, <3>2, <5>2 DEF Given
          <6> QED
            BY <1>3, <1>5, <3>2, <4>0, <6>1 DEF FlagExplained
        <5> QED
          BY <5>1, <5>2
      <4> QED
        BY <3>2, <4>1, <4>2, <4>3, <4>4 DEF RowWhole
    <3> QED
      BY <3>1, <3>2
  <2> QED
    BY <2>4, <2>5, <2>6, <2>7, <2>8 DEF IInv, Sound
<1> QED
  BY <1>11, <1>12
-------------------------------------------------------------------------------

\* A request that others' statements pass by: no row comes alive or changes its scope.
LEMMA Onlooker ==
    ASSUME NEW v \in Worker, Sound(v), task'[v] = task[v], meant' = meant,
           \A j \in Row : /\ rows[j].st # "free" => rows'[j].st # "free"
                          /\ Live(j)' => Live(j) /\ rows'[j].scope = rows[j].scope
    PROVE  Sound(v)'
<1>1. task[v].pc # "idle" => task[v].row \in Row
  BY DEF Sound, Formed
<1>2. Formed(v)'
  BY <1>1 DEF Sound, Formed, Updating, Found
<1>3. Authorized(v)'
  BY <1>1 DEF Sound, Authorized, Live
<1>4. OwesEndpoint(v)' /\ OwesFlag(v)'
  BY <1>1 DEF Sound, OwesEndpoint, OwesFlag, Live
<1> QED
  BY <1>2, <1>3, <1>4 DEF Sound

\* An update goes on to its next statement.
LEMMA GoesOn ==
    ASSUME NEW w \in Worker, Sound(w), task[w].pc \in {"clear", "toggle"},
           task[w].row \in Row, meant' = meant,
           \A j \in Row : rows'[j].st = rows[j].st /\ rows'[j].scope = rows[j].scope,
           \/ task'[w].pc = "reread"
           \/ task'[w].pc = "toggle" /\ task[w].pc = "clear" /\ task[w].body.active # Keep,
           task'[w].row = task[w].row, task'[w].body = task[w].body,
           task'[w].entitled = task[w].entitled, task'[w].behind = task[w].behind,
           task'[w].late = task[w].late
    PROVE  Sound(w)'
<1>1. Formed(w)'
  BY DEF Sound, Formed, Updating, Found
<1>2. Authorized(w)'
  BY DEF Sound, Authorized, Live
<1>3. OwesEndpoint(w)' /\ OwesFlag(w)'
  BY DEF Sound, OwesEndpoint, OwesFlag, Live
<1> QED
  BY <1>1, <1>2, <1>3 DEF Sound

\* The statement that clears the endpoint pays what the update owes it.
LEMMA ClearStep ==
    ASSUME IInv, NEW w \in Worker, Clear(w)
    PROVE  IInv'
<1> DEFINE body == task[w].body
<1>0. TypeOK /\ (\A v \in Worker : Sound(v)) /\ \A j \in Row : RowWhole(j) /\ DeletedOf(j)
  BY DEF IInv
<1>1. PICK k \in Row : k = task[w].row
  BY <1>0 DEF Clear, Sound, Formed
<1>2. /\ task[w].pc = "clear" /\ body \in Body /\ body.active \in BOOLEAN \cup {Keep}
      /\ task[w] \in Task /\ rows[k] \in Record
  BY <1>0, <1>1, BodyTyped DEF Clear, Sound, Formed, Updating, TypeOK
<1>3. PICK value : value = Default
  OBVIOUS
<1>4. value = Default
  BY <1>0, <1>2, <1>3 DEF Sound, Formed
<1>5. PICK row : row = [rows[k] EXCEPT !.endpoint = value]
  OBVIOUS
<1>6. /\ row \in Record /\ row.st = rows[k].st /\ row.key = rows[k].key
      /\ row.scope = rows[k].scope /\ row.active = rows[k].active /\ row.endpoint = value
  BY <1>2, <1>4, <1>5 DEF Record
<1>7. PICK pc : pc = AfterClear(body)
  OBVIOUS
<1>8. pc = "reread" \/ (pc = "toggle" /\ task[w].pc = "clear" /\ body.active # Keep)
  BY <1>2, <1>7 DEF AfterClear
<1>9. /\ rows' = Written(k, row)
      /\ split' = IF "endpoint" \in task[w].late THEN [split EXCEPT ![k] = @ \cup {"endpoint"}]
                  ELSE [split EXCEPT ![k] = @ \ {"endpoint"}]
      /\ task' = [task EXCEPT ![w].pc = pc]
      /\ UNCHANGED <<meant, deletes, requests>>
  BY <1>1, <1>3, <1>5, <1>7 DEF Clear, Settled
<1>10. /\ "endpoint" \in split'[k] \/ "endpoint" \notin task[w].late
       /\ \A j \in Row : j # k => split'[j] = split[j]
       /\ "active" \in split[k] => "active" \in split'[k]
       /\ split' \in [Row -> SUBSET Column]
  BY <1>0, <1>9 DEF TypeOK, Column
<1>11. /\ Live(k) => rows'[k] = row
       /\ ~Live(k) => rows'[k] = rows[k]
       /\ \A j \in Row : j # k => rows'[j] = rows[j]
       /\ rows' \in [Row -> Record]
  BY <1>0, <1>6, <1>9 DEF TypeOK, Written
<1>12. \A j \in Row : rows'[j].st = rows[j].st /\ rows'[j].scope = rows[j].scope
  BY <1>6, <1>11
<1>13. /\ task'[w].pc = pc /\ task'[w].row = k /\ task'[w].body = body
       /\ task'[w].entitled = task[w].entitled /\ task'[w].behind = task[w].behind
       /\ task'[w].late = task[w].late
       /\ task' \in [Worker -> Task] /\ \A v \in Worker \ {w} : task'[v] = task[v]
  <2>1. [task[w] EXCEPT !.pc = pc] \in Task
    BY <1>2, <1>8 DEF Task
  <2>2. task' = [task EXCEPT ![w] = [task[w] EXCEPT !.pc = pc]]
    BY <1>9
  <2> QED
    BY <1>0, <1>1, <1>2, <2>1, <2>2 DEF TypeOK, Task
<1>14. TypeOK'
  BY <1>0, <1>9, <1>10, <1>11, <1>13 DEF TypeOK
<1>15. ASSUME NEW v \in Worker PROVE Sound(v)'
  <2>1. CASE v = w
    <3>1. /\ Sound(w) /\ task[w].pc \in {"clear", "toggle"} /\ task[w].row \in Row
          /\ meant' = meant
      BY <1>0, <1>1, <1>2, <1>9
    <3>2. /\ task'[w].pc = "reread" \/ (task'[w].pc = "toggle" /\ task[w].pc = "clear"
                                          /\ task[w].body.active # Keep)
          /\ task'[w].row = task[w].row /\ task'[w].body = task[w].body
          /\ task'[w].entitled = task[w].entitled /\ task'[w].behind = task[w].behind
          /\ task'[w].late = task[w].late
      BY <1>1, <1>8, <1>13
    <3> QED
      BY <1>12, <2>1, <3>1, <3>2, GoesOn
  <2>2. CASE v # w
    <3>1. Sound(v) /\ task'[v] = task[v] /\ meant' = meant
      BY <1>0, <1>9, <1>13, <2>2
    <3>2. \A j \in Row : /\ rows[j].st # "free" => rows'[j].st # "free"
                         /\ Live(j)' => Live(j) /\ rows'[j].scope = rows[j].scope
      BY <1>12 DEF Live
    <3> QED
      BY <3>1, <3>2, Onlooker
  <2> QED
    BY <2>1, <2>2
<1>16. ASSUME NEW j \in Row PROVE RowWhole(j)' /\ DeletedOf(j)'
  <2>1. CASE j # k
    <3>1. /\ rows'[j] = rows[j] /\ split'[j] = split[j] /\ meant' = meant
          /\ \A v \in Worker : task[v].row = j => task'[v] = task[v]
      BY <1>1, <1>9, <1>10, <1>11, <1>13, <2>1
    <3>2. EndpointExplained(j) => EndpointExplained(j)'
      BY <3>1 DEF EndpointExplained
    <3>3. FlagExplained(j) => FlagExplained(j)'
      BY <3>1 DEF FlagExplained
    <3> QED
      BY <1>0, <1>9, <3>1, <3>2, <3>3 DEF RowWhole, DeletedOf, Live
  <2>2. CASE j = k
    <3>1. DeletedOf(j)'
      BY <1>0, <1>9, <1>12, <2>2 DEF DeletedOf
    <3>2. ASSUME Live(k)
          PROVE  /\ rows'[k].key = meant'[k].key /\ rows'[k].scope = meant'[k].scope
      BY <1>0, <1>6, <1>9, <1>11, <3>2 DEF RowWhole
    <3>3. ASSUME Live(k) PROVE EndpointExplained(j)'
      <4>1. "endpoint" \notin task[w].late => meant[k].endpoint = value
        BY <1>0, <1>1, <1>2, <1>3, <3>3 DEF Sound, Formed, OwesEndpoint
      <4>2. rows'[j].endpoint = value /\ meant' = meant
        BY <1>6, <1>9, <1>11, <2>2, <3>3
      <4> QED
        BY <1>10, <2>2, <4>1, <4>2 DEF EndpointExplained
    <3>4. ASSUME Live(k) PROVE FlagExplained(j)'
      <4>1. FlagExplained(k)
        BY <1>0, <3>4 DEF RowWhole
      <4>2. /\ rows'[j].active = rows[k].active /\ meant' = meant
            /\ "active" \in split[k] => "active" \in split'[j]
        BY <1>6, <1>9, <1>10, <1>11, <2>2, <3>4
      <4>3. CASE rows[k].active = meant[k].active \/ "active" \in split[k]
        BY <2>2, <4>2, <4>3 DEF FlagExplained
      <4>4. ASSUME NEW v \in Worker, task[v].row = k,
                   task[v].pc \in {"clear", "toggle"}, task[v].body.active # Keep
            PROVE  FlagExplained(j)'
        <5>1. CASE v # w
          BY <1>13, <2>2, <4>4, <5>1 DEF FlagExplained
        <5>2. CASE v = w
          BY <1>2, <1>7, <1>13, <2>2, <4>4, <5>2 DEF FlagExplained, AfterClear
        <5> QED
          BY <5>1, <5>2
      <4> QED
        BY <4>1, <4>3, <4>4 DEF FlagExplained
    <3> QED
      BY <1>12, <2>2, <3>1, <3>2, <3>3, <3>4 DEF RowWhole, Live
  <2> QED
    BY <2>1, <2>2
<1> QED
  BY <1>14, <1>15, <1>16 DEF IInv

\* And so does the one that writes the flag.
LEMMA ToggleStep ==
    ASSUME IInv, NEW w \in Worker, Toggle(w)
    PROVE  IInv'
<1> DEFINE body == task[w].body
<1>0. TypeOK /\ (\A v \in Worker : Sound(v)) /\ \A j \in Row : RowWhole(j) /\ DeletedOf(j)
  BY DEF IInv
<1>1. PICK k \in Row : k = task[w].row
  BY <1>0 DEF Toggle, Sound, Formed
<1>2. /\ task[w].pc = "toggle" /\ body \in Body /\ body.active \in BOOLEAN \cup {Keep}
      /\ task[w] \in Task /\ rows[k] \in Record
  BY <1>0, <1>1, BodyTyped DEF Toggle, Sound, Formed, Updating, TypeOK
<1>3. PICK value : value = task[w].body.active
  OBVIOUS
<1>4. value \in BOOLEAN
  BY <1>0, <1>2, <1>3 DEF Sound, Formed
<1>5. PICK row : row = [rows[k] EXCEPT !.active = value]
  OBVIOUS
<1>6. /\ row \in Record /\ row.st = rows[k].st /\ row.key = rows[k].key
      /\ row.scope = rows[k].scope /\ row.endpoint = rows[k].endpoint /\ row.active = value
  BY <1>2, <1>4, <1>5 DEF Record
<1>7. PICK pc : pc = "reread"
  OBVIOUS
<1>8. pc = "reread" \/ (pc = "toggle" /\ task[w].pc = "clear" /\ body.active # Keep)
  BY <1>2, <1>7 DEF AfterClear
<1>9. /\ rows' = Written(k, row)
      /\ split' = IF "active" \in task[w].late THEN [split EXCEPT ![k] = @ \cup {"active"}]
                  ELSE [split EXCEPT ![k] = @ \ {"active"}]
      /\ task' = [task EXCEPT ![w].pc = pc]
      /\ UNCHANGED <<meant, deletes, requests>>
  BY <1>1, <1>3, <1>5, <1>7 DEF Toggle, Settled
<1>10. /\ "active" \in split'[k] \/ "active" \notin task[w].late
       /\ \A j \in Row : j # k => split'[j] = split[j]
       /\ "endpoint" \in split[k] => "endpoint" \in split'[k]
       /\ split' \in [Row -> SUBSET Column]
  BY <1>0, <1>9 DEF TypeOK, Column
<1>11. /\ Live(k) => rows'[k] = row
       /\ ~Live(k) => rows'[k] = rows[k]
       /\ \A j \in Row : j # k => rows'[j] = rows[j]
       /\ rows' \in [Row -> Record]
  BY <1>0, <1>6, <1>9 DEF TypeOK, Written
<1>12. \A j \in Row : rows'[j].st = rows[j].st /\ rows'[j].scope = rows[j].scope
  BY <1>6, <1>11
<1>13. /\ task'[w].pc = pc /\ task'[w].row = k /\ task'[w].body = body
       /\ task'[w].entitled = task[w].entitled /\ task'[w].behind = task[w].behind
       /\ task'[w].late = task[w].late
       /\ task' \in [Worker -> Task] /\ \A v \in Worker \ {w} : task'[v] = task[v]
  <2>1. [task[w] EXCEPT !.pc = pc] \in Task
    BY <1>2, <1>8 DEF Task
  <2>2. task' = [task EXCEPT ![w] = [task[w] EXCEPT !.pc = pc]]
    BY <1>9
  <2> QED
    BY <1>0, <1>1, <1>2, <2>1, <2>2 DEF TypeOK, Task
<1>14. TypeOK'
  BY <1>0, <1>9, <1>10, <1>11, <1>13 DEF TypeOK
<1>15. ASSUME NEW v \in Worker PROVE Sound(v)'
  <2>1. CASE v = w
    <3>1. /\ Sound(w) /\ task[w].pc \in {"clear", "toggle"} /\ task[w].row \in Row
          /\ meant' = meant
      BY <1>0, <1>1, <1>2, <1>9
    <3>2. /\ task'[w].pc = "reread" \/ (task'[w].pc = "toggle" /\ task[w].pc = "clear"
                                          /\ task[w].body.active # Keep)
          /\ task'[w].row = task[w].row /\ task'[w].body = task[w].body
          /\ task'[w].entitled = task[w].entitled /\ task'[w].behind = task[w].behind
          /\ task'[w].late = task[w].late
      BY <1>1, <1>8, <1>13
    <3> QED
      BY <1>12, <2>1, <3>1, <3>2, GoesOn
  <2>2. CASE v # w
    <3>1. Sound(v) /\ task'[v] = task[v] /\ meant' = meant
      BY <1>0, <1>9, <1>13, <2>2
    <3>2. \A j \in Row : /\ rows[j].st # "free" => rows'[j].st # "free"
                         /\ Live(j)' => Live(j) /\ rows'[j].scope = rows[j].scope
      BY <1>12 DEF Live
    <3> QED
      BY <3>1, <3>2, Onlooker
  <2> QED
    BY <2>1, <2>2
<1>16. ASSUME NEW j \in Row PROVE RowWhole(j)' /\ DeletedOf(j)'
  <2>1. CASE j # k
    <3>1. /\ rows'[j] = rows[j] /\ split'[j] = split[j] /\ meant' = meant
          /\ \A v \in Worker : task[v].row = j => task'[v] = task[v]
      BY <1>1, <1>9, <1>10, <1>11, <1>13, <2>1
    <3>2. EndpointExplained(j) => EndpointExplained(j)'
      BY <3>1 DEF EndpointExplained
    <3>3. FlagExplained(j) => FlagExplained(j)'
      BY <3>1 DEF FlagExplained
    <3> QED
      BY <1>0, <1>9, <3>1, <3>2, <3>3 DEF RowWhole, DeletedOf, Live
  <2>2. CASE j = k
    <3>1. DeletedOf(j)'
      BY <1>0, <1>9, <1>12, <2>2 DEF DeletedOf
    <3>2. ASSUME Live(k)
          PROVE  /\ rows'[k].key = meant'[k].key /\ rows'[k].scope = meant'[k].scope
      BY <1>0, <1>6, <1>9, <1>11, <3>2 DEF RowWhole
    <3>3. ASSUME Live(k) PROVE FlagExplained(j)'
      <4>1. "active" \notin task[w].late => meant[k].active = value
        BY <1>0, <1>1, <1>2, <1>3, <3>3 DEF Sound, Formed, OwesFlag
      <4>2. rows'[j].active = value /\ meant' = meant
        BY <1>6, <1>9, <1>11, <2>2, <3>3
      <4> QED
        BY <1>10, <2>2, <4>1, <4>2 DEF FlagExplained
    <3>4. ASSUME Live(k) PROVE EndpointExplained(j)'
      <4>1. EndpointExplained(k)
        BY <1>0, <3>4 DEF RowWhole
      <4>2. /\ rows'[j].endpoint = rows[k].endpoint /\ meant' = meant
            /\ "endpoint" \in split[k] => "endpoint" \in split'[j]
        BY <1>6, <1>9, <1>10, <1>11, <2>2, <3>4
      <4>3. CASE rows[k].endpoint = meant[k].endpoint \/ "endpoint" \in split[k]
        BY <2>2, <4>2, <4>3 DEF EndpointExplained
      <4>4. ASSUME NEW v \in Worker, task[v].row = k,
                   task[v].pc = "clear"
            PROVE  EndpointExplained(j)'
        <5>1. CASE v # w
          BY <1>13, <2>2, <4>4, <5>1 DEF EndpointExplained
        <5>2. CASE v = w
          BY <1>2, <1>7, <1>13, <2>2, <4>4, <5>2 DEF EndpointExplained
        <5> QED
          BY <5>1, <5>2
      <4> QED
        BY <4>1, <4>3, <4>4 DEF EndpointExplained
    <3> QED
      BY <1>12, <2>2, <3>1, <3>2, <3>3, <3>4 DEF RowWhole, Live
  <2> QED
    BY <2>1, <2>2
<1> QED
  BY <1>14, <1>15, <1>16 DEF IInv

\* A failing statement leaves to the history what it would have written.
LEMMA FailStep ==
    ASSUME IInv, NEW w \in Worker, Fail(w)
    PROVE  IInv'
<1>0. TypeOK /\ (\A v \in Worker : Sound(v)) /\ \A j \in Row : RowWhole(j) /\ DeletedOf(j)
  BY DEF IInv
<1>1. PICK k \in Row : k = task[w].row
  BY <1>0 DEF Fail, Sound, Formed
<1>2. k # NoRow
  BY ConstantsAssumption
<1>3. PICK lost \in SUBSET Column : lost = Unwritten(task[w])
  BY DEF Unwritten, Column
<1>4. /\ split' = [split EXCEPT ![k] = @ \cup lost]
      /\ task' = [task EXCEPT ![w] = Idle]
      /\ UNCHANGED <<rows, meant, deletes, requests>>
  BY <1>1, <1>2, <1>3 DEF Fail
<1>5. /\ task[w].pc = "clear" => "endpoint" \in lost
      /\ task[w].pc \in {"clear", "toggle"} /\ task[w].body.active # Keep => "active" \in lost
  BY <1>3 DEF Unwritten
<1>6. Idle \in Task
  BY DEF Idle, Task
<1>7. /\ task' \in [Worker -> Task] /\ task'[w] = Idle
      /\ \A v \in Worker \ {w} : task'[v] = task[v]
  BY <1>0, <1>4, <1>6 DEF TypeOK
<1>8. /\ split' \in [Row -> SUBSET Column] /\ split'[k] = split[k] \cup lost
      /\ \A j \in Row : split[j] \subseteq split'[j]
  BY <1>0, <1>3, <1>4 DEF TypeOK
<1>9. TypeOK'
  BY <1>0, <1>4, <1>7, <1>8 DEF TypeOK
<1>10. ASSUME NEW v \in Worker PROVE Sound(v)'
  BY <1>0, <1>4, <1>7, Bystander, IdleSound
<1>11. ASSUME NEW j \in Row PROVE RowWhole(j)' /\ DeletedOf(j)'
  <2>1. EndpointExplained(j) => EndpointExplained(j)'
    <3>1. ASSUME NEW v \in Worker, task[v].row = j, task[v].pc = "clear"
          PROVE  EndpointExplained(j)'
      <4>1. CASE v = w
        BY <1>1, <1>5, <1>8, <3>1, <4>1 DEF EndpointExplained
      <4>2. CASE v # w
        BY <1>7, <3>1, <4>2 DEF EndpointExplained
      <4> QED
        BY <4>1, <4>2
    <3> QED
      BY <1>4, <1>8, <3>1 DEF EndpointExplained
  <2>2. FlagExplained(j) => FlagExplained(j)'
    <3>1. ASSUME NEW v \in Worker, task[v].row = j, task[v].pc \in {"clear", "toggle"},
                 task[v].body.active # Keep
          PROVE  FlagExplained(j)'
      <4>1. CASE v = w
        BY <1>1, <1>5, <1>8, <3>1, <4>1 DEF FlagExplained
      <4>2. CASE v # w
        BY <1>7, <3>1, <4>2 DEF FlagExplained
      <4> QED
        BY <4>1, <4>2
    <3> QED
      BY <1>4, <1>8, <3>1 DEF FlagExplained
  <2> QED
    BY <1>0, <1>4, <2>1, <2>2 DEF RowWhole, DeletedOf, Live
<1> QED
  BY <1>9, <1>10, <1>11 DEF IInv

\* A delete answers 204 exactly if it is the one that takes the row away.
LEMMA RemoveStep ==
    ASSUME IInv, NEW w \in Worker, Remove(w)
    PROVE  IInv'
<1>0. TypeOK /\ (\A v \in Worker : Sound(v)) /\ \A j \in Row : RowWhole(j) /\ DeletedOf(j)
  BY DEF IInv
<1>1. PICK k \in Row : k = task[w].row
  BY <1>0 DEF Remove, Sound, Formed
<1>2. PICK row : row = [rows[k] EXCEPT !.st = "deleted"]
  OBVIOUS
<1>3. row \in Record /\ row.st = "deleted" /\ row.scope = rows[k].scope
  BY <1>0, <1>2 DEF TypeOK, Record
<1>4. /\ rows' = Written(k, row)
      /\ deletes' = IF Live(k) THEN [deletes EXCEPT ![k] = @ + 1] ELSE deletes
      /\ task' = [task EXCEPT ![w] = Idle] /\ task[w].pc = "remove"
      /\ UNCHANGED <<meant, split, requests>>
  BY <1>1, <1>2 DEF Remove, Deleted
<1>5. Idle \in Task
  BY DEF Idle, Task
<1>6. /\ task' \in [Worker -> Task] /\ task'[w] = Idle
      /\ \A v \in Worker \ {w} : task'[v] = task[v]
  BY <1>0, <1>4, <1>5 DEF TypeOK
<1>7. /\ Live(k) => rows'[k] = row /\ deletes'[k] = deletes[k] + 1
      /\ ~Live(k) => rows'[k] = rows[k] /\ deletes'[k] = deletes[k]
      /\ \A j \in Row : j # k => rows'[j] = rows[j] /\ deletes'[j] = deletes[j]
      /\ rows' \in [Row -> Record] /\ deletes' \in [Row -> Nat]
  BY <1>0, <1>3, <1>4 DEF TypeOK, Written
<1>8. TypeOK'
  BY <1>0, <1>4, <1>6, <1>7 DEF TypeOK
<1>9. \A j \in Row : /\ rows[j].st # "free" => rows'[j].st # "free"
                     /\ Live(j)' => Live(j) /\ rows'[j].scope = rows[j].scope
  BY <1>3, <1>7 DEF Live
<1>10. ASSUME NEW v \in Worker PROVE Sound(v)'
  BY <1>0, <1>4, <1>6, <1>9, Onlooker, IdleSound
<1>11. ASSUME NEW j \in Row PROVE RowWhole(j)' /\ DeletedOf(j)'
  <2>1. DeletedOf(j)'
    BY <1>0, <1>3, <1>7 DEF DeletedOf, Live, TypeOK
  <2>2. ASSUME Live(j)' PROVE RowWhole(j)'
    <3>1. rows'[j] = rows[j] /\ Live(j)
      BY <1>3, <1>7, <2>2 DEF Live
    <3>2. EndpointExplained(j) => EndpointExplained(j)'
      BY <1>4, <1>6, <3>1 DEF EndpointExplained
    <3>3. FlagExplained(j) => FlagExplained(j)'
      BY <1>4, <1>6, <3>1 DEF FlagExplained
    <3> QED
      BY <1>0, <1>4, <3>1, <3>2, <3>3 DEF RowWhole
  <2> QED
    BY <2>1, <2>2 DEF RowWhole
<1> QED
  BY <1>8, <1>10, <1>11 DEF IInv

LEMMA ArriveStep ==
    ASSUME IInv, NEW w \in Worker, NEW k \in Row, NEW entitled \in BOOLEAN,
           ArriveDelete(w, k, entitled) \/ \E body \in Body : ArriveUpdate(w, k, body, entitled)
    PROVE  IInv'
<1>1. ASSUME NEW body \in Body, ArriveUpdate(w, k, body, entitled) PROVE IInv'
  <2> DEFINE t == [Idle EXCEPT !.pc = "lookup", !.row = k, !.body = body,
                               !.entitled = entitled]
  <2>1. /\ t \in Task /\ t.row = k /\ t.pc = "lookup" /\ t.entitled = entitled
        /\ t.body = body
    BY DEF Idle, Task
  <2>2. Authorize(w, k, body.scope, entitled, t)
    BY <1>1 DEF ArriveUpdate
  <2> HIDE DEF t
  <2> QED
    BY <2>1, <2>2, AuthorizeStep
<1>2. ASSUME ArriveDelete(w, k, entitled) PROVE IInv'
  <2> DEFINE t == [Idle EXCEPT !.pc = "find", !.row = k, !.entitled = entitled]
  <2>1. /\ t \in Task /\ t.row = k /\ t.pc = "find" /\ t.entitled = entitled
        /\ t.body = NoBody
    BY DEF Idle, Task
  <2>2. Authorize(w, k, Keep, entitled, t)
    BY <1>2 DEF ArriveDelete
  <2> HIDE DEF t
  <2> QED
    BY <2>1, <2>2, NoBodyAssumption, AuthorizeStep
<1> QED
  BY <1>1, <1>2

LEMMA StutterStep ==
    ASSUME IInv, UNCHANGED vars
    PROVE  IInv'
<1>1. TypeOK'
  BY DEF IInv, TypeOK, vars
<1>2. ASSUME NEW w \in Worker PROVE Sound(w)'
  BY Bystander DEF IInv, vars
<1>3. ASSUME NEW k \in Row PROVE RowWhole(k)' /\ DeletedOf(k)'
  <2>1. EndpointExplained(k) => EndpointExplained(k)'
    BY DEF EndpointExplained, vars
  <2>2. FlagExplained(k) => FlagExplained(k)'
    BY DEF FlagExplained, vars
  <2> QED
    BY <2>1, <2>2 DEF IInv, RowWhole, DeletedOf, Live, vars
<1> QED
  BY <1>1, <1>2, <1>3 DEF IInv

-------------------------------------------------------------------------------

\* The inductive invariant of the keys and the requests on them, statement by statement
\* (apiKeyService, apiKeyRepository and authorizeScopeWrite).
THEOREM KeyInvariant == Spec => []IInv
<1>1. Init => IInv
  BY InitSound
<1>2. IInv /\ [Next]_vars => IInv'
  BY CreateStep, ArriveStep, WaitStep, FirstStep, ClearStep, ToggleStep, FailStep, RemoveStep,
     StutterStep DEF Next
<1> QED
  BY <1>1, <1>2, PTL DEF Spec

\* Every variable keeps its type.
THEOREM TypeCorrect == Spec => []TypeOK
<1>1. IInv => TypeOK
  BY DEF IInv
<1> QED
  BY <1>1, KeyInvariant, PTL

\* However many updates of a row overlap or fail, a column that is not what the updates
\* were meant to leave is one that an update still owes, or one that was lost as split says.
THEOREM TornSavesKnown == Spec => []SavesAreWhole
<1>1. IInv => SavesAreWhole
  BY WholeRows DEF IInv
<1> QED
  BY <1>1, KeyInvariant, PTL

\* Of any number of overlapping deletes of a row exactly one says that it deleted it.
THEOREM OneDeleteAnswers == Spec => []DeletedOnce
<1>1. IInv => DeletedOnce
  BY DEF IInv, DeletedOf, DeletedOnce
<1> QED
  BY <1>1, KeyInvariant, PTL

\* An installation default changes only under the privilege, unless the row was promoted
\* after the request was let through.
THEOREM DefaultsGuarded == Spec => InstallationGuarded
<1>1. ASSUME IInv, [Next]_vars, NEW w \in Worker, NEW k \in Row,
             rows'[k] # rows[k], Live(k),
             "installation" \in {rows[k].scope, rows'[k].scope}, task'[w].pc # task[w].pc
      PROVE  task[w].entitled \/ task[w].behind
  <2>0. TypeOK /\ Sound(w) /\ rows[k] \in Record
    BY <1>1 DEF IInv, TypeOK
  <2>1. rows' # rows
    BY <1>1
  <2>2. First(w) \/ Clear(w) \/ Toggle(w) \/ Remove(w)
    <3>1. ASSUME NEW j \in Row, NEW key \in Key, NEW e \in Endpoint \cup {Default},
                 NEW scope \in Scope, NEW b \in BOOLEAN, Create(j, key, e, scope, b)
          PROVE  FALSE
      BY <1>1, <2>0, <3>1 DEF Create, Live
    <3>2. ASSUME NEW v \in Worker, NEW j \in Row, NEW b \in BOOLEAN,
                 ArriveDelete(v, j, b) \/ \E body \in Body : ArriveUpdate(v, j, body, b)
          PROVE  FALSE
      BY <2>1, <3>2 DEF ArriveDelete, ArriveUpdate, Authorize
    <3>3. ASSUME NEW v \in Worker, Lookup(v) \/ Reread(v) \/ Find(v) \/ Fail(v) PROVE FALSE
      BY <2>1, <3>3 DEF Lookup, Reread, Find, Fail
    <3>4. ASSUME NEW v \in Worker, v # w, First(v) PROVE FALSE
      <4>1. Formed(v)
        BY <1>1 DEF IInv, Sound
      <4>2. task'[w].pc = task[w].pc
        BY <2>0, <3>4, <4>1, FirstEffects
      <4> QED
        BY <1>1, <4>2
    <3>5. ASSUME NEW v \in Worker, v # w, Clear(v) \/ Toggle(v) \/ Remove(v) PROVE FALSE
      BY <1>1, <2>0, <3>5 DEF Clear, Toggle, Remove, TypeOK
    <3>6. ~UNCHANGED vars
      BY <2>1 DEF vars
    <3> QED
      BY <1>1, <3>1, <3>2, <3>3, <3>4, <3>5, <3>6 DEF Next
  <2>3. task[w].pc # "idle" /\ task[w].row \in Row
    BY <2>0, <2>2 DEF First, Clear, Toggle, Remove, Sound, Formed
  <2>4. k = task[w].row
    BY <1>1, <2>0, <2>2, <2>3 DEF First, Clear, Toggle, Remove, Written, TypeOK
  <2>5. SUFFICES ASSUME ~task[w].entitled, ~task[w].behind PROVE FALSE
    OBVIOUS
  <2>6. /\ rows[k].scope = "account"
        /\ task[w].body \in Body => task[w].body.scope # "installation"
    BY <1>1, <2>0, <2>3, <2>4, <2>5 DEF Sound, Authorized
  <2>7. rows'[k].scope = "account"
    <3>1. CASE First(w)
      <4>1. PICK body \in Body : body = task[w].body
        BY <2>0, <3>1 DEF First, Sound, Formed, Updating
      <4>2. rows'[k] = Struct(rows[k], body)
        BY <1>1, <2>0, <2>4, <3>1, <4>1 DEF First, Written, TypeOK
      <4>3. Struct(rows[k], body).scope = Given(body.scope, rows[k].scope)
        BY <2>0, StructWhole
      <4>4. body.scope \in {"account", Keep}
        BY <2>6, <4>1, BodyTyped DEF Scope
      <4> QED
        BY <2>6, <4>2, <4>3, <4>4 DEF Given
    <3>2. CASE Clear(w) \/ Toggle(w) \/ Remove(w)
      BY <1>1, <2>0, <2>4, <2>6, <3>2 DEF Clear, Toggle, Remove, Written, TypeOK, Record
    <3> QED
      BY <2>2, <3>1, <3>2
  <2> QED
    BY <1>1, <2>6, <2>7
<1>2. IInv /\ [Next]_vars
      => [\A w \in Worker, k \in Row :
             /\ rows'[k] # rows[k] /\ Live(k)
             /\ "installation" \in {rows[k].scope, rows'[k].scope}
             /\ task'[w].pc # task[w].pc
             => task[w].entitled \/ task[w].behind]_vars
  BY <1>1
<1> QED
  BY <1>2, KeyInvariant, PTL DEF Spec, InstallationGuarded
===============================================================================

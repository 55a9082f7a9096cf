------------------------ MODULE CredentialVault_proofs ------------------------
(***************************************************************************)
(* What CredentialVault promises for every number of workers, credentials, *)
(* connections and consumers, and for every bound.  The inductive          *)
(* invariant IInv is stated in CredentialVault, where TLC evaluates it.    *)
(***************************************************************************)
EXTENDS CredentialVault, TLAPS

\* What the proofs use of the constants, without the rest of the assumption.
LEMMA ConstantFacts ==
    /\ Listed \subseteq Integration /\ NoOwner \notin Integration
    /\ CanonName \in [Integration -> Name]
    /\ NoCred \notin Cred /\ NoRequest \notin Request
    /\ Requests \subseteq Request
    /\ StoreOf \in [Consumer -> 0 .. LastStore]
    /\ \A r \in Requests : r.op = "attach" => StoreOf[r.consumer] = ValidatedStore
  BY ConstantsAssumption

LEMMA RequestsListed == /\ Listed \subseteq Integration
                        /\ Requests \subseteq Request
                        /\ CanonName \in [Integration -> Name]
  BY ConstantFacts

------------------------------------------------------------------------------
\* Steps of one worker: the tasks keep their type and go on serving.

LEMMA IdleServes == Idle \in Task /\ Serves(Idle)
  BY DEF Idle, Task, PC, LastStore, Serves

LEMMA TaskBecomes ==
    ASSUME TypeOK, Serving, NEW w \in Worker, NEW t \in Task, Serves(t), Become(w, t)
    PROVE  /\ task' \in [Worker -> Task] /\ Serving'
           /\ task'[w] = t /\ \A v \in Worker \ {w} : task'[v] = task[v]
  BY DEF TypeOK, Become, Serving

LEMMA Responds ==
    ASSUME TypeOK, Serving, NEW w \in Worker, Respond(w)
    PROVE  /\ task' \in [Worker -> Task] /\ Serving'
           /\ task'[w] = Idle /\ \A v \in Worker \ {w} : task'[v] = task[v]
  BY TaskBecomes, IdleServes DEF Respond

LEMMA Goes ==
    ASSUME TypeOK, Serving, NEW w \in Worker, NEW l \in PC, Goto(w, l),
           Serves([task[w] EXCEPT !.pc = l])
    PROVE  /\ task' \in [Worker -> Task] /\ Serving'
           /\ task'[w] = [task[w] EXCEPT !.pc = l]
           /\ \A v \in Worker \ {w} : task'[v] = task[v]
  <1>1. [task[w] EXCEPT !.pc = l] \in Task
    BY DEF TypeOK, Task
  <1> QED  BY <1>1, TaskBecomes DEF Goto

LEMMA Syncs ==
    ASSUME TypeOK, Serving, NEW w \in Worker,
           NEW up \in SUBSET Listed, NEW down \in SUBSET Integration,
           task[w].pc \in SyncPC, SyncWith(w, up, down)
    PROVE  /\ task' \in [Worker -> Task] /\ Serving'
           /\ task'[w].pc \in {"idle", "syncWrite"}
           /\ \A v \in Worker \ {w} : task'[v] = task[v]
  <1> DEFINE t == [task[w] EXCEPT !.pc = "syncWrite", !.up = up, !.down = down]
  <1>1. t \in Task /\ t.pc = "syncWrite"
    <2>1. task[w] \in Task
      BY DEF TypeOK
    <2>2. up \in SUBSET Integration /\ "syncWrite" \in PC
      BY RequestsListed DEF PC, SyncPC
    <2> QED  BY <2>1, <2>2 DEF Task
  <1>2. Serves(t)
    BY DEF TypeOK, Serving, Serves, Task, SyncPC
  <1>3. CASE up \cup down = {}
    BY <1>3, Responds DEF SyncWith, Idle
  <1>4. CASE up \cup down # {}
    BY <1>1, <1>2, <1>4, TaskBecomes DEF SyncWith
  <1> QED  BY <1>3, <1>4

LEMMA Passes ==
    ASSUME TypeOK, Serving, NEW w \in Worker, NEW missed \in SUBSET (1 .. LastStore),
           At(w, "refGuard"), PassStore(w, missed)
    PROVE  /\ task' \in [Worker -> Task] /\ Serving'
           /\ task'[w].pc \in {"refGuard", "deleteRow"}
           /\ task'[w].req = task[w].req /\ task'[w].late = task[w].late
           /\ task'[w].skipped = task[w].skipped \cup missed
           /\ task'[w].pos = task[w].pos + 1
           /\ task'[w].relinked = task[w].relinked /\ task'[w].promoted = task[w].promoted
           /\ \A v \in Worker \ {w} : task'[v] = task[v]
  <1> DEFINE l == IF task[w].pos = LastStore THEN "deleteRow" ELSE task[w].pc
             t == [task[w] EXCEPT !.pos = @ + 1, !.skipped = @ \cup missed,
                                  !.pc = IF task[w].pos = LastStore THEN "deleteRow" ELSE @]
  <1>1. task[w].pos \in 1 .. LastStore /\ task[w].pos + 1 \in 1 .. LastStore + 1
    BY DEF Serving, Serves, At, LastStore
  <1>2. task[w].skipped \cup missed \in SUBSET (1 .. LastStore)
    BY DEF TypeOK, Task
  <1>3. l \in PC /\ l \in {"refGuard", "deleteRow"}
    BY DEF At, PC, AuthorizedPC, DeletePC
  <1>4. /\ t \in Task /\ t.pc = l /\ t.req = task[w].req /\ t.late = task[w].late
        /\ t.skipped = task[w].skipped \cup missed /\ t.pos = task[w].pos + 1
        /\ t.relinked = task[w].relinked /\ t.promoted = task[w].promoted
    <2>1. task[w] \in Task /\ t = [task[w] EXCEPT !.pos = @ + 1, !.skipped = @ \cup missed, !.pc = l]
      BY DEF TypeOK
    <2> HIDE DEF t, l
    <2> QED  BY <1>1, <1>2, <1>3, <2>1 DEF Task
  <1>5. Serves(t)
    BY <1>1 DEF TypeOK, Task, Serving, Serves, LastStore, At
  <1>6. Become(w, t)
    BY DEF PassStore
  <1> QED  BY <1>3, <1>4, <1>5, <1>6, TaskBecomes

\* t is the task of v but for what other workers did to its history.
Same(v, t) == /\ t.pc = task[v].pc /\ t.req = task[v].req
              /\ t.pos = task[v].pos /\ t.skipped = task[v].skipped
              /\ task[v].late \subseteq t.late
              /\ (task[v].relinked => t.relinked) /\ (task[v].promoted => t.promoted)

LEMMA Annotations ==
    ASSUME TypeOK, Serving, NEW v \in Worker
    PROVE  /\ \A k \in Consumer :
                 LET t == [task[v] EXCEPT !.late = @ \cup {k}]
                 IN  t \in Task /\ Serves(t) /\ Same(v, t) /\ k \in t.late
           /\ LET t == [task[v] EXCEPT !.relinked = TRUE]
              IN  t \in Task /\ Serves(t) /\ Same(v, t) /\ t.relinked
           /\ \A b \in BOOLEAN :
                 LET t == [task[v] EXCEPT !.promoted = @ \/ b]
                 IN  t \in Task /\ Serves(t) /\ Same(v, t) /\ (b => t.promoted)
           /\ Same(v, task[v])
  <1>1. task[v] \in Task /\ Serves(task[v])
    BY DEF TypeOK, Serving
  <1>2. ASSUME NEW k \in Consumer
        PROVE  LET t == [task[v] EXCEPT !.late = @ \cup {k}]
               IN  t \in Task /\ Serves(t) /\ Same(v, t) /\ k \in t.late
    BY <1>1, <1>2 DEF Serves, Same, Task
  <1>3. LET t == [task[v] EXCEPT !.relinked = TRUE]
        IN  t \in Task /\ Serves(t) /\ Same(v, t) /\ t.relinked
    BY <1>1 DEF Serves, Same, Task
  <1>4. ASSUME NEW b \in BOOLEAN
        PROVE  LET t == [task[v] EXCEPT !.promoted = @ \/ b]
               IN  t \in Task /\ Serves(t) /\ Same(v, t) /\ (b => t.promoted)
    BY <1>1, <1>4 DEF Serves, Same, Task
  <1>5. Same(v, task[v])
    BY DEF Same
  <1> QED  BY <1>2, <1>3, <1>4, <1>5

------------------------------------------------------------------------------
\* Frame: which parts of the invariant a step cannot disturb.

\* An idle worker has nothing to account for.
LEMMA IdleAccounted == Accounted(Idle)' /\ Accounted(Idle)
  BY DEF Accounted, TargetKnown, AttachesStatic, PassedStoresClear, OwnerNotLive,
         ScopeAuthorized, Idle, AuthorizedPC, DeletePC

\* A statement that writes no table and moves one worker.
LEMMA OnlyMoves ==
    ASSUME IInv, NEW w \in Worker, UNCHANGED stores,
           task' \in [Worker -> Task], Serving', moves' \in Nat, faults' \in Nat,
           \A v \in Worker \ {w} : task'[v] = task[v],
           Accounted(task'[w])
    PROVE  IInv'
  <1>1. TypeOK' /\ OwnedByKind' /\ OneRowPerOwner' /\ ValidatedReferences'
    BY DEF IInv, TypeOK, stores, OwnedByKind, OneRowPerOwner, ValidatedReferences, Stored
  <1>2. \A v \in Worker : Accounted(task'[v])
    BY DEF IInv
  <1>3. \A v \in Worker : Accounted(task[v])'
    BY <1>2 DEF Accounted, TargetKnown, AttachesStatic, PassedStoresClear, OwnerNotLive,
                ScopeAuthorized, LiveListed, stores
  <1> QED  BY <1>1, <1>3 DEF IInv

\* No id loses its kind or its owner, nor becomes unknown again.
IdsKept == \A c \in Cred : rows[c].st # "free" =>
    /\ rows'[c].st # "free"
    /\ rows'[c].kind = rows[c].kind /\ rows'[c].owner = rows[c].owner

\* A write of the vault leaves the account of every other worker in order.
LEMMA AccountKept ==
    ASSUME IInv, IdsKept, UNCHANGED <<conn, refs>>,
           NEW v \in Worker, task' \in [Worker -> Task], Same(v, task'[v]),
           /\ task[v].pc \in AuthorizedPC /\ ~ task'[v].promoted
           /\ rows[task[v].req.cred].scope = "account"
           => rows'[task[v].req.cred].scope = "account"
    PROVE  Accounted(task[v])'
  <1>1. Accounted(task[v]) /\ task[v] \in Task /\ Serves(task[v])
    BY DEF IInv, TypeOK, Serving
  <1>2. task[v].pc # "idle" => task[v].req.cred \in Cred
    BY <1>1, ConstantFacts DEF Serves, Same, Request
  <1>3. task[v].pc \in {"authorize", "validate", "attach"} \cup AuthorizedPC
        => /\ rows[task[v].req.cred].st # "free" /\ rows'[task[v].req.cred].st # "free"
           /\ rows'[task[v].req.cred].kind = rows[task[v].req.cred].kind
           /\ rows'[task[v].req.cred].owner = rows[task[v].req.cred].owner
    BY <1>1, <1>2 DEF Accounted, TargetKnown, Same, IdsKept, AuthorizedPC, DeletePC
  <1>4. TargetKnown(task[v])' /\ AttachesStatic(task[v])'
    BY <1>1, <1>3 DEF Accounted, TargetKnown, AttachesStatic, Same
  <1>5. PassedStoresClear(task[v])'
    BY <1>1 DEF Accounted, PassedStoresClear, Same
  <1>6. OwnerNotLive(task[v])'
    BY <1>1, <1>3 DEF Accounted, OwnerNotLive, Same, LiveListed, AuthorizedPC, DeletePC
  <1>7. ScopeAuthorized(task[v])'
    BY <1>1 DEF Accounted, ScopeAuthorized, Same
  <1> QED  BY <1>4, <1>5, <1>6, <1>7 DEF Accounted

LEMMA ReferencesKept ==
    ASSUME IInv, IdsKept, UNCHANGED refs
    PROVE  ValidatedReferences'
  <1> SUFFICES ASSUME NEW k \in Consumer, StoreOf[k] = ValidatedStore, refs[k] # NoCred
               PROVE  rows'[refs[k]].kind = "static" /\ rows'[refs[k]].st # "free"
    BY DEF ValidatedReferences
  <1>1. refs[k] \in Cred
    BY DEF IInv, TypeOK
  <1>2. rows[refs[k]].kind = "static" /\ rows[refs[k]].st # "free"
    BY DEF IInv, ValidatedReferences
  <1> QED  BY <1>1, <1>2 DEF IdsKept
------------------------------------------------------------------------------
\* The statements that only read, and the ends of requests.

LEMMA IInvTypes ==
    ASSUME IInv
    PROVE  /\ TypeOK /\ Serving /\ moves \in Nat /\ faults \in Nat
           /\ \A w \in Worker : task[w] \in Task /\ Serves(task[w]) /\ Accounted(task[w])
  BY DEF IInv, TypeOK, Serving

LEMMA EndPreserves ==
    ASSUME IInv, NEW w \in Worker, Respond(w), UNCHANGED stores,
           moves' \in Nat, faults' \in Nat
    PROVE  IInv'
  <1>1. Accounted(task'[w])
    BY IInvTypes, Responds, IdleAccounted
  <1> QED  BY <1>1, IInvTypes, Responds, OnlyMoves

LEMMA StartPreserves ==
    ASSUME IInv, NEW w \in Worker, NEW r \in Requests, StartList(w, r) \/ StartWrite(w, r)
    PROVE  IInv'
  <1> DEFINE t == [task[w] EXCEPT !.pc = Entry[r.op], !.req = r]
  <1>1. r \in Request /\ r.cred \in Cred /\ task[w] \in Task /\ Serves(task[w])
    BY RequestsListed, IInvTypes DEF Request
  <1>2. /\ Entry[r.op] \in PC
        /\ Entry[r.op] \in {"syncConns", "insert", "authorize", "validate"}
        /\ Entry[r.op] = "insert" => r.op = "create"
        /\ Entry[r.op] = "validate" => r.op = "attach"
        /\ Entry[r.op] \in {"authorize", "validate"} => r.op \notin {"list", "create"}
    BY <1>1 DEF Entry, Request, PC, SyncPC, AuthorizedPC, DeletePC
  <1>3. t \in Task /\ t.pc = Entry[r.op] /\ t.req = r
    BY <1>1, <1>2 DEF Task
  <1>4. At(w, "idle") /\ Become(w, t) /\ UNCHANGED stores
        /\ (r.op = "create" => (r.scope = "installation" => r.priv))
        /\ (r.op \notin {"list", "create"} => rows[r.cred].st # "free")
    BY DEF StartList, StartWrite, stores
  <1>5. Serves(t)
    BY <1>1, <1>2, <1>4 DEF Serves, Task, At
  <1>6. Accounted(t)
    BY <1>2, <1>3, <1>4 DEF Accounted, TargetKnown, AttachesStatic, PassedStoresClear,
                           OwnerNotLive, ScopeAuthorized, AuthorizedPC, DeletePC
  <1>7. moves' \in Nat /\ faults' \in Nat
    BY IInvTypes DEF StartList, StartWrite, budget
  <1> QED  BY <1>3, <1>4, <1>5, <1>6, <1>7, IInvTypes, TaskBecomes, OnlyMoves

\* A reconciliation is accounted for by its type alone.
LEMMA SyncAccounted ==
    ASSUME NEW t, t.pc \in SyncPC \cup {"idle"}
    PROVE  Accounted(t)
  BY DEF Accounted, TargetKnown, AttachesStatic, PassedStoresClear, OwnerNotLive,
         ScopeAuthorized, SyncPC, AuthorizedPC, DeletePC

LEMMA SyncReadsPreserve ==
    ASSUME IInv, NEW w \in Worker, SyncReadConnections(w) \/ SyncReadRows(w)
    PROVE  IInv'
  <1>1. UNCHANGED stores /\ moves' \in Nat /\ faults' \in Nat
    BY IInvTypes DEF SyncReadConnections, SyncReadRows, budget
  <1>2. CASE SyncReadConnections(w)
    <2> DEFINE t == [task[w] EXCEPT !.pc = "syncRows", !.up = LiveListed]
    <2>1. LiveListed \subseteq Listed
      BY DEF LiveListed
    <2>2. t \in Task /\ t.pc = "syncRows"
      BY <2>1, IInvTypes, RequestsListed DEF Task, PC, SyncPC
    <2>3. Serves(t)
      BY <1>2, <2>1, IInvTypes DEF Serves, Task, At, SyncReadConnections
    <2>4. Accounted(t)
      BY <2>2, SyncAccounted DEF SyncPC
    <2> QED  BY <1>1, <1>2, <2>2, <2>3, <2>4, IInvTypes, TaskBecomes, OnlyMoves
             DEF SyncReadConnections
  <1>3. CASE SyncReadRows(w)
    <2>1. task[w].up \ ActiveOwners \in SUBSET Listed
      BY IInvTypes DEF Serves
    <2>2. ActiveOwners \ task[w].up \in SUBSET Integration
      BY DEF ActiveOwners
    <2>3. task[w].pc \in SyncPC
      BY <1>3 DEF SyncReadRows, At, SyncPC
    <2>4. /\ task' \in [Worker -> Task] /\ Serving'
          /\ task'[w].pc \in {"idle", "syncWrite"}
          /\ \A v \in Worker \ {w} : task'[v] = task[v]
      BY <1>3, <2>1, <2>2, <2>3, IInvTypes, Syncs DEF SyncReadRows
    <2>5. Accounted(task'[w])
      BY <2>4, SyncAccounted DEF SyncPC
    <2> QED  BY <1>1, <2>4, <2>5, OnlyMoves
  <1> QED  BY <1>2, <1>3
LEMMA AuthorizePreserves ==
    ASSUME IInv, NEW w \in Worker, Authorize(w)
    PROVE  IInv'
  <1> DEFINE r == task[w].req
             t == [task[w] EXCEPT !.pc = "load"]
  <1>1. UNCHANGED stores /\ moves' \in Nat /\ faults' \in Nat
    BY IInvTypes DEF Authorize, budget
  <1>2. CASE Respond(w)
    BY <1>1, <1>2, EndPreserves
  <1>3. CASE Goto(w, "load") /\ (TouchesInstallation(r) => r.priv)
    <2>1. /\ task[w].pc = "authorize" /\ task[w] \in Task /\ Serves(task[w])
          /\ r \in Request /\ r.cred \in Cred /\ rows[r.cred].st # "free"
      <3>1. task[w].pc = "authorize" /\ task[w] \in Task /\ Serves(task[w])
            /\ Accounted(task[w])
        BY IInvTypes DEF Authorize, At
      <3> QED  BY <3>1, RequestsListed DEF Serves, Accounted, TargetKnown, Request
    <2>2. Serves(t)
      BY <2>1 DEF Serves, Task
    <2>3. /\ task' \in [Worker -> Task] /\ Serving' /\ task'[w] = t
          /\ \A v \in Worker \ {w} : task'[v] = task[v]
      BY <1>3, <2>2, IInvTypes, Goes DEF PC, AuthorizedPC
    <2>4. t.pc = "load" /\ t.req = r
      BY <2>1 DEF Task
    <2>5. ~ r.priv => rows[r.cred].scope = "account"
                      /\ (r.op = "update" => r.scope # "installation")
      <3>1. rows[r.cred] \in Row
        BY <2>1 DEF IInv, TypeOK
      <3> QED  BY <1>3, <2>1, <3>1 DEF TouchesInstallation, Row, Scope
    <2>6. Accounted(t)
      BY <2>1, <2>4, <2>5 DEF Accounted, TargetKnown, AttachesStatic, PassedStoresClear,
                              OwnerNotLive, ScopeAuthorized
    <2> QED  BY <1>1, <2>3, <2>6, OnlyMoves
  <1> QED  BY <1>2, <1>3 DEF Authorize

\* Whoever is past the authorization keeps its account at the next statement.
LEMMA NextStatement ==
    ASSUME IInv, NEW w \in Worker, NEW l \in PC, Goto(w, l), UNCHANGED stores,
           moves' \in Nat, faults' \in Nat,
           Serves([task[w] EXCEPT !.pc = l]),
           Accounted([task[w] EXCEPT !.pc = l])
    PROVE  IInv'
  <1>1. /\ task' \in [Worker -> Task] /\ Serving'
        /\ task'[w] = [task[w] EXCEPT !.pc = l]
        /\ \A v \in Worker \ {w} : task'[v] = task[v]
    BY IInvTypes, Goes
  <1> QED  BY <1>1, OnlyMoves

LEMMA LoadPreserves ==
    ASSUME IInv, NEW w \in Worker, Load(w)
    PROVE  IInv'
  <1> DEFINE r == task[w].req
  <1>1. UNCHANGED stores /\ moves' \in Nat /\ faults' \in Nat
    BY IInvTypes DEF Load, budget
  <1>2. /\ task[w].pc = "load" /\ task[w] \in Task /\ Serves(task[w]) /\ Accounted(task[w])
        /\ task[w].pos = 1
    BY IInvTypes DEF Load, At, Serves
  <1>3. r \in Request /\ r.cred \in Cred /\ rows[r.cred] \in Row
    BY <1>2, RequestsListed DEF Serves, Request, IInv, TypeOK
  <1>4. CASE Respond(w)
    BY <1>1, <1>4, EndPreserves
  <1>5. CASE r.op = "update" /\ Goto(w, "write")
    <2>1. Serves([task[w] EXCEPT !.pc = "write"])
      BY <1>2, <1>5 DEF Serves, Task
    <2>2. Accounted([task[w] EXCEPT !.pc = "write"])
      BY <1>2 DEF Accounted, TargetKnown, AttachesStatic, PassedStoresClear, OwnerNotLive,
                  ScopeAuthorized, AuthorizedPC, DeletePC, Task
    <2> QED  BY <1>1, <1>5, <2>1, <2>2, NextStatement DEF PC, AuthorizedPC
  <1>6. CASE rows[r.cred].kind = "oauth" /\ Goto(w, "connGuard")
    <2>1. Serves([task[w] EXCEPT !.pc = "connGuard"])
      BY <1>2 DEF Serves, Task
    <2>2. Accounted([task[w] EXCEPT !.pc = "connGuard"])
      BY <1>2 DEF Accounted, TargetKnown, AttachesStatic, PassedStoresClear, OwnerNotLive,
                  ScopeAuthorized, AuthorizedPC, DeletePC, Task
    <2> QED  BY <1>1, <1>6, <2>1, <2>2, NextStatement DEF PC, AuthorizedPC, DeletePC
  <1>7. CASE rows[r.cred].kind # "oauth" /\ Goto(w, "refGuard")
    <2>1. Serves([task[w] EXCEPT !.pc = "refGuard"])
      BY <1>2 DEF Serves, Task, LastStore
    <2>2. rows[r.cred].owner \notin LiveListed
      BY <1>3, <1>7, ConstantFacts DEF Row, IInv, OwnedByKind, LiveListed
    <2>3. PassedStoresClear([task[w] EXCEPT !.pc = "refGuard"])
      BY <1>2, ConstantFacts DEF PassedStoresClear, Task
    <2>4. Accounted([task[w] EXCEPT !.pc = "refGuard"])
      BY <1>2, <2>2, <2>3 DEF Accounted, TargetKnown, AttachesStatic, OwnerNotLive,
                              ScopeAuthorized, AuthorizedPC, DeletePC, Task
    <2> QED  BY <1>1, <1>7, <2>1, <2>4, NextStatement DEF PC, AuthorizedPC, DeletePC
  <1> QED  BY <1>4, <1>5, <1>6, <1>7 DEF Load

LEMMA ConnectionGuardPreserves ==
    ASSUME IInv, NEW w \in Worker, ConnectionGuard(w)
    PROVE  IInv'
  <1> DEFINE r == task[w].req
             t == [task[w] EXCEPT !.pc = "refGuard"]
  <1>1. UNCHANGED stores /\ moves' \in Nat /\ faults' \in Nat
    BY IInvTypes DEF ConnectionGuard, budget
  <1>2. /\ task[w].pc = "connGuard" /\ task[w] \in Task /\ Serves(task[w])
        /\ Accounted(task[w]) /\ task[w].pos = 1
    BY IInvTypes DEF ConnectionGuard, At, Serves
  <1>3. CASE Respond(w)
    BY <1>1, <1>3, EndPreserves
  <1>4. CASE rows[r.cred].owner \notin LiveListed /\ Goto(w, "refGuard")
    <2>1. Serves(t)
      BY <1>2 DEF Serves, Task, LastStore
    <2>2. PassedStoresClear(t)
      BY <1>2, ConstantFacts DEF PassedStoresClear, Task
    <2>3. Accounted(t)
      BY <1>2, <1>4, <2>2 DEF Accounted, TargetKnown, AttachesStatic, OwnerNotLive,
                              ScopeAuthorized, AuthorizedPC, DeletePC, Task
    <2> QED  BY <1>1, <1>4, <2>1, <2>3, NextStatement DEF PC, AuthorizedPC, DeletePC
  <1> QED  BY <1>3, <1>4 DEF ConnectionGuard

\* A store is passed because no slot of it names the target, or unseen.
LEMMA ReferenceGuardPreserves ==
    ASSUME IInv, NEW w \in Worker, ReferenceGuard(w) \/ CatalogFault(w)
    PROVE  IInv'
  <1>1. UNCHANGED stores /\ moves' \in Nat /\ faults' \in Nat
    BY IInvTypes DEF ReferenceGuard, CatalogFault, budget
  <1>2. /\ task[w].pc = "refGuard" /\ task[w] \in Task /\ Serves(task[w])
        /\ Accounted(task[w]) /\ task[w].pos \in 1 .. LastStore
    BY IInvTypes DEF ReferenceGuard, CatalogFault, At, Serves
  <1>3. ASSUME NEW missed \in SUBSET (1 .. LastStore), PassStore(w, missed),
               \/ task[w].pos \in missed
               \/ \A k \in Consumer : StoreOf[k] = task[w].pos => refs[k] # task[w].req.cred
        PROVE  IInv'
    <2>1. /\ task' \in [Worker -> Task] /\ Serving'
          /\ task'[w].pc \in {"refGuard", "deleteRow"}
          /\ task'[w].req = task[w].req /\ task'[w].late = task[w].late
          /\ task'[w].skipped = task[w].skipped \cup missed
          /\ task'[w].pos = task[w].pos + 1
          /\ task'[w].relinked = task[w].relinked /\ task'[w].promoted = task[w].promoted
          /\ \A v \in Worker \ {w} : task'[v] = task[v]
      BY <1>2, <1>3, IInvTypes, Passes DEF At
    <2>2. PassedStoresClear(task'[w])
      <3> SUFFICES ASSUME NEW k \in Consumer, StoreOf[k] # 0, StoreOf[k] < task[w].pos + 1,
                          refs[k] = task[w].req.cred
                   PROVE  k \in task[w].late \/ StoreOf[k] \in task[w].skipped \cup missed
        BY <2>1 DEF PassedStoresClear
      <3>1. StoreOf[k] \in Nat /\ task[w].pos \in Nat
        BY <1>2, ConstantFacts DEF LastStore
      <3>2. CASE StoreOf[k] = task[w].pos
        BY <1>3, <3>2
      <3>3. CASE StoreOf[k] < task[w].pos
        BY <1>2, <3>3 DEF Accounted, PassedStoresClear
      <3> QED  BY <3>1, <3>2, <3>3
    <2>3. Accounted(task'[w])
      BY <1>2, <2>1, <2>2 DEF Accounted, TargetKnown, AttachesStatic, OwnerNotLive,
                              ScopeAuthorized, AuthorizedPC, DeletePC
    <2> QED  BY <1>1, <2>1, <2>3, OnlyMoves
  <1>4. CASE ReferenceGuard(w)
    BY <1>1, <1>3, <1>4, EndPreserves DEF ReferenceGuard
  <1>5. CASE CatalogFault(w)
    <2>1. {task[w].pos} \in SUBSET (1 .. LastStore)
      BY <1>2
    <2> QED  BY <1>3, <1>5, <2>1 DEF CatalogFault
  <1> QED  BY <1>4, <1>5

LEMMA ValidatePreserves ==
    ASSUME IInv, NEW w \in Worker, Validate(w)
    PROVE  IInv'
  <1> DEFINE c == task[w].req.cred
             t == [task[w] EXCEPT !.pc = "attach"]
  <1>1. UNCHANGED stores /\ moves' \in Nat /\ faults' \in Nat
    BY IInvTypes DEF Validate, budget
  <1>2. task[w].pc = "validate" /\ task[w] \in Task /\ Serves(task[w]) /\ Accounted(task[w])
    BY IInvTypes DEF Validate, At
  <1>3. CASE Respond(w)
    BY <1>1, <1>3, EndPreserves
  <1>4. CASE Stored(c) /\ rows[c].kind = "static" /\ Goto(w, "attach")
    <2>1. Serves(t)
      BY <1>2 DEF Serves, Task
    <2>2. Accounted(t)
      BY <1>2, <1>4 DEF Accounted, TargetKnown, AttachesStatic, PassedStoresClear,
                        OwnerNotLive, ScopeAuthorized, AuthorizedPC, DeletePC, Task, Stored
    <2> QED  BY <1>1, <1>4, <2>1, <2>2, NextStatement DEF PC
  <1> QED  BY <1>3, <1>4 DEF Validate
------------------------------------------------------------------------------
\* The statements that write the vault.

\* Such a statement keeps the account of the others if no row they are authorized
\* for is promoted behind their back.
ScopeKept(w) == \A v \in Worker \ {w} :
    /\ task[v].pc \in AuthorizedPC /\ ~ task'[v].promoted
    /\ rows[task[v].req.cred].scope = "account"
    => rows'[task[v].req.cred].scope = "account"

LEMMA VaultWrite ==
    ASSUME IInv, NEW w \in Worker, UNCHANGED <<conn, refs, budget>>,
           rows' \in [Cred -> Row], task' \in [Worker -> Task], Serving',
           IdsKept, OwnedByKind', OneRowPerOwner', Accounted(task[w])',
           \A v \in Worker \ {w} : Same(v, task'[v]), ScopeKept(w)
    PROVE  IInv'
  <1>1. TypeOK'
    BY DEF IInv, TypeOK, budget
  <1>2. ValidatedReferences'
    BY ReferencesKept
  <1>3. ASSUME NEW v \in Worker PROVE Accounted(task[v])'
    <2>1. CASE v = w
      BY <2>1
    <2>2. CASE v # w
      BY <2>2, AccountKept DEF ScopeKept
    <2> QED  BY <2>1, <2>2
  <1> QED  BY <1>1, <1>2, <1>3 DEF IInv

\* The usual case: no scope changes, and the worker is done or reconciles on.
LEMMA PlainWrite ==
    ASSUME IInv, NEW w \in Worker, UNCHANGED <<conn, refs, budget>>,
           rows' \in [Cred -> Row], task' \in [Worker -> Task], Serving',
           IdsKept, OwnedByKind', OneRowPerOwner',
           \A c \in Cred : rows[c].st # "free" => rows'[c].scope = rows[c].scope,
           task'[w].pc \in SyncPC \cup {"idle"},
           \A v \in Worker \ {w} : task'[v] = task[v]
    PROVE  IInv'
  <1>1. Accounted(task[w])'
    BY DEF Accounted, TargetKnown, AttachesStatic, PassedStoresClear, OwnerNotLive,
           ScopeAuthorized, SyncPC, AuthorizedPC, DeletePC
  <1>2. \A v \in Worker \ {w} : Same(v, task'[v])
    BY DEF Same
  <1>3. ScopeKept(w)
    <2> SUFFICES ASSUME NEW v \in Worker, task[v].pc \in AuthorizedPC
                 PROVE  rows'[task[v].req.cred].scope = rows[task[v].req.cred].scope
      BY DEF ScopeKept
    <2>1. Serves(task[v]) /\ Accounted(task[v])
      BY IInvTypes
    <2>2. task[v].req.cred \in Cred /\ rows[task[v].req.cred].st # "free"
      BY <2>1, RequestsListed DEF Serves, Accounted, TargetKnown, Request,
                                  AuthorizedPC, DeletePC
    <2> QED  BY <2>2
  <1> QED  BY <1>1, <1>2, <1>3, VaultWrite

\* One row is drawn from the free ids; what it becomes fits the kinds and owners.
LEMMA RowInserted ==
    ASSUME IInv, NEW c \in Cred, NEW row \in Row, rows' = [rows EXCEPT ![c] = row],
           rows[c].st = "free", row.st = "stored",
           row.kind = "oauth" => row.owner \in Listed,
           row.kind = "static" => row.owner = NoOwner,
           row.owner # NoOwner => \A d \in Cred : Stored(d) => rows[d].owner # row.owner
    PROVE  /\ rows' \in [Cred -> Row] /\ IdsKept /\ OwnedByKind' /\ OneRowPerOwner'
           /\ \A d \in Cred : rows[d].st # "free" => rows'[d].scope = rows[d].scope
  <1>1. rows \in [Cred -> Row] /\ OwnedByKind /\ OneRowPerOwner
    BY DEF IInv, TypeOK
  <1>2. rows'[c] = row /\ \A d \in Cred \ {c} : rows'[d] = rows[d]
    BY <1>1
  <1>3. rows' \in [Cred -> Row] /\ IdsKept
    BY <1>1, <1>2 DEF IdsKept
  <1>4. OwnedByKind'
    BY <1>1, <1>2 DEF OwnedByKind
  <1>5. OneRowPerOwner'
    BY <1>1, <1>2 DEF OneRowPerOwner, Stored
  <1> QED  BY <1>2, <1>3, <1>4, <1>5

\* One stored row changes, but neither its kind nor its owner.
LEMMA RowUpdated ==
    ASSUME IInv, NEW c \in Cred, NEW row \in Row, rows' = [rows EXCEPT ![c] = row],
           Stored(c), row.st # "free",
           row.kind = rows[c].kind, row.owner = rows[c].owner
    PROVE  rows' \in [Cred -> Row] /\ IdsKept /\ OwnedByKind' /\ OneRowPerOwner'
  <1>1. rows \in [Cred -> Row] /\ OwnedByKind /\ OneRowPerOwner
    BY DEF IInv, TypeOK
  <1>2. rows'[c] = row /\ \A d \in Cred \ {c} : rows'[d] = rows[d]
    BY <1>1
  <1>3. rows' \in [Cred -> Row] /\ IdsKept
    BY <1>1, <1>2 DEF IdsKept
  <1>4. OwnedByKind'
    BY <1>1, <1>2 DEF OwnedByKind
  <1>5. OneRowPerOwner'
    BY <1>1, <1>2 DEF OneRowPerOwner, Stored
  <1> QED  BY <1>3, <1>4, <1>5

LEMMA RowsUntouched ==
    ASSUME IInv, UNCHANGED rows
    PROVE  /\ rows' \in [Cred -> Row] /\ IdsKept /\ OwnedByKind' /\ OneRowPerOwner'
           /\ \A d \in Cred : rows'[d].scope = rows[d].scope
  BY DEF IInv, TypeOK, IdsKept, OwnedByKind, OneRowPerOwner, Stored

\* Where a reconciliation stands after one of its writes.
LEMMA SyncGoesOn ==
    ASSUME IInv, NEW w \in Worker, At(w, "syncWrite"),
           NEW up \in SUBSET Listed, NEW down \in SUBSET Integration, SyncWith(w, up, down)
    PROVE  /\ task' \in [Worker -> Task] /\ Serving'
           /\ task'[w].pc \in SyncPC \cup {"idle"}
           /\ \A v \in Worker \ {w} : task'[v] = task[v]
  BY IInvTypes, Syncs DEF At, SyncPC

LEMMA SyncInsertPreserves ==
    ASSUME IInv, NEW w \in Worker, NEW i \in Integration, NEW c \in Cred, SyncInsert(w, i, c)
    PROVE  IInv'
  <1> DEFINE row == [st |-> "stored", kind |-> "oauth", owner |-> i, name |-> CanonName[i],
                     scope |-> "account", active |-> TRUE]
  <1>1. /\ At(w, "syncWrite") /\ i \in task[w].up /\ rows[c].st = "free"
        /\ rows' = [rows EXCEPT ![c] = row]
        /\ \A d \in Cred : Stored(d) => rows[d].owner # i
        /\ SyncWith(w, task[w].up \ {i}, task[w].down) /\ UNCHANGED <<conn, refs, budget>>
    BY DEF SyncInsert, OAuthRowOf
  <1>2. task[w].up \subseteq Listed /\ task[w].down \in SUBSET Integration
    BY IInvTypes DEF Serves, Task
  <1>3. i \in Listed /\ row \in Row
    BY <1>1, <1>2, RequestsListed DEF Row, Scope
  <1>4. /\ rows' \in [Cred -> Row] /\ IdsKept /\ OwnedByKind' /\ OneRowPerOwner'
        /\ \A d \in Cred : rows[d].st # "free" => rows'[d].scope = rows[d].scope
    BY <1>1, <1>3, RowInserted
  <1>5. task[w].up \ {i} \in SUBSET Listed
    BY <1>2
  <1> QED  BY <1>1, <1>2, <1>4, <1>5, SyncGoesOn, PlainWrite

LEMMA SyncReactivatePreserves ==
    ASSUME IInv, NEW w \in Worker, NEW i \in Integration, NEW c \in Cred,
           SyncReactivate(w, i, c)
    PROVE  IInv'
  <1> DEFINE row == [rows[c] EXCEPT !.name = CanonName[i], !.active = TRUE]
  <1>1. /\ At(w, "syncWrite") /\ Stored(c) /\ rows' = [rows EXCEPT ![c] = row]
        /\ SyncWith(w, task[w].up \ {i}, task[w].down) /\ UNCHANGED <<conn, refs, budget>>
    BY DEF SyncReactivate, OAuthRowOf
  <1>2. task[w].up \ {i} \in SUBSET Listed /\ task[w].down \in SUBSET Integration
    BY IInvTypes DEF Serves, Task
  <1>3. /\ row \in Row /\ row.st = rows[c].st /\ row.kind = rows[c].kind
        /\ row.owner = rows[c].owner /\ row.scope = rows[c].scope
    BY RequestsListed DEF IInv, TypeOK, Row
  <1>4. rows' \in [Cred -> Row] /\ IdsKept /\ OwnedByKind' /\ OneRowPerOwner'
    BY <1>1, <1>3, RowUpdated DEF Stored
  <1>5. \A d \in Cred : rows'[d].scope = rows[d].scope
    BY <1>1, <1>3 DEF IInv, TypeOK
  <1> QED  BY <1>1, <1>2, <1>4, <1>5, SyncGoesOn, PlainWrite

LEMMA SyncDeactivatePreserves ==
    ASSUME IInv, NEW w \in Worker, NEW i \in Integration, SyncDeactivate(w, i)
    PROVE  IInv'
  <1>1. /\ At(w, "syncWrite")
        /\ SyncWith(w, {}, task[w].down \ {i}) /\ UNCHANGED <<conn, refs, budget>>
        /\ rows' = [c \in Cred |-> IF OAuthRowOf(i, c)
                                   THEN [rows[c] EXCEPT !.active = FALSE] ELSE rows[c]]
    BY DEF SyncDeactivate
  <1>2. {} \in SUBSET Listed /\ task[w].down \ {i} \in SUBSET Integration
    BY IInvTypes DEF Task
  <1>3. rows \in [Cred -> Row] /\ OwnedByKind /\ OneRowPerOwner
    BY DEF IInv, TypeOK
  <1>4. ASSUME NEW c \in Cred
        PROVE  /\ rows'[c] \in Row /\ rows'[c].st = rows[c].st /\ rows'[c].kind = rows[c].kind
               /\ rows'[c].owner = rows[c].owner /\ rows'[c].scope = rows[c].scope
    BY <1>1, <1>3 DEF Row
  <1>5. rows' \in [Cred -> Row] /\ IdsKept
    BY <1>1, <1>4 DEF IdsKept
  <1>6. OwnedByKind'
    BY <1>3, <1>4 DEF OwnedByKind
  <1>7. OneRowPerOwner'
    BY <1>3, <1>4 DEF OneRowPerOwner, Stored
  <1> QED  BY <1>1, <1>2, <1>4, <1>5, <1>6, <1>7, SyncGoesOn, PlainWrite
LEMMA InsertPreserves ==
    ASSUME IInv, NEW w \in Worker, NEW c \in Cred, Insert(w, c)
    PROVE  IInv'
  <1> DEFINE r == task[w].req
             row == [st |-> "stored", kind |-> "static", owner |-> NoOwner, name |-> r.name,
                     scope |-> NormalizeScope(r.scope), active |-> TRUE]
  <1>1. /\ rows[c].st = "free" /\ UNCHANGED <<conn, refs, budget>>
        /\ rows' = rows \/ rows' = [rows EXCEPT ![c] = row]
    BY DEF Insert
  <1>2. /\ task' \in [Worker -> Task] /\ Serving' /\ task'[w].pc \in SyncPC \cup {"idle"}
        /\ \A v \in Worker \ {w} : task'[v] = task[v]
    BY IInvTypes, Responds DEF Insert, Idle
  <1>3. task[w].pc = "insert" /\ Serves(task[w])
    BY IInvTypes DEF Insert, At
  <1>4. row \in Row
    BY <1>3, RequestsListed DEF Serves, Request, Row, NormalizeScope, Scope
  <1>5. CASE rows' = rows
    BY <1>1, <1>2, <1>5, RowsUntouched, PlainWrite
  <1>6. CASE rows' = [rows EXCEPT ![c] = row]
    BY <1>1, <1>2, <1>4, <1>6, RowInserted, PlainWrite
  <1> QED  BY <1>1, <1>5, <1>6

LEMMA ActiveSet ==
    ASSUME NEW row \in Row, NEW b \in BOOLEAN
    PROVE  LET new == [row EXCEPT !.active = b]
           IN  /\ new \in Row /\ new.st = row.st /\ new.kind = row.kind
               /\ new.owner = row.owner /\ new.scope = row.scope
  BY DEF Row

LEMMA WriteActivePreserves ==
    ASSUME IInv, NEW w \in Worker, WriteActive(w)
    PROVE  IInv'
  <1> DEFINE r == task[w].req
             row == [rows[r.cred] EXCEPT !.active = (r.active = "on")]
  <1>1. /\ task' \in [Worker -> Task] /\ Serving' /\ task'[w].pc \in SyncPC \cup {"idle"}
        /\ \A v \in Worker \ {w} : task'[v] = task[v]
    BY IInvTypes, Responds DEF WriteActive, Idle
  <1>2. task[w].pc = "toggle" /\ Serves(task[w]) /\ UNCHANGED <<conn, refs, budget>>
    BY IInvTypes DEF WriteActive, At
  <1>3. r.cred \in Cred
    BY <1>2, RequestsListed DEF Serves, Request
  <1>4. /\ row \in Row /\ row.st = rows[r.cred].st /\ row.kind = rows[r.cred].kind
        /\ row.owner = rows[r.cred].owner /\ row.scope = rows[r.cred].scope
    <2>1. rows[r.cred] \in Row
      BY <1>3 DEF IInv, TypeOK
    <2>2. (r.active = "on") \in BOOLEAN
      OBVIOUS
    <2> QED  BY <2>1, <2>2, ActiveSet
  <1>5. CASE ~ Stored(r.cred)
    BY <1>1, <1>2, <1>5, RowsUntouched, PlainWrite DEF WriteActive
  <1>6. CASE Stored(r.cred)
    <2>1. rows' = [rows EXCEPT ![r.cred] = row]
      BY <1>6 DEF WriteActive
    <2>2. rows' \in [Cred -> Row] /\ IdsKept /\ OwnedByKind' /\ OneRowPerOwner'
      BY <1>3, <1>4, <1>6, <2>1, RowUpdated DEF Stored
    <2>3. \A d \in Cred : rows'[d].scope = rows[d].scope
      BY <1>3, <1>4, <2>1 DEF IInv, TypeOK
    <2> QED  BY <1>1, <1>2, <2>2, <2>3, PlainWrite
  <1> QED  BY <1>5, <1>6

LEMMA DeleteRowPreserves ==
    ASSUME IInv, NEW w \in Worker, DeleteRow(w)
    PROVE  IInv'
  <1> DEFINE c == task[w].req.cred
             row == [rows[c] EXCEPT !.st = "deleted"]
  <1>1. /\ task' \in [Worker -> Task] /\ Serving' /\ task'[w].pc \in SyncPC \cup {"idle"}
        /\ \A v \in Worker \ {w} : task'[v] = task[v]
    BY IInvTypes, Responds DEF DeleteRow, Idle
  <1>2. task[w].pc = "deleteRow" /\ Serves(task[w]) /\ UNCHANGED <<conn, refs, budget>>
    BY IInvTypes DEF DeleteRow, At
  <1>3. c \in Cred
    BY <1>2, RequestsListed DEF Serves, Request
  <1>4. /\ row \in Row /\ row.st = "deleted" /\ row.kind = rows[c].kind
        /\ row.owner = rows[c].owner /\ row.scope = rows[c].scope
    BY <1>3 DEF IInv, TypeOK, Row
  <1>5. CASE ~ Stored(c)
    BY <1>1, <1>2, <1>5, RowsUntouched, PlainWrite DEF DeleteRow
  <1>6. CASE Stored(c)
    <2>1. rows' = [rows EXCEPT ![c] = row]
      BY <1>6 DEF DeleteRow
    <2>2. rows' \in [Cred -> Row] /\ IdsKept /\ OwnedByKind' /\ OneRowPerOwner'
      BY <1>3, <1>4, <1>6, <2>1, RowUpdated
    <2>3. \A d \in Cred : rows'[d].scope = rows[d].scope
      BY <1>3, <1>4, <2>1 DEF IInv, TypeOK
    <2> QED  BY <1>1, <1>2, <2>2, <2>3, PlainWrite
  <1> QED  BY <1>5, <1>6

\* The UPDATE of the columns is the one write that may raise a scope; it records
\* so for every request authorized on the row before.
LEMMA WriteColumnsPreserves ==
    ASSUME IInv, NEW w \in Worker, WriteColumns(w)
    PROVE  IInv'
  <1> DEFINE r == task[w].req
             c == r.cred
             row == [rows[c] EXCEPT !.name = r.name, !.scope = NewScope(c, r)]
  <1>1. /\ task[w].pc = "write" /\ task[w] \in Task /\ Serves(task[w]) /\ Accounted(task[w])
        /\ UNCHANGED <<conn, refs, budget>> /\ moves' \in Nat /\ faults' \in Nat
    BY IInvTypes DEF WriteColumns, At, budget
  <1>2. r \in Request /\ c \in Cred /\ r.op = "update" /\ task[w].pos = 1
    BY <1>1, RequestsListed DEF Serves, Request
  <1>3. CASE Respond(w) /\ UNCHANGED rows
    BY <1>1, <1>3, EndPreserves DEF stores
  <1>4. ASSUME rows' = IF Stored(c) THEN [rows EXCEPT ![c] = row] ELSE rows,
               task' = [v \in Worker |->
                    IF v = w
                    THEN IF r.active = "keep" THEN Idle ELSE [task[w] EXCEPT !.pc = "toggle"]
                    ELSE [task[v] EXCEPT !.promoted = @ \/ Promoting(v, w, c)]]
        PROVE  IInv'
    <2>1. /\ row \in Row /\ row.st = rows[c].st /\ row.kind = rows[c].kind
          /\ row.owner = rows[c].owner /\ row.scope = NewScope(c, r)
      <3>1. rows[c] \in Row /\ r.name \in Name /\ r.scope \in Scope \cup {"keep"}
        BY <1>2 DEF IInv, TypeOK, Request
      <3>2. NewScope(c, r) \in Scope
        BY <3>1 DEF NewScope, Row, Scope
      <3> QED  BY <3>1, <3>2 DEF Row
    <2>2. rows' \in [Cred -> Row] /\ IdsKept /\ OwnedByKind' /\ OneRowPerOwner'
      <3>1. CASE Stored(c)
        BY <1>2, <1>4, <2>1, <3>1, RowUpdated DEF Stored
      <3>2. CASE ~ Stored(c)
        BY <1>4, <3>2, RowsUntouched
      <3> QED  BY <3>1, <3>2
    <2>3. ASSUME NEW v \in Worker \ {w}
          PROVE  /\ task'[v] \in Task /\ Serves(task'[v]) /\ Same(v, task'[v])
                 /\ Promoting(v, w, c) => task'[v].promoted
      <3>1. Promoting(v, w, c) \in BOOLEAN
        BY DEF Promoting
      <3> QED  BY <1>4, <3>1, IInvTypes, Annotations
    <2>4. task'[w] = Idle \/ task'[w] = [task[w] EXCEPT !.pc = "toggle"]
      BY <1>4
    <2>5. task'[w] \in Task /\ Serves(task'[w])
      <3>1. [task[w] EXCEPT !.pc = "toggle"] \in Task
        BY <1>1 DEF Task, PC, AuthorizedPC
      <3>2. Serves([task[w] EXCEPT !.pc = "toggle"])
        BY <1>1, <1>2 DEF Serves, Task
      <3> QED  BY <2>4, <3>1, <3>2, IdleServes
    <2>6. task' \in [Worker -> Task] /\ Serving'
      <3>1. \A v \in Worker : task'[v] \in Task /\ Serves(task'[v])
        BY <2>3, <2>5
      <3> QED  BY <1>4, <3>1 DEF Serving, Serves
    <2>7. ASSUME NEW v \in Worker \ {w}, task[v].pc \in AuthorizedPC, ~ task'[v].promoted,
                 rows[task[v].req.cred].scope = "account"
          PROVE  rows'[task[v].req.cred].scope = "account"
      <3>1. ~ Promoting(v, w, c)
        BY <2>3, <2>7
      <3>2. rows[c].scope \in Scope /\ rows \in [Cred -> Row]
        BY <1>2 DEF IInv, TypeOK, Row
      <3>3. task[v].req.cred \in Cred
        <4>1. Serves(task[v])
          BY IInvTypes
        <4> QED  BY <2>7, <4>1, RequestsListed DEF Serves, Request, AuthorizedPC, DeletePC
      <3>4. CASE task[v].req.cred = c /\ Stored(c)
        <4>1. NewScope(c, r) # "installation"
          BY <2>7, <3>1, <3>4 DEF Promoting
        <4>2. NewScope(c, r) = "account"
          BY <1>2, <2>7, <3>4, <4>1 DEF NewScope, Request, Scope
        <4> QED  BY <1>2, <1>4, <2>1, <3>2, <3>4, <4>2
      <3>5. CASE task[v].req.cred # c \/ ~ Stored(c)
        BY <1>4, <2>7, <3>2, <3>3, <3>5
      <3> QED  BY <3>4, <3>5
    <2>8. Accounted(task[w])'
      <3>1. CASE task'[w] = Idle
        BY <3>1 DEF Accounted, TargetKnown, AttachesStatic, PassedStoresClear,
                    OwnerNotLive, ScopeAuthorized, Idle, AuthorizedPC, DeletePC
      <3>2. CASE task'[w] = [task[w] EXCEPT !.pc = "toggle"]
        <4>1. task'[w].pc = "toggle" /\ task'[w].req = r /\ task'[w].promoted = task[w].promoted
          BY <1>1, <3>2 DEF Task
        <4>2. rows[c].st # "free" /\ rows'[c].st # "free"
          BY <1>1, <1>2, <2>2 DEF Accounted, TargetKnown, IdsKept, AuthorizedPC
        <4>3. TargetKnown(task[w])' /\ AttachesStatic(task[w])' /\ PassedStoresClear(task[w])'
              /\ OwnerNotLive(task[w])'
          BY <4>1, <4>2 DEF TargetKnown, AttachesStatic, PassedStoresClear, OwnerNotLive
        <4>4. ASSUME ~ r.priv, ~ task[w].promoted
              PROVE  rows'[c].scope = "account" /\ r.scope # "installation"
          <5>1. rows[c].scope = "account" /\ r.scope # "installation"
            BY <1>1, <1>2, <4>4 DEF Accounted, ScopeAuthorized, AuthorizedPC
          <5>2. NewScope(c, r) = "account"
            BY <1>2, <5>1 DEF NewScope, Request, Scope
          <5>3. rows \in [Cred -> Row]
            BY DEF IInv, TypeOK
          <5> QED  BY <1>2, <1>4, <2>1, <5>1, <5>2, <5>3
        <4>5. ScopeAuthorized(task[w])'
          BY <4>1, <4>4 DEF ScopeAuthorized
        <4> QED  BY <4>3, <4>5 DEF Accounted
      <3> QED  BY <2>4, <3>1, <3>2
    <2> QED  BY <1>1, <2>2, <2>3, <2>6, <2>7, <2>8, VaultWrite DEF ScopeKept
  <1> QED  BY <1>3, <1>4 DEF WriteColumns
------------------------------------------------------------------------------
\* The writes of the consumers and of the owner of the connections.

\* Tables the vault does not own: everything but the accounts is a matter of type.
LEMMA OutsideWrite ==
    ASSUME IInv, UNCHANGED rows, task' \in [Worker -> Task], Serving',
           conn' \in [Integration -> {"live", "blank"}],
           refs' \in [Consumer -> Cred \cup {NoCred}], moves' \in Nat, faults' \in Nat,
           ValidatedReferences', \A v \in Worker : Accounted(task[v])'
    PROVE  IInv'
  BY DEF IInv, TypeOK, OwnedByKind, OneRowPerOwner, Stored

\* A slot that begins to name c is recorded by every guard that is past its store.
LEMMA ReferenceAdded ==
    ASSUME IInv, NEW k \in Consumer, NEW c \in Cred, UNCHANGED <<rows, conn>>,
           refs' = [refs EXCEPT ![k] = c], NEW v \in Worker,
           Same(v, task'[v]), Behind(v, k, c) => k \in task'[v].late
    PROVE  Accounted(task[v])'
  <1>1. Accounted(task[v]) /\ refs \in [Consumer -> Cred \cup {NoCred}]
    BY DEF IInv, TypeOK
  <1>2. TargetKnown(task[v])' /\ AttachesStatic(task[v])' /\ OwnerNotLive(task[v])'
        /\ ScopeAuthorized(task[v])'
    BY <1>1 DEF Accounted, TargetKnown, AttachesStatic, OwnerNotLive, ScopeAuthorized,
                Same, LiveListed
  <1>3. PassedStoresClear(task[v])'
    <2> SUFFICES ASSUME task[v].pc \in {"refGuard", "deleteRow"}, NEW j \in Consumer,
                        StoreOf[j] # 0, StoreOf[j] < task[v].pos,
                        refs'[j] = task[v].req.cred
                 PROVE  j \in task'[v].late \/ StoreOf[j] \in task'[v].skipped
      BY DEF PassedStoresClear, Same
    <2>1. CASE j = k
      BY <1>1, <2>1 DEF Behind, DeletePC
    <2>2. CASE j # k
      BY <1>1, <2>2 DEF Accounted, PassedStoresClear, Same
    <2> QED  BY <2>1, <2>2
  <1> QED  BY <1>2, <1>3 DEF Accounted

LEMMA AttachPreserves ==
    ASSUME IInv, NEW w \in Worker, Attach(w)
    PROVE  IInv'
  <1> DEFINE c == task[w].req.cred
             k == task[w].req.consumer
  <1>1. /\ task[w].pc = "attach" /\ Serves(task[w]) /\ Accounted(task[w])
        /\ UNCHANGED <<rows, conn, budget>> /\ moves' \in Nat /\ faults' \in Nat
        /\ refs' = [refs EXCEPT ![k] = c]
        /\ task' = [v \in Worker |->
                 IF v = w THEN Idle
                 ELSE IF Behind(v, k, c) THEN [task[v] EXCEPT !.late = @ \cup {k}]
                 ELSE task[v]]
    BY IInvTypes DEF Attach, At, budget
  <1>2. c \in Cred /\ k \in Consumer
    BY <1>1, RequestsListed DEF Serves, Request
  <1>3. ASSUME NEW v \in Worker \ {w}
        PROVE  /\ task'[v] \in Task /\ Serves(task'[v]) /\ Same(v, task'[v])
               /\ Behind(v, k, c) => k \in task'[v].late
    BY <1>1, <1>2, IInvTypes, Annotations
  <1>4. task' \in [Worker -> Task] /\ Serving'
    <2>1. \A v \in Worker : task'[v] \in Task /\ Serves(task'[v])
      BY <1>1, <1>3, IdleServes
    <2> QED  BY <1>1, <2>1 DEF Serving, Serves
  <1>5. ASSUME NEW v \in Worker PROVE Accounted(task[v])'
    <2>1. CASE v = w
      BY <1>1, <2>1 DEF Accounted, TargetKnown, AttachesStatic, PassedStoresClear,
                        OwnerNotLive, ScopeAuthorized, Idle, AuthorizedPC, DeletePC
    <2>2. CASE v # w
      BY <1>1, <1>2, <1>3, <2>2, ReferenceAdded
    <2> QED  BY <2>1, <2>2
  <1>6. ValidatedReferences'
    <2>1. rows[c].kind = "static" /\ rows[c].st # "free"
      BY <1>1 DEF Accounted, AttachesStatic, TargetKnown
    <2> QED  BY <1>1, <1>2, <2>1 DEF IInv, TypeOK, ValidatedReferences
  <1>7. refs' \in [Consumer -> Cred \cup {NoCred}]
    BY <1>1, <1>2 DEF IInv, TypeOK
  <1>8. conn' \in [Integration -> {"live", "blank"}]
    BY <1>1 DEF IInv, TypeOK
  <1> QED  BY <1>1, <1>4, <1>5, <1>6, <1>7, <1>8, OutsideWrite

LEMMA ReferPreserves ==
    ASSUME IInv, NEW k \in Consumer, NEW c \in Cred, Refer(k, c)
    PROVE  IInv'
  <1>1. /\ UNCHANGED <<rows, conn>> /\ moves' \in Nat /\ faults' \in Nat
        /\ StoreOf[k] # ValidatedStore /\ refs' = [refs EXCEPT ![k] = c]
        /\ task' = [v \in Worker |->
              IF Behind(v, k, c) THEN [task[v] EXCEPT !.late = @ \cup {k}] ELSE task[v]]
    BY IInvTypes DEF Refer
  <1>2. ASSUME NEW v \in Worker
        PROVE  /\ task'[v] \in Task /\ Serves(task'[v]) /\ Same(v, task'[v])
               /\ Behind(v, k, c) => k \in task'[v].late
    BY <1>1, IInvTypes, Annotations
  <1>3. task' \in [Worker -> Task] /\ Serving'
    BY <1>1, <1>2 DEF Serving, Serves
  <1>4. \A v \in Worker : Accounted(task[v])'
    BY <1>1, <1>2, ReferenceAdded
  <1>5. ValidatedReferences'
    BY <1>1 DEF IInv, TypeOK, ValidatedReferences
  <1>6. /\ refs' \in [Consumer -> Cred \cup {NoCred}]
        /\ conn' \in [Integration -> {"live", "blank"}]
    BY <1>1 DEF IInv, TypeOK
  <1> QED  BY <1>1, <1>3, <1>4, <1>5, <1>6, OutsideWrite

LEMMA DetachPreserves ==
    ASSUME IInv, NEW k \in Consumer, Detach(k)
    PROVE  IInv'
  <1>1. /\ UNCHANGED <<rows, conn, task>> /\ moves' \in Nat /\ faults' \in Nat
        /\ refs' = [refs EXCEPT ![k] = NoCred]
    BY IInvTypes DEF Detach
  <1>2. TypeOK /\ Serving /\ ValidatedReferences
    BY DEF IInv
  <1>3. ASSUME NEW v \in Worker PROVE Accounted(task[v])'
    <2>1. Accounted(task[v]) /\ Serves(task[v])
      BY IInvTypes
    <2>2. task[v].pc # "idle" => task[v].req.cred \in Cred
      BY <2>1, RequestsListed DEF Serves, Request
    <2>3. PassedStoresClear(task[v])'
      BY <1>1, <1>2, <2>1, <2>2, ConstantFacts
         DEF Accounted, PassedStoresClear, TypeOK
    <2> QED  BY <1>1, <2>1, <2>3 DEF Accounted, TargetKnown, AttachesStatic,
                                     OwnerNotLive, ScopeAuthorized, LiveListed
  <1>4. ValidatedReferences' /\ Serving'
    BY <1>1, <1>2 DEF TypeOK, ValidatedReferences, Serving
  <1>5. TypeOK'
    BY <1>1, <1>2 DEF TypeOK
  <1> QED  BY <1>1, <1>3, <1>4, <1>5, OutsideWrite DEF TypeOK

LEMMA ConnectPreserves ==
    ASSUME IInv, NEW i \in Integration, Connect(i)
    PROVE  IInv'
  <1>1. /\ UNCHANGED <<rows, refs>> /\ moves' \in Nat /\ faults' \in Nat
        /\ conn' = [conn EXCEPT ![i] = "live"]
        /\ task' = [w \in Worker |->
              IF /\ task[w].pc \in {"refGuard", "deleteRow"}
                 /\ rows[task[w].req.cred].owner = i
              THEN [task[w] EXCEPT !.relinked = TRUE] ELSE task[w]]
    BY IInvTypes DEF Connect
  <1>2. ASSUME NEW v \in Worker
        PROVE  /\ task'[v] \in Task /\ Serves(task'[v]) /\ Same(v, task'[v])
               /\ task[v].pc \in {"refGuard", "deleteRow"}
                  /\ rows[task[v].req.cred].owner = i => task'[v].relinked
    BY <1>1, IInvTypes, Annotations
  <1>3. task' \in [Worker -> Task] /\ Serving'
    BY <1>1, <1>2 DEF Serving, Serves
  <1>4. \A j \in Integration : j \in LiveListed' => j = i \/ j \in LiveListed
    BY <1>1 DEF IInv, TypeOK, LiveListed
  <1>5. LiveListed' \subseteq Integration
    BY RequestsListed DEF LiveListed
  <1>6. ASSUME NEW v \in Worker PROVE Accounted(task[v])'
    <2>1. Accounted(task[v])
      BY IInvTypes
    <2>2. OwnerNotLive(task[v])'
      BY <1>1, <1>2, <1>4, <1>5, <2>1 DEF Accounted, OwnerNotLive, Same
    <2>3. TargetKnown(task[v])' /\ AttachesStatic(task[v])' /\ PassedStoresClear(task[v])'
          /\ ScopeAuthorized(task[v])'
      BY <1>1, <1>2, <2>1 DEF Accounted, TargetKnown, AttachesStatic, PassedStoresClear,
                              ScopeAuthorized, Same
    <2> QED  BY <2>2, <2>3 DEF Accounted
  <1>7. ValidatedReferences'
    BY <1>1 DEF IInv, ValidatedReferences
  <1>8. /\ refs' \in [Consumer -> Cred \cup {NoCred}]
        /\ conn' \in [Integration -> {"live", "blank"}]
    BY <1>1 DEF IInv, TypeOK
  <1> QED  BY <1>1, <1>3, <1>6, <1>7, <1>8, OutsideWrite

LEMMA DisconnectPreserves ==
    ASSUME IInv, NEW i \in Integration, Disconnect(i)
    PROVE  IInv'
  <1>1. /\ UNCHANGED <<rows, refs, task>> /\ moves' \in Nat /\ faults' \in Nat
        /\ conn' = [conn EXCEPT ![i] = "blank"]
    BY IInvTypes DEF Disconnect
  <1>2. LiveListed' \subseteq LiveListed
    BY <1>1, RequestsListed DEF IInv, TypeOK, LiveListed
  <1>3. ASSUME NEW v \in Worker PROVE Accounted(task[v])'
    <2>1. Accounted(task[v])
      BY IInvTypes
    <2> QED  BY <1>1, <1>2, <2>1 DEF Accounted, TargetKnown, AttachesStatic,
                                     PassedStoresClear, OwnerNotLive, ScopeAuthorized
  <1>4. TypeOK' /\ Serving' /\ ValidatedReferences'
    BY <1>1 DEF IInv, TypeOK, Serving, ValidatedReferences
  <1> QED  BY <1>1, <1>3, <1>4, OutsideWrite DEF TypeOK

------------------------------------------------------------------------------
\* The invariant.

LEMMA InitAccounted == Init => IInv
  <1> SUFFICES ASSUME Init PROVE IInv
    OBVIOUS
  <1>1. (CHOOSE n \in Name : TRUE) \in Name
    BY ConstantsAssumption
  <1>2. TypeOK
    BY <1>1, IdleServes DEF Init, TypeOK, Row, Scope
  <1>3. Serving /\ \A w \in Worker : Accounted(task[w])
    BY IdleServes, IdleAccounted DEF Init, Serving
  <1>4. OwnedByKind /\ OneRowPerOwner /\ ValidatedReferences
    BY DEF Init, OwnedByKind, OneRowPerOwner, ValidatedReferences, Stored
  <1> QED  BY <1>2, <1>3, <1>4 DEF IInv

LEMMA NextPreserves == ASSUME IInv, [Next]_vars PROVE IInv'
  <1>1. ASSUME NEW w \in Worker, SyncStep(w) PROVE IInv'
    <2>1. ASSUME NEW i \in Integration, SyncClash(w, i) PROVE IInv'
      BY <2>1, IInvTypes, EndPreserves DEF SyncClash, budget
    <2> QED  BY <1>1, <2>1, SyncReadsPreserve, SyncInsertPreserves, SyncReactivatePreserves,
                SyncDeactivatePreserves DEF SyncStep
  <1>2. ASSUME NEW w \in Worker, WriteStep(w) PROVE IInv'
    BY <1>2, InsertPreserves, AuthorizePreserves, LoadPreserves, WriteColumnsPreserves,
       WriteActivePreserves, ConnectionGuardPreserves, ReferenceGuardPreserves,
       DeleteRowPreserves, ValidatePreserves, AttachPreserves DEF WriteStep
  <1>3. ASSUME NEW w \in Worker, CatalogFault(w) PROVE IInv'
    BY <1>3, ReferenceGuardPreserves
  <1>4. ASSUME NEW w \in Worker, Abort(w) PROVE IInv'
    BY <1>4, IInvTypes, EndPreserves DEF Abort
  <1>5. ASSUME NEW w \in Worker, NEW r \in Requests, StartList(w, r) \/ StartWrite(w, r)
        PROVE  IInv'
    BY <1>5, StartPreserves
  <1>6. CASE Environment
    BY <1>6, ConnectPreserves, DisconnectPreserves, DetachPreserves, ReferPreserves
       DEF Environment
  <1>7. CASE UNCHANGED vars
    BY <1>7 DEF vars, IInv, TypeOK, Serving, OwnedByKind, OneRowPerOwner, Stored,
                ValidatedReferences, Accounted, TargetKnown, AttachesStatic,
                PassedStoresClear, OwnerNotLive, ScopeAuthorized, LiveListed
  <1> QED  BY <1>1, <1>2, <1>3, <1>4, <1>5, <1>6, <1>7 DEF Next

\* The strengthened invariant holds in every reachable state: whatever the workers
\* interleave, each request in flight is accounted for by what its guards saw.
THEOREM AlwaysAccounted == Spec => []IInv
  <1>1. Init => IInv
    BY InitAccounted
  <1>2. IInv /\ [Next]_vars => IInv'
    BY NextPreserves
  <1> QED  BY <1>1, <1>2, PTL DEF Spec
------------------------------------------------------------------------------
\* The theorems.

\* Every variable keeps its type.
THEOREM TypeCorrect == Spec => []TypeOK
  <1>1. IInv => TypeOK
    BY DEF IInv
  <1> QED  BY <1>1, AlwaysAccounted, PTL

\* However many listings reconcile at once, a connection has at most one row, and
\* only connections with a listed provider have one (UpsertOAuthRow).
THEOREM MirrorUnique == Spec => []OneRowPerConnection
  <1>1. ASSUME IInv PROVE OneRowPerConnection
    <2> SUFFICES ASSUME NEW c \in Cred, NEW d \in Cred, Stored(c), rows[c].kind = "oauth",
                        Stored(d), rows[d].owner = rows[c].owner
                 PROVE  c = d /\ rows[c].owner \in Listed
      BY DEF OneRowPerConnection
    <2>1. rows[c].owner \in Listed /\ rows[c].owner # NoOwner
      BY <1>1, ConstantFacts DEF IInv, OwnedByKind
    <2>2. c = d
      BY <1>1, <2>1 DEF IInv, OneRowPerOwner
    <2> QED  BY <2>1, <2>2
  <1> QED  BY <1>1, AlwaysAccounted, PTL

\* No interleaving of a validation with the vault's own writes makes an agent
\* integration name a credential that holds no value (validateCredentialReference).
THEOREM AttachmentsHoldValues == Spec => []ValidatedReferences
  <1>1. IInv => ValidatedReferences
    BY DEF IInv
  <1> QED  BY <1>1, AlwaysAccounted, PTL

\* A hard delete severs the references of a guarded store only where its guard
\* could not see them (refuseIfReferenced).
THEOREM DeleteSeversOnlyUnseen == Spec => ReferencesGuarded
  <1> DEFINE A == \A w \in Worker, c \in Cred : Removes(w, c) =>
                     \A k \in Consumer : refs[k] = c /\ StoreOf[k] # 0 =>
                         k \in task[w].late \/ StoreOf[k] \in task[w].skipped
  <1>1. ASSUME IInv, [Next]_vars PROVE A
    <2> SUFFICES ASSUME NEW w \in Worker, NEW c \in Cred, Removes(w, c),
                        NEW k \in Consumer, refs[k] = c, StoreOf[k] # 0
                 PROVE  k \in task[w].late \/ StoreOf[k] \in task[w].skipped
      OBVIOUS
    <2>1. task[w].pc = "deleteRow" /\ task[w].req.cred = c
      BY DEF Removes, At
    <2>2. task[w].pos = LastStore + 1 /\ PassedStoresClear(task[w])
      BY <1>1, <2>1, IInvTypes DEF Serves, Accounted
    <2>3. StoreOf[k] < LastStore + 1
      BY ConstantFacts DEF LastStore
    <2> QED  BY <2>1, <2>2, <2>3 DEF PassedStoresClear
  <1>2. IInv /\ [Next]_vars => [A]_vars
    BY <1>1
  <1>3. Spec => [][A]_vars
    BY <1>2, AlwaysAccounted, PTL DEF Spec
  <1> QED  BY <1>3 DEF ReferencesGuarded

\* The row of a live connection is deleted only if the connection came alive
\* behind the guard (refuseIfConnected).
THEOREM LiveRowsStay == Spec => ConnectionGuarded
  <1> DEFINE A == \A w \in Worker, c \in Cred :
                     Removes(w, c) /\ rows[c].owner \in LiveListed => task[w].relinked
  <1>1. ASSUME IInv, [Next]_vars PROVE A
    <2> SUFFICES ASSUME NEW w \in Worker, NEW c \in Cred, Removes(w, c),
                        rows[c].owner \in LiveListed
                 PROVE  task[w].relinked
      OBVIOUS
    <2>1. task[w].pc = "deleteRow" /\ task[w].req.cred = c
      BY DEF Removes, At
    <2> QED  BY <1>1, <2>1, IInvTypes DEF Accounted, OwnerNotLive
  <1>2. IInv /\ [Next]_vars => [A]_vars
    BY <1>1
  <1>3. Spec => [][A]_vars
    BY <1>2, AlwaysAccounted, PTL DEF Spec
  <1> QED  BY <1>3 DEF ConnectionGuarded

\* A step that writes the vault and is w's own is one of its four writes or one of
\* the three of its listing's sync.
LEMMA OwnWrite ==
    ASSUME IInv, Next, NEW w \in Worker, NEW c \in Cred, Acts(w), rows'[c] # rows[c]
    PROVE  \/ \E d \in Cred : Insert(w, d)
           \/ WriteColumns(w) \/ WriteActive(w) \/ DeleteRow(w)
           \/ \E i \in Integration : SyncDeactivate(w, i) \/ \E d \in Cred :
                 SyncInsert(w, i, d) \/ SyncReactivate(w, i, d)
  <1> task[w] \in Task
    BY IInvTypes
  <1>1. ASSUME NEW v \in Worker, SyncStep(v)
        PROVE  \E i \in Integration : SyncDeactivate(w, i) \/ \E d \in Cred :
                   SyncInsert(w, i, d) \/ SyncReactivate(w, i, d)
    <2>1. CASE v = w
      BY <1>1, <2>1 DEF SyncStep, SyncReadConnections, SyncReadRows, SyncClash, stores
    <2>2. CASE v # w
      <3>1. ASSUME NEW up, NEW down, SyncWith(v, up, down) PROVE task'[w] = task[w]
        BY <2>2, <3>1 DEF SyncWith, Respond, Become, IInv, TypeOK
      <3>2. task'[w] = task[w] \/ UNCHANGED rows
        BY <1>1, <3>1 DEF SyncStep, SyncReadConnections, SyncReadRows, SyncInsert,
                          SyncReactivate, SyncClash, SyncDeactivate, stores
      <3> QED  BY <3>2 DEF Acts
    <2> QED  BY <2>1, <2>2
  <1>2. ASSUME NEW v \in Worker, WriteStep(v)
        PROVE  \/ \E d \in Cred : Insert(w, d)
               \/ WriteColumns(w) \/ WriteActive(w) \/ DeleteRow(w)
    <2>1. CASE v = w
      BY <1>2, <2>1 DEF WriteStep, Authorize, Load, ConnectionGuard, ReferenceGuard,
                        Validate, Attach, stores
    <2>2. CASE v # w
      <3>1. Respond(v) => ~ Acts(w)
        BY <2>2 DEF Respond, Become, IInv, TypeOK, Acts
      <3>2. WriteColumns(v) => ~ Acts(w)
        <4>1. ASSUME task' = [u \in Worker |->
                        IF u = v THEN IF task[v].req.active = "keep" THEN Idle
                                      ELSE [task[v] EXCEPT !.pc = "toggle"]
                        ELSE [task[u] EXCEPT !.promoted = @ \/ Promoting(u, v, task[v].req.cred)]]
              PROVE  ~ Acts(w)
          BY <2>2, <4>1 DEF Task, Acts
        <4> QED  BY <3>1, <4>1 DEF WriteColumns
      <3> QED  BY <1>2, <3>1, <3>2 DEF WriteStep, Insert, Authorize, Load, WriteActive,
                  ConnectionGuard, ReferenceGuard, DeleteRow, Validate, Attach, stores
    <2> QED  BY <2>1, <2>2
  <1>3. ASSUME NEW v \in Worker, CatalogFault(v) \/ Abort(v) PROVE FALSE
    BY <1>3 DEF CatalogFault, Abort, stores
  <1>4. ASSUME NEW v \in Worker, NEW r \in Requests, StartList(v, r) \/ StartWrite(v, r)
        PROVE  FALSE
    BY <1>4 DEF StartList, StartWrite, stores
  <1>5. CASE Environment
    BY <1>5 DEF Environment, Connect, Disconnect, Detach, Refer
  <1> QED  BY <1>1, <1>2, <1>3, <1>4, <1>5 DEF Next

\* What the sync of w's listing writes mirrors a connection, unless it is the insert
\* of a row, which is an account's.
LEMMA SyncMirrors ==
    ASSUME IInv, NEW w \in Worker, NEW c \in Cred, rows'[c] # rows[c],
           "installation" \in {rows[c].scope, rows'[c].scope},
           NEW i \in Integration,
           SyncDeactivate(w, i) \/ \E d \in Cred : SyncInsert(w, i, d) \/ SyncReactivate(w, i, d)
    PROVE  Mirrors(w, c)
  <1>1. rows \in [Cred -> Row] /\ OwnedByKind
    BY DEF IInv, TypeOK
  <1>2. ASSUME rows[c].owner = i PROVE rows[c].kind = "oauth"
    BY <1>1, <1>2, ConstantFacts DEF OwnedByKind, Row
  <1>3. ASSUME NEW d \in Cred, SyncInsert(w, i, d) PROVE FALSE
    <2>1. d = c /\ rows[c].st = "free" /\ rows'[c].scope = "account"
      BY <1>1, <1>3 DEF SyncInsert
    <2> QED  BY <1>1, <2>1 DEF OwnedByKind
  <1>4. ASSUME NEW d \in Cred, SyncReactivate(w, i, d) PROVE Mirrors(w, c)
    <2>1. d = c /\ OAuthRowOf(i, c) /\ At(w, "syncWrite") /\ i \in task[w].up
          /\ rows'[c] = [rows[c] EXCEPT !.name = CanonName[i], !.active = TRUE]
      BY <1>1, <1>4 DEF SyncReactivate
    <2> QED  BY <1>2, <2>1 DEF Mirrors, OAuthRowOf
  <1>5. ASSUME SyncDeactivate(w, i) PROVE Mirrors(w, c)
    <2>1. OAuthRowOf(i, c) /\ At(w, "syncWrite") /\ i \in task[w].down
          /\ rows'[c] = [rows[c] EXCEPT !.active = FALSE]
      BY <1>5 DEF SyncDeactivate
    <2> QED  BY <1>2, <2>1 DEF Mirrors, OAuthRowOf
  <1> QED  BY <1>3, <1>4, <1>5

\* A request without the installation privilege changes an installation default
\* only if another request promoted it after the authorization
\* (authorizeScopeWrite), or by mirroring a connection in a listing's sync.
THEOREM InstallationDefaultsGuarded == Spec => InstallationScopeGuarded
  <1> DEFINE A == \A w \in Worker, c \in Cred :
          /\ Acts(w) /\ rows'[c] # rows[c]
          /\ "installation" \in {rows[c].scope, rows'[c].scope}
          => task[w].req.priv \/ task[w].promoted \/ Mirrors(w, c)
  <1>1. ASSUME IInv, Next PROVE A
    <2> SUFFICES ASSUME NEW w \in Worker, NEW c \in Cred,
                        Acts(w), rows'[c] # rows[c],
                        "installation" \in {rows[c].scope, rows'[c].scope},
                        ~ task[w].req.priv, ~ task[w].promoted
                 PROVE  Mirrors(w, c)
      OBVIOUS
    <2> DEFINE r == task[w].req
    <2>1. rows \in [Cred -> Row] /\ OwnedByKind
      BY <1>1 DEF IInv, TypeOK
    <2>2. Serves(task[w]) /\ Accounted(task[w])
      BY <1>1, IInvTypes
    <2>3. ASSUME NEW d \in Cred, Insert(w, d) PROVE FALSE
      <3>1. /\ d = c /\ rows[c].st = "free" /\ task[w].pc = "insert"
            /\ rows'[c].scope = NormalizeScope(r.scope)
        BY <2>1, <2>3 DEF Insert, At
      <3>2. rows[c].scope = "account" /\ r.scope # "installation"
        BY <2>1, <2>2, <3>1 DEF OwnedByKind, Serves
      <3> QED  BY <3>1, <3>2 DEF NormalizeScope
    <2>4. ASSUME task[w].pc \in AuthorizedPC
          PROVE  rows[r.cred].scope = "account"
                 /\ (r.op = "update" => r.scope # "installation")
      BY <2>2, <2>4 DEF Accounted, ScopeAuthorized
    <2>5. ASSUME WriteColumns(w) PROVE FALSE
      <3>1. task[w].pc = "write"
            /\ rows' = [rows EXCEPT ![r.cred] = [@ EXCEPT !.name = r.name,
                                                         !.scope = NewScope(r.cred, r)]]
        BY <2>5 DEF WriteColumns, At
      <3>2. c = r.cred /\ rows'[c].scope = NewScope(c, r) /\ task[w].pc = "write"
        BY <2>1, <3>1 DEF Row
      <3>3. rows[c].scope = "account" /\ r.scope # "installation"
        BY <2>2, <2>4, <3>2 DEF Serves, AuthorizedPC
      <3> QED  BY <3>2, <3>3 DEF NewScope
    <2>6. ASSUME WriteActive(w) \/ DeleteRow(w) PROVE FALSE
      <3>1. c = r.cred /\ rows'[c].scope = rows[c].scope /\ task[w].pc \in AuthorizedPC
        BY <2>1, <2>6 DEF WriteActive, DeleteRow, At, AuthorizedPC, DeletePC, Row
      <3> QED  BY <2>4, <3>1
    <2> QED  BY <1>1, <2>3, <2>5, <2>6, OwnWrite, SyncMirrors
  <1>2. IInv /\ [Next]_vars => [A]_vars
    BY <1>1 DEF vars
  <1>3. Spec => [][A]_vars
    BY <1>2, AlwaysAccounted, PTL DEF Spec
  <1> QED  BY <1>3 DEF InstallationScopeGuarded
==============================================================================

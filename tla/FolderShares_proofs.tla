------------------------ MODULE FolderShares_proofs ------------------------
(***************************************************************************)
(* FolderShares keeps its inductive invariant IInv, for every number of    *)
(* workers, folders, shares, users and agents.  The steps come in three    *)
(* kinds: those that write none of the three tables, those that write the  *)
(* shares and those that move agents; the deletion of a folder does both.  *)
(***************************************************************************)
EXTENDS FolderShares, TLAPS

Places == Folder \cup {NoFolder}
Spots == Places \cup {NoAgent}

------------------------------------------------------------------------------
\* Records.

LEMMA IdleIsTask == Idle \in Task
  BY DEF Idle, Task, PC

LEMMA RowTypes == Unborn \in ShareRow /\ Gone \in ShareRow /\ Unborn.st = "free"
                  /\ Gone.st = "gone"
  <1>1. (CHOOSE u \in User : TRUE) \in User
    BY ConstantsAssumption
  <1> QED  BY <1>1 DEF Unborn, Gone, ShareRow, Life

LEMMA RequestFields ==
    ASSUME NEW r \in Requests
    PROVE  /\ r # NoRequest /\ r \in Request
           /\ r.op \in Op /\ r.folder \in Places /\ r.user \in User
           /\ r.share \in Share /\ r.agent \in Agent
  BY ConstantsAssumption DEF Request, Places

\* An overtaken task is still a task.
LEMMA TaskLate == \A t \in Task : [t EXCEPT !.late = TRUE] \in Task
  BY DEF Task

\* What Serving asks of a task besides a request.
Fitting(t) ==
    /\ t.pc = "findFolder" => t.req.op \notin {"create", "revoke", "repair"}
    /\ \/ t.pc \in {"assign", "removeFolder", "readAgent", "writeBack"}
       \/ t.pc = "findFolder" /\ t.req.op \in {"save", "assign"}
       => t.agent \in Agent
    /\ t.agent \in Agent => placed[t.agent] # NoAgent

LEMMA ServingIs ==
    ASSUME NEW w \in Worker
    PROVE  Serving(w) <=> (task[w].pc # "idle" => task[w].req \in Requests) /\ Fitting(task[w])
  BY DEF Serving, Fitting

LEMMA IdleFits == Fitting(Idle) /\ Idle.pc = "idle"
  BY ConstantsAssumption DEF Fitting, Idle

------------------------------------------------------------------------------
\* Steps that write no table: the worker's own task changes, and whatever it has
\* found out by then it has found out now.
LEMMA QuietStep ==
    ASSUME IInv, NEW w \in Worker, NEW t \in Task, Become(w, t),
           t.pc # "idle" => t.req \in Requests,
           Fitting(t),
           ~ t.late /\ t.pc = "insertShare" => Active(t.folder, t.req.user) = {},
           ~ t.late /\ t.pc = "writeBack" => t.folder = placed[t.agent],
           UNCHANGED <<shares, placed, history>>,
           folders' \in [Folder -> Life],
           \A f \in Folder : folders[f] = "stored" => folders'[f] = "stored",
           moves' \in Nat, faults' \in Nat
    PROVE  IInv'
  <1>1. shares' = shares /\ placed' = placed /\ asked' = asked
        /\ restored' = restored /\ excused' = excused
    BY DEF history
  <1>2. task' = [task EXCEPT ![w] = t] /\ task \in [Worker -> Task]
    BY DEF Become, IInv, TypeOK
  <1>3. \A v \in Worker : task'[v] = IF v = w THEN t ELSE task[v]
    BY <1>2
  <1>4. TypeOK'
    BY <1>1, <1>2 DEF IInv, TypeOK
  <1>5. \A f, u : Active(f, u)' = Active(f, u)
    BY <1>1 DEF Active
  <1>6. OneActiveShare'
    BY <1>1, <1>5 DEF IInv, OneActiveShare
  <1>8. StaysAssigned'
    BY <1>1 DEF IInv, StaysAssigned
  <1>9. ASSUME NEW v \in Worker
        PROVE  Timely(v)'
    <2>1. CASE v = w
      <3>1. task'[v] = t
        BY <1>3, <2>1
      <3> QED  BY <1>1, <1>5, <3>1 DEF Timely
    <2>2. CASE v # w
      <3>1. task'[v] = task[v] /\ Timely(v)
        BY <1>3, <2>2 DEF IInv
      <3> QED  BY <1>1, <1>5, <3>1 DEF Timely
    <2> QED  BY <2>1, <2>2
  <1>10. ASSUME NEW v \in Worker
         PROVE  Serving(v)'
    BY <1>1, <1>3 DEF IInv, Serving, Fitting
  <1> QED  BY <1>4, <1>6, <1>8, <1>9, <1>10 DEF IInv

LEMMA ServingStart ==
    ASSUME IInv, NEW w \in Worker, NEW r \in Requests, Start(w, r)
    PROVE  IInv'
  <1> DEFINE t == [Idle EXCEPT !.pc = Entry(r), !.req = r, !.folder = r.folder,
                               !.agent = Subject(r)]
  <1>1. /\ Entry(r) \in PC /\ Entry(r) \notin {"insertShare", "writeBack", "assign"}
        /\ Entry(r) = "findFolder" => r.op \notin {"create", "revoke", "repair"}
        /\ Entry(r) \in {"removeFolder", "readAgent"} => r.op \in {"save", "assign", "repair"}
    BY DEF Entry, PC
  <1>2. /\ Subject(r) \in Agent \cup {NoAgent}
        /\ r.op \in {"save", "assign", "repair"} => Subject(r) \in Agent
        /\ Subject(r) \in Agent => Subject(r) = r.agent /\ placed[r.agent] # NoAgent
    BY RequestFields, ConstantsAssumption DEF Subject, Start
  <1>3. t \in Task /\ t.pc = Entry(r) /\ t.req = r /\ t.agent = Subject(r)
    BY <1>1, <1>2, RequestFields DEF Idle, Task, Places
  <1>4. Become(w, t) /\ moves' \in Nat /\ faults' \in Nat
        /\ UNCHANGED <<folders, shares, placed, history>>
    BY DEF Start, IInv, TypeOK
  <1>5. folders' \in [Folder -> Life]
    BY <1>4 DEF IInv, TypeOK
  <1> HIDE DEF t
  <1>6. Fitting(t)
    BY <1>1, <1>2, <1>3 DEF Fitting
  <1> QED  BY <1>1, <1>3, <1>4, <1>5, <1>6, QuietStep

\* A request that moves on without having written or found out anything.
LEMMA GoesOn ==
    ASSUME IInv, NEW w \in Worker, ~ At(w, "idle"),
           NEW l \in PC \ {"idle", "insertShare", "writeBack", "findFolder"},
           l \in {"assign", "removeFolder", "readAgent"} => task[w].agent \in Agent,
           Goto(w, l), UNCHANGED <<folders, shares, placed, history, bounds>>
    PROVE  IInv'
  <1> DEFINE t == [task[w] EXCEPT !.pc = l]
  <1>1. task[w] \in Task /\ task[w].req \in Requests /\ Fitting(task[w])
    BY ServingIs DEF IInv, TypeOK, At
  <1>2. folders' \in [Folder -> Life] /\ moves' \in Nat /\ faults' \in Nat
        /\ UNCHANGED <<folders, shares, placed, history>>
    BY DEF IInv, TypeOK, bounds
  <1>3. t \in Task /\ t.pc = l /\ t.req = task[w].req /\ t.agent = task[w].agent
    BY <1>1 DEF Task
  <1>4. Become(w, t)
    BY DEF Goto
  <1> HIDE DEF t
  <1>5. Fitting(t)
    BY <1>1, <1>3 DEF Fitting
  <1> QED  BY <1>1, <1>2, <1>3, <1>4, <1>5, QuietStep

\* A request that read the row whose folder it goes on with.
LEMMA TakesOn ==
    ASSUME IInv, NEW w \in Worker, ~ At(w, "idle"), NEW f \in Places,
           NEW l \in {"findFolder", "writeBack"},
           l = "findFolder" => task[w].req.op = "update",
           l = "writeBack" => task[w].agent \in Agent /\ f = placed[task[w].agent],
           Become(w, [task[w] EXCEPT !.pc = l, !.folder = f]),
           UNCHANGED <<folders, shares, placed, history, bounds>>
    PROVE  IInv'
  <1> DEFINE t == [task[w] EXCEPT !.pc = l, !.folder = f]
  <1>1. task[w] \in Task /\ task[w].req \in Requests /\ Fitting(task[w])
    BY ServingIs DEF IInv, TypeOK, At
  <1>2. folders' \in [Folder -> Life] /\ moves' \in Nat /\ faults' \in Nat
        /\ UNCHANGED <<folders, shares, placed, history>>
    BY DEF IInv, TypeOK, bounds
  <1>3. /\ t \in Task /\ t.pc = l /\ t.folder = f
        /\ t.req = task[w].req /\ t.agent = task[w].agent
    BY <1>1 DEF Task, PC, Places
  <1>4. Become(w, t)
    OBVIOUS
  <1> HIDE DEF t
  <1>5. Fitting(t)
    BY <1>1, <1>3 DEF Fitting
  <1> QED  BY <1>1, <1>2, <1>3, <1>4, <1>5, QuietStep

\* A request that answers without having written a table.
LEMMA Answers ==
    ASSUME IInv, NEW w \in Worker, Respond(w), UNCHANGED <<shares, placed, history>>,
           folders' \in [Folder -> Life],
           \A f \in Folder : folders[f] = "stored" => folders'[f] = "stored",
           moves' \in Nat, faults' \in Nat
    PROVE  IInv'
  <1>1. Become(w, Idle)
    BY DEF Respond
  <1> QED  BY <1>1, IdleIsTask, IdleFits, QuietStep

------------------------------------------------------------------------------
\* Steps that write a table: other requests at most turn late, and those that stay timely
\* have found out what still holds.
LEMMA WriteStep ==
    ASSUME IInv, NEW w \in Worker, TypeOK', OneActiveShare', StaysAssigned',
           Timely(w)', Serving(w)',
           \A a \in Agent : placed[a] # NoAgent => placed'[a] # NoAgent,
           \A v \in Worker : v # w =>
               task'[v] = task[v] \/ task'[v] = [task[v] EXCEPT !.late = TRUE],
           \A v \in Worker, f \in Places, u \in User :
               v # w /\ task'[v] = task[v] /\ task[v].pc = "insertShare" /\ ~ task[v].late
               /\ task[v].folder = f /\ task[v].req.user = u
               => Active(f, u)' \subseteq Active(f, u),
           \A v \in Worker, a \in Agent :
               v # w /\ task'[v] = task[v] /\ task[v].pc = "writeBack" /\ ~ task[v].late
               /\ task[v].agent = a
               => placed'[a] = placed[a]
    PROVE  IInv'
  <1>1. ASSUME NEW v \in Worker, v # w
        PROVE  Timely(v)' /\ Serving(v)'
    <2>1. task[v] \in Task /\ Serving(v) /\ Timely(v)
      BY DEF IInv, TypeOK
    <2>2. CASE task'[v] = [task[v] EXCEPT !.late = TRUE]
      <3>1. /\ task'[v].late /\ task'[v].pc = task[v].pc /\ task'[v].req = task[v].req
            /\ task'[v].agent = task[v].agent
        BY <2>1, <2>2 DEF Task
      <3> QED  BY <2>1, <3>1 DEF Timely, Serving
    <2>3. CASE task'[v] = task[v]
      <3>1. Serving(v)'
        BY <2>1, <2>3 DEF Serving
      <3>2. PICK t \in Task : t = task[v]
        BY <2>1
      <3>3. t.folder \in Places
        BY DEF Task, Places
      <3>4. ASSUME ~ t.late, t.pc = "insertShare"
            PROVE  Active(t.folder, t.req.user)' = {}
        <4>1. t.req.user \in User
          BY <2>1, <3>2, <3>4, RequestFields DEF Serving
        <4>2. Active(t.folder, t.req.user)' \subseteq Active(t.folder, t.req.user)
          BY <1>1, <2>3, <3>2, <3>3, <3>4, <4>1
        <4>3. Active(t.folder, t.req.user) = {}
          BY <2>1, <3>2, <3>4 DEF Timely
        <4> QED  BY <4>2, <4>3
      <3>5. ASSUME ~ t.late, t.pc = "writeBack"
            PROVE  t.folder = placed'[t.agent]
        <4>1. t.agent \in Agent
          BY <2>1, <3>2, <3>5 DEF Serving
        <4>2. placed'[t.agent] = placed[t.agent]
          BY <1>1, <2>3, <3>2, <3>5, <4>1
        <4>3. t.folder = placed[t.agent]
          BY <2>1, <3>2, <3>5 DEF Timely
        <4> QED  BY <4>2, <4>3
      <3>6. task'[v] = t
        BY <2>3, <3>2
      <3>7. Timely(v)'
        <4>1. ~ t.late => /\ t.pc = "insertShare" => Active(t.folder, t.req.user)' = {}
                          /\ t.pc = "writeBack" => t.folder = placed'[t.agent]
          BY <3>4, <3>5
        <4> QED  BY <3>6, <4>1 DEF Timely, Active
      <3> QED  BY <3>1, <3>7
    <2> QED  BY <1>1, <2>2, <2>3
  <1> QED  BY <1>1 DEF IInv

\* A worker that has answered is timely and serves no one.
LEMMA IdleKeeps ==
    ASSUME NEW w \in Worker, task'[w] = Idle
    PROVE  Timely(w)' /\ Serving(w)'
  <1>1. Idle.pc = "idle" /\ Idle.agent \notin Agent
    BY ConstantsAssumption DEF Idle
  <1> QED  BY <1>1 DEF Timely, Serving

\* Going on and marking the overtaken requests keeps every task a task.
LEMMA MarkedTasks ==
    ASSUME TypeOK, NEW w \in Worker, NEW f, NEW u, NEW t \in Task,
           (RespondSharing(w, f, u) /\ t = Idle) \/ MoveOn(w, t) \/ (Respond(w) /\ t = Idle)
    PROVE  /\ task' \in [Worker -> Task] /\ task'[w] = t
           /\ \A v \in Worker : v # w =>
                 task'[v] = task[v] \/ task'[v] = [task[v] EXCEPT !.late = TRUE]
  <1>1. \A v \in Worker : task[v] \in Task /\ [task[v] EXCEPT !.late = TRUE] \in Task
    BY TaskLate DEF TypeOK
  <1>2. CASE RespondSharing(w, f, u) /\ t = Idle
    BY <1>1, <1>2, IdleIsTask DEF RespondSharing
  <1>3. CASE MoveOn(w, t)
    BY <1>1, <1>3 DEF MoveOn
  <1>4. CASE Respond(w) /\ t = Idle
    BY <1>1, <1>4, IdleIsTask DEF Respond, Become, TypeOK
  <1> QED  BY <1>2, <1>3, <1>4

------------------------------------------------------------------------------
\* The actions that write no table.
LEMMA InsertFolderKeeps ==
    ASSUME IInv, NEW w \in Worker, InsertFolder(w)
    PROVE  IInv'
  <1>1. PICK f \in Folder : folders[f] = "free"
                            /\ folders' = [folders EXCEPT ![f] = "stored"]
    BY DEF InsertFolder
  <1>2. folders \in [Folder -> Life]
    BY DEF IInv, TypeOK
  <1>3. folders' \in [Folder -> Life] /\ (\A g \in Folder : folders[g] = "stored"
                                              => folders'[g] = "stored")
    BY <1>1, <1>2 DEF Life
  <1>4. Respond(w) /\ UNCHANGED <<shares, placed, history>> /\ moves' \in Nat /\ faults' \in Nat
    BY DEF InsertFolder, bounds, IInv, TypeOK
  <1> QED  BY <1>3, <1>4, Answers

\* A request that is refused: it answers and nothing else changes.
LEMMA Refused ==
    ASSUME IInv, NEW w \in Worker, Respond(w),
           UNCHANGED <<folders, shares, placed, history, bounds>>
    PROVE  IInv'
  <1>1. folders' \in [Folder -> Life] /\ moves' \in Nat /\ faults' \in Nat
        /\ UNCHANGED <<folders, shares, placed, history>>
    BY DEF bounds, IInv, TypeOK
  <1> QED  BY <1>1, Answers

LEMMA FindFolderKeeps ==
    ASSUME IInv, NEW w \in Worker, FindFolder(w)
    PROVE  IInv'
  <1>1. UNCHANGED <<folders, shares, placed, history, bounds>> /\ ~ At(w, "idle")
    BY DEF FindFolder, At
  <1>2. CASE Respond(w)
    BY <1>1, <1>2, Refused
  <1>3. CASE Goto(w, After(task[w].req.op))
    <2>1. /\ task[w].req \in Requests /\ task[w].req.op \notin {"create", "revoke", "repair"}
          /\ task[w].req.op \in {"save", "assign"} => task[w].agent \in Agent
      BY DEF IInv, Serving, FindFolder, At
    <2>2. task[w].req.op \in {"delete", "share", "update", "createAgent", "save", "assign"}
      BY <2>1, RequestFields DEF Op
    <2>3. PICK l : l = After(task[w].req.op)
      OBVIOUS
    <2>4. /\ l \in PC \ {"idle", "insertShare", "writeBack", "findFolder"}
          /\ l \in {"assign", "removeFolder", "readAgent"} => task[w].agent \in Agent
      BY <2>1, <2>2, <2>3 DEF After, PC
    <2>5. Goto(w, l)
      BY <1>3, <2>3
    <2> QED  BY <1>1, <2>4, <2>5, GoesOn
  <1> QED  BY <1>2, <1>3 DEF FindFolder

LEMMA LookupKeeps ==
    ASSUME IInv, NEW w \in Worker, Lookup(w)
    PROVE  IInv'
  <1>1. UNCHANGED <<folders, shares, placed, history, bounds>>
    BY DEF Lookup
  <1>2. CASE Respond(w)
    BY <1>1, <1>2, Refused
  <1>3. CASE Goto(w, "insertShare") /\ ~ AlreadyShared(w)
    <2> DEFINE t == [task[w] EXCEPT !.pc = "insertShare"]
    <2>1. task[w] \in Task /\ task[w].req \in Requests /\ Fitting(task[w])
      BY ServingIs DEF IInv, TypeOK, Lookup, At
    <2>2. /\ t \in Task /\ t.pc = "insertShare" /\ t.folder = task[w].folder
          /\ t.req = task[w].req /\ t.agent = task[w].agent
      BY <2>1 DEF Task, PC
    <2>3. Become(w, t)
      BY <1>3 DEF Goto
    <2>4. Active(t.folder, t.req.user) = {}
      BY <1>3, <2>2 DEF AlreadyShared
    <2>5. folders' \in [Folder -> Life] /\ moves' \in Nat /\ faults' \in Nat
          /\ UNCHANGED <<folders, shares, placed, history>>
      BY <1>1 DEF IInv, TypeOK, bounds
    <2> HIDE DEF t
    <2>6. Fitting(t)
      BY <2>1, <2>2 DEF Fitting
    <2> QED  BY <2>1, <2>2, <2>3, <2>4, <2>5, <2>6, QuietStep
  <1> QED  BY <1>2, <1>3 DEF Lookup

LEMMA FindShareKeeps ==
    ASSUME IInv, NEW w \in Worker, FindShare(w)
    PROVE  IInv'
  <1>1. UNCHANGED <<folders, shares, placed, history, bounds>> /\ ~ At(w, "idle")
    BY DEF FindShare, At
  <1>2. CASE Respond(w)
    BY <1>1, <1>2, Refused
  <1>3. ASSUME task[w].req.op = "update", NEW f \in Places,
               Become(w, [task[w] EXCEPT !.pc = "findFolder", !.folder = f])
        PROVE  IInv'
    BY <1>1, <1>3, TakesOn
  <1>4. CASE Goto(w, "revokeShare")
    <2>1. /\ "revokeShare" \in PC \ {"idle", "insertShare", "writeBack", "findFolder"}
          /\ "revokeShare" \notin {"assign", "removeFolder", "readAgent"}
      BY DEF PC
    <2> QED  BY <1>1, <1>4, <2>1, GoesOn
  <1>5. task[w].req \in Requests
    BY DEF IInv, Serving, FindShare, At
  <1>6. shares[task[w].req.share].folder \in Places
    BY <1>5, RequestFields DEF IInv, TypeOK, ShareRow, Places
  <1> QED  BY <1>2, <1>3, <1>4, <1>6 DEF FindShare

LEMMA ReadAgentKeeps ==
    ASSUME IInv, NEW w \in Worker, ReadAgent(w)
    PROVE  IInv'
  <1>1. UNCHANGED <<folders, shares, placed, history, bounds>> /\ ~ At(w, "idle")
    BY DEF ReadAgent, At
  <1>2. task[w].agent \in Agent /\ placed[task[w].agent] # NoAgent
    BY DEF IInv, Serving, ReadAgent, At
  <1>3. PICK f \in Places : f = placed[task[w].agent]
    BY <1>2 DEF IInv, TypeOK, Places
  <1>4. CASE Respond(w)
    BY <1>1, <1>4, Refused
  <1>5. CASE Become(w, [task[w] EXCEPT !.pc = "writeBack", !.folder = f])
    BY <1>1, <1>2, <1>3, <1>5, TakesOn
  <1> QED  BY <1>3, <1>4, <1>5 DEF ReadAgent

LEMMA FailKeeps ==
    ASSUME IInv, NEW w \in Worker, Fail(w)
    PROVE  IInv'
  <1>1. folders' \in [Folder -> Life] /\ moves' \in Nat /\ faults' \in Nat
        /\ UNCHANGED <<folders, shares, placed, history>> /\ ~ At(w, "idle")
    BY DEF Fail, IInv, TypeOK, At
  <1>2. CASE Respond(w)
    BY <1>1, <1>2, Answers
  <1>3. CASE Become(w, [task[w] EXCEPT !.pc = "insertShare", !.late = TRUE])
    <2> DEFINE t == [task[w] EXCEPT !.pc = "insertShare", !.late = TRUE]
    <2>1. task[w] \in Task /\ task[w].req \in Requests /\ Fitting(task[w])
      BY <1>1, ServingIs DEF IInv, TypeOK, At
    <2>2. /\ t \in Task /\ t.pc = "insertShare" /\ t.late
          /\ t.req = task[w].req /\ t.agent = task[w].agent
      BY <2>1 DEF Task, PC
    <2>3. Become(w, t)
      BY <1>3
    <2> HIDE DEF t
    <2>4. Fitting(t)
      BY <2>1, <2>2 DEF Fitting
    <2> QED  BY <1>1, <2>1, <2>2, <2>3, <2>4, QuietStep
  <1> QED  BY <1>2, <1>3 DEF Fail

------------------------------------------------------------------------------
\* The actions that write shares.

\* A step that shares f with u turns the requests that found it unshared late.
LEMMA Overtaken ==
    ASSUME TypeOK, NEW w \in Worker, NEW f, NEW u, RespondSharing(w, f, u),
           NEW v \in Worker, v # w, task'[v] = task[v],
           task[v].pc = "insertShare", ~ task[v].late
    PROVE  task[v].folder # f \/ task[v].req.user # u
  <1>1. SUFFICES ASSUME task[v].folder = f, task[v].req.user = u
                 PROVE  FALSE
    OBVIOUS
  <1>2. task'[v] = [task[v] EXCEPT !.late = TRUE] /\ task[v] \in Task
    BY <1>1 DEF RespondSharing, At, TypeOK
  <1>3. task'[v].late
    BY <1>2 DEF Task
  <1> QED  BY <1>3

LEMMA InsertShareKeeps ==
    ASSUME IInv, NEW w \in Worker, InsertShare(w)
    PROVE  IInv'
  <1>1. PICK f, u : f = task[w].folder /\ u = task[w].req.user
    OBVIOUS
  <1>2. CASE ~ Stored(f)
    <2>1. Respond(w) /\ UNCHANGED <<folders, shares, placed, history, bounds>>
      BY <1>1, <1>2 DEF InsertShare, history
    <2> QED  BY <2>1, Refused
  <1>3. CASE Stored(f)
    <2>1. PICK s \in Share :
             /\ shares[s].st = "free"
             /\ shares' = [shares EXCEPT ![s] =
                   [st |-> "stored", folder |-> f, user |-> u, active |-> TRUE]]
      BY <1>1, <1>3 DEF InsertShare
    <2>2. /\ RespondSharing(w, f, u)
          /\ excused' = IF task[w].late THEN excused \cup {<<f, u>>} ELSE excused
          /\ folders' = folders /\ placed' = placed /\ asked' = asked /\ restored' = restored
          /\ moves' = moves /\ faults' = faults
      BY <1>1, <1>3 DEF InsertShare, bounds
    <2>3. f \in Folder /\ u \in User /\ TypeOK
      BY <1>1, <1>3, RequestFields DEF Stored, IInv, Serving, InsertShare, At
    <2>4. DEFINE row == [st |-> "stored", folder |-> f, user |-> u, active |-> TRUE]
    <2>5. row \in ShareRow
      BY <2>3 DEF ShareRow, Life
    <2>6. shares' \in [Share -> ShareRow] /\ shares'[s] = row
          /\ \A t \in Share : t # s => shares'[t] = shares[t]
      BY <2>1, <2>3, <2>5 DEF TypeOK
    <2>7. \A g, x : Active(g, x)' \subseteq Active(g, x) \cup {s}
      BY <2>6 DEF Active
    <2>8. \A g, x : <<g, x>> # <<f, u>> => Active(g, x)' = Active(g, x)
      BY <2>1, <2>6 DEF Active
    <2>9. <<f, u>> \notin excused' => Active(f, u) = {}
      BY <1>1, <2>2 DEF IInv, Timely, InsertShare, At
    <2>10. TypeOK'
      BY <2>2, <2>3, <2>5, <2>6, IdleIsTask, MarkedTasks DEF TypeOK
    <2>11. OneActiveShare'
      <3>1. ASSUME NEW g \in Folder, NEW x \in User, <<g, x>> \notin excused'
            PROVE  \A t1, t2 \in Active(g, x)' : t1 = t2
        <4>1. CASE <<g, x>> = <<f, u>>
          BY <2>7, <2>9, <3>1, <4>1
        <4>2. CASE <<g, x>> # <<f, u>>
          BY <2>2, <2>8, <3>1, <4>2 DEF IInv, OneActiveShare
        <4> QED  BY <4>1, <4>2
      <3> QED  BY <3>1 DEF OneActiveShare
    <2>13. StaysAssigned'
      BY <2>2 DEF IInv, StaysAssigned
    <2>14. \A v \in Worker : v # w /\ task'[v] = task[v] /\ task[v].pc = "insertShare"
                             /\ ~ task[v].late
                             => task[v].folder # f \/ task[v].req.user # u
      BY <2>2, <2>3, Overtaken
    <2>15. \A v \in Worker, g \in Places, x \in User :
               v # w /\ task'[v] = task[v] /\ task[v].pc = "insertShare" /\ ~ task[v].late
               /\ task[v].folder = g /\ task[v].req.user = x
               => Active(g, x)' \subseteq Active(g, x)
      BY <2>8, <2>14
    <2>16. /\ task'[w] = Idle
           /\ \A v \in Worker : v # w =>
                  task'[v] = task[v] \/ task'[v] = [task[v] EXCEPT !.late = TRUE]
      BY <2>2, <2>3, IdleIsTask, MarkedTasks
    <2> QED  BY <2>2, <2>10, <2>11, <2>13, <2>15, <2>16, IdleKeeps, WriteStep
  <1> QED  BY <1>2, <1>3

LEMMA UpdateShareKeeps ==
    ASSUME IInv, NEW w \in Worker, UpdateShare(w)
    PROVE  IInv'
  <1>1. PICK s : s = task[w].req.share
    OBVIOUS
  <1>2. s \in Share /\ TypeOK
    BY <1>1, RequestFields DEF IInv, Serving, UpdateShare, At
  <1>3. PICK f, u : f = shares[s].folder /\ u = shares[s].user
    OBVIOUS
  <1>4. CASE Respond(w) /\ UNCHANGED <<shares, excused>>
    <2>1. UNCHANGED <<folders, shares, placed, history, bounds>>
      BY <1>4 DEF UpdateShare, history
    <2> QED  BY <1>4, <2>1, Refused
  <1>5. CASE shares[s].st = "stored" /\ ~ shares[s].active /\ shares' = [shares EXCEPT ![s].active = TRUE]
             /\ excused' = (IF Active(f, u) = {} THEN excused ELSE excused \cup {<<f, u>>})
             /\ RespondSharing(w, f, u)
    <2>1. folders' = folders /\ placed' = placed /\ asked' = asked /\ restored' = restored
          /\ moves' = moves /\ faults' = faults
      BY DEF UpdateShare, bounds
    <2>2. f \in Folder /\ u \in User
      BY <1>2, <1>3, <1>5 DEF TypeOK, ShareRow
    <2>3. shares[s] \in ShareRow
      BY <1>2 DEF TypeOK
    <2>4. PICK row : row = [shares[s] EXCEPT !.active = TRUE]
      OBVIOUS
    <2>5. row \in ShareRow /\ row.st = "stored" /\ row.folder = f /\ row.user = u
      BY <1>3, <1>5, <2>3, <2>4 DEF ShareRow
    <2>6. shares' \in [Share -> ShareRow] /\ shares'[s] = row
          /\ \A t \in Share : t # s => shares'[t] = shares[t]
      BY <1>2, <1>5, <2>4, <2>5 DEF TypeOK
    <2>7. \A g, x : Active(g, x)' \subseteq Active(g, x) \cup {s}
      BY <2>6 DEF Active
    <2>8. \A g, x : <<g, x>> # <<f, u>> => Active(g, x)' = Active(g, x)
      BY <1>3, <2>5, <2>6 DEF Active
    <2>9. TypeOK'
      BY <1>2, <1>5, <2>1, <2>2, <2>5, <2>6, IdleIsTask, MarkedTasks DEF TypeOK
    <2>10. OneActiveShare'
      <3>1. ASSUME NEW g \in Folder, NEW x \in User, <<g, x>> \notin excused'
            PROVE  \A t1, t2 \in Active(g, x)' : t1 = t2
        <4>1. CASE <<g, x>> = <<f, u>>
          BY <1>5, <2>7, <3>1, <4>1
        <4>2. CASE <<g, x>> # <<f, u>>
          BY <1>5, <2>8, <3>1, <4>2 DEF IInv, OneActiveShare
        <4> QED  BY <4>1, <4>2
      <3> QED  BY <3>1 DEF OneActiveShare
    <2>12. StaysAssigned'
      BY <2>1 DEF IInv, StaysAssigned
    <2>13. \A v \in Worker : v # w /\ task'[v] = task[v] /\ task[v].pc = "insertShare"
                             /\ ~ task[v].late
                             => task[v].folder # f \/ task[v].req.user # u
      BY <1>2, <1>5, Overtaken
    <2>14. \A v \in Worker, g \in Places, x \in User :
               v # w /\ task'[v] = task[v] /\ task[v].pc = "insertShare" /\ ~ task[v].late
               /\ task[v].folder = g /\ task[v].req.user = x
               => Active(g, x)' \subseteq Active(g, x)
      BY <2>8, <2>13
    <2>15. /\ task'[w] = Idle
           /\ \A v \in Worker : v # w =>
                  task'[v] = task[v] \/ task'[v] = [task[v] EXCEPT !.late = TRUE]
      BY <1>2, <1>5, IdleIsTask, MarkedTasks
    <2> QED  BY <2>1, <2>9, <2>10, <2>12, <2>14, <2>15, IdleKeeps, WriteStep
  <1> QED  BY <1>1, <1>3, <1>4, <1>5 DEF UpdateShare

LEMMA RevokeShareKeeps ==
    ASSUME IInv, NEW w \in Worker, RevokeShare(w)
    PROVE  IInv'
  <1>1. PICK s : s = task[w].req.share
    OBVIOUS
  <1>2. s \in Share /\ TypeOK
    BY <1>1, RequestFields DEF IInv, Serving, RevokeShare, At
  <1>3. /\ shares' = IF shares[s].st = "stored" THEN [shares EXCEPT ![s].active = FALSE] ELSE shares
        /\ Respond(w) /\ UNCHANGED <<folders, placed, asked, restored, excused, moves, faults>>
    BY <1>1 DEF RevokeShare, history, bounds
  <1>4. shares[s] \in ShareRow
    BY <1>2 DEF TypeOK
  <1>5. PICK row : row = [shares[s] EXCEPT !.active = FALSE]
    OBVIOUS
  <1>6. row \in ShareRow /\ row.st = shares[s].st /\ row.folder = shares[s].folder /\ ~ row.active
    BY <1>4, <1>5 DEF ShareRow
  <1>7. shares' \in [Share -> ShareRow] /\ shares'[s] \in {row, shares[s]}
        /\ \A t \in Share : t # s => shares'[t] = shares[t]
    BY <1>2, <1>3, <1>5, <1>6 DEF TypeOK
  <1>8. \A f, u : Active(f, u)' \subseteq Active(f, u)
    BY <1>6, <1>7 DEF Active
  <1>9. TypeOK'
    BY <1>2, <1>3, <1>6, <1>7, IdleIsTask, MarkedTasks DEF TypeOK
  <1>10. OneActiveShare'
    BY <1>3, <1>8 DEF IInv, OneActiveShare
  <1>12. StaysAssigned'
    BY <1>3 DEF IInv, StaysAssigned
  <1>13. /\ task'[w] = Idle
         /\ \A v \in Worker : v # w =>
                task'[v] = task[v] \/ task'[v] = [task[v] EXCEPT !.late = TRUE]
    BY <1>2, <1>3, IdleIsTask, MarkedTasks
  <1> QED  BY <1>3, <1>8, <1>9, <1>10, <1>12, <1>13, IdleKeeps, WriteStep

------------------------------------------------------------------------------
\* The actions that move agents.

\* A step that moves an agent turns those that hold a copy of it late.
LEMMA Outrun ==
    ASSUME TypeOK, NEW w \in Worker, NEW t, MoveOn(w, t),
           NEW v \in Worker, v # w, task'[v] = task[v],
           task[v].pc = "writeBack", ~ task[v].late
    PROVE  placed'[task[v].agent] = placed[task[v].agent]
  <1>1. SUFFICES ASSUME placed'[task[v].agent] # placed[task[v].agent]
                 PROVE  FALSE
    OBVIOUS
  <1>2. task'[v] = [task[v] EXCEPT !.late = TRUE] /\ task[v] \in Task
    BY <1>1 DEF MoveOn, At, TypeOK
  <1>3. task'[v].late
    BY <1>2 DEF Task
  <1> QED  BY <1>3

\* An agent a is put into f, or out of its folder, and w goes on as t.
LEMMA MoveStep ==
    ASSUME IInv, NEW w \in Worker, NEW a \in Agent, NEW f \in Places, NEW t \in Task,
           placed' = [placed EXCEPT ![a] = f],
           MoveOn(w, t),
           t.pc \in {"idle", "readAgent", "writeBack"},
           t.pc # "idle" => t.req \in Requests /\ t.agent = a,
           t.pc = "idle" => t.agent = NoAgent,
           t.pc = "writeBack" => t.folder = f,
           UNCHANGED <<folders, shares, excused, bounds>>,
           asked' \in [Agent -> Spots], restored' \subseteq Agent,
           StaysAssigned'
    PROVE  IInv'
  <1>1. folders' = folders /\ shares' = shares /\ excused' = excused
        /\ moves' = moves /\ faults' = faults /\ TypeOK
    BY DEF bounds, IInv
  <1>2. placed' \in [Agent -> Spots] /\ \A b \in Agent : placed'[b] = IF b = a THEN f ELSE placed[b]
    BY <1>1 DEF TypeOK, Places, Spots
  <1>3. f # NoAgent
    BY ConstantsAssumption DEF Places
  <1>4. /\ task' \in [Worker -> Task] /\ task'[w] = t
        /\ \A v \in Worker : v # w =>
               task'[v] = task[v] \/ task'[v] = [task[v] EXCEPT !.late = TRUE]
    BY <1>1, TaskLate DEF MoveOn, TypeOK
  <1>5. TypeOK'
    BY <1>1, <1>2, <1>4 DEF TypeOK, Places, Spots
  <1>6. \A g, u : Active(g, u)' = Active(g, u)
    BY <1>1 DEF Active
  <1>7. OneActiveShare'
    BY <1>1, <1>6 DEF IInv, OneActiveShare
  <1>8. Timely(w)'
    BY <1>2, <1>4 DEF Timely
  <1>9. Serving(w)'
    BY <1>2, <1>3, <1>4, ConstantsAssumption DEF Serving
  <1>10. \A b \in Agent : placed[b] # NoAgent => placed'[b] # NoAgent
    BY <1>2, <1>3
  <1>11. \A v \in Worker, b \in Agent :
            v # w /\ task'[v] = task[v] /\ task[v].pc = "writeBack" /\ ~ task[v].late
            /\ task[v].agent = b
            => placed'[b] = placed[b]
    BY <1>1, Outrun
  <1> QED  BY <1>4, <1>5, <1>6, <1>7, <1>8, <1>9, <1>10, <1>11, WriteStep

\* The tasks of a worker that has answered, and of one that reads or writes a again.
LEMMA Onward ==
    ASSUME IInv, NEW w \in Worker, ~ At(w, "idle"), NEW a \in Agent,
           NEW l \in {"readAgent", "writeBack"}
    PROVE  LET t == [task[w] EXCEPT !.pc = l, !.agent = a] IN
           /\ t \in Task /\ t.pc = l /\ t.agent = a /\ t.folder = task[w].folder
           /\ t.req \in Requests
  <1>1. task[w] \in Task /\ task[w].req \in Requests
    BY DEF IInv, TypeOK, Serving, At
  <1> QED  BY <1>1 DEF Task, PC

LEMMA IdleMoves == Idle.pc = "idle" /\ Idle.agent = NoAgent
  BY DEF Idle

LEMMA InsertAgentKeeps ==
    ASSUME IInv, NEW w \in Worker, InsertAgent(w)
    PROVE  IInv'
  <1>1. PICK f : f = task[w].folder
    OBVIOUS
  <1>2. f \in Places /\ TypeOK /\ StaysAssigned /\ ~ At(w, "idle")
    BY <1>1 DEF IInv, TypeOK, Task, Places, InsertAgent, At
  <1>3. CASE Respond(w) /\ UNCHANGED <<placed, asked>>
    <2>1. UNCHANGED <<folders, shares, placed, history, bounds>>
      BY <1>3 DEF InsertAgent, history
    <2> QED  BY <1>3, <2>1, Refused
  <1>4. ASSUME NEW a \in Agent,
               placed' = [placed EXCEPT ![a] = f], asked' = [asked EXCEPT ![a] = f],
               \/ MoveOn(w, Idle)
               \/ MoveOn(w, [task[w] EXCEPT !.pc = "writeBack", !.agent = a])
        PROVE  IInv'
    <2>1. UNCHANGED <<folders, shares, excused, bounds>> /\ restored' = restored
      BY DEF InsertAgent
    <2>2. asked' \in [Agent -> Spots] /\ restored' \subseteq Agent
      BY <1>2, <1>4, <2>1 DEF TypeOK, Places, Spots
    <2>3. StaysAssigned'
      BY <1>2, <1>4, <2>1 DEF TypeOK, StaysAssigned
    <2>4. CASE MoveOn(w, Idle)
      BY <1>2, <1>4, <2>1, <2>2, <2>3, <2>4, IdleIsTask, IdleMoves, MoveStep
    <2>5. CASE MoveOn(w, [task[w] EXCEPT !.pc = "writeBack", !.agent = a])
      <3>1. PICK t : t = [task[w] EXCEPT !.pc = "writeBack", !.agent = a]
        OBVIOUS
      <3>2. /\ t \in Task /\ t.pc = "writeBack" /\ t.agent = a /\ t.folder = f
            /\ t.req \in Requests /\ MoveOn(w, t)
        BY <1>1, <1>2, <2>5, <3>1, Onward
      <3> QED  BY <1>2, <1>4, <2>1, <2>2, <2>3, <3>2, MoveStep
    <2> QED  BY <1>4, <2>4, <2>5
  <1> QED  BY <1>1, <1>3, <1>4 DEF InsertAgent

LEMMA AssignKeeps ==
    ASSUME IInv, NEW w \in Worker, Assign(w)
    PROVE  IInv'
  <1>1. PICK a, f : a = task[w].agent /\ f = task[w].folder
    OBVIOUS
  <1>2. a \in Agent /\ TypeOK /\ StaysAssigned /\ ~ At(w, "idle")
    BY <1>1 DEF IInv, Serving, Assign, At
  <1>3. CASE ~ Stored(f)
    <2>1. Respond(w) /\ UNCHANGED <<folders, shares, placed, history, bounds>>
      BY <1>1, <1>3 DEF Assign, history
    <2> QED  BY <2>1, Refused
  <1>4. CASE Stored(f)
    <2>1. /\ placed' = [placed EXCEPT ![a] = f] /\ asked' = [asked EXCEPT ![a] = f]
          /\ restored' = restored \ {a}
          /\ UNCHANGED <<folders, shares, excused, bounds>>
      BY <1>1, <1>4 DEF Assign
    <2>2. f \in Places
      BY <1>4 DEF Stored, Places
    <2>3. asked' \in [Agent -> Spots] /\ restored' \subseteq Agent
      BY <1>2, <2>1, <2>2 DEF TypeOK, Places, Spots
    <2>4. StaysAssigned'
      BY <1>2, <2>1 DEF TypeOK, StaysAssigned
    <2>5. CASE MoveOn(w, Idle)
      BY <1>2, <2>1, <2>2, <2>3, <2>4, <2>5, IdleIsTask, IdleMoves, MoveStep
    <2>6. CASE MoveOn(w, [task[w] EXCEPT !.pc = "readAgent"])
      <3>1. PICK t : t = [task[w] EXCEPT !.pc = "readAgent"]
        OBVIOUS
      <3>2. task[w] \in Task
        BY DEF IInv, TypeOK
      <3>3. /\ t \in Task /\ t.pc = "readAgent" /\ t.agent = a /\ t.req \in Requests
            /\ MoveOn(w, t)
        BY <1>1, <1>2, <2>6, <3>1, <3>2 DEF IInv, Serving, At, Task, PC
      <3> QED  BY <1>2, <2>1, <2>2, <2>3, <2>4, <3>3, MoveStep
    <2> QED  BY <1>1, <1>4, <2>5, <2>6 DEF Assign
  <1> QED  BY <1>3, <1>4

LEMMA RemoveFolderKeeps ==
    ASSUME IInv, NEW w \in Worker, RemoveFolder(w)
    PROVE  IInv'
  <1>1. PICK a : a = task[w].agent
    OBVIOUS
  <1>2. a \in Agent /\ TypeOK /\ StaysAssigned
    BY <1>1 DEF IInv, Serving, RemoveFolder, At
  <1>3. /\ placed' = [placed EXCEPT ![a] = NoFolder] /\ asked' = [asked EXCEPT ![a] = NoFolder]
        /\ restored' = restored \ {a} /\ MoveOn(w, Idle)
        /\ UNCHANGED <<folders, shares, excused, bounds>>
    BY <1>1 DEF RemoveFolder, WithoutFolder
  <1>4. NoFolder \in Places
    BY DEF Places
  <1>5. asked' \in [Agent -> Spots] /\ restored' \subseteq Agent
    BY <1>2, <1>3, <1>4 DEF TypeOK, Places, Spots
  <1>6. StaysAssigned'
    BY <1>2, <1>3 DEF TypeOK, StaysAssigned
  <1> QED  BY <1>2, <1>3, <1>4, <1>5, <1>6, IdleIsTask, IdleMoves, MoveStep

\* A copy that nothing overtook holds the folder the agent is in already.
LEMMA WriteBackKeeps ==
    ASSUME IInv, NEW w \in Worker, WriteBack(w)
    PROVE  IInv'
  <1>1. PICK a, f : a = task[w].agent /\ f = task[w].folder
    OBVIOUS
  <1>2. a \in Agent /\ TypeOK /\ StaysAssigned
    BY <1>1 DEF IInv, Serving, WriteBack, At
  <1>3. CASE ~ Stored(f)
    <2>1. Respond(w) /\ UNCHANGED <<folders, shares, placed, history, bounds>>
      BY <1>1, <1>3 DEF WriteBack, history
    <2> QED  BY <2>1, Refused
  <1>4. CASE Stored(f)
    <2>1. /\ placed' = [placed EXCEPT ![a] = f] /\ asked' = asked
          /\ restored' = (IF task[w].late THEN restored \cup {a} ELSE restored)
          /\ MoveOn(w, Idle)
          /\ UNCHANGED <<folders, shares, excused, bounds>>
      BY <1>1, <1>4 DEF WriteBack
    <2>2. f \in Places
      BY <1>4 DEF Stored, Places
    <2>3. asked' \in [Agent -> Spots] /\ restored' \subseteq Agent
      BY <1>2, <2>1 DEF TypeOK, Places, Spots
    <2>4. ~ task[w].late => f = placed[a]
      BY <1>1 DEF IInv, Timely, WriteBack, At
    <2>5. StaysAssigned'
      BY <1>2, <2>1, <2>4 DEF TypeOK, StaysAssigned
    <2> QED  BY <1>2, <2>1, <2>2, <2>3, <2>5, IdleIsTask, IdleMoves, MoveStep
  <1> QED  BY <1>3, <1>4

\* A folder goes with its shares, and its agents stay without one.
LEMMA DeleteFolderKeeps ==
    ASSUME IInv, NEW w \in Worker, DeleteFolder(w)
    PROVE  IInv'
  <1>1. PICK d : d = task[w].folder
    OBVIOUS
  <1>2. TypeOK /\ StaysAssigned /\ OneActiveShare /\ d \in Places
    BY <1>1 DEF IInv, TypeOK, Task, Places
  <1>3. /\ folders' = [folders EXCEPT ![d] = "gone"]
        /\ shares' = [s \in Share |-> IF shares[s].folder = d THEN Gone ELSE shares[s]]
        /\ placed' = [a \in Agent |-> IF placed[a] = d THEN NoFolder ELSE placed[a]]
        /\ asked' = [a \in Agent |-> IF asked[a] = d THEN NoFolder ELSE asked[a]]
        /\ MoveOn(w, Idle)
        /\ restored' = restored /\ excused' = excused /\ moves' = moves /\ faults' = faults
    BY <1>1 DEF DeleteFolder, CascadeShares, ClearPlaces, bounds
  <1>4. TypeOK'
    <2>1. folders' \in [Folder -> Life]
      BY <1>2, <1>3 DEF TypeOK, Life
    <2>2. shares' \in [Share -> ShareRow]
      BY <1>2, <1>3, RowTypes DEF TypeOK
    <2>3. /\ placed' \in [Agent -> Folder \cup {NoFolder, NoAgent}]
          /\ asked' \in [Agent -> Folder \cup {NoFolder, NoAgent}]
      BY <1>2, <1>3 DEF TypeOK
    <2>4. task' \in [Worker -> Task]
      BY <1>2, <1>3, IdleIsTask, MarkedTasks
    <2>5. \A s \in Share : shares'[s].st = "stored" => shares'[s].folder \in Folder
      BY <1>2, <1>3, RowTypes DEF TypeOK
    <2> QED  BY <1>2, <1>3, <2>1, <2>2, <2>3, <2>4, <2>5 DEF TypeOK
  <1>5. \A f, u : Active(f, u)' \subseteq Active(f, u)
    BY <1>3, RowTypes DEF Active
  <1>6. OneActiveShare'
    BY <1>2, <1>3, <1>5 DEF OneActiveShare
  <1>7. \A b \in Agent : placed[b] # NoAgent => placed'[b] # NoAgent
    BY <1>3, ConstantsAssumption
  <1>8. StaysAssigned'
    BY <1>2, <1>3 DEF StaysAssigned
  <1>9. \A v \in Worker, b \in Agent :
            v # w /\ task'[v] = task[v] /\ task[v].pc = "writeBack" /\ ~ task[v].late
            /\ task[v].agent = b
            => placed'[b] = placed[b]
    BY <1>2, <1>3, Outrun
  <1>10. /\ task'[w] = Idle
         /\ \A v \in Worker : v # w =>
                task'[v] = task[v] \/ task'[v] = [task[v] EXCEPT !.late = TRUE]
    BY <1>2, <1>3, IdleIsTask, MarkedTasks
  <1> QED  BY <1>4, <1>5, <1>6, <1>7, <1>8, <1>9, <1>10, IdleKeeps, WriteStep

------------------------------------------------------------------------------
LEMMA InitHolds ==
    ASSUME Init
    PROVE  IInv
  <1>1. \A w \in Worker : task[w].pc = "idle" /\ task[w].agent \notin Agent
    BY ConstantsAssumption DEF Init, Idle
  <1>2. \A f, u : Active(f, u) = {}
    BY RowTypes DEF Init, Active
  <1>3. TypeOK
    <2>1. folders \in [Folder -> Life]
      BY DEF Init, Life
    <2>2. shares \in [Share -> ShareRow] /\ task \in [Worker -> Task]
      BY RowTypes, IdleIsTask DEF Init
    <2> QED  BY <2>1, <2>2, RowTypes DEF Init, TypeOK
  <1>4. OneActiveShare /\ StaysAssigned
    BY <1>2 DEF Init, OneActiveShare, StaysAssigned
  <1>6. \A w \in Worker : Timely(w) /\ Serving(w)
    BY <1>1 DEF Timely, Serving
  <1> QED  BY <1>3, <1>4, <1>6 DEF IInv

LEMMA StutterKeeps ==
    ASSUME IInv, UNCHANGED vars
    PROVE  IInv'
  <1>1. folders' = folders /\ shares' = shares /\ placed' = placed /\ task' = task
        /\ asked' = asked /\ restored' = restored /\ excused' = excused
        /\ moves' = moves /\ faults' = faults
    BY DEF vars
  <1>2. \A f, u : Active(f, u)' = Active(f, u)
    BY <1>1 DEF Active
  <1>3. TypeOK'
    BY <1>1 DEF IInv, TypeOK
  <1>4. (OneActiveShare /\ StaysAssigned)'
    BY <1>1, <1>2 DEF IInv, OneActiveShare, StaysAssigned
  <1>6. ASSUME NEW w \in Worker
        PROVE  Timely(w)' /\ Serving(w)'
    <2>1. Timely(w) /\ Serving(w) /\ task'[w] = task[w]
      BY <1>1 DEF IInv
    <2> QED  BY <1>1, <1>2, <2>1 DEF Timely, Serving
  <1> QED  BY <1>3, <1>4, <1>6 DEF IInv

LEMMA NextKeeps ==
    ASSUME IInv, Next
    PROVE  IInv'
  <1>1. PICK w \in Worker : (\E r \in Requests : Start(w, r)) \/ Step(w) \/ Fail(w)
    BY DEF Next
  <1>2. CASE \E r \in Requests : Start(w, r)
    BY <1>2, ServingStart
  <1>3. CASE Step(w)
    BY <1>3, InsertFolderKeeps, FindFolderKeeps, DeleteFolderKeeps, LookupKeeps,
       InsertShareKeeps, FindShareKeeps, UpdateShareKeeps, RevokeShareKeeps,
       InsertAgentKeeps, AssignKeeps, RemoveFolderKeeps, ReadAgentKeeps, WriteBackKeeps
       DEF Step
  <1>4. CASE Fail(w)
    BY <1>4, FailKeeps
  <1> QED  BY <1>1, <1>2, <1>3, <1>4

\* The inductive invariant holds in every reachable state of the requests on
\* folders, their shares and the agents in them.
THEOREM FolderInvariant == Spec => []IInv
  <1>1. Init => IInv
    BY InitHolds
  <1>2. IInv /\ [Next]_vars => IInv'
    BY NextKeeps, StutterKeeps
  <1> QED  BY <1>1, <1>2, PTL DEF Spec

\* A folder is shared at most once with a user, unless another request overtook
\* the lookup of Create, its query failed or an update reactivated a share.
THEOREM SharedAtMostOnce == Spec => []OneActiveShare
  <1>1. IInv => OneActiveShare
    BY DEF IInv
  <1> QED  BY <1>1, FolderInvariant, PTL

\* An agent stays where the last create, save or assignment put it, unless a copy of its row
\* that a repair, a save or a create took before is written back (sanitizeAgent, and the
\* second write of Update and Create).
THEOREM AssignmentsLast == Spec => []StaysAssigned
  <1>1. IInv => StaysAssigned
    BY DEF IInv
  <1> QED  BY <1>1, FolderInvariant, PTL
==============================================================================

---------------------------- MODULE FolderShares ----------------------------
(***************************************************************************)
(* Folders (pkg/folder), their shares with other users (pkg/folder_share)  *)
(* and the folder an agent is in (agents.folder_id).  One action is one    *)
(* SQL statement together with the Go code up to the next one; requests    *)
(* interleave between statements and any statement may fail.  Foreign keys *)
(* tie the three tables, but nothing in the database keeps a folder from   *)
(* being shared twice with one user: only the lookup before the insert.    *)
(* Creating, saving and repairing an agent end in a write of a whole copy  *)
(* of its row, folder included, however old that copy is by then.          *)
(***************************************************************************)
EXTENDS Naturals

CONSTANTS
    Worker,     \* goroutines serving requests
    Folder,     \* ids the database may hand out for a folder
    Share,      \* ids the database may hand out for a share
    User,       \* e-mail addresses
    Agent,      \* ids the database may hand out for an agent
    NoFolder, NoAgent, NoRequest,
    Requests,   \* the requests clients may send
    MaxMoves,   \* bound: requests that arrive
    MaxFaults   \* bound: statements that fail and requests that die

\* The operations on folders, shares and agents.  A repair is a read that finds something
\* to repair (sanitizeAgent): the one an update starts with is a request of its own here,
\* and an import is a createAgent for each agent, whose bot is not made.
Op == {"create", "delete"} \cup {"share", "update", "revoke"}
        \cup {"createAgent", "save", "assign", "repair"}

\* by is the caller's e-mail, user the one the folder is shared with, active the
\* is_active of an update; an assign of NoFolder takes the agent out of its folder, a
\* createAgent or a save of NoFolder names none.
Request == [op: Op, folder: Folder \cup {NoFolder}, by: User, user: User,
            share: Share, agent: Agent, active: BOOLEAN]

ASSUME ConstantsAssumption ==
    /\ NoFolder \notin Folder /\ NoAgent \notin Agent \cup Folder \cup {NoFolder}
    /\ NoRequest \notin Request
    /\ User # {}
    /\ Requests \subseteq Request
    /\ \A r \in Requests :
          /\ r.op \in {"delete", "share"} => r.folder # NoFolder
          /\ r.op \notin {"delete", "share", "createAgent", "save", "assign"} => r.folder = NoFolder
    /\ MaxMoves \in Nat /\ MaxFaults \in Nat

Life == {"free", "stored", "gone"}
ShareRow == [st: Life, folder: Folder \cup {NoFolder}, user: User, active: BOOLEAN]

VARIABLES
    folders,    \* evo_core_folders
    shares,     \* evo_core_folder_shares
    placed,     \* placed[a]: folder_id of agent a, NoAgent while there is no such row
    task,       \* task[w]: what worker w is doing
    asked,      \* asked[a]: the folder the last request gave a       (history)
    restored,   \* agents an old copy moved back behind that request  (history)
    excused,    \* pairs a race, a failure or an update shared twice  (history)
    moves, faults

history == <<asked, restored, excused>>
bounds == <<moves, faults>>
vars == <<folders, shares, placed, task, asked, restored, excused, moves, faults>>

PC == {"idle", "insertFolder", "findFolder", "deleteFolder", "lookup", "insertShare",
       "findShare", "updateShare", "revokeShare", "insertAgent", "assign", "removeFolder",
       "readAgent", "writeBack"}

\* folder is the folder the request works on: the one it names, the one of the
\* share it read, or the one of its copy of the agent.  late: what the request found
\* out was overtaken by another request, or its lookup failed (history).
Task == [pc: PC, req: Request \cup {NoRequest}, folder: Folder \cup {NoFolder},
         agent: Agent \cup {NoAgent}, late: BOOLEAN]

Unborn == [st |-> "free", folder |-> NoFolder, user |-> CHOOSE u \in User : TRUE,
           active |-> FALSE]
Gone == [Unborn EXCEPT !.st = "gone"]
Idle == [pc |-> "idle", req |-> NoRequest, folder |-> NoFolder, agent |-> NoAgent,
         late |-> FALSE]

------------------------------------------------------------------------------
Stored(f) == f \in Folder /\ folders[f] = "stored"
At(w, l) == task[w].pc = l

\* The active rows that share f with u.
Active(f, u) == {s \in Share : shares[s].st = "stored" /\ shares[s].active
                               /\ shares[s].folder = f /\ shares[s].user = u}

Become(w, t) == task' = [task EXCEPT ![w] = t]
Goto(w, l) == Become(w, [task[w] EXCEPT !.pc = l])
Respond(w) == Become(w, Idle)

\* w answers; a request that found f not shared with u has been overtaken.
RespondSharing(w, f, u) ==
    task' = [v \in Worker |->
        IF v = w THEN Idle
        ELSE IF At(v, "insertShare") /\ task[v].folder = f /\ task[v].req.user = u
        THEN [task[v] EXCEPT !.late = TRUE] ELSE task[v]]

\* w goes on as t; whoever holds a copy of an agent that moved has been overtaken.
MoveOn(w, t) ==
    task' = [v \in Worker |->
        IF v = w THEN t
        ELSE IF At(v, "writeBack") /\ placed'[task[v].agent] # placed[task[v].agent]
        THEN [task[v] EXCEPT !.late = TRUE] ELSE task[v]]

------------------------------------------------------------------------------
Init ==
    /\ folders \in [Folder -> {"free", "stored"}]
    /\ shares = [s \in Share |-> Unborn]
    /\ placed \in [Agent -> {NoFolder, NoAgent}]
    /\ task = [w \in Worker |-> Idle]
    /\ asked = placed /\ restored = {} /\ excused = {}
    /\ moves = 0 /\ faults = 0

Entry(r) == CASE r.op = "create" -> "insertFolder"
              [] r.op \in {"update", "revoke"} -> "findShare"
              [] r.op = "createAgent" /\ r.folder = NoFolder -> "insertAgent"
              [] r.op = "assign" /\ r.folder = NoFolder -> "removeFolder"
              [] r.op = "save" /\ r.folder = NoFolder -> "readAgent"
              [] r.op = "repair" -> "readAgent"
              [] OTHER -> "findFolder"

Subject(r) == IF r.op \in {"save", "assign", "repair"} THEN r.agent ELSE NoAgent

\* A request arrives; it names rows that were listed before.  The first write of a save that
\* names no folder leaves the column alone (Updates(struct) skips a nil).
Start(w, r) ==
    /\ At(w, "idle") /\ moves < MaxMoves
    /\ r.folder # NoFolder => folders[r.folder] # "free"
    /\ r.op \in {"update", "revoke"} => shares[r.share].st # "free"
    /\ Subject(r) # NoAgent => placed[r.agent] # NoAgent
    /\ Become(w, [Idle EXCEPT !.pc = Entry(r), !.req = r, !.folder = r.folder,
                              !.agent = Subject(r)])
    /\ moves' = moves + 1
    /\ UNCHANGED <<folders, shares, placed, history, faults>>

------------------------------------------------------------------------------
\* Folders.

InsertFolder(w) ==
    /\ At(w, "insertFolder")
    /\ \E f \in Folder : folders[f] = "free" /\ folders' = [folders EXCEPT ![f] = "stored"]
    /\ Respond(w)
    /\ UNCHANGED <<shares, placed, history, bounds>>

After(op) == CASE op = "delete" -> "deleteFolder"
               [] op = "share" -> "lookup"
               [] op = "update" -> "updateShare"
               [] op = "createAgent" -> "insertAgent"
               [] op \in {"save", "assign"} -> "assign"

\* folderService.GetByID, which every request on a folder starts with or comes to;
\* Create of a share then refuses the caller's own address.
FindFolder(w) ==
    /\ At(w, "findFolder")
    /\ LET r == task[w].req IN
       IF Stored(task[w].folder) /\ (r.op = "share" => r.user # r.by)
       THEN Goto(w, After(r.op)) ELSE Respond(w)
    /\ UNCHANGED <<folders, shares, placed, history, bounds>>

\* What DELETE of folder f does to the tables that refer to it: the shares go
\* (ON DELETE CASCADE) and the agents stay behind (ON DELETE SET NULL).
CascadeShares(f) == [s \in Share |-> IF shares[s].folder = f THEN Gone ELSE shares[s]]
ClearPlaces(f) == [a \in Agent |-> IF placed[a] = f THEN NoFolder ELSE placed[a]]

DeleteFolder(w) ==
    /\ At(w, "deleteFolder")
    /\ LET f == task[w].folder IN
       /\ folders' = [folders EXCEPT ![f] = "gone"]
       /\ shares' = CascadeShares(f)
       /\ placed' = ClearPlaces(f)
       /\ asked' = [a \in Agent |-> IF asked[a] = f THEN NoFolder ELSE asked[a]]
    /\ MoveOn(w, Idle)
    /\ UNCHANGED <<restored, excused, bounds>>

------------------------------------------------------------------------------
\* Shares.

\* Mutant: the lookup does not ask for active rows of this user but of the caller.
SharedWithCaller(w) == Active(task[w].folder, task[w].req.by) # {}

\* GetByFolderIDAndSharedWithEmail finds a row.
AlreadyShared(w) == Active(task[w].folder, task[w].req.user) # {}

Lookup(w) ==
    /\ At(w, "lookup")
    /\ IF AlreadyShared(w) THEN Respond(w) ELSE Goto(w, "insertShare")
    /\ UNCHANGED <<folders, shares, placed, history, bounds>>

\* The foreign key rejects the share of a folder that is gone by now.
InsertShare(w) ==
    /\ At(w, "insertShare")
    /\ LET f == task[w].folder
           u == task[w].req.user
       IN  \/ /\ Stored(f)
              /\ \E s \in Share :
                    /\ shares[s].st = "free"
                    /\ shares' = [shares EXCEPT ![s] =
                          [st |-> "stored", folder |-> f, user |-> u, active |-> TRUE]]
              /\ RespondSharing(w, f, u)
              /\ excused' = IF task[w].late THEN excused \cup {<<f, u>>} ELSE excused
           \/ /\ ~ Stored(f)
              /\ Respond(w)
              /\ UNCHANGED <<shares, excused>>
    /\ UNCHANGED <<folders, placed, asked, restored, bounds>>

\* GetByID of a share finds revoked ones too.
FindShare(w) ==
    /\ At(w, "findShare")
    /\ LET row == shares[task[w].req.share] IN
       \/ row.st # "stored" /\ Respond(w)
       \/ /\ row.st = "stored" /\ task[w].req.op = "update"
          /\ Become(w, [task[w] EXCEPT !.pc = "findFolder", !.folder = row.folder])
       \/ row.st = "stored" /\ task[w].req.op = "revoke" /\ Goto(w, "revokeShare")
    /\ UNCHANGED <<folders, shares, placed, history, bounds>>

\* Updates(struct) skips a false is_active: an update can only activate.  Nothing
\* looks for another active share of the folder with the same user.
UpdateShare(w) ==
    /\ At(w, "updateShare")
    /\ LET s == task[w].req.share
           row == shares[s]
           f == row.folder
           u == row.user
       IN  IF row.st = "stored" /\ ~ row.active /\ task[w].req.active
           THEN /\ shares' = [shares EXCEPT ![s].active = TRUE]
                /\ excused' = IF Active(f, u) = {} THEN excused ELSE excused \cup {<<f, u>>}
                /\ RespondSharing(w, f, u)
           ELSE Respond(w) /\ UNCHANGED <<shares, excused>>
    /\ UNCHANGED <<folders, placed, asked, restored, bounds>>

\* Delete of a share clears is_active and keeps the row.
RevokeShare(w) ==
    /\ At(w, "revokeShare")
    /\ LET s == task[w].req.share IN
       shares' = IF shares[s].st = "stored" THEN [shares EXCEPT ![s].active = FALSE] ELSE shares
    /\ Respond(w)
    /\ UNCHANGED <<folders, placed, history, bounds>>

------------------------------------------------------------------------------
\* The folder of an agent.

\* Create, which the foreign key rejects when the folder is gone by now.  Unless its bot
\* could not be made, the copy that was inserted is written once more.
InsertAgent(w) ==
    /\ At(w, "insertAgent")
    /\ LET f == task[w].folder IN
       \/ /\ f = NoFolder \/ Stored(f)
          /\ \E a \in Agent :
                /\ placed[a] = NoAgent
                /\ placed' = [placed EXCEPT ![a] = f]
                /\ asked' = [asked EXCEPT ![a] = f]
                /\ \/ MoveOn(w, Idle)
                   \/ MoveOn(w, [task[w] EXCEPT !.pc = "writeBack", !.agent = a])
       \/ /\ f # NoFolder /\ ~ Stored(f)
          /\ Respond(w)
          /\ UNCHANGED <<placed, asked>>
    /\ UNCHANGED <<folders, shares, restored, excused, bounds>>

\* AssignFolder with a folder, and the first write of a save that names one, which reads
\* the row again before it goes on: the foreign key rejects a folder that is gone by now.
Assign(w) ==
    /\ At(w, "assign")
    /\ LET a == task[w].agent
           f == task[w].folder
       IN  IF Stored(f)
           THEN /\ placed' = [placed EXCEPT ![a] = f]
                /\ asked' = [asked EXCEPT ![a] = f]
                /\ restored' = restored \ {a}
                /\ MoveOn(w, IF task[w].req.op = "save"
                             THEN [task[w] EXCEPT !.pc = "readAgent"] ELSE Idle)
           ELSE Respond(w) /\ UNCHANGED <<placed, asked, restored>>
    /\ UNCHANGED <<folders, shares, excused, bounds>>

\* Mutant: the agent is taken out with Updates(struct), which skips a nil.
SkipNil(a) == placed

\* RemoveFolder updates the one column, so that the NULL is written.
WithoutFolder(a) == [placed EXCEPT ![a] = NoFolder]

RemoveFolder(w) ==
    /\ At(w, "removeFolder")
    /\ LET a == task[w].agent IN
       /\ placed' = WithoutFolder(a)
       /\ asked' = [asked EXCEPT ![a] = NoFolder]
       /\ restored' = restored \ {a}
    /\ MoveOn(w, Idle)
    /\ UNCHANGED <<folders, shares, excused, bounds>>

\* A read that may repair the agent, or the one with which the first write of a save ends.
\* The copy is written back unless there is nothing to repair, or the bot call failed.
ReadAgent(w) ==
    /\ At(w, "readAgent")
    /\ \/ Respond(w)
       \/ Become(w, [task[w] EXCEPT !.pc = "writeBack", !.folder = placed[task[w].agent]])
    /\ UNCHANGED <<folders, shares, placed, history, bounds>>

\* The second write of a create or a save, and a repair: the whole copy, its folder
\* included unless it is nil (Updates(struct)) and there no more (the foreign key).
WriteBack(w) ==
    /\ At(w, "writeBack")
    /\ LET a == task[w].agent
           f == task[w].folder
       IN  IF Stored(f)
           THEN /\ placed' = [placed EXCEPT ![a] = f]
                /\ restored' = IF task[w].late THEN restored \cup {a} ELSE restored
                /\ MoveOn(w, Idle)
           ELSE Respond(w) /\ UNCHANGED <<placed, restored>>
    /\ UNCHANGED <<folders, shares, asked, excused, bounds>>

------------------------------------------------------------------------------
\* The statement of w fails or its request dies.  Create ignores an error of the
\* lookup and takes it for "not shared".
Fail(w) ==
    /\ ~ At(w, "idle") /\ faults < MaxFaults
    /\ \/ Respond(w)
       \/ /\ At(w, "lookup")
          /\ Become(w, [task[w] EXCEPT !.pc = "insertShare", !.late = TRUE])
    /\ faults' = faults + 1
    /\ UNCHANGED <<folders, shares, placed, history, moves>>

------------------------------------------------------------------------------
Step(w) ==
    \/ InsertFolder(w) \/ FindFolder(w) \/ DeleteFolder(w)
    \/ Lookup(w) \/ InsertShare(w)
    \/ FindShare(w) \/ UpdateShare(w) \/ RevokeShare(w)
    \/ InsertAgent(w) \/ Assign(w) \/ RemoveFolder(w) \/ ReadAgent(w) \/ WriteBack(w)

Next ==
    \E w \in Worker :
        \/ \E r \in Requests : Start(w, r)
        \/ Step(w)
        \/ Fail(w)

Spec == Init /\ [][Next]_vars

------------------------------------------------------------------------------
\* Every variable keeps its type, and a share that is stored has a folder.
TypeOK ==
    /\ folders \in [Folder -> Life]
    /\ shares \in [Share -> ShareRow]
    /\ \A s \in Share : shares[s].st = "stored" => shares[s].folder \in Folder
    /\ placed \in [Agent -> Folder \cup {NoFolder, NoAgent}]
    /\ task \in [Worker -> Task]
    /\ asked \in [Agent -> Folder \cup {NoFolder, NoAgent}]
    /\ restored \subseteq Agent
    /\ excused \subseteq Folder \X User
    /\ moves \in Nat /\ faults \in Nat

\* Create's lookup keeps a folder from being shared twice with one user, except
\* where another request overtook it, where its query failed, and where an update
\* switched a revoked share on again beside a newer one.
OneActiveShare ==
    \A f \in Folder, u \in User : <<f, u>> \notin excused =>
        \A s, t \in Active(f, u) : s = t

\* An agent is in the folder that the last create, save or assignment gave it, and out of
\* one when it was taken out or the folder was deleted, unless a request that had copied
\* the row before that (a repair, a save or a create whose second write was still to come)
\* wrote its copy back.
StaysAssigned ==
    \A a \in Agent : placed[a] = asked[a] \/ a \in restored

\* What a lookup or a read found out still holds, or the request is late.
Timely(w) ==
    LET t == task[w] IN
    ~ t.late => /\ t.pc = "insertShare" => Active(t.folder, t.req.user) = {}
                /\ t.pc = "writeBack" => t.folder = placed[t.agent]

\* A worker serves a request that was made, looks for a folder on behalf of one that
\* goes on from there, and works on an agent that there is.
Serving(w) ==
    LET t == task[w] IN
    /\ t.pc # "idle" => t.req \in Requests
    /\ t.pc = "findFolder" => t.req.op \notin {"create", "revoke", "repair"}
    /\ \/ t.pc \in {"assign", "removeFolder", "readAgent", "writeBack"}
       \/ t.pc = "findFolder" /\ t.req.op \in {"save", "assign"}
       => t.agent \in Agent
    /\ t.agent \in Agent => placed[t.agent] # NoAgent

\* The inductive invariant.
IInv ==
    /\ TypeOK
    /\ OneActiveShare /\ StaysAssigned
    /\ \A w \in Worker : Timely(w) /\ Serving(w)
==============================================================================

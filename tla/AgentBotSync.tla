---------------------------- MODULE AgentBotSync ----------------------------
(***************************************************************************)
(* The life cycle of an agent (pkg/agent) and of the CRM bot kept beside   *)
(* it in agent_bots.  The two rows are tied only by evolution_bot_id, with *)
(* no foreign key and no transaction around the writes: a request runs one *)
(* SQL statement at a time, interleaved with those of other requests, and  *)
(* any statement may fail.  One action is one statement together with the  *)
(* Go code up to the next one.                                             *)
(***************************************************************************)
EXTENDS Naturals

CONSTANTS
    Worker,     \* goroutines serving requests
    Agent,      \* ids the database may hand out for an agent
    Bot,        \* ids the database may hand out for a bot
    Name,       \* agent names
    Repaired,   \* Repaired[n]: the name sanitizeAgent makes of n
    NoAgent, NoBot, NoRequest,
    Requests,   \* the requests clients may send
    Repeated,   \* operations that keep arriving: they do not count as moves
    MaxMoves,   \* bound: other requests that arrive
    MaxFaults   \* bound: statements that fail and requests that die

Op == {"create", "import", "update", "get", "delete"}
Request == [op: Op, agent: Agent, name: Name, seg: BOOLEAN]

ASSUME ConstantsAssumption ==
    /\ NoAgent \notin Agent /\ NoBot \notin Bot
    /\ NoRequest \notin Request
    /\ Name # {}
    /\ Repaired \in [Name -> Name]
    /\ \A n \in Name : Repaired[Repaired[n]] = Repaired[n]
    /\ Requests \subseteq Request
    /\ Repeated \subseteq Op
    /\ MaxMoves \in Nat /\ MaxFaults \in Nat

\* The columns that matter here.  The name stands for every column a write
\* always fills; seg is enable_text_segmentation of the config, the one boolean
\* that the bot has a column for; bot and sync are evolution_bot_id and _sync.
\* was: segmentation has been on in this row at some time (history).
Cols == [name: Name, seg: BOOLEAN, bot: Bot \cup {NoBot}, sync: BOOLEAN]
AgentRow == [st: {"free", "stored", "deleted"}, cols: Cols, was: BOOLEAN]

\* for is the agent of outgoing_url; NoAgent: there is no such row.
BotRow == [for: Agent \cup {NoAgent}, name: Name, seg: BOOLEAN]

VARIABLES
    agents,     \* evo_core_agents
    bots,       \* agent_bots
    task,       \* task[w]: what worker w is doing
    hist,       \* hist[a]: how the requests on agent a went so far (read by no action)
    moves, faults

vars == <<agents, bots, task, hist, moves, faults>>

ReadPC == {"read", "repair", "repairRead"}
BotPC == {"botInsert", "botUpdate", "botReload"}
LinkPC == {"link", "linkRead", "cleanup"}
DeletePC == {"botDelete", "botDeleteSafe", "delete"}
PC == {"idle", "insert", "write", "reload"} \cup ReadPC \cup BotPC \cup LinkPC \cup DeletePC

\* copy is the handler's *model.Agent; new is the bot that it is about to link.
Task == [pc: PC, req: Request \cup {NoRequest}, copy: Cols, new: Bot \cup {NoBot}]

\* calm:    the requests on the agent came one at a time and none failed
\* shared:  a read overlapped another request, or a failure was harmless
\* excused: two writes overlapped, or a failure hit one of the statements after
\*          which the code leaves the two rows apart
Hist == {"calm", "shared", "excused"}

Blank == [name |-> CHOOSE n \in Name : TRUE, seg |-> FALSE, bot |-> NoBot, sync |-> FALSE]
NoRow == [for |-> NoAgent, name |-> Blank.name, seg |-> FALSE]
Idle == [pc |-> "idle", req |-> NoRequest, copy |-> Blank, new |-> NoBot]

------------------------------------------------------------------------------
Stored(a) == agents[a].st = "stored"
At(w, l) == task[w].pc = l
On(w, a) == ~ At(w, "idle") /\ task[w].req.agent = a
Target(w) == task[w].req.agent

Become(w, t) == task' = [task EXCEPT ![w] = t]
Goto(w, l) == Become(w, [task[w] EXCEPT !.pc = l])
GotoWith(w, l, c) == Become(w, [task[w] EXCEPT !.pc = l, !.copy = c])
Respond(w) == Become(w, Idle)

\* hist only ever worsens.
Worse(h, k) == IF h = "excused" \/ k = "excused" THEN "excused"
               ELSE IF h = "shared" \/ k = "shared" THEN "shared" ELSE "calm"
Mark(a, k) == hist' = [hist EXCEPT ![a] = Worse(@, k)]

\* Updates(struct): GORM writes the fields that are not zero.  A null id and a
\* false flag leave the column alone; the config is one json column.
Patch(old, new) == [name |-> new.name, seg |-> new.seg,
                    bot |-> IF new.bot = NoBot THEN old.bot ELSE new.bot,
                    sync |-> old.sync \/ new.sync]

\* UPDATE evo_core_agents ... WHERE id = a; a missing row is no error.
UpdateAgent(a, new) ==
    agents' = IF Stored(a)
              THEN [agents EXCEPT ![a].cols = Patch(@, new), ![a].was = @ \/ new.seg]
              ELSE agents

\* The id of a new row: one that no row and no request in flight has seen.
Fresh(b) == /\ bots[b].for = NoAgent
            /\ \A a \in Agent : agents[a].cols.bot # b
            /\ \A w \in Worker : task[w].copy.bot # b /\ task[w].new # b

------------------------------------------------------------------------------
Init ==
    /\ agents = [a \in Agent |-> [st |-> "free", cols |-> Blank, was |-> FALSE]]
    /\ bots = [b \in Bot |-> NoRow]
    /\ task = [w \in Worker |-> Idle]
    /\ hist = [a \in Agent |-> "calm"]
    /\ moves = 0 /\ faults = 0

Writes == Op \ {"get"}

\* What a request of this kind does to the history of an agent others work on.
Overlap(r) ==
    IF \A v \in Worker : ~ On(v, r.agent) THEN "calm"
    ELSE IF r.op \in Writes /\ \E v \in Worker : On(v, r.agent) /\ task[v].req.op \in Writes
         THEN "excused" ELSE "shared"

Entry(op) == IF op \in {"create", "import"} THEN "insert" ELSE "read"

\* A request arrives.  An agent is created once, under an id nobody draws twice;
\* the other operations name an agent that was listed before.  The middleware that
\* reads the agent ahead of such a request (agent_access.go) is a "get" of its own.
Start(w, r) ==
    /\ At(w, "idle")
    /\ r.op \notin Repeated => moves < MaxMoves
    /\ IF r.op \in {"create", "import"}
       THEN agents[r.agent].st = "free" /\ \A v \in Worker : ~ On(v, r.agent)
       ELSE agents[r.agent].st # "free"
    /\ Become(w, [Idle EXCEPT !.pc = Entry(r.op), !.req = r])
    /\ Mark(r.agent, Overlap(r))
    /\ moves' = IF r.op \in Repeated THEN moves ELSE moves + 1
    /\ UNCHANGED <<agents, bots, faults>>

\* agentRepository.Create.  Create goes on to the bot; an imported agent gets none.
InsertAgent(w) ==
    /\ At(w, "insert")
    /\ LET r == task[w].req
           c == [Blank EXCEPT !.name = r.name, !.seg = r.seg]
       IN  /\ agents' = [agents EXCEPT ![r.agent] = [st |-> "stored", cols |-> c, was |-> c.seg]]
           /\ IF r.op = "create" THEN GotoWith(w, "botInsert", c) ELSE Respond(w)
    /\ UNCHANGED <<bots, hist, moves, faults>>

------------------------------------------------------------------------------
\* GetByID: read the row and, when sanitizeAgent changes it, write it back whole.

\* Mutant: the bot of a deleted agent is left alone.
AfterReadKeepBot(w, c) ==
    CASE task[w].req.op = "get"    -> Respond(w)
      [] task[w].req.op = "update" -> Goto(w, "write")
      [] task[w].req.op = "delete" -> GotoWith(w, "delete", c)

\* What follows once c has been read and repaired.
AfterRead(w, c) ==
    CASE task[w].req.op = "get"    -> Respond(w)
      [] task[w].req.op = "update" -> Goto(w, "write")
      [] task[w].req.op = "delete" ->
            GotoWith(w, IF c.bot # NoBot /\ c.sync THEN "botDelete" ELSE "delete", c)

Read(w) ==
    /\ At(w, "read")
    /\ LET c == agents[Target(w)].cols IN
       \/ ~ Stored(Target(w)) /\ Respond(w)
       \/ /\ Stored(Target(w)) /\ Repaired[c.name] # c.name
          /\ GotoWith(w, "repair", [c EXCEPT !.name = Repaired[c.name]])
       \/ Stored(Target(w)) /\ Repaired[c.name] = c.name /\ AfterRead(w, c)
    /\ UNCHANGED <<agents, bots, hist, moves, faults>>

Repair(w) ==
    /\ At(w, "repair")
    /\ UpdateAgent(Target(w), task[w].copy)
    /\ Goto(w, "repairRead")
    /\ UNCHANGED <<bots, hist, moves, faults>>

\* The First after the Updates; a row that is gone fails the whole read.
RepairRead(w) ==
    /\ At(w, "repairRead")
    /\ IF Stored(Target(w)) THEN AfterRead(w, agents[Target(w)].cols) ELSE Respond(w)
    /\ UNCHANGED <<agents, bots, hist, moves, faults>>

------------------------------------------------------------------------------
\* Update: write the request, read the row back, then see to its bot.

Write(w) ==
    /\ At(w, "write")
    /\ UpdateAgent(Target(w), [Blank EXCEPT !.name = task[w].req.name, !.seg = task[w].req.seg])
    /\ Goto(w, "reload")
    /\ UNCHANGED <<bots, hist, moves, faults>>

\* Mutant: a bot is only ever updated.
ReloadNoCreate(w) ==
    /\ At(w, "reload")
    /\ LET c == agents[Target(w)].cols IN
       IF Stored(Target(w)) /\ c.bot # NoBot
       THEN GotoWith(w, "botUpdate", [c EXCEPT !.sync = TRUE])
       ELSE Respond(w)
    /\ UNCHANGED <<agents, bots, hist, moves, faults>>

\* UpdateAgentBot creates the bot of an agent that names none and switches sync
\* on for one that does.
Reload(w) ==
    /\ At(w, "reload")
    /\ LET c == agents[Target(w)].cols IN
       IF Stored(Target(w))
       THEN IF c.bot = NoBot THEN GotoWith(w, "botInsert", c)
            ELSE GotoWith(w, "botUpdate", [c EXCEPT !.sync = TRUE])
       ELSE Respond(w)
    /\ UNCHANGED <<agents, bots, hist, moves, faults>>

\* CreateAgentBot, then the caller's EvolutionBotID = &bot.ID and Sync = true.  On
\* a copy with sync set it returns (nil, nil) and the caller dereferences nil.
InsertBot(w, b) ==
    /\ At(w, "botInsert") /\ Fresh(b)
    /\ LET c == task[w].copy IN
       IF c.sync
       THEN Respond(w) /\ UNCHANGED bots
       ELSE /\ bots' = [bots EXCEPT ![b] = [for |-> Target(w), name |-> c.name, seg |-> c.seg]]
            /\ Become(w, [task[w] EXCEPT !.pc = "link", !.new = b])
    /\ UNCHANGED <<agents, hist, moves, faults>>

\* Mutant: the update leaves the bot's name as it was.
UpdateBotNoName(w) ==
    /\ At(w, "botUpdate")
    /\ LET c == task[w].copy IN
       bots' = IF bots[c.bot].for = NoAgent THEN bots ELSE [bots EXCEPT ![c.bot].seg = @ \/ c.seg]
    /\ Goto(w, "botReload")
    /\ UNCHANGED <<agents, hist, moves, faults>>

\* UPDATE agent_bots with Updates(struct): segmentation is never switched off.
UpdateBot(w) ==
    /\ At(w, "botUpdate")
    /\ LET c == task[w].copy IN
       bots' = IF bots[c.bot].for = NoAgent THEN bots
               ELSE [bots EXCEPT ![c.bot].name = c.name, ![c.bot].seg = @ \/ c.seg]
    /\ Goto(w, "botReload")
    /\ UNCHANGED <<agents, hist, moves, faults>>

\* The First after it: a bot that is gone is an error, which the caller logs.
ReloadBot(w) ==
    /\ At(w, "botReload")
    /\ IF bots[task[w].copy.bot].for = NoAgent THEN Respond(w)
       ELSE Become(w, [task[w] EXCEPT !.pc = "link", !.new = task[w].copy.bot])
    /\ UNCHANGED <<agents, bots, hist, moves, faults>>

\* Mutant: the flag is set and the id is not.
LinkFlagOnly(w) ==
    /\ At(w, "link")
    /\ UpdateAgent(Target(w), [task[w].copy EXCEPT !.sync = TRUE])
    /\ Goto(w, "linkRead")
    /\ UNCHANGED <<bots, hist, moves, faults>>

\* The second whole-record Update, with the copy read before the bot was written.
Link(w) ==
    /\ At(w, "link")
    /\ UpdateAgent(Target(w), [task[w].copy EXCEPT !.bot = task[w].new, !.sync = TRUE])
    /\ Goto(w, "linkRead")
    /\ UNCHANGED <<bots, hist, moves, faults>>

\* Mutant: Create returns its error without the cleanup.
UnlinkedNoCleanup(w) == Respond(w)

\* The error branch of the second Update: Create deletes the bot, Update does not.
Unlinked(w) == IF task[w].req.op = "create" THEN Goto(w, "cleanup") ELSE Respond(w)

LinkRead(w) ==
    /\ At(w, "linkRead")
    /\ IF Stored(Target(w)) THEN Respond(w) ELSE Unlinked(w)
    /\ UNCHANGED <<agents, bots, hist, moves, faults>>

\* CleanupEvolutionBot.
Cleanup(w) ==
    /\ At(w, "cleanup")
    /\ bots' = [bots EXCEPT ![task[w].new] = NoRow]
    /\ Respond(w)
    /\ UNCHANGED <<agents, hist, moves, faults>>

------------------------------------------------------------------------------
\* Delete: the bot first, twice if need be, then the agent.

\* Mutant: Delete returns once the bot is gone.
DeleteBotOnly(w) ==
    /\ task[w].pc \in {"botDelete", "botDeleteSafe"}
    /\ bots' = [bots EXCEPT ![task[w].copy.bot] = NoRow]
    /\ Respond(w)
    /\ UNCHANGED <<agents, hist, moves, faults>>

DeleteBot(w) ==
    /\ task[w].pc \in {"botDelete", "botDeleteSafe"}
    /\ bots' = [bots EXCEPT ![task[w].copy.bot] = NoRow]
    /\ Goto(w, "delete")
    /\ UNCHANGED <<agents, hist, moves, faults>>

DeleteAgent(w) ==
    /\ At(w, "delete")
    /\ agents' = IF Stored(Target(w))
                 THEN [agents EXCEPT ![Target(w)] = [@ EXCEPT !.st = "deleted", !.cols = Blank]]
                 ELSE agents
    /\ Respond(w)
    /\ UNCHANGED <<bots, hist, moves, faults>>

------------------------------------------------------------------------------
\* Where a failure leaves a bot without its agent or an agent without its bot:
\* nothing in the code undoes it.
Fatal(t) == \/ t.pc \in {"linkRead", "cleanup", "botDeleteSafe", "delete"}
            \/ t.pc = "link" /\ t.req.op = "update"

\* The statement of w fails, or the code before it rejects the request: the
\* handler's error branch.
Fail(w) ==
    /\ ~ At(w, "idle") /\ faults < MaxFaults
    /\ CASE task[w].pc \in {"link", "linkRead"} -> Unlinked(w)
         [] At(w, "botDelete")                  -> Goto(w, "botDeleteSafe")
         [] At(w, "botDeleteSafe")              -> Goto(w, "delete")
         [] OTHER                               -> Respond(w)
    /\ Mark(Target(w), IF Fatal(task[w]) THEN "excused" ELSE "shared")
    /\ faults' = faults + 1
    /\ UNCHANGED <<agents, bots, moves>>

\* The process dies or the client hangs up: the request ends where it stands.
Crash(w) ==
    /\ ~ At(w, "idle") /\ faults < MaxFaults
    /\ Mark(Target(w), IF task[w].req.op \in {"get", "import"} THEN "shared" ELSE "excused")
    /\ Respond(w)
    /\ faults' = faults + 1
    /\ UNCHANGED <<agents, bots, moves>>

------------------------------------------------------------------------------
Step(w) ==
    \/ InsertAgent(w)
    \/ Read(w) \/ Repair(w) \/ RepairRead(w)
    \/ Write(w) \/ Reload(w)
    \/ \E b \in Bot : InsertBot(w, b)
    \/ UpdateBot(w) \/ ReloadBot(w)
    \/ Link(w) \/ LinkRead(w) \/ Cleanup(w)
    \/ DeleteBot(w) \/ DeleteAgent(w)

Next ==
    \E w \in Worker :
        \/ \E r \in Requests : Start(w, r)
        \/ Step(w)
        \/ Fail(w) \/ Crash(w)

Spec == Init /\ [][Next]_vars

\* The runtime keeps running a goroutine until its request is answered, and a
\* user whose agent is not right keeps saving it.
Fairness ==
    /\ \A w \in Worker : WF_vars(Step(w))
    /\ \A r \in Requests :
          r.op \in Repeated => WF_vars(\E w \in Worker : Start(w, r))

FairSpec == Spec /\ Fairness

------------------------------------------------------------------------------
\* Every variable keeps its type.
TypeOK ==
    /\ agents \in [Agent -> AgentRow]
    /\ bots \in [Bot -> BotRow]
    /\ task \in [Worker -> Task]
    /\ hist \in [Agent -> Hist]
    /\ moves \in Nat /\ faults \in Nat

\* A bot is named by its own agent only: whatever the requests that create, link
\* and delete bots do to one another, no agent ever writes to another's bot.
BotsApart ==
    /\ \A a \in Agent : LET b == agents[a].cols.bot IN
          b # NoBot => bots[b].for \in {a, NoAgent}
    /\ \A w \in Worker : \A b \in {task[w].copy.bot, task[w].new} \ {NoBot} :
          bots[b].for \in {Target(w), NoAgent}

\* The flag and the id of a row, or of a copy, are set together, so that
\* CreateAgentBot never answers (nil, nil) to a caller that dereferences it.
LinkWhole ==
    /\ \A a \in Agent : agents[a].cols.sync <=> agents[a].cols.bot # NoBot
    /\ \A w \in Worker : task[w].copy.sync <=> task[w].copy.bot # NoBot

Held(b) == \E w \in Worker : task[w].new = b
Named(b) == \E a \in Agent : Stored(a) /\ agents[a].cols.bot = b

\* No bot is left behind: it is named by an agent or about to be, unless two
\* writes of the agent overlapped or a failure hit the one statement whose loss
\* the code does not undo.  Reads may overlap and write back what they repaired.
NoOrphanBot ==
    \A b \in Bot : bots[b].for # NoAgent =>
        Named(b) \/ Held(b) \/ hist[bots[b].for] = "excused"

\* No agent names a bot that is gone, with the same exceptions, but while its own
\* deletion is under way.
NoDanglingBot ==
    \A a \in Agent :
        LET b == agents[a].cols.bot IN
        Stored(a) /\ b # NoBot /\ bots[b].for = NoAgent =>
            hist[a] = "excused" \/ \E w \in Worker : On(w, a) /\ At(w, "delete")

Quiet(a) == \A w \in Worker : ~ On(w, a)

\* Bot b is as the columns c would have it.
Follows(b, c) == Repaired[bots[b].name] = Repaired[c.name] /\ (c.seg => bots[b].seg)

\* While the requests on an agent come one at a time and succeed, the bot it names
\* has the name its last write gave it, or the repaired form of it, and splits its
\* messages if the agent does; if the agent does not, it does so only because the
\* agent once did (Updates(struct) never takes a setting of the bot back).
BotFollowsAgent ==
    \A a \in Agent :
        LET c == agents[a].cols IN
        hist[a] = "calm" /\ Quiet(a) /\ Stored(a) /\ c.bot # NoBot =>
            Follows(c.bot, c) /\ (bots[c.bot].seg => agents[a].was)

\* An agent without a bot (imported, or created while the CRM's table could not be
\* written) has one in the end if its owner keeps saving it (UpdateAgentBot).
BotsCatchUp ==
    \A a \in Agent : Stored(a) /\ agents[a].cols.bot = NoBot
                     ~> ~ Stored(a) \/ agents[a].cols.bot # NoBot

------------------------------------------------------------------------------
\* The inductive invariant behind NoOrphanBot and NoDanglingBot, in named parts.

\* A busy worker serves a request that was sent, the one its statement belongs to,
\* and holds a bot exactly while it links it.
Serves(t) ==
    /\ t.pc # "idle" => t.req \in Requests
    /\ t.pc = "insert" => t.req.op \in {"create", "import"}
    /\ t.pc \in ReadPC => t.req.op \in {"get", "update", "delete"}
    /\ t.pc \in {"write", "reload", "botUpdate", "botReload"} => t.req.op = "update"
    /\ t.pc \in {"botInsert", "link", "linkRead"} => t.req.op \in {"create", "update"}
    /\ t.pc = "cleanup" => t.req.op = "create"
    /\ t.pc \in DeletePC => t.req.op = "delete"
    /\ t.new # NoBot <=> t.pc \in LinkPC
    /\ t.pc \in {"botUpdate", "botReload", "botDelete", "botDeleteSafe"} => t.copy.bot # NoBot
    /\ t.pc = "botInsert" => t.copy.bot = NoBot

Serving == \A w \in Worker : Serves(task[w])

\* Only a stored agent names a bot.
BlankUnlessStored == \A a \in Agent : ~ Stored(a) => agents[a].cols = Blank

\* An agent about to be inserted is known to nobody else.
InsertsUnseen ==
    \A w \in Worker : At(w, "insert") =>
        /\ agents[Target(w)].st = "free"
        /\ \A v \in Worker : On(v, Target(w)) => v = w

\* Two writes at once are what the history calls excused.
OneWriter ==
    \A v, w \in Worker :
        /\ ~ At(v, "idle") /\ On(w, Target(v)) /\ v # w
        /\ task[v].req.op \in Writes /\ task[w].req.op \in Writes
        => hist[Target(v)] = "excused"

\* What the one writer of an agent, or a reader beside it, still knows of the rows.
CopyCurrent(t) ==
    Stored(t.req.agent) => t.copy.bot \in {NoBot, agents[t.req.agent].cols.bot}

Linking(t) ==
    /\ t.pc \in BotPC \cup LinkPC => Stored(t.req.agent)
    /\ t.pc \in {"link", "linkRead"} => bots[t.new].for = t.req.agent
    /\ t.pc = "botInsert" => agents[t.req.agent].cols.bot = NoBot
    /\ t.pc = "link" => agents[t.req.agent].cols.bot \in {NoBot, t.new}
    /\ t.pc = "link" /\ t.req.op = "create" => agents[t.req.agent].cols.bot = NoBot
    /\ t.pc = "linkRead" => agents[t.req.agent].cols.bot = t.new
    /\ t.pc = "cleanup" => agents[t.req.agent].cols.bot = NoBot

Deleting(t) ==
    t.pc = "delete" /\ agents[t.req.agent].cols.bot # NoBot
    => bots[agents[t.req.agent].cols.bot].for = NoAgent

InStep ==
    \A w \in Worker :
        ~ At(w, "idle") /\ hist[Target(w)] # "excused" =>
            CopyCurrent(task[w]) /\ Linking(task[w]) /\ Deleting(task[w])

IInv == /\ TypeOK /\ Serving /\ BlankUnlessStored /\ InsertsUnseen /\ OneWriter
        /\ BotsApart /\ LinkWhole /\ InStep
        /\ NoOrphanBot /\ NoDanglingBot

------------------------------------------------------------------------------
\* What BotFollowsAgent rests on besides: how far the one request on a calm agent has come.

\* Requests that meet are what the history stops calling calm.
OneAtATime ==
    \A v, w \in Worker :
        ~ At(v, "idle") /\ On(w, Target(v)) /\ v # w => hist[Target(v)] # "calm"

\* The bot agrees with what the task is about to write to the row.
CarriesOver(t) ==
    LET b == agents[t.req.agent].cols.bot IN
    /\ t.pc # "cleanup"
    /\ t.pc = "repair" /\ b # NoBot => Follows(b, t.copy)
    /\ t.pc = "botReload" => Follows(t.copy.bot, t.copy)
    /\ t.pc = "link" => Follows(t.new, t.copy)

\* Between its first write to the row and its link, and once it deletes, a request leaves
\* the two apart.
Settled == {"read", "repair", "repairRead", "linkRead"}

Matched(a) ==
    LET c == agents[a].cols IN
    Stored(a) /\ c.bot # NoBot /\ (\A w \in Worker : On(w, a) => task[w].pc \in Settled)
    => Follows(c.bot, c)

\* Segmentation is on in a row, a copy or a bot only if it was in the agent's row.
Recalls(row) == /\ row.cols.seg => row.was
                /\ row.was => row.st # "free"

OnceOn ==
    /\ \A a \in Agent : Recalls(agents[a])
    /\ \A w \in Worker : task[w].copy.seg => ~ At(w, "idle") /\ agents[Target(w)].was
    /\ \A b \in Bot : bots[b].seg =>
          bots[b].for # NoAgent /\ agents[bots[b].for].was

FollowInv == /\ OneAtATime
             /\ \A w \in Worker : ~ At(w, "idle") /\ hist[Target(w)] = "calm" =>
                    CarriesOver(task[w])
             /\ \A a \in Agent : hist[a] = "calm" => Matched(a)
==============================================================================

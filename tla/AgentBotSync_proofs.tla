-------------------------- MODULE AgentBotSync_proofs --------------------------
(***************************************************************************)
(* What AgentBotSync promises for every number of workers, agents and bots *)
(* and for every bound: the inductive invariant, that bots are left behind *)
(* or lost only where the history says so, and that a bot follows its      *)
(* agent, by a second invariant that stands on the first.                  *)
(***************************************************************************)
EXTENDS AgentBotSync, TLAPS

LEMMA ConstantFacts ==
    /\ NoAgent \notin Agent /\ NoBot \notin Bot /\ NoRequest \notin Request
    /\ Repaired \in [Name -> Name]
    /\ Requests \subseteq Request
  BY ConstantsAssumption

LEMMA BlankCols == /\ Blank \in Cols /\ Blank.bot = NoBot /\ Blank.sync = FALSE
                   /\ NoRow \in BotRow /\ NoRow.for = NoAgent
  <1>1. (CHOOSE n \in Name : TRUE) \in Name
    BY ConstantsAssumption
  <1> QED  BY <1>1 DEF Blank, Cols, NoRow, BotRow

LEMMA IdleServes == Idle \in Task /\ Serves(Idle) /\ Idle.pc = "idle"
                    /\ Idle.copy = Blank /\ Idle.new = NoBot /\ Idle.req = NoRequest
  BY BlankCols DEF Idle, Task, PC, Serves, ReadPC, BotPC, LinkPC, DeletePC

------------------------------------------------------------------------------
\* Steps of one worker: the tasks keep their type and go on serving.

As(l, r, c, b) == [pc |-> l, req |-> r, copy |-> c, new |-> b]

\* Worker w goes on as t; the others stay as they are.
Moved(w, t) == /\ task' \in [Worker -> Task] /\ Serving'
               /\ task'[w] = t /\ \A v \in Worker \ {w} : task'[v] = task[v]

LEMMA AsTask ==
    ASSUME NEW l \in PC, NEW r \in Request \cup {NoRequest}, NEW c \in Cols,
           NEW b \in Bot \cup {NoBot}
    PROVE  /\ As(l, r, c, b) \in Task
           /\ As(l, r, c, b).pc = l /\ As(l, r, c, b).req = r
           /\ As(l, r, c, b).copy = c /\ As(l, r, c, b).new = b
  BY DEF As, Task

LEMMA TaskFields ==
    ASSUME TypeOK, NEW w \in Worker
    PROVE  /\ task[w] \in Task /\ task[w].pc \in PC /\ task[w].req \in Request \cup {NoRequest}
           /\ task[w].copy \in Cols /\ task[w].new \in Bot \cup {NoBot}
           /\ task[w].copy.bot \in Bot \cup {NoBot}
  <1>1. task[w] \in Task
    BY DEF TypeOK
  <1>2. task[w].copy \in Cols
    BY <1>1 DEF Task
  <1> QED  BY <1>1, <1>2 DEF Task, Cols

\* A busy worker serves a request, so that its target is an agent.
LEMMA TargetTyped ==
    ASSUME TypeOK, Serving, NEW w \in Worker, ~ At(w, "idle")
    PROVE  task[w].req \in Request /\ task[w].req \in Requests
           /\ Target(w) \in Agent /\ task[w].req.op \in Op
  <1>1. task[w].req \in Requests
    BY DEF Serving, Serves, At
  <1> QED  BY <1>1, ConstantFacts DEF Request, Target

LEMMA TaskBecomes ==
    ASSUME TypeOK, Serving, NEW w \in Worker, NEW t \in Task, Serves(t), Become(w, t)
    PROVE  Moved(w, t)
  BY DEF TypeOK, Become, Serving, Moved

LEMMA Responds ==
    ASSUME TypeOK, Serving, NEW w \in Worker, Respond(w)
    PROVE  Moved(w, Idle)
  BY TaskBecomes, IdleServes DEF Respond

LEMMA Goes ==
    ASSUME TypeOK, Serving, NEW w \in Worker, NEW l \in PC, Goto(w, l),
           Serves(As(l, task[w].req, task[w].copy, task[w].new))
    PROVE  Moved(w, As(l, task[w].req, task[w].copy, task[w].new))
  <1> DEFINE t == As(l, task[w].req, task[w].copy, task[w].new)
  <1>1. t \in Task
    BY AsTask, TaskFields
  <1> DEFINE e == [task[w] EXCEPT !.pc = l]
  <1>2. e = t
    <2>1. e \in Task /\ e.pc = t.pc /\ e.req = t.req /\ e.copy = t.copy /\ e.new = t.new
      BY TaskFields, <1>1 DEF As, Task
    <2> HIDE DEF e, t
    <2> QED  BY <1>1, <2>1 DEF Task
  <1> QED  BY <1>1, <1>2, TaskBecomes DEF Goto

LEMMA GoesWith ==
    ASSUME TypeOK, Serving, NEW w \in Worker, NEW l \in PC, NEW c \in Cols,
           GotoWith(w, l, c), Serves(As(l, task[w].req, c, task[w].new))
    PROVE  Moved(w, As(l, task[w].req, c, task[w].new))
  <1> DEFINE t == As(l, task[w].req, c, task[w].new)
  <1>1. t \in Task
    BY AsTask, TaskFields
  <1> DEFINE e == [task[w] EXCEPT !.pc = l, !.copy = c]
  <1>2. e = t
    <2>1. e \in Task /\ e.pc = t.pc /\ e.req = t.req /\ e.copy = t.copy /\ e.new = t.new
      BY TaskFields, <1>1 DEF As, Task
    <2> HIDE DEF e, t
    <2> QED  BY <1>1, <2>1 DEF Task
  <1> QED  BY <1>1, <1>2, TaskBecomes DEF GotoWith

LEMMA GoesLinking ==
    ASSUME TypeOK, Serving, NEW w \in Worker, NEW b \in Bot,
           Become(w, [task[w] EXCEPT !.pc = "link", !.new = b]),
           Serves(As("link", task[w].req, task[w].copy, b))
    PROVE  Moved(w, As("link", task[w].req, task[w].copy, b))
  <1> DEFINE t == As("link", task[w].req, task[w].copy, b)
  <1>1. t \in Task
    BY AsTask, TaskFields DEF PC, LinkPC
  <1> DEFINE e == [task[w] EXCEPT !.pc = "link", !.new = b]
  <1>2. e = t
    <2>1. e \in Task /\ e.pc = t.pc /\ e.req = t.req /\ e.copy = t.copy /\ e.new = t.new
      BY TaskFields, <1>1 DEF As, Task
    <2> HIDE DEF e, t
    <2> QED  BY <1>1, <2>1 DEF Task
  <1> QED  BY <1>1, <1>2, TaskBecomes

------------------------------------------------------------------------------
\* The parts of the invariant about the two tables alone.

Whole(c) == c.sync <=> c.bot # NoBot
OwnBot(a, b) == b # NoBot => bots[b].for \in {a, NoAgent}

TablesFit == /\ agents \in [Agent -> AgentRow] /\ bots \in [Bot -> BotRow]
             /\ BlankUnlessStored
             /\ \A a \in Agent : Whole(agents[a].cols) /\ OwnBot(a, agents[a].cols.bot)

LEMMA InvTables ==
    ASSUME IInv
    PROVE  /\ TablesFit
           /\ \A w \in Worker : Whole(task[w].copy)
           /\ \A w \in Worker : /\ OwnBot(task[w].req.agent, task[w].copy.bot)
                                /\ OwnBot(task[w].req.agent, task[w].new)
  BY DEF IInv, TypeOK, TablesFit, Whole, OwnBot, BotsApart, LinkWhole, Target

LEMMA WholeBlank == Whole(Blank)
  BY BlankCols DEF Whole

LEMMA RowFields ==
    ASSUME TypeOK, NEW a \in Agent
    PROVE  /\ agents[a] \in AgentRow /\ agents[a].cols \in Cols
           /\ agents[a].cols.bot \in Bot \cup {NoBot}
  <1>1. agents[a] \in AgentRow
    BY DEF TypeOK
  <1>2. agents[a].cols \in Cols
    BY <1>1 DEF AgentRow
  <1> QED  BY <1>1, <1>2 DEF Cols

LEMMA PatchFacts ==
    ASSUME NEW old \in Cols, NEW new \in Cols, Whole(old), Whole(new)
    PROVE  /\ Patch(old, new) \in Cols /\ Whole(Patch(old, new))
           /\ Patch(old, new).bot = IF new.bot = NoBot THEN old.bot ELSE new.bot
  <1>1. /\ Patch(old, new).bot = IF new.bot = NoBot THEN old.bot ELSE new.bot
        /\ Patch(old, new).sync = (old.sync \/ new.sync)
    BY DEF Patch
  <1>2. Patch(old, new) \in Cols
    BY DEF Patch, Cols
  <1>3. Whole(Patch(old, new))
    BY <1>1 DEF Whole
  <1> QED  BY <1>1, <1>2, <1>3

\* An update of the row of a keeps the tables in order, if it names a bot of a.
LEMMA Patches ==
    ASSUME IInv, NEW a \in Agent, NEW c \in Cols, Whole(c), OwnBot(a, c.bot),
           UpdateAgent(a, c), UNCHANGED bots
    PROVE  /\ TablesFit'
           /\ \A x \in Agent : agents'[x].st = agents[x].st
           /\ \A x \in Agent \ {a} : agents'[x] = agents[x]
           /\ agents'[a].cols.bot = IF Stored(a) /\ c.bot # NoBot THEN c.bot
                                    ELSE agents[a].cols.bot
  <1>1. CASE ~ Stored(a)
    <2>1. agents' = agents
      BY <1>1 DEF UpdateAgent
    <2> QED  BY <1>1, <2>1, InvTables DEF TablesFit, BlankUnlessStored, Stored, OwnBot, Whole
  <1>2. CASE Stored(a)
    <2> DEFINE p == Patch(agents[a].cols, c)
    <2>1. agents \in [Agent -> AgentRow] /\ agents[a] \in AgentRow /\ agents[a].cols \in Cols
      BY RowFields DEF IInv, TypeOK
    <2>2. Whole(agents[a].cols) /\ OwnBot(a, agents[a].cols.bot)
      BY InvTables DEF TablesFit
    <2>3. p \in Cols /\ Whole(p) /\ p.bot = IF c.bot = NoBot THEN agents[a].cols.bot ELSE c.bot
      BY <2>1, <2>2, PatchFacts
    <2>4. agents' = [agents EXCEPT ![a].cols = p, ![a].was = @ \/ c.seg]
      BY <1>2 DEF UpdateAgent
    <2> HIDE DEF p
    <2>5. /\ agents' \in [Agent -> AgentRow] /\ agents'[a].cols = p
          /\ \A x \in Agent : agents'[x].st = agents[x].st
          /\ \A x \in Agent \ {a} : agents'[x] = agents[x]
      BY <2>1, <2>3, <2>4 DEF AgentRow, Cols
    <2>6. OwnBot(a, p.bot)
      BY <2>2, <2>3 DEF OwnBot
    <2>7. BlankUnlessStored'
      BY <1>2, <2>5 DEF IInv, BlankUnlessStored, Stored
    <2>8. ASSUME NEW x \in Agent
          PROVE  Whole(agents'[x].cols) /\ (OwnBot(x, agents[x].cols.bot))'
      BY <2>3, <2>5, <2>6, InvTables DEF TablesFit, OwnBot
    <2> QED  BY <1>2, <2>3, <2>5, <2>7, <2>8, InvTables DEF TablesFit, Whole
  <1> QED  BY <1>1, <1>2

------------------------------------------------------------------------------
\* The parts about the requests in flight.

\* Worker w goes on with the request it has, or answers it.
Continues(w, t) == \/ t = Idle
                   \/ t.req = task[w].req /\ t.pc \notin {"idle", "insert"}

HistWorsens == /\ hist' \in [Agent -> Hist]
               /\ \A a \in Agent : hist[a] = "excused" => hist'[a] = "excused"

\* A request that goes on does not come to overlap with another.
LEMMA StaysOrdered ==
    ASSUME IInv, NEW w \in Worker, NEW t, ~ At(w, "idle"),
           Moved(w, t), Continues(w, t), HistWorsens,
           \A v \in Worker \ {w} : At(v, "insert") =>
                agents'[Target(v)].st = agents[Target(v)].st
    PROVE  OneWriter' /\ InsertsUnseen'
  <1>1. \A v \in Worker \ {w} : task'[v] = task[v]
    BY DEF Moved
  <1>2. task'[w].pc # "insert" /\ (task'[w].pc # "idle" => task'[w].req = task[w].req)
    BY IdleServes DEF Moved, Continues
  <1>3. \A v \in Worker : ~ At(v, "idle") => Target(v) \in Agent
    BY TargetTyped DEF IInv
  <1>4. OneWriter'
    BY <1>1, <1>2, <1>3 DEF OneWriter, IInv, HistWorsens, At, On, Target
  <1>5. InsertsUnseen'
    BY <1>1, <1>2 DEF InsertsUnseen, IInv, At, On, Target
  <1> QED  BY <1>4, <1>5

LEMMA InsertTargets ==
    ASSUME IInv
    PROVE  \A v \in Worker : At(v, "insert") => Target(v) \in Agent
  BY TargetTyped DEF IInv, At

Knows(t) == CopyCurrent(t) /\ Linking(t) /\ Deleting(t)

\* What a worker knows is of its own agent's row and of its bots' rows.
LEMMA KnowsKept ==
    ASSUME NEW t \in Task, t.req.agent \in Agent, Knows(t),
           agents'[t.req.agent].st = agents[t.req.agent].st,
           agents'[t.req.agent].cols.bot = agents[t.req.agent].cols.bot,
           agents[t.req.agent].cols.bot \in Bot \cup {NoBot},
           t.pc \in {"link", "linkRead"} => t.new \in Bot,
           \A b \in Bot : bots'[b].for = bots[b].for
    PROVE  (CopyCurrent(t) /\ Linking(t) /\ Deleting(t))'
  <1>1. CopyCurrent(t)'
    BY DEF Knows, CopyCurrent, Stored
  <1>2. Linking(t)'
    BY DEF Knows, Linking, Stored
  <1>3. Deleting(t)'
    BY DEF Knows, Deleting
  <1> QED  BY <1>1, <1>2, <1>3

\* The parts about tables and tasks of a step that gives worker w the task t.
LEMMA TasksFit ==
    ASSUME IInv, NEW w \in Worker, NEW t, Moved(w, t), TablesFit',
           Whole(t.copy),
           (OwnBot(t.req.agent, t.copy.bot))', (OwnBot(t.req.agent, t.new))',
           \A v \in Worker \ {w} : \A b \in Bot :
                bots[b].for \in {Target(v), NoAgent} /\ b \in {task[v].copy.bot, task[v].new}
                    => bots'[b].for \in {Target(v), NoAgent}
    PROVE  LinkWhole' /\ BotsApart'
  <1>1. \A v \in Worker \ {w} : task'[v] = task[v]
    BY DEF Moved
  <1>2. task'[w] = t
    BY DEF Moved
  <1>3. LinkWhole'
    <2>1. ASSUME NEW v \in Worker
          PROVE  Whole(task'[v].copy)
      BY <1>1, <1>2, InvTables
    <2> QED  BY <2>1 DEF LinkWhole, Whole, TablesFit
  <1>4. ASSUME NEW v \in Worker
        PROVE  (OwnBot(task[v].req.agent, task[v].copy.bot)
                /\ OwnBot(task[v].req.agent, task[v].new))'
    <2>1. CASE v = w
      BY <1>2, <2>1 DEF OwnBot
    <2>2. CASE v # w
      <3>1. /\ OwnBot(task[v].req.agent, task[v].copy.bot)
            /\ OwnBot(task[v].req.agent, task[v].new)
        BY InvTables
      <3>2. task[v].copy.bot \in Bot \cup {NoBot} /\ task[v].new \in Bot \cup {NoBot}
        BY TaskFields DEF IInv
      <3> QED  BY <1>1, <2>2, <3>1, <3>2 DEF OwnBot, Target
    <2> QED  BY <2>1, <2>2
  <1>5. BotsApart'
    BY <1>4 DEF BotsApart, OwnBot, TablesFit, Target
  <1> QED  BY <1>3, <1>5

\* A step that leaves every row with its state, every agent but the excused ones
\* with its bot, and every bot with its agent.
LEMMA QuietStep ==
    ASSUME IInv, NEW w \in Worker, NEW t, Moved(w, t), HistWorsens,
           OneWriter', InsertsUnseen', TablesFit', moves' \in Nat, faults' \in Nat,
           Whole(t.copy), OwnBot(t.req.agent, t.copy.bot), OwnBot(t.req.agent, t.new),
           t.pc # "idle" => t.req.agent \in Agent,
           \A a \in Agent : agents'[a].st = agents[a].st,
           \A a \in Agent : hist'[a] # "excused" => agents'[a].cols.bot = agents[a].cols.bot,
           \A b \in Bot : bots'[b].for = bots[b].for,
           t.pc # "idle" /\ hist'[t.req.agent] # "excused" => Knows(t),
           task[w].new # NoBot =>
                \/ t.new = task[w].new \/ hist'[Target(w)] = "excused"
                \/ Stored(Target(w)) /\ agents[Target(w)].cols.bot = task[w].new,
           At(w, "delete") => hist'[Target(w)] = "excused"
    PROVE  IInv'
  <1>1. /\ task'[w] = t /\ \A v \in Worker \ {w} : task'[v] = task[v]
        /\ Serving' /\ task' \in [Worker -> Task] /\ t \in Task
    BY DEF Moved
  <1>2. TypeOK'
    BY <1>1 DEF TypeOK, TablesFit, HistWorsens
  <1>3. t.copy.bot \in Bot \cup {NoBot} /\ t.new \in Bot \cup {NoBot}
    <2>1. t.copy \in Cols
      BY <1>1 DEF Task
    <2> QED  BY <1>1, <2>1 DEF Task, Cols
  <1>4. LinkWhole' /\ BotsApart'
    <2>1. (OwnBot(t.req.agent, t.copy.bot))' /\ (OwnBot(t.req.agent, t.new))'
      BY <1>3 DEF OwnBot
    <2> QED  BY <2>1, TasksFit
  <1>5. InStep'
    <2> SUFFICES ASSUME NEW v \in Worker, task'[v].pc # "idle",
                        hist'[task'[v].req.agent] # "excused"
                 PROVE  (CopyCurrent(task[v]) /\ Linking(task[v]) /\ Deleting(task[v]))'
      BY DEF InStep, At, Target
    <2>1. PICK s \in Task : s = task'[v] /\ Serves(s)
      BY <1>1 DEF Serving
    <2>2. s.req.agent \in Agent /\ Knows(s)
      <3>1. CASE v = w
        BY <1>1, <2>1, <3>1
      <3>2. CASE v # w
        <4>1. task'[v] = task[v] /\ ~ At(v, "idle")
          BY <1>1, <3>2 DEF At
        <4>2. Target(v) \in Agent
          BY <4>1, TargetTyped DEF IInv
        <4>3. hist[Target(v)] # "excused"
          BY <4>1, <4>2 DEF HistWorsens, Target
        <4> QED  BY <2>1, <4>1, <4>2, <4>3 DEF IInv, InStep, Knows, Target
      <3> QED  BY <3>1, <3>2
    <2>3. agents[s.req.agent].cols.bot \in Bot \cup {NoBot}
      BY <2>2, RowFields DEF IInv
    <2>4. s.pc \in {"link", "linkRead"} => s.new \in Bot
      BY <2>1 DEF Serves, Task, LinkPC
    <2>5. hist'[s.req.agent] # "excused"
      BY <2>1
    <2>6. (CopyCurrent(s) /\ Linking(s) /\ Deleting(s))'
      BY <2>2, <2>3, <2>4, <2>5, KnowsKept
    <2> QED  BY <2>1, <2>6 DEF CopyCurrent, Linking, Deleting, Stored
  <1>6. NoOrphanBot'
    <2> SUFFICES ASSUME NEW b \in Bot, bots'[b].for # NoAgent, hist'[bots'[b].for] # "excused"
                 PROVE  Named(b)' \/ Held(b)'
      BY DEF NoOrphanBot
    <2> DEFINE o == bots[b].for
    <2>1. bots'[b].for = o /\ o # NoAgent /\ o \in Agent /\ hist'[o] # "excused"
      <3>1. bots[b] \in BotRow
        BY DEF IInv, TypeOK
      <3> QED  BY <3>1 DEF BotRow
    <2>2. hist[o] # "excused" /\ (Named(b) \/ Held(b))
      BY <2>1 DEF HistWorsens, IInv, NoOrphanBot
    <2> HIDE DEF o
    <2>3. ASSUME NEW a \in Agent, Stored(a), agents[a].cols.bot = b
          PROVE  Named(b)'
      <3>1. a = o
        BY <2>1, <2>3, InvTables, ConstantFacts DEF TablesFit, OwnBot, o
      <3> QED  BY <2>1, <2>3, <3>1 DEF Named, Stored
    <2>4. ASSUME NEW v \in Worker \ {w}, task[v].new = b
          PROVE  Held(b)'
      BY <1>1, <2>4 DEF Held
    <2>5. ASSUME task[w].new = b
          PROVE  Named(b)' \/ Held(b)'
      <3>1. b # NoBot /\ ~ At(w, "idle")
        BY <2>5, ConstantFacts DEF IInv, Serving, Serves, LinkPC, At
      <3>2. Target(w) = o /\ Target(w) \in Agent
        BY <2>1, <2>5, <3>1, InvTables, TargetTyped DEF OwnBot, IInv, Target, o
      <3>3. CASE t.new = b
        BY <1>1, <3>3 DEF Held
      <3>4. CASE Stored(Target(w)) /\ agents[Target(w)].cols.bot = b
        BY <2>3, <3>2, <3>4
      <3> QED  BY <2>1, <2>5, <3>1, <3>2, <3>3, <3>4
    <2> QED  BY <2>2, <2>3, <2>4, <2>5 DEF Named, Held
  <1>7. NoDanglingBot'
    <2> SUFFICES ASSUME NEW a \in Agent, Stored(a)', agents'[a].cols.bot # NoBot,
                        bots'[agents'[a].cols.bot].for = NoAgent, hist'[a] # "excused"
                 PROVE  \E v \in Worker : (On(v, a) /\ At(v, "delete"))'
      BY DEF NoDanglingBot
    <2> DEFINE b == agents[a].cols.bot
    <2>1. agents'[a].cols.bot = b /\ Stored(a) /\ b \in Bot /\ hist[a] # "excused"
      BY RowFields DEF Stored, HistWorsens, IInv
    <2>2. bots[b].for = NoAgent
      BY <2>1
    <2>3. PICK v \in Worker : On(v, a) /\ At(v, "delete")
      BY <2>1, <2>2, ConstantFacts DEF IInv, NoDanglingBot
    <2>4. v # w
      BY <2>3 DEF On, Target
    <2> QED  BY <1>1, <2>3, <2>4 DEF On, At
  <1> QED  BY <1>1, <1>2, <1>4, <1>5, <1>6, <1>7 DEF IInv, TablesFit

\* The tables stay as they are and w goes on as t.
LEMMA GoesOn ==
    ASSUME IInv, NEW w \in Worker, NEW t, ~ At(w, "idle"), ~ At(w, "delete"),
           UNCHANGED <<agents, bots, hist, moves, faults>>, Moved(w, t),
           t.req = task[w].req, t.pc \notin {"idle", "insert"},
           Whole(t.copy), OwnBot(Target(w), t.copy.bot), OwnBot(Target(w), t.new),
           hist[Target(w)] # "excused" => Knows(t),
           t.new = task[w].new \/ task[w].new = NoBot
    PROVE  IInv'
  <1>1. HistWorsens /\ moves' \in Nat /\ faults' \in Nat
    BY DEF IInv, TypeOK, HistWorsens
  <1>2. TablesFit'
    BY InvTables DEF TablesFit, BlankUnlessStored, Stored, OwnBot, Whole
  <1>3. OneWriter' /\ InsertsUnseen'
    BY <1>1, StaysOrdered DEF Continues
  <1>4. Target(w) \in Agent
    BY TargetTyped DEF IInv
  <1> QED  BY <1>1, <1>2, <1>3, <1>4, QuietStep DEF Target

\* The tables stay as they are and the request is answered.
LEMMA Rests ==
    ASSUME IInv, NEW w \in Worker, ~ At(w, "idle"),
           UNCHANGED <<agents, bots>>, Respond(w), HistWorsens,
           moves' \in Nat, faults' \in Nat,
           task[w].new # NoBot =>
                \/ hist'[Target(w)] = "excused"
                \/ Stored(Target(w)) /\ agents[Target(w)].cols.bot = task[w].new,
           At(w, "delete") => hist'[Target(w)] = "excused"
    PROVE  IInv'
  <1>1. Moved(w, Idle)
    BY Responds DEF IInv
  <1>2. TablesFit'
    BY InvTables DEF TablesFit, BlankUnlessStored, Stored, OwnBot, Whole
  <1>3. OneWriter' /\ InsertsUnseen'
    BY <1>1, StaysOrdered DEF Continues
  <1>4. Whole(Idle.copy) /\ OwnBot(Idle.req.agent, Idle.copy.bot) /\ OwnBot(Idle.req.agent, Idle.new)
    BY IdleServes, BlankCols, WholeBlank DEF OwnBot
  <1> QED  BY <1>1, <1>2, <1>3, <1>4, IdleServes, QuietStep

\* A request that holds no bot and is not about to delete its agent may end.
LEMMA RestsFree ==
    ASSUME IInv, NEW w \in Worker, ~ At(w, "idle"), ~ At(w, "delete"), task[w].new = NoBot,
           UNCHANGED <<agents, bots, hist, moves, faults>>, Respond(w)
    PROVE  IInv'
  <1>1. HistWorsens /\ moves' \in Nat /\ faults' \in Nat
    BY DEF IInv, TypeOK, HistWorsens
  <1> QED  BY <1>1, Rests

------------------------------------------------------------------------------
\* The actions that read.

\* What a busy worker's task says of its target, in one place.
LEMMA Busy ==
    ASSUME IInv, NEW w \in Worker, ~ At(w, "idle")
    PROVE  /\ Target(w) \in Agent /\ Serves(task[w]) /\ task[w].req.op \in Op
           /\ task[w].req.agent = Target(w)
           /\ Whole(task[w].copy)
           /\ OwnBot(Target(w), task[w].copy.bot) /\ OwnBot(Target(w), task[w].new)
           /\ hist[Target(w)] # "excused" => Knows(task[w])
  <1>1. Serves(task[w]) /\ task[w].req.agent = Target(w)
    BY DEF IInv, Serving, Target
  <1>2. Target(w) \in Agent /\ task[w].req.op \in Op
    BY TargetTyped DEF IInv
  <1>3. hist[Target(w)] # "excused" => Knows(task[w])
    BY DEF IInv, InStep, Knows
  <1> QED  BY <1>1, <1>2, <1>3, InvTables

\* After GetByID has read c of the row of its target.
LEMMA AfterReadKeeps ==
    ASSUME IInv, NEW w \in Worker, task[w].pc \in {"read", "repairRead"},
           UNCHANGED <<agents, bots, hist, moves, faults>>,
           Stored(Target(w)), AfterRead(w, agents[Target(w)].cols)
    PROVE  IInv'
  <1> DEFINE c == agents[Target(w)].cols
  <1>1. ~ At(w, "idle") /\ ~ At(w, "delete")
    BY DEF At
  <1>2. /\ Target(w) \in Agent /\ task[w].req.op \in {"get", "update", "delete"}
        /\ task[w].new = NoBot /\ task[w].req \in Requests /\ task[w].req.agent = Target(w)
    BY <1>1, Busy DEF Serves, ReadPC, LinkPC
  <1>3. c \in Cols /\ c.bot \in Bot \cup {NoBot} /\ Whole(c) /\ OwnBot(Target(w), c.bot)
    BY <1>2, RowFields, InvTables DEF IInv, TablesFit
  <1> HIDE DEF c
  <1>4. CASE task[w].req.op = "get"
    <2>1. Respond(w)
      BY <1>4 DEF AfterRead
    <2> QED  BY <1>1, <1>2, <2>1, RestsFree
  <1>5. CASE task[w].req.op = "update"
    <2> DEFINE t == As("write", task[w].req, task[w].copy, task[w].new)
    <2>1. Goto(w, "write")
      BY <1>5 DEF AfterRead
    <2>2. Serves(t)
      BY <1>2, <1>5 DEF Serves, As, ReadPC, BotPC, LinkPC, DeletePC
    <2>3. Moved(w, t) /\ t \in Task
      BY <2>1, <2>2, Goes DEF IInv, PC, Moved
    <2>4. t.pc = "write" /\ t.req = task[w].req /\ t.copy = task[w].copy /\ t.new = task[w].new
      BY DEF As
    <2> HIDE DEF t
    <2>5. hist[Target(w)] # "excused" => Knows(t)
      BY <1>1, <2>4, Busy DEF Knows, CopyCurrent, Linking, Deleting, BotPC, LinkPC
    <2> QED  BY <1>1, <2>3, <2>4, <2>5, Busy, GoesOn
  <1>6. CASE task[w].req.op = "delete"
    <2> DEFINE l == IF c.bot # NoBot /\ c.sync THEN "botDelete" ELSE "delete"
               t == As(l, task[w].req, c, task[w].new)
    <2>1. GotoWith(w, l, c)
      BY <1>6 DEF AfterRead, c
    <2>2. l \in {"botDelete", "delete"} /\ l \in PC
      BY DEF PC, DeletePC
    <2>3. l = "botDelete" => c.bot # NoBot
      OBVIOUS
    <2>4. l = "delete" => c.bot = NoBot
      BY <1>3 DEF Whole
    <2> HIDE DEF l
    <2>5. Serves(t)
      BY <1>2, <1>6, <2>2, <2>3 DEF Serves, As, ReadPC, BotPC, LinkPC, DeletePC
    <2>6. Moved(w, t) /\ t \in Task
      BY <1>3, <2>1, <2>2, <2>5, GoesWith DEF IInv, Moved
    <2>7. t.pc = l /\ t.req = task[w].req /\ t.copy = c /\ t.new = task[w].new
      BY DEF As
    <2> HIDE DEF t
    <2>8. Knows(t)
      BY <1>2, <2>2, <2>4, <2>7
         DEF Knows, CopyCurrent, Linking, Deleting, BotPC, LinkPC, c
    <2> QED  BY <1>1, <1>2, <1>3, <2>2, <2>6, <2>7, <2>8, GoesOn DEF OwnBot
  <1> QED  BY <1>2, <1>4, <1>5, <1>6

LEMMA ReadKeeps ==
    ASSUME IInv, NEW w \in Worker, Read(w)
    PROVE  IInv'
  <1> DEFINE c == agents[Target(w)].cols
             d == [c EXCEPT !.name = Repaired[c.name]]
             t == As("repair", task[w].req, d, task[w].new)
  <1>1. At(w, "read") /\ ~ At(w, "idle") /\ ~ At(w, "delete")
    BY DEF Read, At
  <1>2. /\ Target(w) \in Agent /\ task[w].new = NoBot /\ task[w].req.agent = Target(w)
        /\ task[w].req \in Requests /\ task[w].req.op \in {"get", "update", "delete"}
    BY <1>1, Busy DEF At, Serves, ReadPC, LinkPC
  <1>3. CASE ~ Stored(Target(w)) /\ Respond(w)
    BY <1>1, <1>2, <1>3, RestsFree DEF Read
  <1>4. CASE Stored(Target(w)) /\ AfterRead(w, c)
    BY <1>1, <1>4, AfterReadKeeps DEF Read, At
  <1>5. CASE GotoWith(w, "repair", d)
    <2>1. c \in Cols /\ Whole(c) /\ OwnBot(Target(w), c.bot)
      BY <1>2, RowFields, InvTables DEF IInv, TablesFit
    <2>2. d \in Cols /\ d.bot = c.bot /\ d.sync = c.sync
      BY <2>1, ConstantFacts DEF Cols
    <2>3. Whole(d) /\ OwnBot(Target(w), d.bot)
      BY <2>1, <2>2 DEF Whole
    <2> HIDE DEF d
    <2>4. Serves(t)
      BY <1>2 DEF Serves, As, ReadPC, BotPC, LinkPC, DeletePC
    <2>5. Moved(w, t)
      BY <1>5, <2>2, <2>4, GoesWith DEF IInv, PC, ReadPC
    <2>6. t.pc = "repair" /\ t.req = task[w].req /\ t.copy = d /\ t.new = task[w].new
      BY DEF As
    <2> HIDE DEF t
    <2>7. Knows(t)
      BY <1>2, <2>2, <2>6 DEF Knows, CopyCurrent, Linking, Deleting, BotPC, LinkPC
    <2>8. UNCHANGED <<agents, bots, hist, moves, faults>>
      BY DEF Read
    <2> QED  BY <1>1, <1>2, <2>3, <2>5, <2>6, <2>7, <2>8, GoesOn DEF OwnBot
  <1> QED  BY <1>3, <1>4, <1>5 DEF Read

LEMMA RepairReadKeeps ==
    ASSUME IInv, NEW w \in Worker, RepairRead(w)
    PROVE  IInv'
  <1>1. At(w, "repairRead") /\ ~ At(w, "idle") /\ ~ At(w, "delete")
        /\ UNCHANGED <<agents, bots, hist, moves, faults>>
    BY DEF RepairRead, At
  <1>2. task[w].new = NoBot
    BY <1>1, Busy DEF At, Serves, LinkPC
  <1>3. CASE Stored(Target(w))
    BY <1>1, <1>3, AfterReadKeeps DEF RepairRead, At
  <1>4. CASE ~ Stored(Target(w))
    BY <1>1, <1>2, <1>4, RestsFree DEF RepairRead
  <1> QED  BY <1>3, <1>4

LEMMA ReloadKeeps ==
    ASSUME IInv, NEW w \in Worker, Reload(w)
    PROVE  IInv'
  <1> DEFINE c == agents[Target(w)].cols
             d == [c EXCEPT !.sync = TRUE]
  <1>1. At(w, "reload") /\ ~ At(w, "idle") /\ ~ At(w, "delete")
        /\ UNCHANGED <<agents, bots, hist, moves, faults>>
    BY DEF Reload, At
  <1>2. /\ Target(w) \in Agent /\ task[w].new = NoBot /\ task[w].req.agent = Target(w)
        /\ task[w].req \in Requests /\ task[w].req.op = "update"
    BY <1>1, Busy DEF At, Serves, LinkPC
  <1>3. c \in Cols /\ Whole(c) /\ OwnBot(Target(w), c.bot)
    BY <1>2, RowFields, InvTables DEF IInv, TablesFit
  <1>4. CASE ~ Stored(Target(w))
    BY <1>1, <1>2, <1>4, RestsFree DEF Reload
  <1>5. CASE Stored(Target(w)) /\ c.bot = NoBot
    <2> DEFINE t == As("botInsert", task[w].req, c, task[w].new)
    <2>1. GotoWith(w, "botInsert", c)
      BY <1>5 DEF Reload
    <2>2. Serves(t)
      BY <1>2, <1>5 DEF Serves, As, ReadPC, BotPC, LinkPC, DeletePC
    <2> HIDE DEF c
    <2>3. Moved(w, t)
      BY <1>3, <2>1, <2>2, GoesWith DEF IInv, PC, BotPC
    <2>4. t.pc = "botInsert" /\ t.req = task[w].req /\ t.copy = c /\ t.new = task[w].new
      BY DEF As
    <2> HIDE DEF t
    <2>5. Knows(t)
      BY <1>2, <1>5, <2>4 DEF Knows, CopyCurrent, Linking, Deleting, LinkPC, c
    <2> QED  BY <1>1, <1>2, <1>3, <2>3, <2>4, <2>5, GoesOn DEF OwnBot
  <1>6. CASE Stored(Target(w)) /\ c.bot # NoBot
    <2> DEFINE t == As("botUpdate", task[w].req, d, task[w].new)
    <2>1. GotoWith(w, "botUpdate", d)
      BY <1>6 DEF Reload
    <2>2. d \in Cols /\ d.bot = c.bot /\ d.sync = TRUE
      BY <1>3 DEF Cols
    <2>3. Whole(d) /\ OwnBot(Target(w), d.bot)
      BY <1>3, <1>6, <2>2 DEF Whole
    <2> HIDE DEF d
    <2>4. Serves(t)
      BY <1>2, <1>6, <2>2 DEF Serves, As, ReadPC, BotPC, LinkPC, DeletePC
    <2>5. Moved(w, t)
      BY <2>1, <2>2, <2>4, GoesWith DEF IInv, PC, BotPC
    <2>6. t.pc = "botUpdate" /\ t.req = task[w].req /\ t.copy = d /\ t.new = task[w].new
      BY DEF As
    <2> HIDE DEF t
    <2>7. Knows(t)
      BY <1>2, <1>6, <2>2, <2>6 DEF Knows, CopyCurrent, Linking, Deleting, LinkPC
    <2> QED  BY <1>1, <1>2, <2>3, <2>5, <2>6, <2>7, GoesOn DEF OwnBot
  <1> QED  BY <1>4, <1>5, <1>6

LEMMA ReloadBotKeeps ==
    ASSUME IInv, NEW w \in Worker, ReloadBot(w)
    PROVE  IInv'
  <1> DEFINE b == task[w].copy.bot
             t == As("link", task[w].req, task[w].copy, b)
  <1>1. At(w, "botReload") /\ ~ At(w, "idle") /\ ~ At(w, "delete")
        /\ UNCHANGED <<agents, bots, hist, moves, faults>>
    BY DEF ReloadBot, At
  <1>2. /\ Target(w) \in Agent /\ task[w].new = NoBot /\ task[w].req.agent = Target(w)
        /\ task[w].req.op = "update" /\ b # NoBot /\ task[w].req \in Requests
    BY <1>1, Busy DEF At, Serves, LinkPC
  <1>3. b \in Bot
    BY <1>2, TaskFields DEF IInv
  <1>4. CASE bots[b].for = NoAgent
    BY <1>1, <1>2, <1>4, RestsFree DEF ReloadBot
  <1>5. CASE bots[b].for # NoAgent
    <2>1. Become(w, [task[w] EXCEPT !.pc = "link", !.new = b])
      BY <1>5 DEF ReloadBot
    <2>2. Serves(t)
      BY <1>2 DEF Serves, As, ReadPC, BotPC, LinkPC, DeletePC
    <2>3. Moved(w, t)
      BY <1>3, <2>1, <2>2, GoesLinking DEF IInv
    <2>4. t.pc = "link" /\ t.req = task[w].req /\ t.copy = task[w].copy /\ t.new = b
      BY DEF As
    <2> HIDE DEF t
    <2>5. Whole(t.copy) /\ OwnBot(Target(w), t.copy.bot) /\ OwnBot(Target(w), t.new)
      BY <1>1, <2>4, Busy
    <2>6. ASSUME hist[Target(w)] # "excused"
          PROVE  Knows(t)
      <3>1. Knows(task[w])
        BY <1>1, <2>6, Busy
      <3>2. Stored(Target(w)) /\ b = agents[Target(w)].cols.bot
        BY <1>1, <1>2, <3>1 DEF Knows, Linking, CopyCurrent, BotPC, At
      <3>3. bots[b].for = Target(w)
        BY <1>2, <1>5, <2>4, <2>5 DEF OwnBot
      <3> QED  BY <1>2, <2>4, <3>2, <3>3 DEF Knows, CopyCurrent, Linking, Deleting
    <2> QED  BY <1>1, <1>2, <2>3, <2>4, <2>5, <2>6, GoesOn
  <1> QED  BY <1>4, <1>5

\* The error branch of the second Update, at the statement or at the read after it.
LEMMA UnlinkedKeeps ==
    ASSUME IInv, NEW w \in Worker, task[w].pc \in {"link", "linkRead"},
           UNCHANGED <<agents, bots>>, Unlinked(w), HistWorsens,
           moves' \in Nat, faults' \in Nat,
           hist'[Target(w)] = "excused" \/ (At(w, "link") /\ task[w].req.op = "create")
    PROVE  IInv'
  <1> DEFINE t == As("cleanup", task[w].req, task[w].copy, task[w].new)
  <1>1. ~ At(w, "idle") /\ ~ At(w, "delete")
    BY DEF At
  <1>2. /\ Target(w) \in Agent /\ task[w].req.agent = Target(w) /\ task[w].new # NoBot
        /\ task[w].req \in Requests
    BY <1>1, Busy DEF At, Serves, LinkPC
  <1>3. CASE task[w].req.op # "create"
    BY <1>1, <1>3, Rests DEF Unlinked
  <1>4. CASE task[w].req.op = "create"
    <2>1. Goto(w, "cleanup")
      BY <1>4 DEF Unlinked
    <2>2. Serves(t)
      BY <1>2, <1>4 DEF Serves, As, ReadPC, BotPC, LinkPC, DeletePC
    <2>3. Moved(w, t)
      BY <2>1, <2>2, Goes DEF IInv, PC, LinkPC
    <2>4. t.pc = "cleanup" /\ t.req = task[w].req /\ t.copy = task[w].copy /\ t.new = task[w].new
      BY DEF As
    <2> HIDE DEF t
    <2>5. Whole(t.copy) /\ OwnBot(Target(w), t.copy.bot) /\ OwnBot(Target(w), t.new)
      BY <1>1, <2>4, Busy
    <2>6. ASSUME hist'[Target(w)] # "excused"
          PROVE  Knows(t)
      <3>1. At(w, "link") /\ hist[Target(w)] # "excused"
        BY <1>2, <2>6 DEF HistWorsens
      <3>2. Knows(task[w])
        BY <1>1, <3>1, Busy
      <3> QED  BY <1>2, <1>4, <2>4, <3>1, <3>2
               DEF Knows, CopyCurrent, Linking, Deleting, LinkPC, At
    <2>7. TablesFit'
      BY InvTables DEF TablesFit, BlankUnlessStored, Stored, OwnBot, Whole
    <2>8. OneWriter' /\ InsertsUnseen'
      BY <1>1, <2>3, <2>4, StaysOrdered DEF Continues
    <2> QED  BY <1>1, <1>2, <2>3, <2>4, <2>5, <2>6, <2>7, <2>8, QuietStep
  <1> QED  BY <1>3, <1>4

LEMMA LinkReadKeeps ==
    ASSUME IInv, NEW w \in Worker, LinkRead(w)
    PROVE  IInv'
  <1>1. /\ At(w, "linkRead") /\ ~ At(w, "idle") /\ ~ At(w, "delete")
        /\ UNCHANGED <<agents, bots, hist, moves, faults>>
    BY DEF LinkRead, At
  <1>2. HistWorsens /\ moves' \in Nat /\ faults' \in Nat
    BY <1>1 DEF IInv, TypeOK, HistWorsens
  <1>3. Target(w) \in Agent
    BY <1>1, Busy
  <1>4. hist[Target(w)] # "excused" =>
            Stored(Target(w)) /\ agents[Target(w)].cols.bot = task[w].new
    BY <1>1, Busy DEF Knows, Linking, At, LinkPC, Target
  <1>5. CASE Stored(Target(w))
    BY <1>1, <1>2, <1>4, <1>5, Rests DEF LinkRead
  <1>6. CASE ~ Stored(Target(w))
    BY <1>1, <1>2, <1>4, <1>6, UnlinkedKeeps DEF LinkRead, At
  <1> QED  BY <1>5, <1>6

------------------------------------------------------------------------------
\* The writes that leave every link as it is, unless writes overlap.

LEMMA RepairKeeps ==
    ASSUME IInv, NEW w \in Worker, Repair(w)
    PROVE  IInv'
  <1> DEFINE c == task[w].copy
             t == As("repairRead", task[w].req, c, task[w].new)
  <1>1. At(w, "repair") /\ ~ At(w, "idle") /\ ~ At(w, "delete")
        /\ UNCHANGED <<bots, hist, moves, faults>>
    BY DEF Repair, At
  <1>2. /\ Target(w) \in Agent /\ task[w].new = NoBot /\ task[w].req.agent = Target(w)
        /\ task[w].req \in Requests /\ task[w].req.op \in {"get", "update", "delete"}
    BY <1>1, Busy DEF At, Serves, ReadPC, LinkPC
  <1>3. c \in Cols /\ Whole(c) /\ OwnBot(Target(w), c.bot)
    BY <1>1, Busy, TaskFields DEF IInv
  <1>4. /\ TablesFit'
        /\ \A x \in Agent : agents'[x].st = agents[x].st
        /\ \A x \in Agent \ {Target(w)} : agents'[x] = agents[x]
        /\ agents'[Target(w)].cols.bot = IF Stored(Target(w)) /\ c.bot # NoBot THEN c.bot
                                         ELSE agents[Target(w)].cols.bot
    BY <1>1, <1>2, <1>3, Patches DEF Repair
  <1>5. Serves(t)
    BY <1>2 DEF Serves, As, ReadPC, BotPC, LinkPC, DeletePC
  <1>6. Moved(w, t)
    BY <1>5, Goes DEF IInv, PC, ReadPC, Repair
  <1>7. t.pc = "repairRead" /\ t.req = task[w].req /\ t.copy = c /\ t.new = task[w].new
    BY DEF As
  <1> HIDE DEF t, c
  <1>8. HistWorsens /\ moves' \in Nat /\ faults' \in Nat
    BY <1>1 DEF IInv, TypeOK, HistWorsens
  <1>9. OneWriter' /\ InsertsUnseen'
    BY <1>1, <1>4, <1>6, <1>7, <1>8, InsertTargets, StaysOrdered DEF Continues
  <1>10. ASSUME hist[Target(w)] # "excused"
         PROVE  Knows(t) /\ agents'[Target(w)].cols.bot = agents[Target(w)].cols.bot
    <2>1. Knows(task[w])
      BY <1>1, <1>10, Busy
    <2>2. Stored(Target(w)) => c.bot \in {NoBot, agents[Target(w)].cols.bot}
      BY <1>2, <2>1 DEF Knows, CopyCurrent, c
    <2> QED  BY <1>2, <1>4, <1>7, <2>2 DEF Knows, CopyCurrent, Linking, Deleting, BotPC, LinkPC
  <1>11. \A x \in Agent : hist'[x] # "excused" => agents'[x].cols.bot = agents[x].cols.bot
    BY <1>1, <1>4, <1>10
  <1> QED  BY <1>1, <1>2, <1>3, <1>4, <1>6, <1>7, <1>8, <1>9, <1>10, <1>11, QuietStep DEF OwnBot

LEMMA WriteKeeps ==
    ASSUME IInv, NEW w \in Worker, Write(w)
    PROVE  IInv'
  <1> DEFINE c == [Blank EXCEPT !.name = task[w].req.name, !.seg = task[w].req.seg]
             t == As("reload", task[w].req, task[w].copy, task[w].new)
  <1>1. At(w, "write") /\ ~ At(w, "idle") /\ ~ At(w, "delete")
        /\ UNCHANGED <<bots, hist, moves, faults>>
    BY DEF Write, At
  <1>2. /\ Target(w) \in Agent /\ task[w].new = NoBot /\ task[w].req.agent = Target(w)
        /\ task[w].req \in Requests /\ task[w].req.op = "update"
    BY <1>1, Busy DEF At, Serves, LinkPC
  <1>3. c \in Cols /\ c.bot = NoBot /\ c.sync = FALSE
    BY <1>2, BlankCols, ConstantFacts DEF Cols, Request
  <1>4. Whole(c) /\ OwnBot(Target(w), c.bot)
    BY <1>3 DEF Whole, OwnBot
  <1>5. UpdateAgent(Target(w), c) /\ Goto(w, "reload")
    BY DEF Write
  <1> HIDE DEF c
  <1>6. /\ TablesFit'
        /\ \A x \in Agent : agents'[x].st = agents[x].st
        /\ \A x \in Agent : agents'[x].cols.bot = agents[x].cols.bot
    BY <1>1, <1>2, <1>3, <1>4, <1>5, Patches
  <1>7. Serves(t)
    BY <1>2 DEF Serves, As, ReadPC, BotPC, LinkPC, DeletePC
  <1>8. Moved(w, t)
    BY <1>5, <1>7, Goes DEF IInv, PC
  <1>9. t.pc = "reload" /\ t.req = task[w].req /\ t.copy = task[w].copy /\ t.new = task[w].new
    BY DEF As
  <1> HIDE DEF t
  <1>10. HistWorsens /\ moves' \in Nat /\ faults' \in Nat
    BY <1>1 DEF IInv, TypeOK, HistWorsens
  <1>11. OneWriter' /\ InsertsUnseen'
    BY <1>1, <1>6, <1>8, <1>9, <1>10, InsertTargets, StaysOrdered DEF Continues
  <1>12. Whole(t.copy) /\ OwnBot(Target(w), t.copy.bot) /\ OwnBot(Target(w), t.new)
    BY <1>1, <1>9, Busy
  <1>13. ASSUME hist[Target(w)] # "excused"
         PROVE  Knows(t)
    <2>1. Knows(task[w])
      BY <1>1, <1>13, Busy
    <2> QED  BY <1>2, <1>9, <2>1 DEF Knows, CopyCurrent, Linking, Deleting, BotPC, LinkPC
  <1> QED  BY <1>1, <1>2, <1>6, <1>8, <1>9, <1>10, <1>11, <1>12, <1>13, QuietStep

LEMMA UpdateBotKeeps ==
    ASSUME IInv, NEW w \in Worker, UpdateBot(w)
    PROVE  IInv'
  <1> DEFINE c == task[w].copy
             t == As("botReload", task[w].req, c, task[w].new)
  <1>1. At(w, "botUpdate") /\ ~ At(w, "idle") /\ ~ At(w, "delete")
        /\ UNCHANGED <<agents, hist, moves, faults>>
    BY DEF UpdateBot, At
  <1>2. /\ Target(w) \in Agent /\ task[w].new = NoBot /\ task[w].req.agent = Target(w)
        /\ task[w].req \in Requests /\ task[w].req.op = "update" /\ c.bot # NoBot
    BY <1>1, Busy DEF At, Serves, LinkPC
  <1>3. c \in Cols /\ c.bot \in Bot
    BY <1>2, TaskFields DEF IInv
  <1>4. bots' \in [Bot -> BotRow] /\ \A b \in Bot : bots'[b].for = bots[b].for
    <2>1. bots \in [Bot -> BotRow] /\ bots[c.bot] \in BotRow
      BY <1>3 DEF IInv, TypeOK
    <2>2. c.name \in Name /\ (bots[c.bot].seg \/ c.seg) \in BOOLEAN
      BY <1>3, <2>1 DEF BotRow, Cols
    <2>3. \/ bots' = bots
          \/ bots' = [bots EXCEPT ![c.bot].name = c.name,
                                  ![c.bot].seg = bots[c.bot].seg \/ c.seg]
      BY DEF UpdateBot
    <2> QED  BY <1>3, <2>1, <2>2, <2>3 DEF BotRow
  <1>5. Serves(t)
    BY <1>2 DEF Serves, As, ReadPC, BotPC, LinkPC, DeletePC
  <1>6. Moved(w, t)
    BY <1>5, Goes DEF IInv, PC, BotPC, UpdateBot
  <1>7. t.pc = "botReload" /\ t.req = task[w].req /\ t.copy = c /\ t.new = task[w].new
    BY DEF As
  <1>8. Whole(t.copy) /\ OwnBot(Target(w), t.copy.bot) /\ OwnBot(Target(w), t.new)
    BY <1>1, <1>7, Busy
  <1> HIDE DEF t, c
  <1>9. HistWorsens /\ moves' \in Nat /\ faults' \in Nat
    BY <1>1 DEF IInv, TypeOK, HistWorsens
  <1>10. OneWriter' /\ InsertsUnseen'
    BY <1>1, <1>6, <1>7, <1>9, StaysOrdered DEF Continues
  <1>11. TablesFit'
    <2>1. \A a \in Agent : agents[a].cols.bot \in Bot \cup {NoBot}
      BY RowFields DEF IInv
    <2> QED  BY <1>1, <1>4, <2>1, InvTables DEF TablesFit, BlankUnlessStored, Stored, OwnBot, Whole
  <1>12. ASSUME hist[Target(w)] # "excused"
         PROVE  Knows(t)
    <2>1. Knows(task[w])
      BY <1>1, <1>12, Busy
    <2> QED  BY <1>1, <1>2, <1>7, <2>1 DEF Knows, CopyCurrent, Linking, Deleting, BotPC, LinkPC, At, c
  <1> QED  BY <1>1, <1>2, <1>4, <1>6, <1>7, <1>8, <1>9, <1>10, <1>11, <1>12, QuietStep

------------------------------------------------------------------------------
\* Arrivals and failures: the tables stay, the history worsens.

LEMMA WorseFacts ==
    ASSUME NEW h \in Hist, NEW k \in Hist
    PROVE  /\ Worse(h, k) \in Hist
           /\ h = "excused" \/ k = "excused" => Worse(h, k) = "excused"
  BY DEF Worse, Hist

LEMMA Marks ==
    ASSUME IInv, NEW a \in Agent, NEW k \in Hist, Mark(a, k)
    PROVE  HistWorsens /\ (k = "excused" => hist'[a] = "excused")
  <1>1. hist \in [Agent -> Hist] /\ hist' = [hist EXCEPT ![a] = Worse(hist[a], k)]
    BY DEF IInv, TypeOK, Mark
  <1>2. hist[a] \in Hist
    BY <1>1
  <1>3. /\ Worse(hist[a], k) \in Hist
        /\ hist[a] = "excused" \/ k = "excused" => Worse(hist[a], k) = "excused"
    BY <1>2, WorseFacts
  <1> QED  BY <1>1, <1>3 DEF HistWorsens

LEMMA FaultCounted ==
    ASSUME IInv, faults' = faults + 1, UNCHANGED moves
    PROVE  moves' \in Nat /\ faults' \in Nat
  BY DEF IInv, TypeOK

LEMMA CrashKeeps ==
    ASSUME IInv, NEW w \in Worker, Crash(w)
    PROVE  IInv'
  <1> DEFINE k == IF task[w].req.op \in {"get", "import"} THEN "shared" ELSE "excused"
  <1>1. ~ At(w, "idle") /\ UNCHANGED <<agents, bots>> /\ Respond(w) /\ Mark(Target(w), k)
    BY DEF Crash
  <1>2. moves' \in Nat /\ faults' \in Nat
    BY FaultCounted DEF Crash
  <1>3. Target(w) \in Agent /\ k \in Hist
    BY <1>1, Busy DEF Hist
  <1>4. HistWorsens /\ (k = "excused" => hist'[Target(w)] = "excused")
    BY <1>1, <1>3, Marks
  <1>5. task[w].new # NoBot \/ At(w, "delete") => k = "excused"
    BY <1>1, Busy DEF Serves, LinkPC, DeletePC, At
  <1> QED  BY <1>1, <1>2, <1>4, <1>5, Rests

\* A deletion goes on although a statement about the bot failed.
LEMMA DeleteGoesOn ==
    ASSUME IInv, NEW w \in Worker, NEW l \in {"botDeleteSafe", "delete"},
           task[w].pc \in {"botDelete", "botDeleteSafe"},
           UNCHANGED <<agents, bots>>, Goto(w, l), HistWorsens,
           moves' \in Nat, faults' \in Nat,
           l = "delete" => hist'[Target(w)] = "excused"
    PROVE  IInv'
  <1> DEFINE t == As(l, task[w].req, task[w].copy, task[w].new)
  <1>1. ~ At(w, "idle") /\ ~ At(w, "delete")
    BY DEF At
  <1>2. /\ Target(w) \in Agent /\ task[w].new = NoBot /\ task[w].req.agent = Target(w)
        /\ task[w].req \in Requests /\ task[w].req.op = "delete" /\ task[w].copy.bot # NoBot
    BY <1>1, Busy DEF Serves, LinkPC, DeletePC
  <1>3. Serves(t)
    BY <1>2 DEF Serves, As, ReadPC, BotPC, LinkPC, DeletePC
  <1>4. Moved(w, t)
    BY <1>3, Goes DEF IInv, PC, DeletePC
  <1>5. t.pc = l /\ t.req = task[w].req /\ t.copy = task[w].copy /\ t.new = task[w].new
    BY DEF As
  <1> HIDE DEF t
  <1>6. OneWriter' /\ InsertsUnseen'
    BY <1>1, <1>4, <1>5, StaysOrdered DEF Continues
  <1>7. TablesFit'
    BY InvTables DEF TablesFit, BlankUnlessStored, Stored, OwnBot, Whole
  <1>8. Whole(t.copy) /\ OwnBot(Target(w), t.copy.bot) /\ OwnBot(Target(w), t.new)
    BY <1>1, <1>5, Busy
  <1>9. ASSUME hist'[Target(w)] # "excused"
        PROVE  Knows(t)
    <2>1. l = "botDeleteSafe" /\ hist[Target(w)] # "excused"
      BY <1>2, <1>9 DEF HistWorsens
    <2>2. Knows(task[w])
      BY <1>1, <2>1, Busy
    <2> QED  BY <1>2, <1>5, <2>1, <2>2 DEF Knows, CopyCurrent, Linking, Deleting, BotPC, LinkPC
  <1> QED  BY <1>1, <1>2, <1>4, <1>5, <1>6, <1>7, <1>8, <1>9, QuietStep

LEMMA FailKeeps ==
    ASSUME IInv, NEW w \in Worker, Fail(w)
    PROVE  IInv'
  <1> DEFINE k == IF Fatal(task[w]) THEN "excused" ELSE "shared"
  <1>1. /\ ~ At(w, "idle") /\ UNCHANGED <<agents, bots>> /\ Mark(Target(w), k)
        /\ moves' \in Nat /\ faults' \in Nat
    BY FaultCounted DEF Fail
  <1>2. Target(w) \in Agent /\ k \in Hist /\ Serves(task[w])
    BY <1>1, Busy DEF Hist
  <1>3. HistWorsens /\ (Fatal(task[w]) => hist'[Target(w)] = "excused")
    BY <1>1, <1>2, Marks
  <1>4. CASE task[w].pc \in {"link", "linkRead"}
    <2>1. Unlinked(w)
      BY <1>4 DEF Fail, At
    <2>2. task[w].req.op \in {"create", "update"}
      BY <1>2, <1>4 DEF Serves
    <2> QED  BY <1>1, <1>3, <1>4, <2>1, <2>2, UnlinkedKeeps DEF Fatal, At
  <1>5. CASE At(w, "botDelete")
    <2>1. Goto(w, "botDeleteSafe")
      BY <1>5 DEF Fail, At
    <2> QED  BY <1>1, <1>3, <1>5, <2>1, DeleteGoesOn DEF At
  <1>6. CASE At(w, "botDeleteSafe")
    <2>1. Goto(w, "delete")
      BY <1>6 DEF Fail, At
    <2> QED  BY <1>1, <1>3, <1>6, <2>1, DeleteGoesOn DEF At, Fatal
  <1>7. CASE task[w].pc \notin {"link", "linkRead", "botDelete", "botDeleteSafe"}
    <2>1. Respond(w)
      BY <1>7 DEF Fail, At
    <2>2. task[w].new # NoBot \/ At(w, "delete") => Fatal(task[w])
      BY <1>2, <1>7 DEF Serves, LinkPC, At, Fatal
    <2> QED  BY <1>1, <1>3, <2>1, <2>2, Rests
  <1> QED  BY <1>4, <1>5, <1>6, <1>7 DEF At

LEMMA StartKeeps ==
    ASSUME IInv, NEW w \in Worker, NEW r \in Requests, Start(w, r)
    PROVE  IInv'
  <1> DEFINE l == Entry(r.op)
             t == As(l, r, Blank, NoBot)
  <1>1. r \in Request /\ r.agent \in Agent /\ r.op \in Op
    BY ConstantFacts DEF Request
  <1>2. l \in {"insert", "read"} /\ l \in PC /\ (l = "insert" <=> r.op \in {"create", "import"})
    BY DEF Entry, PC, ReadPC
  <1>3. t \in Task /\ t.pc = l /\ t.req = r /\ t.copy = Blank /\ t.new = NoBot
    BY <1>1, <1>2, BlankCols, AsTask
  <1>4. Serves(t)
    BY <1>1, <1>2, <1>3, BlankCols DEF Serves, Op, ReadPC, BotPC, LinkPC, DeletePC
  <1> DEFINE e == [Idle EXCEPT !.pc = l, !.req = r]
  <1>5. e = t
    <2>1. e \in Task /\ e.pc = t.pc /\ e.req = t.req /\ e.copy = t.copy /\ e.new = t.new
      BY <1>1, <1>2, <1>3, IdleServes DEF Task
    <2> HIDE DEF e, t
    <2> QED  BY <1>3, <2>1 DEF Task
  <1> HIDE DEF l, t
  <1>6. Moved(w, t)
    BY <1>3, <1>4, <1>5, TaskBecomes DEF IInv, Start, l
  <1>7. Overlap(r) \in Hist
    BY DEF Overlap, Hist
  <1>8. HistWorsens /\ (Overlap(r) = "excused" => hist'[r.agent] = "excused")
    BY <1>1, <1>7, Marks DEF Start
  <1>9. moves' \in Nat /\ faults' \in Nat /\ UNCHANGED <<agents, bots>> /\ At(w, "idle")
    BY DEF Start, IInv, TypeOK
  <1>10. task[w].new = NoBot
    BY <1>9 DEF IInv, Serving, Serves, LinkPC, At
  <1>11. TablesFit'
    BY <1>9, InvTables DEF TablesFit, BlankUnlessStored, Stored, OwnBot, Whole
  <1>12. /\ task'[w] = t /\ \A v \in Worker \ {w} : task'[v] = task[v]
    BY <1>6 DEF Moved
  <1>13. \A v \in Worker : On(v, r.agent) /\ task[v].req.op \in Writes /\ r.op \in Writes
            => hist'[r.agent] = "excused"
    BY <1>8 DEF Overlap
  <1>14. OneWriter'
    <2> SUFFICES ASSUME NEW v \in Worker, NEW u \in Worker, v # u,
                        task'[v].pc # "idle", task'[u].pc # "idle",
                        task'[u].req.agent = task'[v].req.agent,
                        task'[v].req.op \in Writes, task'[u].req.op \in Writes
                 PROVE  hist'[task'[v].req.agent] = "excused"
      BY DEF OneWriter, At, On, Target
    <2>1. CASE v = w
      BY <1>3, <1>12, <1>13, <2>1 DEF On, At
    <2>2. CASE u = w
      BY <1>3, <1>12, <1>13, <2>2 DEF On, At
    <2>3. CASE v # w /\ u # w
      <3>1. task'[v] = task[v] /\ task'[u] = task[u]
        BY <1>12, <2>3
      <3>2. task[v].req.agent \in Agent
        BY <3>1, TargetTyped DEF IInv, At, Target
      <3>3. hist[task[v].req.agent] = "excused"
        BY <3>1 DEF IInv, OneWriter, At, On, Target
      <3> QED  BY <1>8, <3>1, <3>2, <3>3 DEF HistWorsens
    <2> QED  BY <2>1, <2>2, <2>3
  <1>15. InsertsUnseen'
    <2>1. r.op \in {"create", "import"} =>
            agents[r.agent].st = "free" /\ \A v \in Worker : ~ On(v, r.agent)
      BY DEF Start
    <2>2. r.op \notin {"create", "import"} => agents[r.agent].st # "free"
      BY DEF Start
    <2> SUFFICES ASSUME NEW v \in Worker, task'[v].pc = "insert"
                 PROVE  /\ agents[task'[v].req.agent].st = "free"
                        /\ \A u \in Worker :
                              task'[u].pc # "idle" /\ task'[u].req.agent = task'[v].req.agent
                              => u = v
      BY <1>9 DEF InsertsUnseen, At, On, Target
    <2>3. CASE v = w
      BY <1>2, <1>3, <1>12, <2>1, <2>3 DEF On, At
    <2>4. CASE v # w
      <3>1. /\ task'[v] = task[v] /\ agents[task[v].req.agent].st = "free"
            /\ \A u \in Worker : On(u, task[v].req.agent) => u = v
        BY <1>12, <2>4 DEF IInv, InsertsUnseen, At, Target
      <3>2. On(v, task[v].req.agent)
        BY <3>1 DEF On, At
      <3>3. r.agent # task[v].req.agent
        BY <2>1, <2>2, <3>1, <3>2
      <3> QED  BY <1>3, <1>12, <3>1, <3>3 DEF On, At
    <2> QED  BY <2>3, <2>4
  <1>16. Whole(t.copy) /\ OwnBot(t.req.agent, t.copy.bot) /\ OwnBot(t.req.agent, t.new)
    BY <1>3, WholeBlank, BlankCols DEF OwnBot
  <1>17. Knows(t)
    BY <1>2, <1>3, BlankCols DEF Knows, CopyCurrent, Linking, Deleting, BotPC, LinkPC
  <1> QED  BY <1>1, <1>3, <1>6, <1>8, <1>9, <1>10, <1>11, <1>14, <1>15, <1>16, <1>17,
              QuietStep DEF At

------------------------------------------------------------------------------
\* The writes that make or break a link.  What a bot's row says of its agent
\* changes only for a bot of w's own agent that goes, or for one nobody has seen.

BotsChange(w) ==
    \A b \in Bot : \/ bots'[b].for = bots[b].for
                   \/ bots[b].for = Target(w) /\ bots'[b].for = NoAgent
                   \/ Fresh(b)

\* A reader beside w, the one writer of the row, still knows its bot.
ReadersKnow(w) ==
    \A v \in Worker \ {w} :
        On(v, Target(w)) /\ hist[Target(w)] # "excused" /\ agents'[Target(w)].st = "stored" =>
            /\ Stored(Target(w))
            /\ agents[Target(w)].cols.bot \in {NoBot, agents'[Target(w)].cols.bot}

\* What the others know outlives such a write: beside the one writer of an agent
\* there are readers only, and what they know is the link.
LEMMA OthersKnow ==
    ASSUME IInv, NEW w \in Worker, ~ At(w, "idle"), task[w].req.op \in Writes,
           UNCHANGED hist, \A x \in Agent \ {Target(w)} : agents'[x] = agents[x],
           BotsChange(w),
           ReadersKnow(w),
           NEW v \in Worker \ {w}, NEW s, s = task[v], s.pc # "idle",
           hist[s.req.agent] # "excused"
    PROVE  (CopyCurrent(s) /\ Linking(s) /\ Deleting(s))'
  <1> DEFINE x == s.req.agent
  <1>1. /\ x \in Agent /\ Serves(s) /\ Knows(s) /\ s.req.op \in Op /\ s \in Task
        /\ x = Target(v) /\ ~ At(v, "idle")
    BY Busy, TaskFields DEF At, Target, IInv
  <1>2. Target(w) \in Agent
    BY Busy
  <1>3. s.new \in Bot \cup {NoBot} /\ agents[x].cols.bot \in Bot \cup {NoBot}
    BY <1>1, RowFields DEF IInv, Task
  <1> HIDE DEF x
  <1>4. CASE x # Target(w)
    <2>1. agents'[x] = agents[x]
      BY <1>1, <1>4
    <2>2. ASSUME NEW b \in Bot, bots[b].for = x
          PROVE  bots'[b].for = x
      BY <1>1, <1>2, <1>4, <2>2, ConstantFacts DEF BotsChange, Fresh
    <2>3. ASSUME agents[x].cols.bot # NoBot, bots[agents[x].cols.bot].for = NoAgent
          PROVE  bots'[agents[x].cols.bot].for = NoAgent
      BY <1>1, <1>2, <1>3, <2>3, ConstantFacts DEF BotsChange, Fresh
    <2>4. s.pc \in {"link", "linkRead"} => s.new \in Bot
      BY <1>1, <1>3 DEF Serves, LinkPC
    <2>5. CopyCurrent(s)'
      BY <1>1, <2>1 DEF Knows, CopyCurrent, Stored, x
    <2>6. Linking(s)'
      BY <1>1, <2>1, <2>2, <2>4 DEF Knows, Linking, Stored, x
    <2>7. Deleting(s)'
      BY <1>1, <2>1, <2>3 DEF Knows, Deleting, x
    <2> QED  BY <2>5, <2>6, <2>7
  <1>5. CASE x = Target(w)
    <2>1. On(w, Target(v)) /\ On(v, Target(w))
      BY <1>1, <1>5 DEF On, Target
    <2>2. s.req.op \notin Writes
      BY <1>1, <2>1 DEF IInv, OneWriter, x, At
    <2>3. s.pc \in ReadPC
      <3>1. s.req.op = "get"
        BY <1>1, <2>2 DEF Writes, Op
      <3>2. s.pc \in PC
        BY <1>1 DEF Task
      <3> QED  BY <1>1, <3>1, <3>2 DEF Serves, PC, ReadPC, BotPC, LinkPC, DeletePC
    <2>4. Linking(s)' /\ Deleting(s)'
      BY <2>3 DEF Linking, Deleting, ReadPC, BotPC, LinkPC
    <2>5. CopyCurrent(s)'
      BY <1>1, <1>5, <2>1 DEF Knows, CopyCurrent, Stored, ReadersKnow, x
    <2> QED  BY <2>4, <2>5
  <1> QED  BY <1>4, <1>5

LEMMA WriteStep ==
    ASSUME IInv, NEW w \in Worker, ~ At(w, "idle"), task[w].req.op \in Writes,
           NEW t, Moved(w, t), Continues(w, t), UNCHANGED <<hist, moves, faults>>,
           \A x \in Agent \ {Target(w)} : agents'[x] = agents[x],
           BotsChange(w), ReadersKnow(w),
           TablesFit', NoOrphanBot', NoDanglingBot',
           Whole(t.copy), (OwnBot(t.req.agent, t.copy.bot))', (OwnBot(t.req.agent, t.new))',
           t.pc # "idle" /\ hist[t.req.agent] # "excused" =>
              (CopyCurrent(t) /\ Linking(t) /\ Deleting(t))'
    PROVE  IInv'
  <1>1. /\ task'[w] = t /\ \A v \in Worker \ {w} : task'[v] = task[v]
        /\ Serving' /\ task' \in [Worker -> Task]
    BY DEF Moved
  <1>2. HistWorsens /\ TypeOK'
    BY <1>1 DEF IInv, TypeOK, HistWorsens, TablesFit
  <1>3. ASSUME NEW v \in Worker \ {w}, At(v, "insert")
        PROVE  agents'[Target(v)].st = agents[Target(v)].st
    <2>1. Target(v) # Target(w)
      BY <1>3 DEF IInv, InsertsUnseen, On, Target
    <2> QED  BY <1>3, <2>1, InsertTargets
  <1>4. OneWriter' /\ InsertsUnseen'
    BY <1>2, <1>3, StaysOrdered
  <1>5. LinkWhole' /\ BotsApart'
    <2>1. ASSUME NEW v \in Worker \ {w}, NEW b \in Bot,
                 bots[b].for \in {Target(v), NoAgent}, b \in {task[v].copy.bot, task[v].new}
          PROVE  bots'[b].for \in {Target(v), NoAgent}
      BY <2>1 DEF BotsChange, Fresh
    <2> QED  BY <2>1, TasksFit
  <1>6. InStep'
    <2> SUFFICES ASSUME NEW v \in Worker, task'[v].pc # "idle",
                        hist'[task'[v].req.agent] # "excused"
                 PROVE  (CopyCurrent(task[v]) /\ Linking(task[v]) /\ Deleting(task[v]))'
      BY DEF InStep, At, Target
    <2>1. PICK s : s = task'[v]
      OBVIOUS
    <2>2. (CopyCurrent(s) /\ Linking(s) /\ Deleting(s))'
      <3>1. CASE v = w
        BY <1>1, <2>1, <3>1
      <3>2. CASE v # w
        <4>1. s = task[v] /\ s.pc # "idle" /\ hist[s.req.agent] # "excused"
          BY <1>1, <2>1, <3>2
        <4> QED  BY <3>2, <4>1, OthersKnow
      <3> QED  BY <3>1, <3>2
    <2> QED  BY <2>1, <2>2 DEF CopyCurrent, Linking, Deleting, Stored
  <1> QED  BY <1>1, <1>2, <1>4, <1>5, <1>6 DEF IInv, TablesFit

\* The bot that a worker other than w holds is held after the step of w.
LEMMA StillHeld ==
    ASSUME NEW w \in Worker, NEW t, Moved(w, t), NEW b, Held(b), task[w].new = b => t.new = b
    PROVE  Held(b)'
  BY DEF Moved, Held

LEMMA OrphanFree ==
    ASSUME IInv, NEW b \in Bot, bots[b].for # NoAgent
    PROVE  /\ bots[b].for \in Agent
           /\ Named(b) \/ Held(b) \/ hist[bots[b].for] = "excused"
  <1>1. bots[b] \in BotRow
    BY DEF IInv, TypeOK
  <1> QED  BY <1>1 DEF IInv, NoOrphanBot, BotRow

LEMMA InsertAgentKeeps ==
    ASSUME IInv, NEW w \in Worker, InsertAgent(w)
    PROVE  IInv'
  <1> DEFINE r == task[w].req
             a == Target(w)
             c == [Blank EXCEPT !.name = r.name, !.seg = r.seg]
  <1>1. ~ At(w, "idle") /\ At(w, "insert") /\ UNCHANGED <<bots, hist, moves, faults>>
    BY DEF InsertAgent, At
  <1>2. /\ a \in Agent /\ r.op \in {"create", "import"} /\ r \in Requests /\ task[w].new = NoBot
        /\ r.agent = a
    BY <1>1, Busy DEF Serves, LinkPC, At
  <1>3. agents[a].st = "free" /\ agents[a].cols = Blank /\ \A v \in Worker : On(v, a) => v = w
    BY <1>1, <1>2 DEF IInv, InsertsUnseen, BlankUnlessStored, Stored
  <1>4. c \in Cols /\ c.bot = NoBot /\ c.sync = FALSE
    BY <1>2, BlankCols, ConstantFacts DEF Cols, Request
  <1>5. Whole(c)
    BY <1>4 DEF Whole
  <1>6. agents' = [agents EXCEPT ![a] = [st |-> "stored", cols |-> c, was |-> c.seg]]
    BY <1>2 DEF InsertAgent
  <1>7. r.op = "create" => GotoWith(w, "botInsert", c)
    BY DEF InsertAgent
  <1>8. r.op # "create" => Respond(w)
    BY DEF InsertAgent
  <1> HIDE DEF c
  <1>9. /\ agents' \in [Agent -> AgentRow]
        /\ agents'[a].st = "stored" /\ agents'[a].cols = c
        /\ \A x \in Agent \ {a} : agents'[x] = agents[x]
    <2>1. [st |-> "stored", cols |-> c, was |-> c.seg] \in AgentRow
      BY <1>4 DEF AgentRow, Cols
    <2> QED  BY <1>2, <1>6, <2>1 DEF IInv, TypeOK
  <1>10. TablesFit'
    <2>1. BlankUnlessStored'
      BY <1>2, <1>9 DEF IInv, BlankUnlessStored, Stored
    <2>2. ASSUME NEW x \in Agent
          PROVE  Whole(agents'[x].cols) /\ (OwnBot(x, agents[x].cols.bot))'
      <3>1. CASE x = a
        BY <1>4, <1>5, <1>9, <3>1 DEF OwnBot
      <3>2. CASE x # a
        BY <1>1, <1>9, <3>2, InvTables DEF TablesFit, OwnBot
      <3> QED  BY <3>1, <3>2
    <2> QED  BY <1>1, <1>9, <2>1, <2>2, InvTables DEF TablesFit, Whole
  <1>11. BotsChange(w) /\ ReadersKnow(w) /\ r.op \in Writes /\ HistWorsens
    BY <1>1, <1>2, <1>3 DEF BotsChange, ReadersKnow, Writes, Op, IInv, TypeOK, HistWorsens
  <1>12. ASSUME NEW t, Moved(w, t), t.new = NoBot
         PROVE  NoOrphanBot' /\ NoDanglingBot'
    <2>1. ASSUME NEW b \in Bot, bots[b].for # NoAgent, hist[bots[b].for] # "excused"
          PROVE  Named(b)' \/ Held(b)'
      <3>1. CASE Named(b)
        <4>1. PICK x \in Agent : Stored(x) /\ agents[x].cols.bot = b
          BY <3>1 DEF Named
        <4>2. x # a
          BY <1>3, <4>1 DEF Stored
        <4> QED  BY <1>9, <4>1, <4>2 DEF Named, Stored
      <3>2. CASE Held(b)
        BY <1>2, <1>12, <3>2, StillHeld
      <3> QED  BY <2>1, <3>1, <3>2, OrphanFree
    <2>2. ASSUME NEW x \in Agent, agents'[x].st = "stored", agents'[x].cols.bot # NoBot,
                 bots[agents'[x].cols.bot].for = NoAgent, hist[x] # "excused"
          PROVE  \E v \in Worker : (On(v, x) /\ At(v, "delete"))'
      <3>1. x # a
        BY <1>4, <1>9, <2>2
      <3>2. PICK v \in Worker : On(v, x) /\ At(v, "delete")
        BY <1>9, <2>2, <3>1 DEF IInv, NoDanglingBot, Stored
      <3>3. v # w
        BY <1>1, <3>2 DEF At
      <3> QED  BY <1>12, <3>2, <3>3 DEF Moved, On, At
    <2> QED  BY <1>1, <2>1, <2>2 DEF NoOrphanBot, NoDanglingBot, Stored
  <1>13. CASE r.op = "create"
    <2> DEFINE t == As("botInsert", task[w].req, c, task[w].new)
    <2>1. Serves(t)
      BY <1>2, <1>4, <1>13 DEF Serves, As, ReadPC, BotPC, LinkPC, DeletePC
    <2>2. Moved(w, t)
      BY <1>4, <1>7, <1>13, <2>1, GoesWith DEF IInv, PC, BotPC
    <2>3. t.pc = "botInsert" /\ t.req = r /\ t.copy = c /\ t.new = NoBot
      BY <1>2 DEF As
    <2> HIDE DEF t
    <2>4. PICK s : s = t
      OBVIOUS
    <2>5. (CopyCurrent(s) /\ Linking(s) /\ Deleting(s))'
      BY <1>2, <1>4, <1>9, <2>3, <2>4 DEF CopyCurrent, Linking, Deleting, Stored, BotPC, LinkPC
    <2>6. Continues(w, s) /\ Moved(w, s)
      BY <2>2, <2>3, <2>4 DEF Continues
    <2>7. Whole(s.copy) /\ (OwnBot(s.req.agent, s.copy.bot))' /\ (OwnBot(s.req.agent, s.new))'
      BY <1>4, <1>5, <2>3, <2>4 DEF OwnBot
    <2>8. NoOrphanBot' /\ NoDanglingBot'
      BY <1>12, <2>3, <2>4, <2>6
    <2> QED  BY <1>1, <1>9, <1>10, <1>11, <2>5, <2>6, <2>7, <2>8, WriteStep
  <1>14. CASE r.op # "create"
    <2>1. PICK s : s = Idle
      OBVIOUS
    <2>2. Moved(w, s) /\ Continues(w, s)
      BY <1>8, <1>14, <2>1, Responds DEF IInv, Continues
    <2>3. s.pc = "idle" /\ s.copy.bot = NoBot /\ s.new = NoBot /\ Whole(s.copy)
      BY <2>1, IdleServes, BlankCols, WholeBlank
    <2>4. (OwnBot(s.req.agent, s.copy.bot))' /\ (OwnBot(s.req.agent, s.new))'
      BY <2>3 DEF OwnBot
    <2>5. NoOrphanBot' /\ NoDanglingBot'
      BY <1>12, <2>2, <2>3
    <2> QED  BY <1>1, <1>9, <1>10, <1>11, <2>2, <2>3, <2>4, <2>5, WriteStep
  <1> QED  BY <1>13, <1>14

\* The write after which the request is answered.
LEMMA WriteRests ==
    ASSUME IInv, NEW w \in Worker, ~ At(w, "idle"), task[w].req.op \in Writes,
           Respond(w), UNCHANGED <<hist, moves, faults>>,
           \A x \in Agent \ {Target(w)} : agents'[x] = agents[x],
           BotsChange(w), ReadersKnow(w), TablesFit', NoOrphanBot', NoDanglingBot'
    PROVE  IInv'
  <1>1. PICK s : s = Idle
    OBVIOUS
  <1>2. Moved(w, s) /\ Continues(w, s)
    BY <1>1, Responds DEF IInv, Continues
  <1>3. s.pc = "idle" /\ s.copy.bot = NoBot /\ s.new = NoBot /\ Whole(s.copy)
    BY <1>1, IdleServes, BlankCols, WholeBlank
  <1>4. (OwnBot(s.req.agent, s.copy.bot))' /\ (OwnBot(s.req.agent, s.new))'
    BY <1>3 DEF OwnBot
  <1> QED  BY <1>2, <1>3, <1>4, WriteStep

LEMMA InsertBotKeeps ==
    ASSUME IInv, NEW w \in Worker, NEW b \in Bot, InsertBot(w, b)
    PROVE  IInv'
  <1> DEFINE a == Target(w)
             c == task[w].copy
             row == [for |-> a, name |-> c.name, seg |-> c.seg]
             t == As("link", task[w].req, c, b)
  <1>1. /\ ~ At(w, "idle") /\ At(w, "botInsert") /\ ~ At(w, "delete") /\ Fresh(b)
        /\ UNCHANGED <<agents, hist, moves, faults>>
    BY DEF InsertBot, At
  <1>2. /\ a \in Agent /\ task[w].req.op \in {"create", "update"} /\ task[w].req \in Requests
        /\ task[w].new = NoBot /\ c.bot = NoBot /\ task[w].req.agent = a /\ c \in Cols
    BY <1>1, Busy, TaskFields DEF Serves, LinkPC, At, IInv
  <1>3. ~ c.sync
    BY <1>1, <1>2, Busy DEF Whole
  <1>4. /\ bots' = [bots EXCEPT ![b] = row]
        /\ Become(w, [task[w] EXCEPT !.pc = "link", !.new = b])
    BY <1>3 DEF InsertBot
  <1>5. row \in BotRow /\ row.for = a
    BY <1>2 DEF BotRow, Cols
  <1> HIDE DEF row
  <1>6. bots' \in [Bot -> BotRow] /\ bots'[b].for = a /\ \A x \in Bot \ {b} : bots'[x] = bots[x]
    BY <1>4, <1>5 DEF IInv, TypeOK
  <1>7. Serves(t)
    BY <1>2, ConstantFacts DEF Serves, As, ReadPC, BotPC, LinkPC, DeletePC
  <1>8. PICK s : s = t
    OBVIOUS
  <1>9. Moved(w, s)
    BY <1>4, <1>7, <1>8, GoesLinking DEF IInv
  <1>10. s.pc = "link" /\ s.req = task[w].req /\ s.copy = c /\ s.new = b
    BY <1>8 DEF As
  <1> HIDE DEF t
  <1>11. /\ \A x \in Agent : agents[x].cols.bot # b /\ agents[x].cols.bot \in Bot \cup {NoBot}
         /\ bots[b].for = NoAgent
    BY <1>1, RowFields DEF Fresh, IInv
  <1>12. TablesFit'
    BY <1>1, <1>6, <1>11, InvTables DEF TablesFit, BlankUnlessStored, Stored, OwnBot, Whole
  <1>13. BotsChange(w) /\ ReadersKnow(w) /\ task[w].req.op \in Writes
    BY <1>1, <1>2, <1>6 DEF BotsChange, ReadersKnow, Stored, Writes, Op
  <1>14. NoOrphanBot'
    <2>1. ASSUME NEW x \in Bot, bots'[x].for # NoAgent, hist[bots'[x].for] # "excused"
          PROVE  Named(x)' \/ Held(x)'
      <3>1. CASE x = b
        BY <1>9, <1>10, <3>1 DEF Held, Moved
      <3>2. CASE x # b
        <4>1. Named(x) \/ Held(x)
          BY <1>6, <2>1, <3>2, OrphanFree
        <4>2. Held(x) => Held(x)'
          BY <1>2, <1>9, StillHeld, ConstantFacts
        <4> QED  BY <1>1, <4>1, <4>2 DEF Named, Stored
      <3> QED  BY <3>1, <3>2
    <2> QED  BY <1>1, <2>1 DEF NoOrphanBot
  <1>15. NoDanglingBot'
    <2>1. ASSUME NEW x \in Agent, Stored(x), agents[x].cols.bot # NoBot,
                 bots'[agents[x].cols.bot].for = NoAgent, hist[x] # "excused"
          PROVE  \E v \in Worker : (On(v, x) /\ At(v, "delete"))'
      <3>1. bots[agents[x].cols.bot].for = NoAgent
        BY <1>6, <1>11, <2>1
      <3>2. PICK v \in Worker : On(v, x) /\ At(v, "delete")
        BY <2>1, <3>1 DEF IInv, NoDanglingBot
      <3> QED  BY <1>1, <1>9, <3>2 DEF Moved, On, At
    <2> QED  BY <1>1, <2>1 DEF NoDanglingBot, Stored
  <1>16. Whole(s.copy) /\ (OwnBot(s.req.agent, s.copy.bot))' /\ (OwnBot(s.req.agent, s.new))'
    BY <1>1, <1>2, <1>6, <1>10, Busy DEF OwnBot
  <1>17. ASSUME hist[a] # "excused"
         PROVE  (CopyCurrent(s) /\ Linking(s) /\ Deleting(s))'
    <2>1. Knows(task[w])
      BY <1>1, <1>17, Busy
    <2>2. Stored(a) /\ agents[a].cols.bot = NoBot
      BY <1>1, <1>2, <2>1 DEF Knows, Linking, BotPC, At
    <2> QED  BY <1>1, <1>2, <1>6, <1>10, <2>2
             DEF CopyCurrent, Linking, Deleting, Stored
  <1>18. Continues(w, s)
    BY <1>10 DEF Continues
  <1> QED  BY <1>1, <1>2, <1>9, <1>10, <1>12, <1>13, <1>14, <1>15, <1>16, <1>17, <1>18, WriteStep

LEMMA LinkKeeps ==
    ASSUME IInv, NEW w \in Worker, Link(w)
    PROVE  IInv'
  <1> DEFINE a == Target(w)
             b == task[w].new
             c == [task[w].copy EXCEPT !.bot = b, !.sync = TRUE]
             t == As("linkRead", task[w].req, task[w].copy, b)
  <1>1. /\ ~ At(w, "idle") /\ At(w, "link") /\ ~ At(w, "delete")
        /\ UNCHANGED <<bots, hist, moves, faults>> /\ UpdateAgent(a, c) /\ Goto(w, "linkRead")
    BY DEF Link, At
  <1>2. /\ a \in Agent /\ task[w].req.op \in {"create", "update"} /\ task[w].req \in Requests
        /\ b \in Bot /\ task[w].req.agent = a /\ task[w].copy \in Cols
    BY <1>1, Busy, TaskFields DEF Serves, LinkPC, At, IInv
  <1>3. c \in Cols /\ c.bot = b /\ c.sync = TRUE
    BY <1>2 DEF Cols
  <1>4. Whole(c) /\ OwnBot(a, c.bot) /\ b # NoBot
    BY <1>1, <1>2, <1>3, Busy, ConstantFacts DEF Whole
  <1> HIDE DEF c
  <1>5. /\ TablesFit'
        /\ \A x \in Agent : agents'[x].st = agents[x].st
        /\ \A x \in Agent \ {a} : agents'[x] = agents[x]
        /\ agents'[a].cols.bot = IF Stored(a) THEN b ELSE agents[a].cols.bot
    BY <1>1, <1>2, <1>3, <1>4, Patches
  <1>6. Serves(t)
    BY <1>2, <1>4 DEF Serves, As, ReadPC, BotPC, LinkPC, DeletePC
  <1>7. PICK s : s = t
    OBVIOUS
  <1>8. Moved(w, s)
    BY <1>1, <1>6, <1>7, Goes DEF IInv, PC, LinkPC
  <1>9. s.pc = "linkRead" /\ s.req = task[w].req /\ s.copy = task[w].copy /\ s.new = b
    BY <1>7 DEF As
  <1> HIDE DEF t
  <1>10. ASSUME hist[a] # "excused"
         PROVE  /\ Stored(a) /\ agents[a].cols.bot \in {NoBot, b} /\ bots[b].for = a
                /\ task[w].copy.bot \in {NoBot, agents[a].cols.bot}
    BY <1>1, <1>2, <1>10, Busy DEF Knows, CopyCurrent, Linking, LinkPC, At
  <1>11. BotsChange(w) /\ ReadersKnow(w) /\ task[w].req.op \in Writes
    BY <1>1, <1>2, <1>5, <1>10 DEF BotsChange, ReadersKnow, Stored, Writes, Op
  <1>12. NoOrphanBot'
    <2>1. ASSUME NEW x \in Bot, bots[x].for # NoAgent, hist[bots[x].for] # "excused"
          PROVE  Named(x)' \/ Held(x)'
      <3>1. CASE Held(x)
        BY <1>8, <1>9, <3>1, StillHeld
      <3>2. CASE Named(x)
        <4>1. PICK y \in Agent : Stored(y) /\ agents[y].cols.bot = x
          BY <3>2 DEF Named
        <4>2. bots[x].for = y
          BY <2>1, <4>1, InvTables, ConstantFacts DEF TablesFit, OwnBot
        <4>3. agents'[y].st = "stored" /\ (agents'[y].cols.bot = x \/ x = b)
          <5>1. CASE y = a
            <6>1. agents[a].cols.bot = b
              BY <1>10, <2>1, <4>1, <4>2, <5>1, ConstantFacts
            <6> QED  BY <1>5, <4>1, <5>1, <6>1 DEF Stored
          <5>2. CASE y # a
            BY <1>5, <4>1, <5>2 DEF Stored
          <5> QED  BY <5>1, <5>2
        <4>4. x = b => Held(x)'
          BY <1>8, <1>9 DEF Held, Moved
        <4> QED  BY <4>3, <4>4 DEF Named, Stored
      <3> QED  BY <2>1, <3>1, <3>2, OrphanFree
    <2> QED  BY <1>1, <2>1 DEF NoOrphanBot
  <1>13. NoDanglingBot'
    <2>1. ASSUME NEW x \in Agent, agents'[x].st = "stored", agents'[x].cols.bot # NoBot,
                 bots[agents'[x].cols.bot].for = NoAgent, hist[x] # "excused"
          PROVE  \E v \in Worker : (On(v, x) /\ At(v, "delete"))'
      <3>1. x # a
        <4>1. hist[a] # "excused" => bots[agents'[a].cols.bot].for = a
          BY <1>5, <1>10
        <4> QED  BY <1>2, <2>1, <4>1, ConstantFacts
      <3>2. PICK v \in Worker : On(v, x) /\ At(v, "delete")
        BY <1>5, <2>1, <3>1 DEF IInv, NoDanglingBot, Stored
      <3>3. v # w
        BY <3>1, <3>2 DEF On, Target
      <3> QED  BY <1>8, <3>2, <3>3 DEF Moved, On, At
    <2> QED  BY <1>1, <2>1 DEF NoDanglingBot, Stored
  <1>14. Whole(s.copy) /\ (OwnBot(s.req.agent, s.copy.bot))' /\ (OwnBot(s.req.agent, s.new))'
    BY <1>1, <1>2, <1>9, Busy DEF OwnBot
  <1>15. ASSUME hist[a] # "excused"
         PROVE  (CopyCurrent(s) /\ Linking(s) /\ Deleting(s))'
    BY <1>1, <1>2, <1>5, <1>9, <1>10, <1>15
       DEF CopyCurrent, Linking, Deleting, Stored, BotPC, LinkPC
  <1>16. Continues(w, s)
    BY <1>9 DEF Continues
  <1> QED  BY <1>1, <1>2, <1>5, <1>8, <1>9, <1>11, <1>12, <1>13, <1>14, <1>15, <1>16, WriteStep

------------------------------------------------------------------------------
\* The deletions.

\* A bot that goes: what the tables and the history say afterwards.
LEMMA BotGoes ==
    ASSUME IInv, NEW w \in Worker, NEW t, ~ At(w, "idle"), Moved(w, t),
           NEW b \in Bot, OwnBot(Target(w), b),
           UNCHANGED <<agents, hist>>, bots' = [bots EXCEPT ![b] = NoRow],
           ~ At(w, "delete"), task[w].new \in {b, NoBot},
           \/ t.pc = "delete" /\ t.req = task[w].req
           \/ hist[Target(w)] # "excused" => agents[Target(w)].cols.bot = NoBot
    PROVE  /\ TablesFit' /\ BotsChange(w) /\ ReadersKnow(w)
           /\ NoOrphanBot' /\ NoDanglingBot'
           /\ bots'[b].for = NoAgent
  <1>1. bots' \in [Bot -> BotRow] /\ bots'[b].for = NoAgent /\ \A x \in Bot \ {b} : bots'[x] = bots[x]
    BY BlankCols DEF IInv, TypeOK
  <1>2. \A x \in Agent : agents[x].cols.bot \in Bot \cup {NoBot}
    BY RowFields DEF IInv
  <1>3. bots[b].for \in {Target(w), NoAgent} /\ b # NoBot
    BY ConstantFacts DEF OwnBot
  <1>4. TablesFit'
    BY <1>1, <1>2, InvTables DEF TablesFit, BlankUnlessStored, Stored, OwnBot, Whole
  <1>5. BotsChange(w) /\ ReadersKnow(w)
    BY <1>1, <1>3 DEF BotsChange, ReadersKnow, Stored
  <1>6. NoOrphanBot'
    <2>1. ASSUME NEW x \in Bot, bots'[x].for # NoAgent, hist[bots'[x].for] # "excused"
          PROVE  Named(x)' \/ Held(x)'
      <3>1. x # b /\ (Named(x) \/ Held(x))
        BY <1>1, <2>1, OrphanFree
      <3>2. Held(x) => Held(x)'
        BY <3>1, StillHeld, ConstantFacts
      <3> QED  BY <3>1, <3>2 DEF Named, Stored
    <2> QED  BY <2>1 DEF NoOrphanBot
  <1>7. NoDanglingBot'
    <2>1. ASSUME NEW x \in Agent, Stored(x), agents[x].cols.bot # NoBot,
                 bots'[agents[x].cols.bot].for = NoAgent, hist[x] # "excused"
          PROVE  \E v \in Worker : (On(v, x) /\ At(v, "delete"))'
      <3>1. CASE bots[agents[x].cols.bot].for = NoAgent
        <4>1. PICK v \in Worker : On(v, x) /\ At(v, "delete")
          BY <2>1, <3>1 DEF IInv, NoDanglingBot
        <4>2. v # w
          BY <4>1
        <4> QED  BY <4>1, <4>2 DEF Moved, On, At
      <3>2. CASE bots[agents[x].cols.bot].for # NoAgent
        <4>1. agents[x].cols.bot = b
          BY <1>1, <1>2, <2>1, <3>2
        <4>2. x = Target(w)
          BY <1>2, <1>3, <2>1, <3>2, <4>1, InvTables DEF TablesFit, OwnBot
        <4>3. t.pc = "delete" /\ t.req = task[w].req
          BY <2>1, <4>2
        <4> QED  BY <4>2, <4>3 DEF Moved, On, At, Target
      <3> QED  BY <3>1, <3>2
    <2> QED  BY <2>1 DEF NoDanglingBot, Stored
  <1> QED  BY <1>1, <1>4, <1>5, <1>6, <1>7

LEMMA CleanupKeeps ==
    ASSUME IInv, NEW w \in Worker, Cleanup(w)
    PROVE  IInv'
  <1>1. /\ ~ At(w, "idle") /\ At(w, "cleanup") /\ ~ At(w, "delete") /\ Respond(w)
        /\ UNCHANGED <<agents, hist, moves, faults>>
        /\ bots' = [bots EXCEPT ![task[w].new] = NoRow]
    BY DEF Cleanup, At
  <1>2. /\ task[w].req.op = "create" /\ task[w].new \in Bot /\ task[w].req.agent = Target(w)
        /\ OwnBot(Target(w), task[w].new)
    BY <1>1, Busy, TaskFields DEF Serves, LinkPC, At, IInv
  <1>3. hist[Target(w)] # "excused" => agents[Target(w)].cols.bot = NoBot
    BY <1>1, <1>2, Busy DEF Knows, Linking, At
  <1>4. Moved(w, Idle)
    BY <1>1, Responds DEF IInv
  <1>5. TablesFit' /\ BotsChange(w) /\ ReadersKnow(w) /\ NoOrphanBot' /\ NoDanglingBot'
    BY <1>1, <1>2, <1>3, <1>4, BotGoes
  <1> QED  BY <1>1, <1>2, <1>5, WriteRests DEF Writes, Op

LEMMA DeleteBotKeeps ==
    ASSUME IInv, NEW w \in Worker, DeleteBot(w)
    PROVE  IInv'
  <1> DEFINE a == Target(w)
             b == task[w].copy.bot
             t == As("delete", task[w].req, task[w].copy, task[w].new)
  <1>1. /\ ~ At(w, "idle") /\ task[w].pc \in {"botDelete", "botDeleteSafe"} /\ ~ At(w, "delete")
        /\ UNCHANGED <<agents, hist, moves, faults>> /\ Goto(w, "delete")
        /\ bots' = [bots EXCEPT ![b] = NoRow]
    BY DEF DeleteBot, At
  <1>2. /\ a \in Agent /\ task[w].req.op = "delete" /\ task[w].req \in Requests
        /\ b \in Bot /\ task[w].req.agent = a /\ task[w].new = NoBot
        /\ OwnBot(a, b) /\ Whole(task[w].copy)
    BY <1>1, Busy, TaskFields DEF Serves, LinkPC, DeletePC, IInv
  <1>3. Serves(t)
    BY <1>2 DEF Serves, As, ReadPC, BotPC, LinkPC, DeletePC
  <1>4. PICK s : s = t
    OBVIOUS
  <1>5. Moved(w, s)
    BY <1>1, <1>3, <1>4, Goes DEF IInv, PC, DeletePC
  <1>6. s.pc = "delete" /\ s.req = task[w].req /\ s.copy = task[w].copy /\ s.new = NoBot
    BY <1>2, <1>4 DEF As
  <1> HIDE DEF t
  <1>7. /\ TablesFit' /\ BotsChange(w) /\ ReadersKnow(w) /\ NoOrphanBot' /\ NoDanglingBot'
        /\ bots'[b].for = NoAgent
    BY <1>1, <1>2, <1>5, <1>6, BotGoes
  <1>8. Whole(s.copy) /\ (OwnBot(s.req.agent, s.copy.bot))' /\ (OwnBot(s.req.agent, s.new))'
    BY <1>2, <1>6, <1>7 DEF OwnBot
  <1>9. ASSUME hist[a] # "excused"
        PROVE  (CopyCurrent(s) /\ Linking(s) /\ Deleting(s))'
    <2>1. Stored(a) => b = agents[a].cols.bot
      BY <1>1, <1>2, <1>9, Busy, ConstantFacts DEF Knows, CopyCurrent
    <2>2. ~ Stored(a) => agents[a].cols.bot = NoBot
      BY <1>2, BlankCols DEF IInv, BlankUnlessStored
    <2> QED  BY <1>1, <1>2, <1>6, <1>7, <2>1, <2>2
             DEF CopyCurrent, Linking, Deleting, Stored, BotPC, LinkPC
  <1>10. Continues(w, s) /\ task[w].req.op \in Writes
    BY <1>2, <1>6 DEF Continues, Writes, Op
  <1> QED  BY <1>1, <1>2, <1>5, <1>6, <1>7, <1>8, <1>9, <1>10, WriteStep

LEMMA DeleteAgentKeeps ==
    ASSUME IInv, NEW w \in Worker, DeleteAgent(w)
    PROVE  IInv'
  <1> DEFINE a == Target(w)
             row == [agents[a] EXCEPT !.st = "deleted", !.cols = Blank]
  <1>1. /\ ~ At(w, "idle") /\ At(w, "delete") /\ Respond(w)
        /\ UNCHANGED <<bots, hist, moves, faults>>
        /\ agents' = IF Stored(a) THEN [agents EXCEPT ![a] = row] ELSE agents
    BY DEF DeleteAgent, At
  <1>2. /\ a \in Agent /\ task[w].req.op = "delete" /\ task[w].new = NoBot
        /\ task[w].req.agent = a
    BY <1>1, Busy DEF Serves, LinkPC, DeletePC, At
  <1>3. row \in AgentRow /\ row.cols = Blank /\ row.st = "deleted"
    BY <1>2, BlankCols DEF AgentRow, IInv, TypeOK
  <1> HIDE DEF row
  <1>4. /\ agents' \in [Agent -> AgentRow]
        /\ agents'[a].st # "stored" /\ agents'[a].cols = Blank
        /\ \A x \in Agent \ {a} : agents'[x] = agents[x]
    BY <1>1, <1>2, <1>3 DEF IInv, TypeOK, BlankUnlessStored, Stored
  <1>5. TablesFit'
    <2>1. ASSUME NEW x \in Agent
          PROVE  Whole(agents'[x].cols) /\ (OwnBot(x, agents[x].cols.bot))'
      <3>1. CASE x = a
        BY <1>4, <3>1, WholeBlank, BlankCols DEF OwnBot
      <3>2. CASE x # a
        BY <1>1, <1>4, <3>2, InvTables DEF TablesFit, OwnBot
      <3> QED  BY <3>1, <3>2
    <2>2. BlankUnlessStored'
      BY <1>2, <1>4 DEF IInv, BlankUnlessStored, Stored
    <2> QED  BY <1>1, <1>4, <2>1, <2>2, InvTables DEF TablesFit, Whole
  <1>6. BotsChange(w) /\ ReadersKnow(w) /\ task[w].req.op \in Writes
    BY <1>1, <1>2, <1>4 DEF BotsChange, ReadersKnow, Writes, Op
  <1>7. Moved(w, Idle)
    BY <1>1, Responds DEF IInv
  <1>8. ASSUME hist[a] # "excused", agents[a].cols.bot # NoBot
        PROVE  bots[agents[a].cols.bot].for = NoAgent
    BY <1>1, <1>2, <1>8, Busy DEF Knows, Deleting, At
  <1>9. NoOrphanBot'
    <2>1. ASSUME NEW b \in Bot, bots[b].for # NoAgent, hist[bots[b].for] # "excused"
          PROVE  Named(b)' \/ Held(b)'
      <3>1. CASE Held(b)
        BY <1>2, <1>7, <3>1, StillHeld, ConstantFacts
      <3>2. CASE Named(b)
        <4>1. PICK x \in Agent : Stored(x) /\ agents[x].cols.bot = b
          BY <3>2 DEF Named
        <4>2. bots[b].for = x
          BY <2>1, <4>1, InvTables, ConstantFacts DEF TablesFit, OwnBot
        <4>3. x # a
          BY <1>8, <2>1, <4>1, <4>2, ConstantFacts
        <4> QED  BY <1>4, <4>1, <4>3 DEF Named, Stored
      <3> QED  BY <2>1, <3>1, <3>2, OrphanFree
    <2> QED  BY <1>1, <2>1 DEF NoOrphanBot
  <1>10. NoDanglingBot'
    <2>1. ASSUME NEW x \in Agent, agents'[x].st = "stored", agents'[x].cols.bot # NoBot,
                 bots[agents'[x].cols.bot].for = NoAgent, hist[x] # "excused"
          PROVE  \E v \in Worker : (On(v, x) /\ At(v, "delete"))'
      <3>1. x # a
        BY <1>4, <2>1
      <3>2. PICK v \in Worker : On(v, x) /\ At(v, "delete")
        BY <1>4, <2>1, <3>1 DEF IInv, NoDanglingBot, Stored
      <3>3. v # w
        BY <3>1, <3>2 DEF On, Target
      <3> QED  BY <1>7, <3>2, <3>3 DEF Moved, On, At
    <2> QED  BY <1>1, <2>1 DEF NoDanglingBot, Stored
  <1> QED  BY <1>1, <1>4, <1>5, <1>6, <1>9, <1>10, WriteRests

------------------------------------------------------------------------------
LEMMA InitHolds ==
    ASSUME Init
    PROVE  IInv
  <1>1. \A a \in Agent : agents[a].st = "free" /\ agents[a].cols = Blank
    BY DEF Init
  <1>2. \A w \in Worker : task[w] = Idle
    BY DEF Init
  <1>3. \A b \in Bot : bots[b] = NoRow
    BY DEF Init
  <1>4. TypeOK
    <2>1. [st |-> "free", cols |-> Blank, was |-> FALSE] \in AgentRow
      BY BlankCols DEF AgentRow
    <2> QED  BY <2>1, BlankCols, IdleServes DEF Init, TypeOK, Hist
  <1>5. Serving
    BY <1>2, IdleServes DEF Serving
  <1>6. BlankUnlessStored /\ InsertsUnseen /\ OneWriter /\ InStep
    BY <1>1, <1>2, IdleServes DEF BlankUnlessStored, InsertsUnseen, OneWriter, InStep, At
  <1>7. BotsApart
    BY <1>1, <1>2, IdleServes, BlankCols DEF BotsApart
  <1>8. LinkWhole
    BY <1>1, <1>2, IdleServes, BlankCols DEF LinkWhole
  <1>9. NoOrphanBot /\ NoDanglingBot
    BY <1>1, <1>3, BlankCols DEF NoOrphanBot, NoDanglingBot
  <1> QED  BY <1>4, <1>5, <1>6, <1>7, <1>8, <1>9 DEF IInv

LEMMA StutterKeeps ==
    ASSUME IInv, UNCHANGED vars
    PROVE  IInv'
  <1>1. agents' = agents /\ bots' = bots /\ task' = task /\ hist' = hist
        /\ moves' = moves /\ faults' = faults
    BY DEF vars
  <1>2. TypeOK'
    BY <1>1 DEF IInv, TypeOK
  <1>3. Serving'
    BY <1>1 DEF IInv, Serving, At
  <1>4. (BlankUnlessStored /\ InsertsUnseen)'
    BY <1>1 DEF IInv, BlankUnlessStored, InsertsUnseen, Stored, At, On, Target
  <1>5. OneWriter'
    <2>1. OneWriter
      BY DEF IInv
    <2> QED  BY <1>1, <2>1 DEF OneWriter, At, On, Target
  <1>6. BotsApart'
    BY <1>1 DEF IInv, BotsApart, At, On, Target
  <1>7. LinkWhole'
    BY <1>1 DEF IInv, LinkWhole, At
  <1>8. InStep'
    <2>1. InStep
      BY DEF IInv
    <2> QED  BY <1>1, <2>1 DEF InStep, Stored, At, Target, CopyCurrent, Linking, Deleting
  <1>9. NoOrphanBot'
    <2>1. NoOrphanBot
      BY DEF IInv
    <2>2. ASSUME NEW b \in Bot
          PROVE  Named(b)' = Named(b) /\ Held(b)' = Held(b)
      BY <1>1 DEF Named, Held, Stored
    <2> QED  BY <1>1, <2>1, <2>2 DEF NoOrphanBot
  <1>10. NoDanglingBot'
    <2>1. NoDanglingBot
      BY DEF IInv
    <2> QED  BY <1>1, <2>1 DEF NoDanglingBot, Stored, At, On, Target
  <1> QED  BY <1>2, <1>3, <1>4, <1>5, <1>6, <1>7, <1>8, <1>9, <1>10 DEF IInv

LEMMA NextKeeps ==
    ASSUME IInv, Next
    PROVE  IInv'
  <1>1. PICK w \in Worker : (\E r \in Requests : Start(w, r)) \/ Step(w) \/ Fail(w) \/ Crash(w)
    BY DEF Next
  <1>2. CASE \E r \in Requests : Start(w, r)
    BY <1>2, StartKeeps
  <1>3. CASE Step(w)
    BY <1>3, InsertAgentKeeps, ReadKeeps, RepairKeeps, RepairReadKeeps, WriteKeeps, ReloadKeeps,
       InsertBotKeeps, UpdateBotKeeps, ReloadBotKeeps, LinkKeeps, LinkReadKeeps, CleanupKeeps,
       DeleteBotKeeps, DeleteAgentKeeps
       DEF Step
  <1>4. CASE Fail(w)
    BY <1>4, FailKeeps
  <1>5. CASE Crash(w)
    BY <1>5, CrashKeeps
  <1> QED  BY <1>1, <1>2, <1>3, <1>4, <1>5

\* The inductive invariant holds in every reachable state of the create, update,
\* read, delete and failure steps of an agent and its bot.
THEOREM BotInvariant == Spec => []IInv
  <1>1. Init => IInv
    BY InitHolds
  <1>2. IInv /\ [Next]_vars => IInv'
    BY NextKeeps, StutterKeeps
  <1> QED  BY <1>1, <1>2, PTL DEF Spec

\* The flag and the id are written together by every statement, whatever overlaps
\* or fails, so that CreateAgentBot never answers (nil, nil) to UpdateAgentBot.
THEOREM LinksWhole == Spec => []LinkWhole
  <1>1. IInv => LinkWhole
    BY DEF IInv
  <1> QED  BY <1>1, BotInvariant, PTL

\* No agent's requests touch a bot of another agent: every id a row or a request
\* holds is that of a bot made for that agent.
THEOREM BotsStayApart == Spec => []BotsApart
  <1>1. IInv => BotsApart
    BY DEF IInv
  <1> QED  BY <1>1, BotInvariant, PTL

\* A bot without an agent that names it or a request that is linking it comes only
\* of two writes that overlapped or of a failure the code does not undo.
THEOREM OrphansExcused == Spec => []NoOrphanBot
  <1>1. IInv => NoOrphanBot
    BY DEF IInv
  <1> QED  BY <1>1, BotInvariant, PTL

\* An agent that names a bot that is gone comes only of the same, or is the one a
\* deletion is about to remove.
THEOREM DanglingExcused == Spec => []NoDanglingBot
  <1>1. IInv => NoDanglingBot
    BY DEF IInv
  <1> QED  BY <1>1, BotInvariant, PTL
------------------------------------------------------------------------------
\* The bot follows its agent: what one step does to the tasks and the histories.

LEMMA Others ==
    ASSUME TypeOK, NEW w \in Worker, NEW t, Become(w, t)
    PROVE  task'[w] = t /\ \A v \in Worker \ {w} : task'[v] = task[v]
  BY DEF TypeOK, Become

LEMMA GoesNow ==
    ASSUME TypeOK, NEW w \in Worker, NEW l, Goto(w, l)
    PROVE  /\ task'[w].pc = l /\ task'[w].req = task[w].req
           /\ task'[w].copy = task[w].copy /\ task'[w].new = task[w].new
           /\ \A v \in Worker \ {w} : task'[v] = task[v]
  <1>1. /\ task'[w] = [task[w] EXCEPT !.pc = l]
        /\ \A v \in Worker \ {w} : task'[v] = task[v]
    BY Others DEF Goto
  <1>2. task[w] \in Task
    BY TaskFields
  <1> QED  BY <1>1, <1>2 DEF Task

LEMMA GoesWithNow ==
    ASSUME TypeOK, NEW w \in Worker, NEW l, NEW c, GotoWith(w, l, c)
    PROVE  /\ task'[w].pc = l /\ task'[w].req = task[w].req
           /\ task'[w].copy = c /\ task'[w].new = task[w].new
           /\ \A v \in Worker \ {w} : task'[v] = task[v]
  <1>1. /\ task'[w] = [task[w] EXCEPT !.pc = l, !.copy = c]
        /\ \A v \in Worker \ {w} : task'[v] = task[v]
    BY Others DEF GotoWith
  <1>2. task[w] \in Task
    BY TaskFields
  <1> QED  BY <1>1, <1>2 DEF Task

LEMMA Answers ==
    ASSUME TypeOK, NEW w \in Worker, Respond(w)
    PROVE  task'[w].pc = "idle" /\ \A v \in Worker \ {w} : task'[v] = task[v]
  BY Others, IdleServes DEF Respond

\* A calm agent has one request at a time.
LEMMA Alone ==
    ASSUME FollowInv, NEW w \in Worker, ~ At(w, "idle"), hist[Target(w)] = "calm"
    PROVE  \A v \in Worker \ {w} : ~ On(v, Target(w))
  BY DEF FollowInv, OneAtATime

\* The bot that an agent names is there and made for it, unless a deletion is under way
\* or the history excuses it.
LEMMA NamedBotIsOwn ==
    ASSUME IInv, NEW a \in Agent, hist[a] = "calm", agents[a].cols.bot # NoBot,
           \A w \in Worker : ~ (On(w, a) /\ At(w, "delete"))
    PROVE  /\ Stored(a) /\ agents[a].cols.bot \in Bot
           /\ bots[agents[a].cols.bot].for = a
  <1>1. Stored(a)
    BY BlankCols DEF IInv, BlankUnlessStored
  <1>2. agents[a].cols.bot \in Bot
    BY RowFields DEF IInv
  <1>3. bots[agents[a].cols.bot].for \in {a, NoAgent}
    BY DEF IInv, BotsApart
  <1>4. bots[agents[a].cols.bot].for # NoAgent
    BY <1>1 DEF IInv, NoDanglingBot
  <1> QED  BY <1>1, <1>2, <1>3, <1>4

\* The copy that a request is about to write beside the bot it holds names that bot.
LEMMA CopyNamesBot ==
    ASSUME IInv, FollowInv, NEW w \in Worker, task[w].pc \in {"botUpdate", "botReload"},
           hist[Target(w)] = "calm"
    PROVE  /\ Target(w) \in Agent /\ task[w].copy.bot \in Bot
           /\ task[w].copy.bot = agents[Target(w)].cols.bot
           /\ bots[task[w].copy.bot].for = Target(w)
  <1>1. ~ At(w, "idle") /\ ~ At(w, "delete")
    BY DEF At
  <1>2. Target(w) \in Agent /\ Serves(task[w]) /\ Knows(task[w])
        /\ task[w].req.agent = Target(w)
    BY <1>1, Busy
  <1>3. task[w].copy.bot # NoBot
    BY <1>2 DEF Serves
  <1>4. Stored(Target(w)) /\ task[w].copy.bot = agents[Target(w)].cols.bot
    BY <1>2, <1>3 DEF Knows, Linking, CopyCurrent, BotPC
  <1>5. \A v \in Worker : ~ (On(v, Target(w)) /\ At(v, "delete"))
    BY <1>1, Alone
  <1> QED  BY <1>2, <1>3, <1>4, <1>5, NamedBotIsOwn

\* What a request has in hand does not change while another agent's rows do.
LEMMA CarriesElsewhere ==
    ASSUME IInv, FollowInv, NEW a \in Agent, NEW v \in Worker, ~ At(v, "idle"),
           NEW x, x = Target(v), x # a, hist[x] = "calm", agents'[x] = agents[x],
           \A b \in Bot : bots[b].for \notin {a, NoAgent} => bots'[b] = bots[b],
           NEW t, t = task[v]
    PROVE  CarriesOver(t)'
  <1>1. x \in Agent /\ Serves(task[v]) /\ Knows(task[v]) /\ t.req.agent = x
    BY Busy
  <1>2. CarriesOver(t) /\ x # NoAgent
    BY <1>1, ConstantFacts DEF FollowInv
  <1> DEFINE d == agents[x].cols.bot
  <1>3. PICK b : b = d
    OBVIOUS
  <1>4. (agents[x].cols.bot)' = b
    BY <1>3
  <1> HIDE DEF d
  <1>5. ASSUME t.pc = "repair", b # NoBot PROVE Follows(b, t.copy)'
    <2>1. \A w \in Worker : ~ (On(w, x) /\ At(w, "delete"))
      BY <1>5, Alone DEF At
    <2>2. b \in Bot /\ bots[b].for = x
      BY <1>1, <1>3, <1>5, <2>1, NamedBotIsOwn DEF d
    <2>3. bots'[b] = bots[b]
      BY <1>2, <2>2
    <2>4. Follows(b, t.copy)
      BY <1>1, <1>2, <1>3, <1>5 DEF CarriesOver, d
    <2> QED  BY <2>3, <2>4 DEF Follows
  <1>6. ASSUME t.pc = "botReload" PROVE Follows(t.copy.bot, t.copy)'
    <2>1. bots'[t.copy.bot] = bots[t.copy.bot]
      BY <1>2, <1>6, CopyNamesBot
    <2> QED  BY <1>2, <1>6, <2>1 DEF CarriesOver, Follows
  <1>7. ASSUME t.pc = "link" PROVE Follows(t.new, t.copy)'
    <2>1. t.new \in Bot /\ bots[t.new].for = x
      BY <1>1, <1>7, TaskFields DEF IInv, Serves, Knows, Linking, LinkPC
    <2>2. bots'[t.new] = bots[t.new]
      BY <1>2, <2>1
    <2> QED  BY <1>2, <1>7, <2>2 DEF CarriesOver, Follows
  <1>8. t.pc # "cleanup"
    BY <1>2 DEF CarriesOver
  <1> QED  BY <1>1, <1>4, <1>5, <1>6, <1>7, <1>8 DEF CarriesOver

\* A step of worker w on agent a: the other agents, their bots and requests stay as they
\* are, and what must hold of a is left to show.
LEMMA FollowsElsewhere ==
    ASSUME IInv, FollowInv, NEW w \in Worker, NEW a \in Agent,
           ~ At(w, "idle") => Target(w) = a,
           task'[w].pc # "idle" => task'[w].req.agent = a,
           \A v \in Worker \ {w} : task'[v] = task[v],
           \A x \in Agent \ {a} : agents'[x] = agents[x] /\ hist'[x] = hist[x],
           \A b \in Bot : bots[b].for \notin {a, NoAgent} => bots'[b] = bots[b],
           hist'[a] = "calm" =>
               /\ hist[a] = "calm" /\ \A v \in Worker \ {w} : ~ On(v, a)
               /\ Matched(a)'
               /\ task'[w].pc # "idle" => CarriesOver(task[w])'
    PROVE  FollowInv'
  <1>1. \A v \in Worker : ~ At(v, "idle") => Target(v) \in Agent
    BY Busy
  <1>2. OneAtATime'
    BY <1>1 DEF FollowInv, OneAtATime, At, On, Target
  <1>3. ASSUME NEW v \in Worker, ~ At(v, "idle")', (hist[Target(v)] = "calm")'
        PROVE  CarriesOver(task[v])'
    <2>1. CASE v = w
      BY <1>3, <2>1 DEF At, Target
    <2>2. CASE v # w
      <3>1. task'[v] = task[v] /\ ~ At(v, "idle") /\ Target(v)' = Target(v)
        BY <1>3, <2>2 DEF At, Target
      <3>2. Target(v) # a
        BY <1>3, <2>2, <3>1 DEF On, Target
      <3>3. PICK x, t : x \in Agent /\ x = Target(v) /\ t = task[v]
        BY <1>1, <3>1
      <3>4. hist[x] = "calm" /\ agents'[x] = agents[x]
        BY <1>3, <3>1, <3>2, <3>3
      <3>5. CarriesOver(t)'
        BY <3>1, <3>2, <3>3, <3>4, CarriesElsewhere
      <3> QED  BY <3>1, <3>3, <3>5
    <2> QED  BY <2>1, <2>2
  <1>4. ASSUME NEW x \in Agent, hist'[x] = "calm"
        PROVE  Matched(x)'
    <2>1. CASE x = a
      BY <1>4, <2>1
    <2>2. CASE x # a
      <3>1. agents'[x] = agents[x] /\ hist[x] = "calm" /\ Matched(x)
        BY <1>4, <2>2 DEF FollowInv
      <3>2. SUFFICES ASSUME Stored(x), agents[x].cols.bot # NoBot,
                            \A v \in Worker : On(v, x)' => task'[v].pc \in Settled
                     PROVE  Follows(agents[x].cols.bot, agents[x].cols)'
        BY <3>1 DEF Matched, Stored
      <3>3. \A v \in Worker : On(v, x) => task[v].pc \in Settled
        BY <2>2, <3>2 DEF On, At, Target
      <3>4. PICK b \in Bot : b = agents[x].cols.bot /\ bots[b].for = x
        BY <3>1, <3>2, <3>3, NamedBotIsOwn DEF Settled, At
      <3>5. bots'[b] = bots[b]
        BY <2>2, <3>4, ConstantFacts
      <3>6. Follows(b, agents[x].cols)
        BY <3>1, <3>2, <3>3, <3>4 DEF Matched
      <3> QED  BY <3>1, <3>4, <3>5, <3>6 DEF Follows
    <2> QED  BY <2>1, <2>2
  <1> QED  BY <1>2, <1>3, <1>4 DEF FollowInv

\* The request that worker w serves goes on, or is answered.
LEMMA Proceeds ==
    ASSUME IInv, FollowInv, NEW w \in Worker, ~ At(w, "idle"), NEW a, a = Target(w),
           UNCHANGED hist, \A v \in Worker \ {w} : task'[v] = task[v],
           task'[w].pc # "idle" => task'[w].req = task[w].req,
           \A x \in Agent \ {a} : agents'[x] = agents[x],
           \A b \in Bot : bots[b].for \notin {a, NoAgent} => bots'[b] = bots[b],
           hist[a] = "calm" =>
               Matched(a)' /\ (task'[w].pc # "idle" => CarriesOver(task[w])')
    PROVE  FollowInv'
  <1>1. a \in Agent /\ task[w].req.agent = a
    BY Busy
  <1>2. hist[a] = "calm" => \A v \in Worker \ {w} : ~ On(v, a)
    BY Alone
  <1> QED  BY <1>1, <1>2, FollowsElsewhere

\* One that leaves the two apart for now.
LEMMA Apart ==
    ASSUME NEW w \in Worker, NEW a, task'[w].pc # "idle", task'[w].req.agent = a,
           task'[w].pc \notin Settled
    PROVE  Matched(a)'
  BY DEF Matched, On, At

\* One that has not touched either.
LEMMA MatchedStill ==
    ASSUME IInv, FollowInv, NEW w \in Worker, task[w].pc \in Settled, NEW a, a = Target(w),
           hist[a] = "calm", agents'[a] = agents[a], UNCHANGED bots
    PROVE  /\ Matched(a)'
           /\ Stored(a) /\ agents[a].cols.bot # NoBot =>
                Follows(agents[a].cols.bot, agents[a].cols)
  <1>1. ~ At(w, "idle") /\ a \in Agent
    BY Busy DEF At, Settled
  <1>2. \A v \in Worker : On(v, a) => v = w
    BY <1>1, Alone
  <1>3. Stored(a) /\ agents[a].cols.bot # NoBot => Follows(agents[a].cols.bot, agents[a].cols)
    BY <1>1, <1>2 DEF FollowInv, Matched
  <1> QED  BY <1>3 DEF Matched, Stored, Follows

LEMMA CarriesNothing ==
    ASSUME NEW w, task'[w].pc \notin {"cleanup", "repair", "botReload", "link"}
    PROVE  CarriesOver(task[w])'
  BY DEF CarriesOver

LEMMA FollowsInsertAgent ==
    ASSUME IInv, FollowInv, NEW w \in Worker, InsertAgent(w)
    PROVE  FollowInv'
  <1> DEFINE c == [Blank EXCEPT !.name = task[w].req.name, !.seg = task[w].req.seg]
  <1>1. TypeOK /\ At(w, "insert") /\ ~ At(w, "idle") /\ UNCHANGED <<bots, hist>>
    BY DEF InsertAgent, At, IInv
  <1>2. PICK a \in Agent : a = Target(w) /\ a = task[w].req.agent
    BY <1>1, Busy
  <1>3. agents \in [Agent -> AgentRow] /\ c.bot = NoBot
    BY <1>1, BlankCols DEF TypeOK, Blank
  <1>4. agents' = [agents EXCEPT ![a] = [st |-> "stored", cols |-> c, was |-> c.seg]]
    BY <1>2 DEF InsertAgent
  <1> HIDE DEF c
  <1>5. agents'[a].cols.bot = NoBot /\ \A x \in Agent \ {a} : agents'[x] = agents[x]
    BY <1>3, <1>4
  <1>6. Matched(a)'
    BY <1>5 DEF Matched
  <1>7. CASE GotoWith(w, "botInsert", c)
    <2>1. /\ task'[w].pc = "botInsert" /\ task'[w].req = task[w].req
          /\ \A v \in Worker \ {w} : task'[v] = task[v]
      BY <1>1, <1>7, GoesWithNow
    <2>2. CarriesOver(task[w])'
      BY <2>1, CarriesNothing
    <2> QED  BY <1>1, <1>2, <1>5, <1>6, <2>1, <2>2, Proceeds
  <1>8. CASE Respond(w)
    BY <1>1, <1>2, <1>5, <1>6, <1>8, Answers, Proceeds
  <1> QED  BY <1>7, <1>8 DEF InsertAgent, c

LEMMA FollowsAfterRead ==
    ASSUME IInv, FollowInv, NEW w \in Worker, task[w].pc \in {"read", "repairRead"},
           UNCHANGED <<agents, bots, hist>>, NEW c, AfterRead(w, c)
    PROVE  FollowInv'
  <1>1. TypeOK /\ ~ At(w, "idle") /\ task[w].pc \in Settled
    BY DEF At, IInv, Settled
  <1>2. PICK a \in Agent : a = Target(w) /\ a = task[w].req.agent
    BY <1>1, Busy
  <1>3. task[w].req.op \in {"get", "update", "delete"}
    BY <1>1, Busy DEF Serves, ReadPC
  <1>4. CASE Respond(w)
    BY <1>1, <1>2, <1>4, Answers, MatchedStill, Proceeds
  <1>5. ASSUME NEW l \in {"write", "botDelete", "delete"}, task'[w].pc = l,
               task'[w].req = task[w].req, \A v \in Worker \ {w} : task'[v] = task[v]
        PROVE  FollowInv'
    <2>1. task'[w].pc # "idle" /\ task'[w].pc \notin Settled /\ task'[w].req.agent = a
      BY <1>2, <1>5 DEF Settled
    <2>2. Matched(a)' /\ CarriesOver(task[w])'
      BY <1>5, <2>1, Apart, CarriesNothing
    <2> QED  BY <1>1, <1>2, <1>5, <2>2, Proceeds
  <1> QED  BY <1>1, <1>3, <1>4, <1>5, GoesNow, GoesWithNow DEF AfterRead

LEMMA FollowsRead ==
    ASSUME IInv, FollowInv, NEW w \in Worker, Read(w)
    PROVE  FollowInv'
  <1>1. /\ TypeOK /\ At(w, "read") /\ ~ At(w, "idle") /\ task[w].pc \in Settled
        /\ UNCHANGED <<agents, bots, hist>>
    BY DEF Read, At, IInv, Settled
  <1>2. PICK a \in Agent : a = Target(w) /\ a = task[w].req.agent
    BY <1>1, Busy
  <1>c. PICK c, d : c = agents[a].cols /\ d = [c EXCEPT !.name = Repaired[c.name]]
    OBVIOUS
  <1>3. CASE Respond(w)
    BY <1>1, <1>2, <1>3, Answers, MatchedStill, Proceeds
  <1>4. CASE AfterRead(w, c)
    BY <1>1, <1>4, FollowsAfterRead DEF At
  <1>5. CASE GotoWith(w, "repair", d)
    <2>1. c \in Cols
      BY <1>1, <1>c, RowFields
    <2>2. d.seg = c.seg /\ d.name = Repaired[c.name] /\ c.name \in Name
      BY <1>c, <2>1 DEF Cols
    <2>3. Repaired[d.name] = Repaired[c.name]
      BY <2>2, ConstantsAssumption
    <2>4. \A b : Follows(b, c) => Follows(b, d)'
      BY <1>1, <2>2, <2>3 DEF Follows
    <2>5. /\ task'[w].pc = "repair" /\ task'[w].req = task[w].req /\ task'[w].copy = d
          /\ \A v \in Worker \ {w} : task'[v] = task[v]
      BY <1>1, <1>5, GoesWithNow
    <2>6. ASSUME hist[a] = "calm" PROVE Matched(a)' /\ CarriesOver(task[w])'
      <3>1. /\ Matched(a)'
            /\ Stored(a) /\ agents[a].cols.bot # NoBot =>
                  Follows(agents[a].cols.bot, agents[a].cols)
        BY <1>1, <1>2, <2>6, MatchedStill
      <3>2. agents[a].cols.bot # NoBot => Stored(a)
        BY BlankCols DEF IInv, BlankUnlessStored
      <3>3. PICK b : b = agents[a].cols.bot
        OBVIOUS
      <3>4. b # NoBot => Follows(b, d)'
        BY <1>c, <2>4, <3>1, <3>2, <3>3
      <3>5. agents'[task'[w].req.agent].cols.bot = b
        BY <1>1, <1>2, <2>5, <3>3
      <3>6. PICK t : t = task'[w]
        OBVIOUS
      <3>7. t.copy = d /\ t.pc = "repair" /\ agents'[t.req.agent].cols.bot = b
        BY <2>5, <3>5, <3>6
      <3>8. CarriesOver(t)'
        BY <3>4, <3>7 DEF CarriesOver
      <3> QED  BY <3>1, <3>6, <3>8
    <2> QED  BY <1>1, <1>2, <2>5, <2>6, Proceeds
  <1> QED  BY <1>2, <1>c, <1>3, <1>4, <1>5 DEF Read

LEMMA FollowsRepairRead ==
    ASSUME IInv, FollowInv, NEW w \in Worker, RepairRead(w)
    PROVE  FollowInv'
  <1>1. /\ TypeOK /\ At(w, "repairRead") /\ ~ At(w, "idle") /\ task[w].pc \in Settled
        /\ UNCHANGED <<agents, bots, hist>>
    BY DEF RepairRead, At, IInv, Settled
  <1>2. PICK a \in Agent : a = Target(w) /\ a = task[w].req.agent
    BY <1>1, Busy
  <1>3. CASE Respond(w)
    BY <1>1, <1>2, <1>3, Answers, MatchedStill, Proceeds
  <1>4. CASE AfterRead(w, agents[Target(w)].cols)
    BY <1>1, <1>4, FollowsAfterRead DEF At
  <1> QED  BY <1>3, <1>4 DEF RepairRead

\* The row after an update of it.
LEMMA RowUpdated ==
    ASSUME TypeOK, NEW a \in Agent, NEW new, UpdateAgent(a, new)
    PROVE  /\ \A x \in Agent \ {a} : agents'[x] = agents[x]
           /\ agents'[a].st = agents[a].st
           /\ Stored(a) => agents'[a].cols = Patch(agents[a].cols, new)
           /\ ~ Stored(a) => agents'[a] = agents[a]
  <1>1. agents \in [Agent -> AgentRow]
    BY DEF TypeOK
  <1> DEFINE p == Patch(agents[a].cols, new)
  <1>2. CASE Stored(a)
    <2>1. agents' = [agents EXCEPT ![a].cols = p, ![a].was = @ \/ new.seg]
      BY <1>2 DEF UpdateAgent
    <2> HIDE DEF p
    <2>2. /\ \A x \in Agent \ {a} : agents'[x] = agents[x]
          /\ agents'[a] = [agents[a] EXCEPT !.cols = p, !.was = @ \/ new.seg]
      BY <1>1, <2>1
    <2>3. agents'[a].st = agents[a].st /\ agents'[a].cols = p
      BY <1>1, <2>2 DEF AgentRow
    <2> QED  BY <1>2, <2>2, <2>3 DEF p
  <1> QED  BY <1>2 DEF UpdateAgent

LEMMA FollowsRepair ==
    ASSUME IInv, FollowInv, NEW w \in Worker, Repair(w)
    PROVE  FollowInv'
  <1>1. TypeOK /\ At(w, "repair") /\ ~ At(w, "idle") /\ UNCHANGED <<bots, hist>>
    BY DEF Repair, At, IInv
  <1>2. PICK a \in Agent : a = Target(w) /\ a = task[w].req.agent
    BY <1>1, Busy
  <1>3. /\ task'[w].pc = "repairRead" /\ task'[w].req = task[w].req
        /\ \A v \in Worker \ {w} : task'[v] = task[v]
    BY <1>1, GoesNow DEF Repair
  <1>4. UpdateAgent(a, task[w].copy)
    BY <1>2 DEF Repair
  <1>5. \A x \in Agent \ {a} : agents'[x] = agents[x]
    BY <1>1, <1>4, RowUpdated
  <1>6. ASSUME hist[a] = "calm" PROVE Matched(a)'
    <2>1. CASE ~ Stored(a)
      BY <1>1, <1>4, <2>1, RowUpdated DEF Matched, Stored
    <2>2. CASE Stored(a)
      <3>1. PICK c, k : c = agents[a].cols /\ k = task[w].copy
        OBVIOUS
      <3>2. agents'[a].cols = Patch(c, k)
        BY <1>1, <1>4, <2>2, <3>1, RowUpdated
      <3>3. CopyCurrent(task[w]) /\ CarriesOver(task[w])
        BY <1>1, <1>2, <1>6, Busy DEF Knows, FollowInv
      <3>4. k.bot \in {NoBot, c.bot}
        BY <1>2, <2>2, <3>1, <3>3 DEF CopyCurrent
      <3>5. c.bot # NoBot => Follows(c.bot, k)
        BY <1>1, <1>2, <3>1, <3>3 DEF CarriesOver, At
      <3>6. Patch(c, k).bot = c.bot /\ Patch(c, k).name = k.name /\ Patch(c, k).seg = k.seg
        BY <3>4 DEF Patch
      <3>7. PICK d : d = Patch(c, k)
        OBVIOUS
      <3>8. d.bot # NoBot => Follows(d.bot, d)'
        BY <1>1, <3>5, <3>6, <3>7 DEF Follows
      <3> QED  BY <3>2, <3>7, <3>8 DEF Matched
    <2> QED  BY <2>1, <2>2
  <1>7. CarriesOver(task[w])'
    BY <1>3, CarriesNothing
  <1> QED  BY <1>1, <1>2, <1>3, <1>5, <1>6, <1>7, Proceeds

LEMMA FollowsWrite ==
    ASSUME IInv, FollowInv, NEW w \in Worker, Write(w)
    PROVE  FollowInv'
  <1>1. TypeOK /\ At(w, "write") /\ ~ At(w, "idle") /\ UNCHANGED <<bots, hist>>
    BY DEF Write, At, IInv
  <1>2. PICK a \in Agent : a = Target(w) /\ a = task[w].req.agent
    BY <1>1, Busy
  <1>3. /\ task'[w].pc = "reload" /\ task'[w].req = task[w].req
        /\ \A v \in Worker \ {w} : task'[v] = task[v]
    BY <1>1, GoesNow DEF Write
  <1>4. \A x \in Agent \ {a} : agents'[x] = agents[x]
    BY <1>1, <1>2, RowUpdated DEF Write
  <1>5. Matched(a)'
    BY <1>2, <1>3, Apart DEF Settled
  <1>6. CarriesOver(task[w])'
    BY <1>3, CarriesNothing
  <1> QED  BY <1>1, <1>2, <1>3, <1>4, <1>5, <1>6, Proceeds

LEMMA FollowsReload ==
    ASSUME IInv, FollowInv, NEW w \in Worker, Reload(w)
    PROVE  FollowInv'
  <1>1. TypeOK /\ At(w, "reload") /\ ~ At(w, "idle") /\ UNCHANGED <<agents, bots, hist>>
    BY DEF Reload, At, IInv
  <1>2. PICK a \in Agent : a = Target(w) /\ a = task[w].req.agent
    BY <1>1, Busy
  <1>3. CASE ~ Stored(Target(w)) /\ Respond(w)
    <2>1. Matched(a)'
      BY <1>1, <1>2, <1>3 DEF Matched, Stored
    <2> QED  BY <1>1, <1>2, <1>3, <2>1, Answers, Proceeds
  <1>4. ASSUME NEW l \in {"botInsert", "botUpdate"}, NEW c, GotoWith(w, l, c)
        PROVE  FollowInv'
    <2>1. /\ task'[w].pc = l /\ task'[w].req = task[w].req
          /\ \A v \in Worker \ {w} : task'[v] = task[v]
      BY <1>1, <1>4, GoesWithNow
    <2>2. task'[w].pc # "idle" /\ task'[w].pc \notin Settled /\ task'[w].req.agent = a
      BY <1>2, <2>1 DEF Settled
    <2>3. Matched(a)' /\ CarriesOver(task[w])'
      BY <2>1, <2>2, Apart, CarriesNothing
    <2> QED  BY <1>1, <1>2, <2>1, <2>3, Proceeds
  <1> QED  BY <1>3, <1>4 DEF Reload

LEMMA FollowsInsertBot ==
    ASSUME IInv, FollowInv, NEW w \in Worker, NEW b \in Bot, InsertBot(w, b)
    PROVE  FollowInv'
  <1>1. /\ TypeOK /\ At(w, "botInsert") /\ ~ At(w, "idle") /\ UNCHANGED <<agents, hist>>
        /\ bots[b].for = NoAgent
    BY DEF InsertBot, Fresh, At, IInv
  <1>2. PICK a, c : a \in Agent /\ a = Target(w) /\ a = task[w].req.agent /\ c = task[w].copy
    BY <1>1, Busy
  <1>3. ~ c.sync
    BY <1>1, <1>2, Busy DEF Serves, Whole, At
  <1>4. /\ bots' = [bots EXCEPT ![b] = [for |-> a, name |-> c.name, seg |-> c.seg]]
        /\ Become(w, [task[w] EXCEPT !.pc = "link", !.new = b])
    BY <1>2, <1>3 DEF InsertBot
  <1>5. /\ task'[w].pc = "link" /\ task'[w].req = task[w].req /\ task'[w].copy = c
        /\ task'[w].new = b /\ \A v \in Worker \ {w} : task'[v] = task[v]
    <2>1. /\ task'[w] = [task[w] EXCEPT !.pc = "link", !.new = b]
          /\ \A v \in Worker \ {w} : task'[v] = task[v]
      BY <1>1, <1>4, Others
    <2>2. task[w] \in Task
      BY <1>1, TaskFields
    <2> QED  BY <1>2, <2>1, <2>2 DEF Task
  <1>6. /\ bots'[b].name = c.name /\ bots'[b].seg = c.seg
        /\ \A x \in Bot \ {b} : bots'[x] = bots[x]
    BY <1>1, <1>4 DEF TypeOK
  <1>7. Follows(b, c)'
    BY <1>6 DEF Follows
  <1>8. PICK t : t = task'[w]
    OBVIOUS
  <1>9. CarriesOver(t)'
    BY <1>5, <1>7, <1>8 DEF CarriesOver
  <1>10. Matched(a)'
    BY <1>2, <1>5, Apart DEF Settled
  <1>11. \A x \in Bot : bots[x].for \notin {a, NoAgent} => bots'[x] = bots[x]
    BY <1>1, <1>6
  <1> QED  BY <1>1, <1>2, <1>5, <1>8, <1>9, <1>10, <1>11, Proceeds

LEMMA FollowsUpdateBot ==
    ASSUME IInv, FollowInv, NEW w \in Worker, UpdateBot(w)
    PROVE  FollowInv'
  <1>1. TypeOK /\ At(w, "botUpdate") /\ ~ At(w, "idle") /\ UNCHANGED <<agents, hist>>
    BY DEF UpdateBot, At, IInv
  <1>2. PICK a, c : a \in Agent /\ a = Target(w) /\ a = task[w].req.agent /\ c = task[w].copy
    BY <1>1, Busy
  <1>3. /\ task'[w].pc = "botReload" /\ task'[w].req = task[w].req /\ task'[w].copy = c
        /\ \A v \in Worker \ {w} : task'[v] = task[v]
    BY <1>1, <1>2, GoesNow DEF UpdateBot
  <1>4. /\ bots' = IF bots[c.bot].for = NoAgent THEN bots
                   ELSE [bots EXCEPT ![c.bot].name = c.name, ![c.bot].seg = @ \/ c.seg]
        /\ bots \in [Bot -> BotRow]
    BY <1>1, <1>2 DEF UpdateBot, TypeOK
  <1>5. c.bot \in Bot /\ bots[c.bot].for \in {a, NoAgent}
    <2>1. c.bot # NoBot
      BY <1>1, <1>2, Busy DEF Serves, At
    <2> QED  BY <1>1, <1>2, <2>1, TaskFields, Busy DEF OwnBot
  <1>6. \A x \in Bot \ {c.bot} : bots'[x] = bots[x]
    BY <1>4
  <1>7. ASSUME hist[a] = "calm" PROVE CarriesOver(task[w])'
    <2>1. bots[c.bot].for # NoAgent
      BY <1>1, <1>2, <1>7, CopyNamesBot, ConstantFacts DEF At
    <2>2. bots' = [bots EXCEPT ![c.bot].name = c.name, ![c.bot].seg = @ \/ c.seg]
      BY <1>4, <2>1
    <2>3. bots'[c.bot] = [bots[c.bot] EXCEPT !.name = c.name, !.seg = @ \/ c.seg]
      BY <1>4, <1>5, <2>2
    <2>4. bots'[c.bot].name = c.name /\ bots'[c.bot].seg = (bots[c.bot].seg \/ c.seg)
      <3>1. PICK f : f = (bots[c.bot].seg \/ c.seg)
        OBVIOUS
      <3>2. bots'[c.bot] = [bots[c.bot] EXCEPT !.name = c.name, !.seg = f]
        BY <2>3, <3>1
      <3>3. bots[c.bot] \in BotRow
        BY <1>4, <1>5
      <3>4. bots'[c.bot].name = c.name /\ bots'[c.bot].seg = f
        BY <3>2, <3>3 DEF BotRow
      <3> QED  BY <3>1, <3>4
    <2>5. Follows(c.bot, c)'
      BY <2>4 DEF Follows
    <2>6. PICK t : t = task'[w]
      OBVIOUS
    <2>7. CarriesOver(t)'
      BY <1>3, <2>5, <2>6 DEF CarriesOver
    <2> QED  BY <2>6, <2>7
  <1>8. Matched(a)'
    BY <1>2, <1>3, Apart DEF Settled
  <1>9. \A x \in Bot : bots[x].for \notin {a, NoAgent} => bots'[x] = bots[x]
    BY <1>5, <1>6
  <1> QED  BY <1>1, <1>2, <1>3, <1>7, <1>8, <1>9, Proceeds

LEMMA FollowsReloadBot ==
    ASSUME IInv, FollowInv, NEW w \in Worker, ReloadBot(w)
    PROVE  FollowInv'
  <1>1. TypeOK /\ At(w, "botReload") /\ ~ At(w, "idle") /\ UNCHANGED <<agents, bots, hist>>
    BY DEF ReloadBot, At, IInv
  <1>2. PICK a, c : a \in Agent /\ a = Target(w) /\ a = task[w].req.agent /\ c = task[w].copy
    BY <1>1, Busy
  <1>3. hist[a] = "calm" => bots[c.bot].for # NoAgent
    BY <1>1, <1>2, CopyNamesBot, ConstantFacts DEF At
  <1>4. CASE Respond(w) /\ bots[c.bot].for = NoAgent
    BY <1>1, <1>2, <1>3, <1>4, Answers, Proceeds
  <1>5. CASE Become(w, [task[w] EXCEPT !.pc = "link", !.new = c.bot])
    <2>1. /\ task'[w].pc = "link" /\ task'[w].req = task[w].req /\ task'[w].copy = c
          /\ task'[w].new = c.bot /\ \A v \in Worker \ {w} : task'[v] = task[v]
      <3>1. /\ task'[w] = [task[w] EXCEPT !.pc = "link", !.new = c.bot]
            /\ \A v \in Worker \ {w} : task'[v] = task[v]
        BY <1>1, <1>5, Others
      <3>2. task[w] \in Task
        BY <1>1, TaskFields
      <3> QED  BY <1>2, <3>1, <3>2 DEF Task
    <2>2. ASSUME hist[a] = "calm" PROVE CarriesOver(task[w])'
      <3>1. Follows(c.bot, c)
        BY <1>1, <1>2, <2>2 DEF FollowInv, CarriesOver, At
      <3>2. Follows(c.bot, c)'
        BY <1>1, <3>1 DEF Follows
      <3>3. PICK t : t = task'[w]
        OBVIOUS
      <3>4. CarriesOver(t)'
        BY <2>1, <3>2, <3>3 DEF CarriesOver
      <3> QED  BY <3>3, <3>4
    <2>3. Matched(a)'
      BY <1>2, <2>1, Apart DEF Settled
    <2> QED  BY <1>1, <1>2, <2>1, <2>2, <2>3, Proceeds
  <1> QED  BY <1>2, <1>4, <1>5 DEF ReloadBot

LEMMA FollowsLink ==
    ASSUME IInv, FollowInv, NEW w \in Worker, Link(w)
    PROVE  FollowInv'
  <1>1. TypeOK /\ At(w, "link") /\ ~ At(w, "idle") /\ UNCHANGED <<bots, hist>>
    BY DEF Link, At, IInv
  <1>2. PICK a, c, b : a \in Agent /\ a = Target(w) /\ a = task[w].req.agent /\ c = task[w].copy
                                 /\ b = task[w].new
    BY <1>1, Busy
  <1>3. /\ task'[w].pc = "linkRead" /\ task'[w].req = task[w].req
        /\ \A v \in Worker \ {w} : task'[v] = task[v]
    BY <1>1, GoesNow DEF Link
  <1>4. PICK d : d = [c EXCEPT !.bot = b, !.sync = TRUE]
    OBVIOUS
  <1>5. UpdateAgent(a, d)
    BY <1>2, <1>4 DEF Link
  <1>6. \A x \in Agent \ {a} : agents'[x] = agents[x]
    BY <1>1, <1>2, <1>5, RowUpdated
  <1>7. ASSUME hist[a] = "calm" PROVE Matched(a)'
    <2>1. Stored(a)
      BY <1>1, <1>2, <1>7, Busy DEF Knows, Linking, LinkPC, At
    <2>2. Follows(b, c) /\ b # NoBot
      BY <1>1, <1>2, <1>7, Busy DEF FollowInv, CarriesOver, Serves, LinkPC, At
    <2>3. d.bot = b /\ d.name = c.name /\ d.seg = c.seg
      BY <1>1, <1>2, <1>4, TaskFields DEF Cols
    <2>4. PICK e : e = Patch(agents[a].cols, d)
      OBVIOUS
    <2>5. e.bot = b /\ e.name = c.name /\ e.seg = c.seg
      BY <2>2, <2>3, <2>4 DEF Patch
    <2>6. agents'[a].cols = e
      BY <1>1, <1>2, <1>5, <2>1, <2>4, RowUpdated
    <2>7. Follows(b, e)'
      BY <1>1, <2>2, <2>5 DEF Follows
    <2> QED  BY <2>5, <2>6, <2>7 DEF Matched
  <1>8. CarriesOver(task[w])'
    BY <1>3, CarriesNothing
  <1> QED  BY <1>1, <1>2, <1>3, <1>6, <1>7, <1>8, Proceeds

LEMMA FollowsLinkRead ==
    ASSUME IInv, FollowInv, NEW w \in Worker, LinkRead(w)
    PROVE  FollowInv'
  <1>1. /\ TypeOK /\ At(w, "linkRead") /\ ~ At(w, "idle") /\ UNCHANGED <<agents, bots, hist>>
        /\ task[w].pc \in Settled
    BY DEF LinkRead, At, IInv, Settled
  <1>2. PICK a \in Agent : a = Target(w) /\ a = task[w].req.agent
    BY <1>1, Busy
  <1>3. CASE Stored(a) /\ Respond(w)
    BY <1>1, <1>2, <1>3, Answers, MatchedStill, Proceeds
  <1>4. CASE ~ Stored(a) /\ Unlinked(w)
    <2>1. hist[a] # "calm"
      BY <1>1, <1>2, <1>4, Busy DEF Knows, Linking, LinkPC, At
    <2>2. /\ task'[w].pc # "idle" => task'[w].req = task[w].req
          /\ \A v \in Worker \ {w} : task'[v] = task[v]
      BY <1>1, <1>4, GoesNow, Answers DEF Unlinked
    <2> QED  BY <1>1, <1>2, <2>1, <2>2, Proceeds
  <1> QED  BY <1>2, <1>3, <1>4 DEF LinkRead

LEMMA FollowsCleanup ==
    ASSUME IInv, FollowInv, NEW w \in Worker, Cleanup(w)
    PROVE  FollowInv'
  <1>1. TypeOK /\ At(w, "cleanup") /\ ~ At(w, "idle") /\ UNCHANGED <<agents, hist>>
    BY DEF Cleanup, At, IInv
  <1>2. PICK a, b : a \in Agent /\ a = Target(w) /\ a = task[w].req.agent /\ b = task[w].new
    BY <1>1, Busy
  <1>3. hist[a] # "calm"
    BY <1>1, <1>2 DEF FollowInv, CarriesOver, At
  <1>4. bots[b].for \in {a, NoAgent}
    BY <1>1, <1>2, Busy DEF Serves, OwnBot, LinkPC, At
  <1>5. \A x \in Bot : bots[x].for \notin {a, NoAgent} => bots'[x] = bots[x]
    BY <1>1, <1>2, <1>4 DEF Cleanup, TypeOK
  <1>6. task'[w].pc = "idle" /\ \A v \in Worker \ {w} : task'[v] = task[v]
    BY <1>1, Answers DEF Cleanup
  <1> QED  BY <1>1, <1>2, <1>3, <1>5, <1>6, Proceeds

LEMMA FollowsDeleteBot ==
    ASSUME IInv, FollowInv, NEW w \in Worker, DeleteBot(w)
    PROVE  FollowInv'
  <1>1. /\ TypeOK /\ task[w].pc \in {"botDelete", "botDeleteSafe"} /\ ~ At(w, "idle")
        /\ UNCHANGED <<agents, hist>>
    BY DEF DeleteBot, At, IInv
  <1>2. PICK a, b : a \in Agent /\ a = Target(w) /\ a = task[w].req.agent /\ b = task[w].copy.bot
    BY <1>1, Busy
  <1>3. bots[b].for \in {a, NoAgent}
    BY <1>1, <1>2, Busy DEF Serves, OwnBot
  <1>4. \A x \in Bot : bots[x].for \notin {a, NoAgent} => bots'[x] = bots[x]
    BY <1>1, <1>2, <1>3 DEF DeleteBot, TypeOK
  <1>5. /\ task'[w].pc = "delete" /\ task'[w].req = task[w].req
        /\ \A v \in Worker \ {w} : task'[v] = task[v]
    BY <1>1, GoesNow DEF DeleteBot
  <1>6. Matched(a)' /\ CarriesOver(task[w])'
    BY <1>2, <1>5, Apart, CarriesNothing DEF Settled
  <1> QED  BY <1>1, <1>2, <1>4, <1>5, <1>6, Proceeds

LEMMA FollowsDeleteAgent ==
    ASSUME IInv, FollowInv, NEW w \in Worker, DeleteAgent(w)
    PROVE  FollowInv'
  <1>1. TypeOK /\ At(w, "delete") /\ ~ At(w, "idle") /\ UNCHANGED <<bots, hist>>
    BY DEF DeleteAgent, At, IInv
  <1>2. PICK a \in Agent : a = Target(w) /\ a = task[w].req.agent
    BY <1>1, Busy
  <1>3. ~ Stored(a)' /\ \A x \in Agent \ {a} : agents'[x] = agents[x]
    BY <1>1, <1>2 DEF DeleteAgent, TypeOK, Stored
  <1>4. Matched(a)'
    BY <1>3 DEF Matched
  <1>5. task'[w].pc = "idle" /\ \A v \in Worker \ {w} : task'[v] = task[v]
    BY <1>1, Answers DEF DeleteAgent
  <1> QED  BY <1>1, <1>2, <1>3, <1>4, <1>5, Proceeds

\* A failure, or a request that dies, is not calm.
LEMMA FollowsFault ==
    ASSUME IInv, FollowInv, NEW w \in Worker, Fail(w) \/ Crash(w)
    PROVE  FollowInv'
  <1>1. TypeOK /\ ~ At(w, "idle") /\ UNCHANGED <<agents, bots>>
    BY DEF Fail, Crash, IInv
  <1>2. PICK a \in Agent : a = Target(w) /\ a = task[w].req.agent
    BY <1>1, Busy
  <1>3. PICK k \in {"shared", "excused"} : Mark(a, k)
    BY <1>2 DEF Fail, Crash
  <1>4. hist'[a] # "calm" /\ \A x \in Agent \ {a} : hist'[x] = hist[x]
    BY <1>1, <1>3 DEF TypeOK, Mark, Worse, Hist
  <1>5. /\ task'[w].pc # "idle" => task'[w].req = task[w].req
        /\ \A v \in Worker \ {w} : task'[v] = task[v]
    BY <1>1, GoesNow, Answers DEF Fail, Crash, Unlinked
  <1> QED  BY <1>1, <1>2, <1>4, <1>5, FollowsElsewhere

LEMMA FollowsStart ==
    ASSUME IInv, FollowInv, NEW w \in Worker, NEW r \in Requests, Start(w, r)
    PROVE  FollowInv'
  <1>1. TypeOK /\ At(w, "idle") /\ UNCHANGED <<agents, bots>>
    BY DEF Start, IInv
  <1>2. PICK a \in Agent : a = r.agent
    BY ConstantFacts DEF Request
  <1>3. hist[a] \in Hist /\ hist' = [hist EXCEPT ![a] = Worse(hist[a], Overlap(r))]
    BY <1>1, <1>2 DEF Start, Mark, TypeOK
  <1>4. \A x \in Agent \ {a} : hist'[x] = hist[x]
    BY <1>1, <1>3 DEF TypeOK
  <1>5. ASSUME hist'[a] = "calm"
        PROVE  hist[a] = "calm" /\ \A v \in Worker : ~ On(v, a)
    <2>1. hist'[a] = Worse(hist[a], Overlap(r))
      BY <1>1, <1>3 DEF TypeOK
    <2>2. hist[a] = "calm" /\ Overlap(r) # "shared" /\ Overlap(r) # "excused"
      BY <1>3, <1>5, <2>1 DEF Worse, Hist
    <2> QED  BY <1>2, <2>2 DEF Overlap
  <1>6. /\ task'[w].pc \in {"insert", "read"} /\ task'[w].req = r
        /\ \A v \in Worker \ {w} : task'[v] = task[v]
    <2>1. /\ task'[w] = [Idle EXCEPT !.pc = Entry(r.op), !.req = r]
          /\ \A v \in Worker \ {w} : task'[v] = task[v]
      BY <1>1, Others DEF Start
    <2> QED  BY <2>1 DEF Idle, Entry
  <1>7. ASSUME hist'[a] = "calm" PROVE Matched(a)'
    <2>1. Matched(a) /\ \A v \in Worker : ~ On(v, a)
      BY <1>5, <1>7 DEF FollowInv
    <2> QED  BY <1>1, <2>1 DEF Matched, Stored, Follows
  <1>8. CarriesOver(task[w])'
    BY <1>6, CarriesNothing
  <1> QED  BY <1>1, <1>2, <1>4, <1>5, <1>6, <1>7, <1>8, FollowsElsewhere

LEMMA FollowsStep ==
    ASSUME IInv, FollowInv, [Next]_vars
    PROVE  FollowInv'
  <1>1. CASE UNCHANGED vars
    BY <1>1 DEF vars, FollowInv, OneAtATime, CarriesOver, Matched, Follows, At, On, Target, Stored
  <1>2. CASE \E w \in Worker : Step(w)
    BY <1>2, FollowsInsertAgent, FollowsRead, FollowsRepair, FollowsRepairRead, FollowsWrite,
       FollowsReload, FollowsInsertBot, FollowsUpdateBot, FollowsReloadBot, FollowsLink,
       FollowsLinkRead, FollowsCleanup, FollowsDeleteBot, FollowsDeleteAgent
       DEF Step
  <1>3. CASE \E w \in Worker : (\E r \in Requests : Start(w, r)) \/ Fail(w) \/ Crash(w)
    BY <1>3, FollowsStart, FollowsFault
  <1> QED  BY <1>1, <1>2, <1>3 DEF Next

LEMMA FollowsInit == Init => FollowInv
  BY IdleServes, BlankCols DEF Init, FollowInv, OneAtATime, Matched, Stored, At

------------------------------------------------------------------------------
\* Segmentation that is on somewhere has been on in the agent's row.

\* The rows keep what they remember, and what is on in them is remembered.
Remembers ==
    \A a \in Agent : Recalls(agents'[a]) /\ (agents[a].was => agents'[a].was)

LEMMA UpdateRemembers ==
    ASSUME TypeOK, OnceOn, NEW a \in Agent, NEW new \in Cols, UpdateAgent(a, new)
    PROVE  Remembers
  <1>1. agents \in [Agent -> AgentRow] /\ new.seg \in BOOLEAN
    BY DEF TypeOK, Cols
  <1>2. CASE Stored(a)
    <2> DEFINE p == Patch(agents[a].cols, new)
    <2>1. agents' = [agents EXCEPT ![a].cols = p, ![a].was = @ \/ new.seg]
      BY <1>2 DEF UpdateAgent
    <2>2. p.seg = new.seg
      BY DEF Patch
    <2> HIDE DEF p
    <2>3. /\ agents'[a].st = agents[a].st /\ agents'[a].cols = p
          /\ agents'[a].was = (agents[a].was \/ new.seg)
          /\ \A x \in Agent \ {a} : agents'[x] = agents[x]
      BY <1>1, <2>1 DEF AgentRow
    <2>4. Recalls(agents'[a]) /\ (agents[a].was => agents'[a].was)
      BY <1>2, <2>2, <2>3 DEF Recalls, Stored
    <2> QED  BY <2>3, <2>4 DEF OnceOn, Remembers
  <1>3. CASE ~ Stored(a)
    <2>1. agents' = agents
      BY <1>3 DEF UpdateAgent
    <2> QED  BY <2>1 DEF OnceOn, Remembers
  <1> QED  BY <1>2, <1>3

LEMMA RowsRemember ==
    ASSUME IInv, OnceOn, NEW w \in Worker, Step(w)
    PROVE  Remembers
  <1>1. CASE InsertAgent(w)
    <2> DEFINE c == [Blank EXCEPT !.name = task[w].req.name, !.seg = task[w].req.seg]
    <2>1. /\ agents' = [agents EXCEPT ![Target(w)] = [st |-> "stored", cols |-> c, was |-> c.seg]]
          /\ Target(w) \in Agent /\ agents[Target(w)].st = "free"
      BY <1>1, Busy DEF InsertAgent, At, IInv, InsertsUnseen, Target
    <2> HIDE DEF c
    <2>2. /\ agents'[Target(w)] = [st |-> "stored", cols |-> c, was |-> c.seg]
          /\ \A x \in Agent \ {Target(w)} : agents'[x] = agents[x]
      BY <2>1 DEF IInv, TypeOK
    <2>3. Recalls(agents'[Target(w)]) /\ ~ agents[Target(w)].was
      BY <2>1, <2>2 DEF Recalls, OnceOn
    <2> QED  BY <2>2, <2>3 DEF OnceOn, Remembers
  <1>2. CASE Repair(w)
    BY <1>2, Busy, TaskFields, UpdateRemembers DEF Repair, At, IInv
  <1>3. CASE Write(w)
    <2>1. [Blank EXCEPT !.name = task[w].req.name, !.seg = task[w].req.seg] \in Cols
      BY <1>3, TargetTyped, BlankCols DEF Write, At, Cols, Request, IInv
    <2> QED  BY <1>3, <2>1, Busy, UpdateRemembers DEF Write, At, IInv
  <1>4. CASE Link(w)
    <2>1. [task[w].copy EXCEPT !.bot = task[w].new, !.sync = TRUE] \in Cols
      BY TaskFields DEF Cols, IInv
    <2> QED  BY <1>4, <2>1, Busy, UpdateRemembers DEF Link, At, IInv
  <1>5. CASE DeleteAgent(w)
    <2>1. Target(w) \in Agent /\ Blank.seg = FALSE
      BY <1>5, Busy DEF DeleteAgent, At, Blank
    <2> DEFINE row == [agents[Target(w)] EXCEPT !.st = "deleted", !.cols = Blank]
    <2>2. row.st = "deleted" /\ row.cols = Blank /\ row.was = agents[Target(w)].was
      BY <2>1, RowFields DEF AgentRow, IInv
    <2>3. Recalls(row)
      BY <2>1, <2>2 DEF Recalls
    <2>4. agents' = agents \/ agents' = [agents EXCEPT ![Target(w)] = row]
      BY <1>5 DEF DeleteAgent
    <2> HIDE DEF row
    <2>5. CASE agents' = [agents EXCEPT ![Target(w)] = row]
      <3>1. agents'[Target(w)] = row /\ \A x \in Agent \ {Target(w)} : agents'[x] = agents[x]
        BY <2>1, <2>5 DEF IInv, TypeOK
      <3> QED  BY <2>2, <2>3, <3>1 DEF OnceOn, Remembers
    <2> QED  BY <2>4, <2>5 DEF OnceOn, Remembers
  <1>6. CASE UNCHANGED agents
    BY <1>6 DEF OnceOn, Remembers
  <1> QED  BY <1>1, <1>2, <1>3, <1>4, <1>5, <1>6 DEF Step, Read, RepairRead, Reload, InsertBot,
              UpdateBot, ReloadBot, LinkRead, Cleanup, DeleteBot

\* What w copies is a row, and has its segmentation.
LEMMA CopiesRemember ==
    ASSUME IInv, OnceOn, NEW w \in Worker, Step(w), Remembers
    PROVE  /\ \A v \in Worker \ {w} : task'[v] = task[v]
           /\ \/ ~ task'[w].copy.seg
              \/ /\ task'[w].pc # "idle" /\ task'[w].req = task[w].req
                 /\ agents'[Target(w)].was
  <1> DEFINE Q == /\ \A v \in Worker \ {w} : task'[v] = task[v]
                  /\ \/ ~ task'[w].copy.seg
                     \/ /\ task'[w].pc # "idle" /\ task'[w].req = task[w].req
                        /\ agents'[Target(w)].was
             row == agents[Target(w)].cols
  <1>1. /\ TypeOK /\ task[w] \in Task /\ ~ At(w, "idle")
        /\ Target(w) \in Agent /\ row \in Cols
        /\ row.seg => agents'[Target(w)].was
        /\ task[w].copy.seg => agents'[Target(w)].was
    <2>1. ~ At(w, "idle")
      BY DEF Step, InsertAgent, Read, Repair, RepairRead, Write, Reload, InsertBot, UpdateBot,
             ReloadBot, Link, LinkRead, Cleanup, DeleteBot, DeleteAgent, At
    <2>2. Target(w) \in Agent /\ TypeOK /\ task[w] \in Task
      BY <2>1, Busy DEF IInv, TypeOK
    <2>3. row \in Cols /\ Recalls(agents[Target(w)])
      BY <2>2, RowFields DEF OnceOn
    <2>4. agents[Target(w)].was => agents'[Target(w)].was
      BY <2>2 DEF Remembers
    <2> QED  BY <2>1, <2>2, <2>3, <2>4 DEF OnceOn, Recalls
  <1>2. ASSUME Respond(w) PROVE Q
    <2>1. task'[w] = Idle /\ \A v \in Worker \ {w} : task'[v] = task[v]
      BY <1>1, <1>2, Others DEF Respond
    <2>2. Idle.copy.seg = FALSE
      BY DEF Idle, Blank
    <2> QED  BY <2>1, <2>2
  <1>3. ASSUME NEW l, l # "idle", Goto(w, l) PROVE Q
    BY <1>1, <1>3, GoesNow
  <1>4. ASSUME NEW l, NEW c, l # "idle", GotoWith(w, l, c), c.seg = row.seg PROVE Q
    BY <1>1, <1>4, GoesWithNow
  <1>5. ASSUME NEW b, Become(w, [task[w] EXCEPT !.pc = "link", !.new = b]) PROVE Q
    <2>1. task'[w] = [task[w] EXCEPT !.pc = "link", !.new = b]
          /\ \A v \in Worker \ {w} : task'[v] = task[v]
      BY <1>1, <1>5, Others
    <2> QED  BY <1>1, <2>1 DEF Task
  <1>6. CASE InsertAgent(w)
    <2> DEFINE c == [Blank EXCEPT !.name = task[w].req.name, !.seg = task[w].req.seg]
    <2>1. /\ agents' = [agents EXCEPT ![Target(w)] = [st |-> "stored", cols |-> c, was |-> c.seg]]
          /\ GotoWith(w, "botInsert", c) \/ Respond(w)
      BY <1>6 DEF InsertAgent, Target
    <2> HIDE DEF c
    <2>2. agents'[Target(w)].was = c.seg
      BY <1>1, <2>1 DEF TypeOK
    <2>3. GotoWith(w, "botInsert", c) => Q
      BY <1>1, <2>2, GoesWithNow
    <2> QED  BY <1>2, <2>1, <2>3
  <1>7. ASSUME NEW c, AfterRead(w, c), c.seg = row.seg, task[w].req.op \in {"get", "update", "delete"}
        PROVE  Q
    BY <1>2, <1>3, <1>4, <1>7 DEF AfterRead
  <1>8. CASE Read(w)
    <2>1. task[w].req.op \in {"get", "update", "delete"}
      BY <1>1, <1>8, Busy DEF Read, Serves, ReadPC, At
    <2>2. [row EXCEPT !.name = Repaired[row.name]].seg = row.seg
      BY <1>1 DEF Cols
    <2> QED  BY <1>2, <1>4, <1>7, <1>8, <2>1, <2>2 DEF Read
  <1>9. CASE RepairRead(w)
    <2>1. task[w].req.op \in {"get", "update", "delete"}
      BY <1>1, <1>9, Busy DEF RepairRead, Serves, ReadPC, At
    <2> QED  BY <1>2, <1>7, <1>9, <2>1 DEF RepairRead
  <1>10. CASE Reload(w)
    <2>1. [row EXCEPT !.sync = TRUE].seg = row.seg
      BY <1>1 DEF Cols
    <2> QED  BY <1>2, <1>4, <1>10, <2>1 DEF Reload
  <1>11. CASE \E b \in Bot : InsertBot(w, b)
    BY <1>2, <1>5, <1>11 DEF InsertBot
  <1>12. CASE ReloadBot(w)
    BY <1>2, <1>5, <1>12 DEF ReloadBot
  <1>13. CASE LinkRead(w)
    BY <1>2, <1>3, <1>13 DEF LinkRead, Unlinked
  <1>14. CASE Repair(w) \/ Write(w) \/ UpdateBot(w) \/ Link(w) \/ DeleteBot(w)
    BY <1>3, <1>14 DEF Repair, Write, UpdateBot, Link, DeleteBot
  <1>15. CASE Cleanup(w) \/ DeleteAgent(w)
    BY <1>2, <1>15 DEF Cleanup, DeleteAgent
  <1> QED  BY <1>6, <1>8, <1>9, <1>10, <1>11, <1>12, <1>13, <1>14, <1>15 DEF Step

\* Bots take it from such a copy, each from one of its own agent (BotsApart).
LEMMA BotsRemember ==
    ASSUME IInv, OnceOn, NEW w \in Worker, Step(w), Remembers, NEW b \in Bot, bots'[b].seg
    PROVE  bots'[b].for # NoAgent /\ agents'[bots'[b].for].was
  <1>1. bots \in [Bot -> BotRow] /\ task[w].copy.seg \in BOOLEAN
        /\ NoRow.seg = FALSE /\ NoAgent \notin Agent
    BY TaskFields, ConstantFacts DEF IInv, TypeOK, Cols, NoRow
  <1>2. bots[b].seg => bots[b].for # NoAgent /\ agents'[bots[b].for].was
    BY <1>1 DEF OnceOn, Remembers, BotRow
  <1>3. task[w].copy.seg => Target(w) \in Agent /\ agents'[Target(w)].was
    BY TargetTyped DEF IInv, OnceOn, Remembers
  <1>4. CASE \E d \in Bot : InsertBot(w, d)
    <2>1. PICK d \in Bot : InsertBot(w, d)
      BY <1>4
    <2> QED  BY <1>1, <1>2, <1>3, <2>1 DEF InsertBot
  <1>5. CASE UpdateBot(w)
    <2> DEFINE d == task[w].copy.bot
    <2>1. d # NoBot /\ d \in Bot /\ (bots[d].for # NoAgent => bots[d].for = Target(w))
      BY <1>5, TaskFields, Busy DEF UpdateBot, Serves, IInv, BotsApart, At
    <2> QED  BY <1>1, <1>2, <1>3, <1>5, <2>1 DEF UpdateBot, BotRow
  <1>6. CASE Cleanup(w) \/ DeleteBot(w)
    BY <1>1, <1>2, <1>6 DEF Cleanup, DeleteBot
  <1>7. CASE UNCHANGED bots
    BY <1>2, <1>7
  <1> QED  BY <1>4, <1>5, <1>6, <1>7 DEF Step, InsertAgent, Read, Repair, RepairRead, Write,
              Reload, ReloadBot, Link, LinkRead, DeleteAgent

LEMMA OnceOnStep ==
    ASSUME IInv, OnceOn, [Next]_vars
    PROVE  OnceOn'
  <1>1. CASE UNCHANGED vars
    BY <1>1 DEF vars, OnceOn, At, Target
  <1>2. ASSUME NEW w \in Worker, Step(w) PROVE OnceOn'
    <2>1. Remembers
      BY <1>2, RowsRemember
    <2>2. \A v \in Worker : (task[v].copy.seg => ~ At(v, "idle") /\ agents[Target(v)].was)'
      <3> SUFFICES ASSUME NEW v \in Worker, task'[v].copy.seg
                   PROVE  (~ At(v, "idle") /\ agents[Target(v)].was)'
        OBVIOUS
      <3>1. CASE v = w
        BY <1>2, <2>1, <3>1, CopiesRemember DEF At, Target
      <3>2. CASE v # w
        <4>1. task'[v] = task[v]
          BY <1>2, <2>1, <3>2, CopiesRemember
        <4>2. ~ At(v, "idle") /\ agents[Target(v)].was /\ Target(v) \in Agent
          BY <4>1, TargetTyped DEF OnceOn, IInv
        <4> QED  BY <2>1, <4>1, <4>2 DEF At, Target, Remembers
      <3> QED  BY <3>1, <3>2
    <2> QED  BY <1>2, <2>1, <2>2, BotsRemember DEF OnceOn, Remembers
  <1>3. ASSUME NEW w \in Worker, (\E r \in Requests : Start(w, r)) \/ Fail(w) \/ Crash(w)
        PROVE  OnceOn'
    <2>1. UNCHANGED <<agents, bots>>
      BY <1>3 DEF Start, Fail, Crash
    <2>2. \A v \in Worker \ {w} : task'[v] = task[v]
      BY <1>3, Others DEF Start, Fail, Crash, Unlinked, Goto, Respond, IInv
    <2>3. ~ task'[w].copy.seg \/ /\ task'[w].pc # "idle" /\ task'[w].req = task[w].req
                                 /\ task'[w].copy = task[w].copy
      <3>1. Idle.copy.seg = FALSE /\ Idle \in Task
        BY IdleServes DEF Blank
      <3>2. ASSUME NEW r, Start(w, r) PROVE ~ task'[w].copy.seg
        <4>1. task'[w] = [Idle EXCEPT !.pc = Entry(r.op), !.req = r]
          BY <3>2, Others DEF Start, IInv
        <4>2. task'[w].copy = Idle.copy
          BY <3>1, <4>1 DEF Task
        <4> QED  BY <3>1, <4>2
      <3>3. Respond(w) => ~ task'[w].copy.seg
        BY <3>1, Others DEF Respond, IInv
      <3> QED  BY <1>3, <3>2, <3>3, GoesNow DEF Fail, Crash, Unlinked, IInv
    <2> QED  BY <2>1, <2>2, <2>3 DEF OnceOn, At, Target
  <1> QED  BY <1>1, <1>2, <1>3 DEF Next

LEMMA OnceOnInit ==
    ASSUME Init
    PROVE  OnceOn
  <1>1. Blank.seg = FALSE /\ NoRow.seg = FALSE
    BY DEF Blank, NoRow
  <1>2. ASSUME NEW a \in Agent PROVE Recalls(agents[a])
    <2>1. agents[a].cols = Blank /\ agents[a].was = FALSE
      BY DEF Init
    <2> QED  BY <1>1, <2>1 DEF Recalls
  <1>3. \A w \in Worker : task[w].copy = Blank
    BY IdleServes DEF Init
  <1>4. \A b \in Bot : bots[b] = NoRow
    BY DEF Init
  <1> QED  BY <1>1, <1>2, <1>3, <1>4 DEF OnceOn

\* Between requests that come one at a time and succeed, the bot of an agent has its
\* name, or the repaired form of it, and splits its messages if the agent does, and if
\* the agent does not, only because it once did (UpdateAgentBot): for every mix of
\* requests, and whatever those on other agents do.
THEOREM BotsFollow == Spec => []BotFollowsAgent
  <1>1. IInv /\ FollowInv /\ OnceOn => BotFollowsAgent
    <2> SUFFICES ASSUME IInv, FollowInv, OnceOn, NEW a \in Agent,
                        hist[a] = "calm", Quiet(a), Stored(a), agents[a].cols.bot # NoBot
                 PROVE  LET c == agents[a].cols IN
                        Follows(c.bot, c) /\ (bots[c.bot].seg => agents[a].was)
      BY DEF BotFollowsAgent
    <2> DEFINE b == agents[a].cols.bot
    <2>1. Follows(b, agents[a].cols)
      BY DEF FollowInv, Matched, Quiet
    <2>2. b \in Bot /\ bots[b].for \in {a, NoAgent}
      BY RowFields DEF IInv, TypeOK, BotsApart, AgentRow, Cols
    <2> QED  BY <2>1, <2>2 DEF OnceOn
  <1> QED  BY <1>1, FollowsInit, FollowsStep, OnceOnInit, OnceOnStep, BotInvariant, PTL DEF Spec
==============================================================================

----------------------------- MODULE SecretMerge -----------------------------
(***************************************************************************)
(* Secrets that a client never sees and still must not erase: the headers  *)
(* of custom tools and custom MCP servers and the config of an agent       *)
(* integration.  A GET hides the secret values, the screen sends back what *)
(* it received together with the user's edits, and the save reads the row  *)
(* again, merges the hidden values in and overwrites the column as a whole.*)
(* The read and the write are two statements (for an MCP server with a     *)
(* remote call in between); requests interleave between them, and any of   *)
(* them may fail.                                                          *)
(***************************************************************************)
EXTENDS Naturals

CONSTANTS
    Worker,     \* goroutines serving requests
    Tool,       \* rows of evo_core_custom_tools
    Mcp,        \* rows of evo_core_custom_mcp_servers
    Integration,\* (agent, provider) pairs, the key of evo_core_agent_integrations
    Name,       \* header names, config keys
    Secret,     \* names that are hidden by name: not in safeHeaderNames of a
                \* header, in sensitiveFieldNames of an integration
    Value,      \* values other than the blank one
    TokenLike,  \* values that start with sk_, rk_ or pk_
    Blank, Absent,
    Keep, Drop, \* edits: leave the entry as it was received, remove it
    NoRequest,
    Initial,    \* contents the rows may have at the start
    Requests,   \* the requests clients may send
    MaxMoves,   \* bound: requests that arrive and tokens that are refreshed
    MaxFaults   \* bound: statements that fail and requests that die

Record == Tool \cup Mcp \cup Integration
Entry == Value \cup {Blank, Absent}
Config == [Name -> Entry]

\* A save is the edit of a screen, name by name.
Edit == [Name -> Value \cup {Blank, Keep, Drop}]
Request == [op: {"create", "save", "delete"}, rec: Record, edit: Edit]

ASSUME ConstantsAssumption ==
    /\ Tool \cap Mcp = {} /\ Tool \cap Integration = {} /\ Mcp \cap Integration = {}
    /\ Secret \subseteq Name /\ TokenLike \subseteq Value
    /\ Blank \notin Value /\ Absent \notin Value /\ Blank # Absent
    /\ Keep \notin Value \cup {Blank, Drop} /\ Drop \notin Value \cup {Blank}
    /\ NoRequest \notin Request
    /\ Initial \subseteq Config
    /\ Requests \subseteq Request
    /\ \A r \in Requests : r.op = "create" => r.rec \notin Integration
    /\ MaxMoves \in Nat /\ MaxFaults \in Nat

Nothing == [n \in Name |-> Absent]

\* tools stands for the list a discovery answered: the contents it was made with.
Row == [st: {"free", "stored", "gone"}, cfg: Config, tools: Config]

VARIABLES
    rows,       \* the three tables
    task,       \* task[w]: what worker w is doing
    moves, faults

vars == <<rows, task, moves, faults>>

PC == {"idle", "view", "merge", "check", "discover", "insert", "write", "delete"}

\* cfg: what the screen sends, then what is going to be written.  missed: the names
\* whose stored value the request relies on and no longer knows (history).
Task == [pc: PC, req: Request \cup {NoRequest}, cfg: Config, tools: Config,
         missed: SUBSET Name]

Idle == [pc |-> "idle", req |-> NoRequest, cfg |-> Nothing, tools |-> Nothing, missed |-> {}]
Empty == [st |-> "free", cfg |-> Nothing, tools |-> Nothing]
Holding(r, c, t) == [st |-> "stored", cfg |-> c, tools |-> IF r \in Mcp THEN t ELSE Nothing]

------------------------------------------------------------------------------
\* Hiding, editing and merging.

\* RedactValues blanks a header value and keeps the name; sanitizeConfig removes
\* the secret fields, and with them every value that looks like an API key.
Redact(r, c) ==
    IF r \in Integration
    THEN [n \in Name |-> IF n \in Secret \/ c[n] \in TokenLike THEN Absent ELSE c[n]]
    ELSE [n \in Name |-> IF n \in Secret /\ c[n] # Absent THEN Blank ELSE c[n]]

\* What the screen sends: the contents it received with the user's edits.
Draft(view, e) ==
    [n \in Name |-> IF e[n] = Keep THEN view[n] ELSE IF e[n] = Drop THEN Absent ELSE e[n]]

\* A blank under a hidden name is the GET's own blank coming back; an absent name is a
\* header that was removed.
KeepMissing(incoming, stored) ==
    [n \in Name |-> IF incoming[n] = Blank /\ n \in Secret /\ stored[n] # Absent
                    THEN stored[n] ELSE incoming[n]]

\* Mutant: only what is absent is carried over.
AbsentOnly(incoming, stored) ==
    [n \in Name |-> IF incoming[n] = Absent /\ n \in Secret THEN stored[n] ELSE incoming[n]]

\* The GET of an integration leaves hidden names out, so absent means "keep" as well.
MergePreservedSecrets(incoming, stored) ==
    [n \in Name |-> IF incoming[n] \in {Blank, Absent} /\ n \in Secret /\ stored[n] # Absent
                    THEN stored[n] ELSE incoming[n]]

Merged(r, incoming, stored) ==
    IF r \in Integration THEN MergePreservedSecrets(incoming, stored)
                         ELSE KeepMissing(incoming, stored)

------------------------------------------------------------------------------
\* What a save is for: the edit, applied to the contents of the row at that moment.

\* The edit leaves the entry n to what is stored.
Relies(r, e, n) ==
    \/ e[n] = Keep
    \/ n \in Secret /\ (e[n] = Blank \/ (e[n] = Drop /\ r \in Integration))

Asked(r, c, e, n) ==
    CASE e[n] = Keep -> c[n]
      [] e[n] = Drop -> IF Relies(r, e, n) THEN c[n] ELSE Absent
      [] e[n] = Blank -> IF Relies(r, e, n) /\ c[n] # Absent THEN c[n] ELSE Blank
      [] OTHER -> e[n]

\* An entry of an integration that is hidden for its value and not for its name:
\* the screen does not get it, and the merge does not know it.
Stripped(r, c, n) == r \in Integration /\ n \notin Secret /\ c[n] \in TokenLike

------------------------------------------------------------------------------
At(w, l) == task[w].pc = l
Become(w, t) == task' = [task EXCEPT ![w] = t]
Goto(w, l) == Become(w, [task[w] EXCEPT !.pc = l])
Respond(w) == Become(w, Idle)

\* v has loaded the row r and not yet saved it.
Saving(v, r) ==
    /\ task[v].pc \in {"merge", "check", "discover", "write"}
    /\ task[v].req.op = "save" /\ task[v].req.rec = r

\* What v has missed once the row r gets the contents c.
Missing(v, r, c) ==
    IF Saving(v, r)
    THEN task[v].missed \cup {n \in Name : Relies(r, task[v].req.edit, n) /\ c[n] # rows[r].cfg[n]}
    ELSE task[v].missed

\* w answers, having given the row r the contents c.
Replaced(w, r, c) ==
    task' = [v \in Worker |->
        IF v = w THEN Idle ELSE [task[v] EXCEPT !.missed = Missing(v, r, c)]]

Init ==
    /\ \E f \in [Record -> Initial], present \in SUBSET Record :
          rows = [r \in Record |-> IF r \in present THEN Holding(r, f[r], f[r]) ELSE Empty]
    /\ task = [w \in Worker |-> Idle]
    /\ moves = 0 /\ faults = 0

\* The first statement of a request: the screen of a save loads the row first, an
\* integration is deleted without being looked up.
First(r) ==
    CASE r.op = "create" -> IF r.rec \in Mcp THEN "discover" ELSE "insert"
      [] r.op = "save" -> "view"
      [] r.op = "delete" -> IF r.rec \in Integration THEN "delete" ELSE "check"

\* A create draws an id that nobody has seen.
Start(w, r) ==
    /\ At(w, "idle") /\ moves < MaxMoves
    /\ r.op = "create" => /\ rows[r.rec].st = "free"
                          /\ \A v \in Worker : ~ At(v, "idle") => task[v].req.rec # r.rec
    /\ r.op # "create" /\ r.rec \notin Integration => rows[r.rec].st # "free"
    /\ Become(w, [Idle EXCEPT !.pc = First(r), !.req = r,
                              !.cfg = IF r.op = "create" THEN Draft(Nothing, r.edit) ELSE Nothing])
    /\ moves' = moves + 1
    /\ UNCHANGED <<rows, faults>>

\* GetByID of a tool or a server, GetByProvider of an integration, and the user's
\* edits.  An integration that is not there starts as an empty form.
View(w) ==
    /\ At(w, "view")
    /\ LET q == task[w].req IN
       IF q.rec \notin Integration /\ rows[q.rec].st # "stored" THEN Respond(w)
       ELSE Become(w, [task[w] EXCEPT !.pc = "merge",
                          !.cfg = Draft(Redact(q.rec, rows[q.rec].cfg), q.edit)])
    /\ UNCHANGED <<rows, moves, faults>>

\* The save reads the row and merges: Update of the handler, mergeWithStoredSecrets.
\* A row that is not there has nothing to merge.
Merge(w) ==
    /\ At(w, "merge")
    /\ LET r == task[w].req.rec
           stored == rows[r].cfg
           merged == Merged(r, task[w].cfg, stored)
       IN  Become(w, [task[w] EXCEPT
              !.pc = IF r \in Integration THEN "write" ELSE "check",
              !.cfg = merged,
              !.missed = {n \in @ : merged[n] # stored[n]}])
    /\ UNCHANGED <<rows, moves, faults>>

\* The service's GetByID before the update or the delete of a tool or a server.
Check(w) ==
    /\ At(w, "check")
    /\ LET q == task[w].req IN
       IF rows[q.rec].st # "stored" THEN Respond(w)
       ELSE Goto(w, CASE q.op = "delete" -> "delete"
                      [] q.op = "save" -> IF q.rec \in Mcp THEN "discover" ELSE "write")
    /\ UNCHANGED <<rows, moves, faults>>

\* Mutant: the discovery is asked with the headers as the screen sent them.
UseSent(w) == [n \in Name |-> IF n \in Secret THEN Blank ELSE task[w].cfg[n]]

\* The headers the processor is asked to discover the tools with.
Used(w) == task[w].cfg

\* discoverTools: the processor lists the tools of the server; it may be unable to.
Discover(w) ==
    /\ At(w, "discover")
    /\ \/ Become(w, [task[w] EXCEPT
             !.pc = IF task[w].req.op = "create" THEN "insert" ELSE "write",
             !.tools = Used(w)])
       \/ Respond(w)
    /\ UNCHANGED <<rows, moves, faults>>

Insert(w) ==
    /\ At(w, "insert")
    /\ LET r == task[w].req.rec IN
       rows' = [rows EXCEPT ![r] = Holding(r, task[w].cfg, task[w].tools)]
    /\ Respond(w)
    /\ UNCHANGED <<moves, faults>>

\* An update of a row that is gone changes nothing; the upsert of an integration makes
\* the row anew.
Write(w) ==
    /\ At(w, "write")
    /\ LET r == task[w].req.rec IN
       IF r \in Integration \/ rows[r].st = "stored"
       THEN /\ rows' = [rows EXCEPT ![r] = Holding(r, task[w].cfg, task[w].tools)]
            /\ Replaced(w, r, task[w].cfg)
       ELSE Respond(w) /\ UNCHANGED rows
    /\ UNCHANGED <<moves, faults>>

\* The id of a deleted tool is never drawn again; an integration, which also goes with
\* its agent, may be saved again.
Delete(w) ==
    /\ At(w, "delete")
    /\ LET r == task[w].req.rec IN
       /\ rows' = [rows EXCEPT ![r] =
             [Empty EXCEPT !.st = IF r \in Integration THEN "free" ELSE "gone"]]
       /\ Replaced(w, r, Nothing)
    /\ UNCHANGED <<moves, faults>>

\* A statement of w fails or its request dies.  An error of the read before the
\* merge is taken for "nothing stored", and what the screen sent is written.
Fail(w) ==
    /\ ~ At(w, "idle") /\ faults < MaxFaults
    /\ LET q == task[w].req IN
       \/ Respond(w)
       \/ /\ At(w, "merge")
          /\ Become(w, [task[w] EXCEPT
                !.pc = IF q.rec \in Integration THEN "write" ELSE "check",
                !.missed = {n \in Name : Relies(q.rec, q.edit, n)}])
    /\ faults' = faults + 1
    /\ UNCHANGED <<rows, moves>>

\* The processor stores a token it refreshed beside the rest of an integration.
Refresh(r, n, v) ==
    /\ moves < MaxMoves
    /\ rows[r].st = "stored" /\ rows[r].cfg[n] # Absent
    /\ LET c == [rows[r].cfg EXCEPT ![n] = v] IN
       /\ rows' = [rows EXCEPT ![r].cfg = c]
       /\ task' = [w \in Worker |-> [task[w] EXCEPT !.missed = Missing(w, r, c)]]
    /\ moves' = moves + 1
    /\ UNCHANGED faults

------------------------------------------------------------------------------
Step(w) ==
    \/ View(w) \/ Merge(w) \/ Check(w) \/ Discover(w)
    \/ Insert(w) \/ Write(w) \/ Delete(w)

Next ==
    \/ \E w \in Worker :
        \/ \E r \in Requests : Start(w, r)
        \/ Step(w)
        \/ Fail(w)
    \/ \E r \in Integration, n \in Secret, v \in Value : Refresh(r, n, v)

Spec == Init /\ [][Next]_vars

------------------------------------------------------------------------------
\* Every variable keeps its type.
TypeOK ==
    /\ rows \in [Record -> Row]
    /\ task \in [Worker -> Task]
    /\ moves \in Nat /\ faults \in Nat

\* A statement is part of the sort of request it serves.
InOrder(t) ==
    /\ t.req \in Requests
    /\ t.pc \in {"view", "merge", "write"} => t.req.op = "save"
    /\ t.pc = "insert" => t.req.op = "create"
    /\ t.pc = "delete" => t.req.op = "delete"
    /\ t.pc = "discover" => t.req.rec \in Mcp /\ t.req.op \in {"create", "save"}
    /\ t.pc = "check" => t.req.rec \notin Integration /\ t.req.op \in {"save", "delete"}

\* A worker that is busy serves a request that was made; nobody else knows the id of a
\* row that is being created.
Serving(w) ==
    LET q == task[w].req IN
    ~ At(w, "idle") =>
        /\ InOrder(task[w])
        /\ q.op = "create" =>
              /\ rows[q.rec].st = "free"
              /\ \A v \in Worker \ {w} : ~ At(v, "idle") => task[v].req.rec # q.rec
        /\ q.op # "create" /\ q.rec \notin Integration => rows[q.rec].st # "free"

\* The names for which the save of task t may write something else than its edit,
\* applied to the contents c: the request relied on what was stored, and that was
\* changed behind it or hidden for its value.
Excepted(t, c, n) ==
    /\ Relies(t.req.rec, t.req.edit, n)
    /\ n \in t.missed \/ Stripped(t.req.rec, c, n)

\* What a screen sends carries its user's edits, and merged with the contents c of the
\* row it is what the user asked for.
DraftFaithful(t, c) ==
    LET q == t.req IN
    t.pc = "merge" => \A n \in Name :
        /\ q.edit[n] # Keep => t.cfg[n] = Draft(Nothing, q.edit)[n]
        /\ Excepted(t, c, n) \/ Merged(q.rec, t.cfg, c)[n] = Asked(q.rec, c, q.edit, n)

\* What a save is going to write is, name by name, its edit applied to the contents c
\* of the row.
WriteFaithful(t, c) ==
    LET q == t.req IN
    t.pc \in {"check", "discover", "write"} /\ q.op = "save" => \A n \in Name :
        Excepted(t, c, n) \/ t.cfg[n] = Asked(q.rec, c, q.edit, n)

\* The tools stored with an MCP server were discovered with the headers stored
\* beside them, secrets included.
ToolsMatchHeaders == \A r \in Mcp : rows[r].tools = rows[r].cfg

\* A request that is past its discovery holds the tools of the headers it will write.
Discovered(t) ==
    t.pc \in {"insert", "write"} /\ t.req.rec \in Mcp => t.tools = t.cfg

\* What task t does is faithful to its edit while its row holds c.
Faithful(t, c) == DraftFaithful(t, c) /\ WriteFaithful(t, c) /\ Discovered(t)

\* The inductive invariant.
IInv ==
    /\ TypeOK
    /\ ToolsMatchHeaders
    /\ \A w \in Worker : Serving(w) /\ Faithful(task[w], rows[task[w].req.rec].cfg)

\* w writes its save.
Saves(w) ==
    /\ At(w, "write") /\ task'[w].pc = "idle" /\ faults' = faults
    /\ task[w].req.rec \in Integration \/ rows[task[w].req.rec].st = "stored"

\* A save that hides, sends back, merges and overwrites does to every name what its
\* user asked for, applied to the row as it is at that moment: a secret that was left
\* alone stays, a new one wins, a header that was removed goes.  The exceptions are the
\* names that others changed after the request had read them (or whose read failed),
\* and entries of an integration that are hidden for their value alone.
SavesAreEdits ==
    [][\A w \in Worker : Saves(w) =>
        LET q == task[w].req
            c == rows[q.rec].cfg
        IN  \A n \in Name :
                Excepted(task[w], c, n) \/ rows'[q.rec].cfg[n] = Asked(q.rec, c, q.edit, n)]_vars
==============================================================================

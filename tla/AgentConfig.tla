----------------------------- MODULE AgentConfig -----------------------------
(***************************************************************************)
(* The config of one agent: what creates and saves make of it              *)
(* (config_processor.go and the processors of the types), what reads add   *)
(* to it in memory or repair in the table (agent_service.go), and the key  *)
(* by which it is shared.  A save reads the agent, merges and writes the   *)
(* whole config back, and once more with the bot, so that requests race.   *)
(***************************************************************************)
EXTENDS Naturals, Functions

CONSTANTS
    Handler,        \* requests being served at a time
    ToolId,         \* ids of custom tools
    Agent, Server,  \* other agents, and MCP servers of the catalog, a config can name
    Provider,       \* the external providers there are
    Edits,          \* what creates and saves carry: a type, the keys they send, and whether
                    \* the name has characters that reads replace
    MaxRequests     \* bound: requests in a behaviour

Type == {"llm", "external", "a2a", "workflow", "task", "flow"}

\* A type that keeps the agent's key whatever a save sends.  flow: sequential, parallel, loop.
KeepsKey == {"workflow", "task", "flow"}

\* Of the keys the code treats alike ("a key of commonFields", and any other), load_memory
\* stands for all.  custom_mcp_server_ids and custom_mcp_servers go as custom_tool_ids and
\* custom_tools do.  An explicit null is the blank value of its key.
NoKeys == [api_key |-> "", custom_tool_ids |-> {}, custom_tools |-> "blank",
          sub_agents |-> {}, tasks |-> {}, provider |-> "", load_memory |-> FALSE,
          preload_memory |-> FALSE, mcp_servers |-> {}]

\* A key: first, that the create made; again, that a save made; sent, that a client sent.
\* custom_tools: sent by a client, live as a read shows them, or an empty list.
Values == [api_key |-> {"", "first", "again", "sent"}, custom_tool_ids |-> SUBSET ToolId,
           custom_tools |-> {"sent", "live", "blank"}, sub_agents |-> SUBSET Agent,
           tasks |-> SUBSET Agent, provider |-> Provider \cup {"", "other"},
           load_memory |-> BOOLEAN, preload_memory |-> BOOLEAN,
           mcp_servers |-> SUBSET Server]

IsConfig(c) ==
    /\ DOMAIN c \subseteq DOMAIN NoKeys
    /\ \A k \in DOMAIN c : c[k] \in Values[k]

IsAgent(a) ==
    /\ a \in [type : Type \cup {"none"}, config : {a.config}, raw : BOOLEAN]
    /\ IsConfig(a.config)

ASSUME ConfigAssumption ==
    /\ \A e \in Edits :
          /\ IsAgent(e) /\ e.type \in Type
          /\ "api_key" \in DOMAIN e.config => e.config.api_key \in {"", "sent"}
          /\ "custom_tools" \in DOMAIN e.config => e.config.custom_tools # "live"
    /\ {"", "other"} \cap Provider = {} /\ MaxRequests \in Nat

VARIABLES
    row,        \* the agent, or NoAgent
    gone,       \* agents and servers that are not there any more
    worker,
    shared,     \* the keys that were handed out
    past,       \* what the properties tell histories apart by
    requests

configVars == <<row, gone, worker, shared, past, requests>>

NoConfig == [k \in {} |-> ""]
NoAgent == [type |-> "none", config |-> NoConfig, raw |-> FALSE]

\* found: the agent as the request read it; copy: as it will write it once more.  alone:
\* nobody else has written since it was read.
Resting == [pc |-> "idle", save |-> FALSE, edit |-> NoAgent, found |-> NoAgent,
            copy |-> NoAgent, alone |-> FALSE]

IsRequest(t) ==
    /\ t \in [pc : {"idle", "load", "repair", "reread", "hydrate", "write", "reload", "relink",
                    "saved"},
              save : BOOLEAN, edit : {t.edit}, found : {t.found}, copy : {t.copy},
              alone : BOOLEAN]
    /\ IsAgent(t.edit) /\ IsAgent(t.found) /\ IsAgent(t.copy)

ConfigTypeOK ==
    /\ IsAgent(row)
    /\ gone \subseteq Agent \cup Server
    /\ worker = [w \in Handler |-> worker[w]] /\ \A w \in Handler : IsRequest(worker[w])
    /\ shared \subseteq {"first", "again", "sent"}
    /\ past \in [rekeyed : BOOLEAN, crossed : BOOLEAN, repaired : BOOLEAN, emptied : BOOLEAN]
    /\ requests \in 0..MaxRequests

ConfigInit ==
    /\ row = NoAgent /\ gone = {} /\ shared = {} /\ requests = 0
    /\ worker = [w \in Handler |-> Resting]
    /\ past = [rekeyed |-> FALSE, crossed |-> FALSE, repaired |-> FALSE, emptied |-> FALSE]

WithConfig(agent, config) == [agent EXCEPT !.config = config]

\* The keys of one config, and those of another that it does not have.
Joined(config, other) ==
    [k \in DOMAIN config \cup DOMAIN other |-> IF k \in DOMAIN config THEN config[k] ELSE other[k]]

ValueOf(config, k) == IF k \in DOMAIN config THEN config[k] ELSE NoKeys[k]

HasKey(config) == "api_key" \in DOMAIN config /\ config.api_key # ""

(***************************************************************************)
(* What a save makes of the keys it sends and of those that are stored.    *)
(***************************************************************************)

\* effectiveValue.  Mutant: what is stored is not looked at.
EffectiveSent(sent, stored, k) == ValueOf(sent, k)
Effective(sent, stored, k) == IF k \in DOMAIN sent THEN sent[k] ELSE ValueOf(stored, k)

\* What reads expand has no place in the config they expand from.
\* Mutant of WithoutCopies: it is left in.
WithCopies(config) == config
WithoutCopies(config) ==
    IF ValueOf(config, "custom_tool_ids") # {}
    THEN Restrict(config, DOMAIN config \ {"custom_tools"}) ELSE config

\* The copy a read hands on, expanded if the tools could be listed.
Hydrated(config) ==
    IF ValueOf(config, "custom_tool_ids") # {} /\ "custom_tools" \notin DOMAIN config
    THEN Joined([custom_tools |-> "live"], config) ELSE config

There(ids) == ids \cap gone = {}

\* Servers are looked up in the catalog only if they are sent.
Accepted(type, sent, stored) ==
    /\ Effective(sent, stored, "preload_memory") => Effective(sent, stored, "load_memory")
    /\ There(ValueOf(sent, "mcp_servers"))
    /\ type = "external" => Effective(sent, stored, "provider") \in Provider

\* The key of a config: the one sent, else the one stored, else a new one.
\* Mutant: a save that sends none makes one.
KeyOfSent(sent, stored, new) ==
    IF HasKey(sent) THEN sent.api_key ELSE new
KeyOf(sent, stored, new) ==
    IF HasKey(sent) THEN sent.api_key ELSE IF HasKey(stored) THEN stored.api_key ELSE new

\* Mutant of Kept: a save replaces what is stored.
KeptNone(type, sent, stored) == {}
Kept(type, sent, stored) ==
    {k \in DOMAIN stored \ DOMAIN sent : k = "provider" => type = "external"}

\* ProcessAgentConfig.
MergedConfig(type, sent, stored, new) ==
    Joined([api_key |-> KeyOf(sent, stored, new)],
           Joined(sent, Restrict(stored, Kept(type, sent, stored))))

\* The processor of the type: a flow has sub-agents, a task agent has tasks, and those that
\* are named exist.  An A2A agent has its card fetched, which can fail.
Whole(type, config) ==
    /\ type = "flow" => ValueOf(config, "sub_agents") # {}
    /\ type = "task" => ValueOf(config, "tasks") # {} /\ There(config.tasks)
    /\ type = "task" => "sub_agents" \in DOMAIN config
    /\ There(ValueOf(config, "sub_agents")) \/ type \notin {"flow", "task"}

\* A save to or from an external or A2A agent skips the processor of the other type.
Checked(type, from) == type \in KeepsKey /\ from \notin {"external", "a2a"}

\* processAgentUpdate.
Update(type, sent, current) ==
    LET stored == WithoutCopies(current.config)
        merged == MergedConfig(type, sent, stored, "again")
    IN IF Checked(type, current.type)
       THEN Joined([api_key |-> KeyOf(NoConfig, current.config, "again")], merged)
       ELSE merged

MayUpdate(type, sent, current) ==
    /\ Accepted(type, sent, WithoutCopies(current.config))
    /\ Checked(type, current.type) => Whole(type, Update(type, sent, current))

\* processAgentCreate.
Created(type, sent) ==
    LET merged == MergedConfig(type, sent, NoConfig, "first") IN
    IF type \in KeepsKey THEN Joined([api_key |-> "first"], merged) ELSE merged

MayCreate(type, sent) == Accepted(type, sent, NoConfig) /\ Whole(type, Created(type, sent))

\* A flow without sub-agents becomes an LLM agent.
Broken(agent) == agent.type = "flow" /\ ValueOf(agent.config, "sub_agents") = {}

\* An empty list stands where there was nothing, but for tools that a read has to expand.
\* One that is there is dropped with it, and comes back with the keys carried over.
Repaired(config) ==
    Joined(Restrict(config, DOMAIN config \ {"sub_agents"}),
           Restrict(NoKeys, {"mcp_servers"} \cup
                            IF ValueOf(config, "custom_tool_ids") = {} THEN {"custom_tools"} ELSE {}))

\* sanitizeAgent, which also replaces what is raw in the name.
Mended(agent) ==
    IF Broken(agent) THEN [type |-> "llm", config |-> Repaired(agent.config), raw |-> FALSE]
    ELSE [agent EXCEPT !.raw = FALSE]

(***************************************************************************)
(* Requests.                                                               *)
(***************************************************************************)

\* A client sends an empty list of tools.
Empties(e) == "custom_tools" \in DOMAIN e.config /\ e.config.custom_tools = "blank"

Free(w) == worker[w].pc \in {"idle", "saved"} /\ requests < MaxRequests

Refuse(w) ==
    /\ worker' = [worker EXCEPT ![w] = Resting]
    /\ UNCHANGED row

\* Create, and each agent of an import, which makes no bot.
Create(w, e) ==
    /\ Free(w) /\ row = NoAgent
    /\ \/ /\ MayCreate(e.type, e.config)
          /\ row' = WithConfig(e, Created(e.type, e.config))
          /\ worker' = [worker EXCEPT ![w] = [Resting EXCEPT !.pc = "relink", !.copy = row']]
          /\ past' = [past EXCEPT !.emptied = Empties(e)]
       \/ /\ ~MayCreate(e.type, e.config) \/ e.type = "a2a"
          /\ Refuse(w) /\ UNCHANGED past
    /\ requests' = requests + 1
    /\ UNCHANGED <<gone, shared>>

Get(w) ==
    /\ Free(w) /\ row # NoAgent
    /\ worker' = [worker EXCEPT ![w] = [Resting EXCEPT !.pc = "load"]]
    /\ requests' = requests + 1
    /\ UNCHANGED <<row, gone, shared, past>>

Save(w, e) ==
    /\ Free(w) /\ row # NoAgent
    /\ worker' = [worker EXCEPT ![w] = [Resting EXCEPT !.pc = "load", !.save = TRUE, !.edit = e]]
    /\ requests' = requests + 1
    /\ UNCHANGED <<row, gone, shared, past>>

Load(w) ==
    /\ worker[w].pc = "load"
    /\ worker' = [worker EXCEPT
          ![w].found = row, ![w].alone = TRUE,
          ![w].pc = IF Broken(row) \/ row.raw THEN "repair" ELSE "hydrate"]
    /\ UNCHANGED <<row, gone, shared, past, requests>>

\* Of a save that is over and was not alone nothing has to be remembered.
Disturbed(t) == IF t.pc = "saved" THEN Resting ELSE [t EXCEPT !.alone = FALSE]

Over(t) == IF t.save /\ t.alone THEN [t EXCEPT !.pc = "saved", !.copy = NoAgent] ELSE Resting

\* The worker writes the agent, over whatever is there.
Puts(w, agent, after) ==
    /\ row' = agent
    /\ worker' = [v \in Handler |-> IF v = w THEN after ELSE Disturbed(worker[v])]

\* sanitizeAgent writes all of what it read.
Repair(w) ==
    /\ worker[w].pc = "repair"
    /\ \/ /\ Puts(w, Mended(worker[w].found), [worker[w] EXCEPT !.pc = "reread"])
          /\ past' = [past EXCEPT !.repaired = @ \/ Broken(worker[w].found)]
       \/ Refuse(w) /\ UNCHANGED past
    /\ UNCHANGED <<gone, shared, requests>>

Reread(w) ==
    /\ worker[w].pc = "reread"
    /\ worker' = [worker EXCEPT ![w].found = row, ![w].pc = "hydrate"]
    /\ UNCHANGED <<row, gone, shared, past, requests>>

\* A read is over then; a save goes on.
Expanded(t, config) ==
    IF t.save THEN [t EXCEPT !.found = WithConfig(@, config), !.pc = "write"] ELSE Resting

\* A tool that is gone, or not on the first page of the list, or a list that fails, leaves
\* the agent as it is.
Hydrate(w) ==
    /\ worker[w].pc = "hydrate"
    /\ \E config \in {worker[w].found.config, Hydrated(worker[w].found.config)} :
          worker' = [worker EXCEPT ![w] = Expanded(@, config)]
    /\ UNCHANGED <<row, gone, shared, past, requests>>

Saved(e, found) == WithConfig(e, Update(e.type, e.config, found))

Overwrite(w) ==
    LET e == worker[w].edit
        found == worker[w].found
    IN /\ worker[w].pc = "write"
       /\ \/ /\ MayUpdate(e.type, e.config, found)
             /\ Puts(w, Saved(e, found), [worker[w] EXCEPT !.pc = "reload"])
             /\ past' = [past EXCEPT
                   !.rekeyed = @ \/ (HasKey(e.config) /\ ~Checked(e.type, found.type)),
                   !.crossed = @ \/ (e.type = "flow" /\ ~Checked(e.type, found.type)),
                   !.emptied = @ \/ Empties(e)]
          \/ /\ ~MayUpdate(e.type, e.config, found) \/ "a2a" \in {e.type, found.type}
             /\ Refuse(w) /\ UNCHANGED past
       /\ UNCHANGED <<gone, shared, requests>>

Reload(w) ==
    /\ worker[w].pc = "reload"
    /\ worker' = [worker EXCEPT ![w].copy = row, ![w].pc = "relink"]
    /\ UNCHANGED <<row, gone, shared, past, requests>>

\* With the bot made or updated the agent is written again; without, the request is done.
Relink(w) ==
    /\ worker[w].pc = "relink"
    /\ \/ Puts(w, worker[w].copy, Over(worker[w]))
       \/ UNCHANGED row /\ worker' = [worker EXCEPT ![w] = Over(worker[w])]
       \/ Refuse(w)
    /\ UNCHANGED <<gone, shared, past, requests>>

\* GetShareAgent.  GetSharedAgent lets in who has the key the agent has then.
Share ==
    /\ row # NoAgent
    /\ shared' = shared \cup {row.config.api_key}
    /\ UNCHANGED <<row, gone, worker, past, requests>>

\* Another agent, or a server of the catalog, is deleted.
Leave(x) ==
    /\ gone' = gone \cup {x}
    /\ UNCHANGED <<row, worker, shared, past, requests>>

Serve(w) ==
    \/ Load(w) \/ Repair(w) \/ Reread(w) \/ Hydrate(w) \/ Overwrite(w) \/ Reload(w) \/ Relink(w)

ConfigNext ==
    \/ \E w \in Handler : Get(w) \/ Serve(w) \/ \E e \in Edits : Create(w, e) \/ Save(w, e)
    \/ Share
    \/ \E x \in (Agent \cup Server) \ gone : Leave(x)

ConfigSpec == ConfigInit /\ [][ConfigNext]_configVars

(***************************************************************************)
(* Properties.                                                             *)
(***************************************************************************)

\* The contract of a save ("a key the request sends wins, a key it omits is preserved"),
\* through both its writes, the repair and the expansion before them, and unless another
\* request wrote the agent meanwhile: but for the key of a type that keeps its own, the
\* provider of an agent that is not external, and what reads expand.
Exempt(w, k) ==
    \/ k = "api_key" /\ (\/ Checked(worker[w].edit.type, worker[w].found.type)
                        \/ ~HasKey(worker[w].edit.config))
    \/ k = "provider" /\ worker[w].edit.type # "external"
    \/ k = "custom_tools" /\ ValueOf(worker[w].found.config, "custom_tool_ids") # {}

SaveIsMerge ==
    \A w \in Handler :
        LET sent == worker[w].edit.config
            stored == worker[w].found.config
        IN worker[w].pc = "saved" =>
              /\ row.type = worker[w].edit.type
              /\ \A k \in DOMAIN sent : Exempt(w, k) \/ ValueOf(row.config, k) = sent[k]
              /\ \A k \in DOMAIN stored \ DOMAIN sent :
                    Exempt(w, k) \/ ValueOf(row.config, k) = stored[k]

\* A key that was handed out opens the agent until a save sends another: no save, repair
\* or overlap of them makes a new key or loses it.
SharedKeyHolds == ~past.rekeyed => \A key \in shared : row.config.api_key = key

\* What reads expand is never stored (EVO-2126), and an empty list does not stand where
\* tools are to be expanded, unless a client once sent it or a repair put it there.
CopiesStayOut ==
    row # NoAgent =>
        /\ ValueOf(row.config, "custom_tools") # "live"
        /\ ValueOf(row.config, "custom_tool_ids") # {} /\ "custom_tools" \in DOMAIN row.config
              => row.config.custom_tools = "sent" \/ past.repaired \/ past.emptied

\* What the table holds is what some check let through, although saves are checked against
\* what they read and may overlap: memory is not loaded before it is on, an external agent
\* has a provider, and a flow has sub-agents unless it was an external or A2A agent once.
StoredIsValid ==
    /\ ValueOf(row.config, "preload_memory") => ValueOf(row.config, "load_memory")
    /\ row.type = "external" => ValueOf(row.config, "provider") \in Provider
    /\ Broken(row) => past.crossed

(***************************************************************************)
(* The inductive invariant behind them.                                    *)
(***************************************************************************)

\* A client's tools or, as a client or a repair left it, an empty list; and what a read
\* may have put beside the ids.
ToolsStored(config, p) ==
    "custom_tools" \in DOMAIN config =>
        \/ config.custom_tools = "sent"
        \/ config.custom_tools = "blank" /\ (p.repaired \/ p.emptied)

ToolsRead(config, p) ==
    \/ ToolsStored(config, p)
    \/ ValueOf(config, "custom_tools") = "live" /\ ValueOf(config, "custom_tool_ids") # {}

\* An agent as a request may hold it, p being the past.
Sound(a, p) ==
    /\ a.type \in Type
    /\ HasKey(a.config)
    /\ ValueOf(a.config, "preload_memory") => ValueOf(a.config, "load_memory")
    /\ a.type = "external" => ValueOf(a.config, "provider") \in Provider
    /\ Broken(a) => p.crossed
    /\ ToolsRead(a.config, p)

SameKey(a, b, p) == ~p.rekeyed => a.config.api_key = b.config.api_key

\* Request t fits the agent a that is stored.
Fits(t, a, p) ==
    /\ t.pc # "idle" => a.type \in Type
    /\ t.pc \in {"write", "reload", "saved"} => t.save
    /\ t.save => t.edit \in Edits
    /\ t.pc \in {"repair", "hydrate"} => ToolsStored(t.found.config, p)
    /\ t.pc \in {"repair", "hydrate", "write"} => Sound(t.found, p) /\ SameKey(t.found, a, p)
    /\ t.pc = "relink" =>
          Sound(t.copy, p) /\ ToolsStored(t.copy.config, p) /\ SameKey(t.copy, a, p)
    /\ t.pc \in {"reload", "relink"} /\ t.save /\ t.alone => a = Saved(t.edit, t.found)
    /\ t.pc = "relink" /\ t.save /\ t.alone => t.copy = a
    /\ t.pc = "saved" => a = Saved(t.edit, t.found)

Kin(keys, a, p) == ~p.rekeyed => \A key \in keys : a.config.api_key = key

ConfigInv ==
    /\ ConfigTypeOK
    /\ row # NoAgent => Sound(row, past) /\ ToolsStored(row.config, past)
    /\ row = NoAgent => shared = {}
    /\ \A w \in Handler : Fits(worker[w], row, past)
    /\ Kin(shared, row, past)
=============================================================================

--------------------------- MODULE MCAgentBotSync ---------------------------
(***************************************************************************)
(* Small instances of AgentBotSync: the request mixes of its runs.         *)
(***************************************************************************)
EXTENDS AgentBotSync, FiniteSets, TLC

\* "my bot" is not a legal agent name: sanitizeAgent makes "my_bot" of it.
MCName == {"my bot", "my_bot", "other"}
MCRepaired == [n \in MCName |-> IF n = "my bot" THEN "my_bot" ELSE n]

Mix(ops, names, segs) == [op: ops, agent: Agent, name: names, seg: segs]

\* Every operation; a save that gives the agent another name switches segmentation
\* on, and one that takes it back, in a form reads repair, switches it off.
WholeMix ==
    Mix({"create", "update"}, {"my bot"}, {FALSE})
    \cup Mix({"create", "update"}, {"other"}, {TRUE})
    \cup Mix({"import", "get", "delete"}, {"my bot"}, {FALSE})

\* One agent that is saved over and over.
ResaveMix ==
    Mix({"create", "import", "get", "delete"}, {"my bot"}, {FALSE})
    \cup Mix({"update"}, {"my_bot"}, {FALSE})
=============================================================================

---------------------------- MODULE MCAgentConfig ----------------------------
(***************************************************************************)
(* Small instance of AgentConfig: saves that send one or two keys each.    *)
(***************************************************************************)
EXTENDS AgentConfig, TLC

Symmetry == Permutations(Handler)

Edit(type, config) == [type |-> type, config |-> config, raw |-> FALSE]

MCEdits ==
    {Edit("llm", NoConfig),
     Edit("llm", "preload_memory" :> TRUE),
     Edit("llm", ("load_memory" :> FALSE) @@ ("custom_tool_ids" :> {"t1"})),
     [Edit("llm", ("load_memory" :> TRUE) @@ ("preload_memory" :> TRUE) @@ ("api_key" :> ""))
        EXCEPT !.raw = TRUE],
     Edit("llm", "custom_tools" :> "blank"),
     Edit("llm", ("custom_tools" :> "sent") @@ ("mcp_servers" :> {"s1"})),
     Edit("external", ("provider" :> "n8n") @@ ("api_key" :> "sent")),
     Edit("external", "custom_tool_ids" :> {}),
     Edit("a2a", "provider" :> "other"),
     Edit("workflow", "api_key" :> "sent"),
     Edit("task", ("tasks" :> {"a1"}) @@ ("sub_agents" :> {})),
     Edit("flow", "sub_agents" :> {"a1"}),
     Edit("flow", NoConfig)}
=============================================================================

------------------------- MODULE MCCredentialVault -------------------------
(***************************************************************************)
(* Small instances of CredentialVault.  Each run of this module picks one  *)
(* of the request mixes below and the bounds that go with it.              *)
(***************************************************************************)
EXTENDS CredentialVault, FiniteSets, TLC

CONSTANTS w1, w2, c1, c2, c3, i1, i2, nexus, bot, agentEnv

MCCanonName == [i \in Integration |-> IF i = i1 THEN "github" ELSE "notion"]

\* nexus is an agent integration and bot a channel bot of the CRM, in the first
\* and the last store the guard queries; agentEnv is an environment variable of an
\* MCP server inside an agent's config, which no query reads.
MCStoreOf == [k \in Consumer |-> CASE k = nexus -> 1 [] k = bot -> 5 [] k = agentEnv -> 0]

Blank == [op |-> "list", cred |-> c1, name |-> "other", scope |-> "keep",
          active |-> "keep", value |-> FALSE, priv |-> FALSE, consumer |-> nexus]

List == {Blank}
Deletes == {[Blank EXCEPT !.op = "delete", !.cred = c, !.priv = TRUE] : c \in Cred}
Creates == {[Blank EXCEPT !.op = "create", !.value = TRUE]}
Attaches == {[Blank EXCEPT !.op = "attach", !.cred = c] : c \in Cred}

\* PUT {name, is_active}: a user switches a row off under its own name or gives
\* it the name that the row of i2 is to have.
Toggles == {[Blank EXCEPT !.op = "update", !.cred = c, !.name = "notion", !.active = "keep"] :
               c \in Cred}
           \cup {[Blank EXCEPT !.op = "update", !.cred = c, !.name = "github", !.active = "off"] :
               c \in Cred}

\* A promotion to the installation scope, and writes by callers without the
\* right to it; they name c1, which stands for either row.
ScopeWrites ==
    {[Blank EXCEPT !.op = "update", !.scope = "installation", !.priv = TRUE],
     [Blank EXCEPT !.op = "update", !.active = "off"],
     [Blank EXCEPT !.op = "delete"]}

\* The mixes of the runs: the sync beside deletes and edits, the delete guards beside
\* everything that attaches, and both with the scope writes.
SyncMix == List \cup Deletes \cup Toggles
GuardMix == List \cup Creates \cup Deletes \cup Attaches
WriteMix == GuardMix \cup ScopeWrites
=============================================================================

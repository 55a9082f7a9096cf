--------------------------- MODULE MCFolderShares ---------------------------
(***************************************************************************)
(* Small instances of FolderShares: the request mix of its runs.           *)
(***************************************************************************)
EXTENDS FolderShares

CONSTANTS owner, guest, s0

Ask(ops, fs, users, ss, as, actives) ==
    [op: ops, folder: fs, by: {owner}, user: users, share: ss, agent: as, active: actives]

OneAgent == {CHOOSE a \in Agent : TRUE}

\* Every operation; the owner shares with a guest and tries with himself.  A save that names
\* no folder takes the same steps as a repair.
WholeMix ==
    Ask({"create"}, {NoFolder}, {guest}, {s0}, OneAgent, {FALSE})
    \cup Ask({"delete"}, Folder, {guest}, {s0}, OneAgent, {FALSE})
    \cup Ask({"share"}, Folder, {guest, owner}, {s0}, OneAgent, {FALSE})
    \cup Ask({"update"}, {NoFolder}, {guest}, Share, OneAgent, BOOLEAN)
    \cup Ask({"revoke"}, {NoFolder}, {guest}, Share, OneAgent, {FALSE})
    \cup Ask({"createAgent", "assign"}, Folder \cup {NoFolder}, {guest}, {s0}, Agent, {FALSE})
    \cup Ask({"save"}, Folder, {guest}, {s0}, Agent, {FALSE})
    \cup Ask({"repair"}, {NoFolder}, {guest}, {s0}, Agent, {FALSE})
=============================================================================

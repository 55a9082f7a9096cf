---------------------------- MODULE MCSecretMerge ----------------------------
(***************************************************************************)
(* Small instances of SecretMerge: the contents and edits of its runs.     *)
(***************************************************************************)
EXTENDS SecretMerge, TLC

CONSTANTS auth, plain, v1, sk

\* Workers are alike.
Symmetry == Permutations(Worker)

\* A hidden name and a shown one; any of the two may hold a value that looks like a key.
Contents(s, u) == [n \in Name |-> IF n = auth THEN s ELSE u]

Untouched == [n \in Name |-> Keep]

\* Edits of one name at a time.
Edits == {Untouched} \cup
    {[Untouched EXCEPT ![n] = x] : n \in Name, x \in Value \cup {Blank, Drop}}

Ask(op, recs, edits) == [op: {op}, rec: recs, edit: edits]

InitialContents == {Contents(v1, sk)}

WholeMix ==
    Ask("create", Tool \cup Mcp, {Contents(v1, Blank), Contents(Drop, v1)})
    \cup Ask("save", Mcp \cup Integration, Edits)
    \cup Ask("save", Tool, {Untouched, Contents(sk, Keep), Contents(Keep, Drop)})
    \cup Ask("delete", Record, {Untouched})

=============================================================================

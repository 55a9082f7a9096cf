---------------------------- MODULE Saves_proofs ----------------------------
(***************************************************************************)
(* The saves that merge, for every value of the constants.  First those of *)
(* the secret maps: a save of SecretMerge does what its user asked for.    *)
(* Then those of an agent's config: a save nobody overlapped is the merge  *)
(* of what it sent and what was stored, and what overlapping saves, reads  *)
(* and repairs may do to a shared key, to the copies reads add and to the  *)
(* validity of what is stored.  In each, the facts about the operators     *)
(* come first, then one lemma per action, then the theorems.               *)
(***************************************************************************)
EXTENDS SecretMerge, AgentConfig, TLAPS


------------------------------------------------------------------------------
\* Types.

LEMMA NothingIsConfig == Nothing \in Config /\ \A n \in Name : Nothing[n] = Absent
  BY DEF Nothing, Config, Entry

LEMMA IdleIsTask == Idle \in Task /\ Idle.pc = "idle" /\ Idle.missed = {}
  BY NothingIsConfig DEF Idle, Task, PC

LEMMA RowTypes ==
    /\ Empty \in Row /\ Empty.st = "free" /\ Empty.cfg = Nothing /\ Empty.tools = Nothing
    /\ \A r \in Record, c, t \in Config :
          /\ Holding(r, c, t) \in Row
          /\ Holding(r, c, t).st = "stored" /\ Holding(r, c, t).cfg = c
          /\ r \in Mcp => Holding(r, c, t).tools = t
  BY NothingIsConfig DEF Empty, Holding, Row

LEMMA RequestFields ==
    ASSUME NEW q \in Requests
    PROVE  /\ q \in Request /\ q # NoRequest
           /\ q.op \in {"create", "save", "delete"} /\ q.rec \in Record /\ q.edit \in Edit
           /\ q.op = "create" => q.rec \notin Integration
  BY ConstantsAssumption DEF Request

LEMMA Conversions ==
    ASSUME NEW r \in Record, NEW c \in Config, NEW d \in Config, NEW e \in Edit
    PROVE  /\ Redact(r, c) \in Config
           /\ Draft(c, e) \in Config
           /\ Merged(r, c, d) \in Config
  <1>1. Redact(r, c) \in Config
    BY DEF Redact, Config, Entry
  <1>2. Draft(c, e) \in Config
    BY DEF Draft, Config, Entry, Edit
  <1>3. Merged(r, c, d) \in Config
    BY DEF Merged, KeepMissing, MergePreservedSecrets, Config, Entry
  <1> QED  BY <1>1, <1>2, <1>3

------------------------------------------------------------------------------
\* The merges.

\* Hiding the contents of a row, editing what is left and merging it with the same
\* contents gives what was asked for, but for entries hidden for their value alone.
THEOREM MergeUndoesRedaction ==
    ASSUME NEW r \in Record, NEW c \in Config, NEW e \in Edit, NEW n \in Name
    PROVE  \/ Merged(r, Draft(Redact(r, c), e), c)[n] = Asked(r, c, e, n)
           \/ Relies(r, e, n) /\ Stripped(r, c, n)
  <1>1. c[n] \in Value \cup {Blank, Absent} /\ e[n] \in Value \cup {Blank, Keep, Drop}
    BY DEF Config, Entry, Edit
  <1>2. CASE r \in Integration
    BY <1>1, <1>2, ConstantsAssumption
       DEF Merged, MergePreservedSecrets, Draft, Redact, Asked, Relies, Stripped
  <1>3. CASE r \notin Integration
    BY <1>1, <1>3, ConstantsAssumption
       DEF Merged, KeepMissing, Draft, Redact, Asked, Relies, Stripped
  <1> QED  BY <1>2, <1>3

\* An entry that an edit does not leave to the row is the same for any contents.
LEMMA AskedRegardless ==
    ASSUME NEW r \in Record, NEW c \in Config, NEW d \in Config, NEW e \in Edit, NEW n \in Name,
           ~ Relies(r, e, n) \/ c[n] = d[n]
    PROVE  Asked(r, c, e, n) = Asked(r, d, e, n)
  BY DEF Asked, Relies

\* A draft that carries the edits merges, where it relies on nothing, to what was asked.
LEMMA MergedRegardless ==
    ASSUME NEW r \in Record, NEW c \in Config, NEW in \in Config, NEW e \in Edit, NEW n \in Name,
           ~ Relies(r, e, n), in[n] = Draft(Nothing, e)[n]
    PROVE  Merged(r, in, c)[n] = Asked(r, c, e, n) /\ in[n] = Asked(r, c, e, n)
  <1>1. e[n] \in Value \cup {Blank, Keep, Drop} /\ e[n] # Keep
    BY DEF Edit, Relies
  <1>2. CASE r \in Integration
    BY <1>1, <1>2, ConstantsAssumption DEF Merged, MergePreservedSecrets, Draft, Asked, Relies
  <1>3. CASE r \notin Integration
    BY <1>1, <1>3, ConstantsAssumption DEF Merged, KeepMissing, Draft, Asked, Relies
  <1> QED  BY <1>2, <1>3

\* A merge that leaves a name as it is stored does what was asked of a name that the
\* edit leaves to the row.
LEMMA MergedAsStored ==
    ASSUME NEW r \in Record, NEW c \in Config, NEW in \in Config, NEW e \in Edit, NEW n \in Name,
           Relies(r, e, n), e[n] # Keep => in[n] = Draft(Nothing, e)[n],
           Merged(r, in, c)[n] = c[n]
    PROVE  Merged(r, in, c)[n] = Asked(r, c, e, n)
  <1>1. e[n] \in {Keep, Blank, Drop} /\ c[n] \in Value \cup {Blank, Absent}
    BY ConstantsAssumption DEF Edit, Relies, Config, Entry
  <1>2. CASE e[n] # Blank
    BY <1>1, <1>2, ConstantsAssumption DEF Asked
  <1>3. CASE e[n] = Blank
    <2>1. in[n] = Blank /\ n \in Secret
      BY <1>3, ConstantsAssumption DEF Draft, Relies
    <2>2. CASE c[n] = Absent
      BY <2>1, <2>2, ConstantsAssumption DEF Merged, KeepMissing, MergePreservedSecrets
    <2>3. CASE c[n] # Absent
      BY <1>3, <2>3, ConstantsAssumption DEF Asked
    <2> QED  BY <2>2, <2>3
  <1> QED  BY <1>2, <1>3

\* The merge of a name depends on what is stored under it only.
LEMMA MergedPointwise ==
    ASSUME NEW r \in Record, NEW c \in Config, NEW d \in Config, NEW in \in Config,
           NEW n \in Name, c[n] = d[n]
    PROVE  Merged(r, in, c)[n] = Merged(r, in, d)[n]
  BY DEF Merged, KeepMissing, MergePreservedSecrets

------------------------------------------------------------------------------
\* A task stays faithful when its row gets other contents d, because it misses the
\* names that it relies on and that change.
Behind(t, c, d) ==
    [t EXCEPT !.missed = @ \cup {n \in Name : Relies(t.req.rec, t.req.edit, n) /\ d[n] # c[n]}]

LEMMA BehindIsTask ==
    ASSUME NEW t \in Task, NEW c, NEW d
    PROVE  /\ Behind(t, c, d) \in Task
           /\ Behind(t, c, d).pc = t.pc /\ Behind(t, c, d).req = t.req
           /\ Behind(t, c, d).cfg = t.cfg /\ Behind(t, c, d).tools = t.tools
           /\ Behind(t, c, d).missed =
                 t.missed \cup {n \in Name : Relies(t.req.rec, t.req.edit, n) /\ d[n] # c[n]}
  BY DEF Behind, Task

LEMMA BehindFaithful ==
    ASSUME NEW t \in Task, t.req \in Requests, NEW c \in Config, NEW d \in Config,
           Faithful(t, c)
    PROVE  Faithful(Behind(t, c, d), d)
  <1> DEFINE u == Behind(t, c, d)
             q == t.req
  <1>1. /\ u.pc = t.pc /\ u.req = q /\ u.cfg = t.cfg /\ u.tools = t.tools
        /\ u.missed = t.missed \cup {n \in Name : Relies(q.rec, q.edit, n) /\ d[n] # c[n]}
    BY BehindIsTask
  <1>2. q.rec \in Record /\ q.edit \in Edit /\ t.cfg \in Config
    BY RequestFields DEF Task
  <1> HIDE DEF u
  <1>3. ASSUME NEW n \in Name
        PROVE  \/ Excepted(u, d, n)
               \/ ~ Relies(q.rec, q.edit, n)
               \/ d[n] = c[n] /\ ~ Excepted(t, c, n)
    BY <1>1 DEF Excepted, Stripped
  <1>4. DraftFaithful(u, d)
    <2> SUFFICES ASSUME t.pc = "merge", NEW n \in Name
                 PROVE  /\ q.edit[n] # Keep => t.cfg[n] = Draft(Nothing, q.edit)[n]
                        /\ \/ Excepted(u, d, n)
                           \/ Merged(q.rec, t.cfg, d)[n] = Asked(q.rec, d, q.edit, n)
      BY <1>1 DEF DraftFaithful
    <2>1. /\ q.edit[n] # Keep => t.cfg[n] = Draft(Nothing, q.edit)[n]
          /\ Excepted(t, c, n) \/ Merged(q.rec, t.cfg, c)[n] = Asked(q.rec, c, q.edit, n)
      BY DEF Faithful, DraftFaithful
    <2>2. CASE ~ Relies(q.rec, q.edit, n)
      <3>1. q.edit[n] # Keep
        BY <2>2 DEF Relies
      <3> QED  BY <1>2, <2>1, <2>2, <3>1, MergedRegardless
    <2>3. CASE d[n] = c[n] /\ ~ Excepted(t, c, n)
      <3>1. /\ Asked(q.rec, c, q.edit, n) = Asked(q.rec, d, q.edit, n)
            /\ Merged(q.rec, t.cfg, c)[n] = Merged(q.rec, t.cfg, d)[n]
        BY <1>2, <2>3, AskedRegardless, MergedPointwise
      <3> QED  BY <2>1, <2>3, <3>1
    <2> QED  BY <1>3, <2>1, <2>2, <2>3
  <1>5. WriteFaithful(u, d)
    <2> SUFFICES ASSUME t.pc \in {"check", "discover", "write"}, q.op = "save", NEW n \in Name
                 PROVE  Excepted(u, d, n) \/ t.cfg[n] = Asked(q.rec, d, q.edit, n)
      BY <1>1 DEF WriteFaithful
    <2>1. Excepted(t, c, n) \/ t.cfg[n] = Asked(q.rec, c, q.edit, n)
      BY DEF Faithful, WriteFaithful
    <2>2. CASE ~ Relies(q.rec, q.edit, n)
      <3>1. ~ Excepted(t, c, n)
        BY <2>2 DEF Excepted
      <3> QED  BY <1>2, <2>1, <2>2, <3>1, AskedRegardless
    <2>3. CASE d[n] = c[n] /\ ~ Excepted(t, c, n)
      BY <1>2, <2>1, <2>3, AskedRegardless
    <2> QED  BY <1>3, <2>2, <2>3
  <1>6. Discovered(u)
    BY <1>1 DEF Faithful, Discovered
  <1> QED  BY <1>4, <1>5, <1>6 DEF Faithful, u


\* A task that is not about to save has nothing to be faithful to but its discovery.
LEMMA FaithfulAnyway ==
    ASSUME NEW t, NEW c, NEW d, Faithful(t, c),
           ~ (t.pc \in {"merge", "check", "discover", "write"} /\ t.req.op = "save"),
           t.pc = "merge" => t.req.op = "save"
    PROVE  Faithful(t, d)
  BY DEF Faithful, DraftFaithful, WriteFaithful

------------------------------------------------------------------------------
\* Steps that write no table.
LEMMA QuietStep ==
    ASSUME IInv, NEW w \in Worker, NEW t \in Task, Become(w, t), rows' = rows,
           t.pc # "idle" => /\ InOrder(t)
                            /\ Faithful(t, rows[t.req.rec].cfg)
                            /\ t.req.op = "create" => rows[t.req.rec].st = "free"
                            /\ t.req.op # "create" /\ t.req.rec \notin Integration
                                  => rows[t.req.rec].st # "free",
           \A v \in Worker \ {w} :
                /\ t.pc # "idle" /\ ~ At(v, "idle")
                /\ t.req.op = "create" \/ task[v].req.op = "create"
                => task[v].req.rec # t.req.rec,
           moves' \in Nat, faults' \in Nat
    PROVE  IInv'
  <1>1. task' = [task EXCEPT ![w] = t] /\ task \in [Worker -> Task]
    BY DEF Become, IInv, TypeOK
  <1>2. \A v \in Worker : task'[v] = IF v = w THEN t ELSE task[v]
    BY <1>1
  <1>3. TypeOK' /\ ToolsMatchHeaders'
    BY <1>1 DEF IInv, TypeOK, ToolsMatchHeaders
  <1>4. ASSUME NEW v \in Worker
        PROVE  Serving(v)'
    <2>1. CASE v = w
      BY <1>2, <2>1 DEF Serving, At
    <2>2. CASE v # w
      <3>1. Serving(v) /\ task'[v] = task[v] /\ task'[w] = t
        BY <1>2, <2>2 DEF IInv
      <3> QED  BY <1>2, <2>2, <3>1 DEF Serving, At
    <2> QED  BY <2>1, <2>2
  <1>5. ASSUME NEW v \in Worker
        PROVE  Faithful(task'[v], rows'[task'[v].req.rec].cfg)
    <2>1. CASE v # w
      BY <1>2, <2>1 DEF IInv
    <2>2. CASE v = w /\ t.pc # "idle"
      BY <1>2, <2>2
    <2>3. CASE v = w /\ t.pc = "idle"
      BY <1>2, <2>3 DEF Faithful, DraftFaithful, WriteFaithful, Discovered
    <2> QED  BY <2>1, <2>2, <2>3
  <1> QED  BY <1>3, <1>4, <1>5 DEF IInv

\* A request that goes on from one statement to the next.
LEMMA GoesOn ==
    ASSUME IInv, NEW w \in Worker, ~ At(w, "idle"), NEW t \in Task, Become(w, t), rows' = rows,
           t.req = task[w].req, InOrder(t), Faithful(t, rows[t.req.rec].cfg),
           moves' \in Nat, faults' \in Nat
    PROVE  IInv'
  <1>1. /\ Serving(w)
        /\ \A v \in Worker \ {w} : Serving(v)
    BY DEF IInv
  <1>2. \A v \in Worker \ {w} :
            ~ At(v, "idle") /\ (t.req.op = "create" \/ task[v].req.op = "create")
            => task[v].req.rec # t.req.rec
    BY <1>1 DEF Serving
  <1>3. /\ t.req.op = "create" => rows[t.req.rec].st = "free"
        /\ t.req.op # "create" /\ t.req.rec \notin Integration => rows[t.req.rec].st # "free"
    BY <1>1 DEF Serving
  <1> QED  BY <1>2, <1>3, QuietStep

\* A request that answers without having written a table.
LEMMA Answers ==
    ASSUME IInv, NEW w \in Worker, Respond(w), rows' = rows, moves' \in Nat, faults' \in Nat
    PROVE  IInv'
  <1>1. Become(w, Idle) /\ Idle \in Task /\ Idle.pc = "idle"
    BY IdleIsTask DEF Respond
  <1> QED  BY <1>1, QuietStep

\* What is known of a worker that is not idle.
LEMMA BusyTask ==
    ASSUME IInv, NEW w \in Worker, ~ At(w, "idle")
    PROVE  /\ task[w] \in Task /\ InOrder(task[w])
           /\ task[w].req \in Requests /\ task[w].req.rec \in Record
           /\ task[w].req.edit \in Edit /\ task[w].cfg \in Config /\ task[w].tools \in Config
           /\ rows[task[w].req.rec] \in Row /\ rows[task[w].req.rec].cfg \in Config
           /\ Faithful(task[w], rows[task[w].req.rec].cfg)
  <1>1. task[w] \in Task /\ InOrder(task[w]) /\ rows \in [Record -> Row]
        /\ Faithful(task[w], rows[task[w].req.rec].cfg)
    BY DEF IInv, TypeOK, Serving
  <1>2. task[w].req \in Requests
    BY <1>1 DEF InOrder
  <1> QED  BY <1>1, <1>2, RequestFields DEF Task, Row

------------------------------------------------------------------------------
LEMMA StartKeeps ==
    ASSUME IInv, NEW w \in Worker, NEW r \in Requests, Start(w, r)
    PROVE  IInv'
  <1> DEFINE d == IF r.op = "create" THEN Draft(Nothing, r.edit) ELSE Nothing
             t == [Idle EXCEPT !.pc = First(r), !.req = r, !.cfg = d]
  <1>1. r \in Request /\ r.rec \in Record /\ r.op \in {"create", "save", "delete"}
        /\ r.edit \in Edit /\ (r.op = "create" => r.rec \notin Integration)
    BY RequestFields
  <1>2. d \in Config
    BY <1>1, NothingIsConfig, Conversions
  <1> HIDE DEF d
  <1>3. First(r) \in PC /\ First(r) \in {"discover", "insert", "view", "delete", "check"}
    BY <1>1 DEF First, PC
  <1>4. /\ t \in Task /\ t.pc = First(r) /\ t.req = r
    BY <1>1, <1>2, <1>3, NothingIsConfig DEF Idle, Task
  <1>5. Become(w, t) /\ rows' = rows /\ moves' \in Nat /\ faults' \in Nat
    BY DEF Start, IInv, TypeOK, d
  <1> HIDE DEF t
  <1>6. InOrder(t)
    BY <1>1, <1>4 DEF InOrder, First, Record
  <1>7. Faithful(t, rows[t.req.rec].cfg)
    <2>1. CASE r.op = "create"
      BY <1>1, <1>4, <2>1, ConstantsAssumption
         DEF First, Faithful, DraftFaithful, WriteFaithful, Discovered
    <2>2. CASE r.op # "create"
      BY <1>1, <1>4, <2>2
         DEF First, Faithful, DraftFaithful, WriteFaithful, Discovered
    <2> QED  BY <2>1, <2>2
  <1>8. /\ r.op = "create" => rows[r.rec].st = "free"
        /\ r.op # "create" /\ r.rec \notin Integration => rows[r.rec].st # "free"
    BY DEF Start
  <1>9. ASSUME NEW v \in Worker \ {w}, ~ At(v, "idle"),
               r.op = "create" \/ task[v].req.op = "create"
        PROVE  task[v].req.rec # r.rec
    <2>1. CASE r.op = "create"
      BY <1>9, <2>1 DEF Start
    <2>2. CASE r.op # "create"
      <3>1. task[v].req.op = "create" /\ task[v].req \in Requests
            /\ rows[task[v].req.rec].st = "free"
        BY <1>9, <2>2 DEF IInv, Serving, InOrder
      <3>2. task[v].req.rec \notin Integration
        BY <3>1, RequestFields
      <3> QED  BY <1>8, <2>2, <3>1, <3>2
    <2> QED  BY <2>1, <2>2
  <1> QED  BY <1>4, <1>5, <1>6, <1>7, <1>8, <1>9, QuietStep

LEMMA ViewKeeps ==
    ASSUME IInv, NEW w \in Worker, View(w)
    PROVE  IInv'
  <1> DEFINE q == task[w].req
             c == rows[q.rec].cfg
             sent == Draft(Redact(q.rec, c), q.edit)
             t == [task[w] EXCEPT !.pc = "merge", !.cfg = sent]
  <1>1. ~ At(w, "idle") /\ rows' = rows /\ moves' \in Nat /\ faults' \in Nat
    BY DEF View, At, IInv, TypeOK
  <1>2. CASE Respond(w)
    BY <1>1, <1>2, Answers
  <1>3. CASE Become(w, t)
    <2>1. /\ task[w] \in Task /\ q \in Requests /\ q.rec \in Record /\ q.edit \in Edit
          /\ c \in Config /\ InOrder(task[w]) /\ task[w].pc = "view"
      BY <1>1, BusyTask DEF View, At
    <2>2. sent \in Config
      <3>1. Redact(q.rec, c) \in Config
        BY <2>1, Conversions
      <3> QED  BY <2>1, <3>1, Conversions
    <2>3. \A n \in Name : q.edit[n] # Keep => sent[n] = Draft(Nothing, q.edit)[n]
      BY DEF Draft
    <2>4. ASSUME NEW n \in Name
          PROVE  \/ Relies(q.rec, q.edit, n) /\ Stripped(q.rec, c, n)
                 \/ Merged(q.rec, sent, c)[n] = Asked(q.rec, c, q.edit, n)
      BY <2>1, MergeUndoesRedaction
    <2> HIDE DEF sent
    <2>5. t \in Task /\ t.pc = "merge" /\ t.req = q /\ t.cfg = sent
      BY <2>1, <2>2 DEF Task, PC
    <2> HIDE DEF t
    <2>6. InOrder(t)
      BY <2>1, <2>5 DEF InOrder
    <2>7. Faithful(t, c)
      <3>1. DraftFaithful(t, c)
        BY <2>3, <2>4, <2>5 DEF DraftFaithful, Excepted
      <3> QED  BY <2>5, <3>1 DEF Faithful, WriteFaithful, Discovered
    <2> QED  BY <1>1, <1>3, <2>5, <2>6, <2>7, GoesOn
  <1> QED  BY <1>2, <1>3 DEF View

\* Where a request goes on from its merge.
LEMMA MergeKeeps ==
    ASSUME IInv, NEW w \in Worker, Merge(w)
    PROVE  IInv'
  <1> DEFINE q == task[w].req
             c == rows[q.rec].cfg
             merged == Merged(q.rec, task[w].cfg, c)
             l == IF q.rec \in Integration THEN "write" ELSE "check"
             left == {n \in task[w].missed : merged[n] # c[n]}
             t == [task[w] EXCEPT !.pc = l, !.cfg = merged, !.missed = left]
  <1>1. ~ At(w, "idle") /\ rows' = rows /\ moves' \in Nat /\ faults' \in Nat /\ Become(w, t)
    BY DEF Merge, At, IInv, TypeOK
  <1>2. /\ task[w] \in Task /\ q \in Requests /\ q.rec \in Record /\ q.edit \in Edit
        /\ c \in Config /\ InOrder(task[w]) /\ task[w].pc = "merge"
        /\ task[w].cfg \in Config /\ Faithful(task[w], c)
    BY <1>1, BusyTask DEF Merge, At
  <1>3. merged \in Config /\ left \in SUBSET Name
    BY <1>2, Conversions DEF Task
  <1>4. ASSUME NEW n \in Name
        PROVE  \/ Relies(q.rec, q.edit, n) /\ (n \in left \/ Stripped(q.rec, c, n))
               \/ merged[n] = Asked(q.rec, c, q.edit, n)
    <2>1. /\ q.edit[n] # Keep => task[w].cfg[n] = Draft(Nothing, q.edit)[n]
          /\ Excepted(task[w], c, n) \/ merged[n] = Asked(q.rec, c, q.edit, n)
      BY <1>2 DEF Faithful, DraftFaithful
    <2>2. CASE Relies(q.rec, q.edit, n) /\ n \in task[w].missed /\ n \notin left
      BY <1>2, <2>1, <2>2, MergedAsStored
    <2> QED  BY <2>1, <2>2 DEF Excepted
  <1> HIDE DEF merged, left
  <1>5. /\ t \in Task /\ t.req = q /\ t.cfg = merged /\ t.missed = left
        /\ t.pc = IF q.rec \in Integration THEN "write" ELSE "check"
    BY <1>2, <1>3 DEF Task, PC
  <1> HIDE DEF t, l
  <1>6. InOrder(t) /\ q.op = "save"
    BY <1>2, <1>5 DEF InOrder
  <1>7. Faithful(t, c)
    <2>1. WriteFaithful(t, c)
      BY <1>4, <1>5 DEF WriteFaithful, Excepted
    <2>2. Discovered(t)
      BY <1>5, ConstantsAssumption DEF Discovered
    <2> QED  BY <1>5, <2>1, <2>2 DEF Faithful, DraftFaithful
  <1> QED  BY <1>1, <1>5, <1>6, <1>7, GoesOn

LEMMA CheckKeeps ==
    ASSUME IInv, NEW w \in Worker, Check(w)
    PROVE  IInv'
  <1> DEFINE q == task[w].req
             l == CASE q.op = "delete" -> "delete"
                    [] q.op = "save" -> IF q.rec \in Mcp THEN "discover" ELSE "write"
             t == [task[w] EXCEPT !.pc = l]
  <1>1. ~ At(w, "idle") /\ rows' = rows /\ moves' \in Nat /\ faults' \in Nat
    BY DEF Check, At, IInv, TypeOK
  <1>2. CASE Respond(w)
    BY <1>1, <1>2, Answers
  <1>3. CASE Goto(w, l)
    <2>1. /\ task[w] \in Task /\ InOrder(task[w]) /\ task[w].pc = "check"
          /\ Faithful(task[w], rows[q.rec].cfg)
      BY <1>1, BusyTask DEF Check, At
    <2>2. q.op \in {"save", "delete"} /\ l \in PC
      BY <2>1 DEF InOrder, PC
    <2>3. /\ q.op = "delete" => l = "delete"
          /\ q.op = "save" /\ q.rec \in Mcp => l = "discover"
          /\ q.op = "save" /\ q.rec \notin Mcp => l = "write"
      OBVIOUS
    <2> HIDE DEF l
    <2>4. /\ t \in Task /\ t.req = q /\ t.cfg = task[w].cfg /\ t.missed = task[w].missed
          /\ t.pc = l
      BY <2>1, <2>2 DEF Task
    <2>5. Become(w, t)
      BY <1>3 DEF Goto
    <2> HIDE DEF t
    <2>6. InOrder(t)
      BY <2>1, <2>2, <2>3, <2>4 DEF InOrder
    <2>7. Faithful(t, rows[q.rec].cfg)
      <3>1. WriteFaithful(t, rows[q.rec].cfg)
        BY <2>1, <2>2, <2>3, <2>4 DEF Faithful, WriteFaithful, Excepted
      <3> QED  BY <2>2, <2>3, <2>4, <3>1 DEF Faithful, DraftFaithful, Discovered
    <2> QED  BY <1>1, <2>4, <2>5, <2>6, <2>7, GoesOn
  <1> QED  BY <1>2, <1>3 DEF Check

LEMMA DiscoverKeeps ==
    ASSUME IInv, NEW w \in Worker, Discover(w)
    PROVE  IInv'
  <1> DEFINE q == task[w].req
             l == IF q.op = "create" THEN "insert" ELSE "write"
             t == [task[w] EXCEPT !.pc = l, !.tools = Used(w)]
  <1>1. ~ At(w, "idle") /\ rows' = rows /\ moves' \in Nat /\ faults' \in Nat
    BY DEF Discover, At, IInv, TypeOK
  <1>2. CASE Respond(w)
    BY <1>1, <1>2, Answers
  <1>3. CASE Become(w, t)
    <2>1. /\ task[w] \in Task /\ InOrder(task[w]) /\ task[w].pc = "discover"
          /\ Faithful(task[w], rows[q.rec].cfg) /\ task[w].cfg \in Config
      BY <1>1, BusyTask DEF Discover, At
    <2>2. /\ t \in Task /\ t.req = q /\ t.cfg = task[w].cfg /\ t.missed = task[w].missed
          /\ t.tools = t.cfg /\ t.pc = IF q.op = "create" THEN "insert" ELSE "write"
      BY <2>1 DEF Task, PC, Used
    <2> HIDE DEF t
    <2>3. InOrder(t)
      BY <2>1, <2>2 DEF InOrder
    <2>4. Faithful(t, rows[q.rec].cfg)
      <3>1. WriteFaithful(t, rows[q.rec].cfg)
        BY <2>1, <2>2 DEF Faithful, WriteFaithful, Excepted
      <3> QED  BY <2>2, <3>1 DEF Faithful, DraftFaithful, Discovered
    <2> QED  BY <1>1, <1>3, <2>2, <2>3, <2>4, GoesOn
  <1> QED  BY <1>2, <1>3 DEF Discover

LEMMA FailKeeps ==
    ASSUME IInv, NEW w \in Worker, Fail(w)
    PROVE  IInv'
  <1> DEFINE q == task[w].req
             l == IF q.rec \in Integration THEN "write" ELSE "check"
             all == {n \in Name : Relies(q.rec, q.edit, n)}
             t == [task[w] EXCEPT !.pc = l, !.missed = all]
  <1>1. ~ At(w, "idle") /\ rows' = rows /\ moves' \in Nat /\ faults' \in Nat
    BY DEF Fail, IInv, TypeOK
  <1>2. CASE Respond(w)
    BY <1>1, <1>2, Answers
  <1>3. CASE At(w, "merge") /\ Become(w, t)
    <2>1. /\ task[w] \in Task /\ InOrder(task[w]) /\ task[w].pc = "merge"
          /\ Faithful(task[w], rows[q.rec].cfg) /\ task[w].cfg \in Config
          /\ rows[q.rec].cfg \in Config /\ q.rec \in Record /\ q.edit \in Edit
      BY <1>1, <1>3, BusyTask DEF At
    <2>2. /\ t \in Task /\ t.req = q /\ t.cfg = task[w].cfg /\ t.missed = all
          /\ t.pc = IF q.rec \in Integration THEN "write" ELSE "check"
      BY <2>1 DEF Task, PC
    <2> HIDE DEF t, l
    <2>3. InOrder(t)
      BY <2>1, <2>2 DEF InOrder
    <2>4. ASSUME NEW n \in Name
          PROVE  Excepted(t, rows[q.rec].cfg, n)
                 \/ t.cfg[n] = Asked(q.rec, rows[q.rec].cfg, q.edit, n)
      <3>1. CASE Relies(q.rec, q.edit, n)
        BY <2>2, <3>1 DEF Excepted
      <3>2. CASE ~ Relies(q.rec, q.edit, n)
        <4>1. t.cfg[n] = Draft(Nothing, q.edit)[n]
          BY <2>1, <2>2, <3>2 DEF Faithful, DraftFaithful, Relies
        <4> QED  BY <2>1, <2>2, <3>2, <4>1, MergedRegardless
      <3> QED  BY <3>1, <3>2
    <2>5. Faithful(t, rows[q.rec].cfg)
      <3>1. Discovered(t)
        BY <2>2, ConstantsAssumption DEF Discovered
      <3> QED  BY <2>2, <2>4, <3>1 DEF Faithful, DraftFaithful, WriteFaithful
    <2> QED  BY <1>1, <1>3, <2>2, <2>3, <2>5, GoesOn
  <1> QED  BY <1>2, <1>3 DEF Fail

------------------------------------------------------------------------------
\* Steps that give the row r the value x: a request answers, goes on as it was, or has
\* missed the change.
LEMMA RowStep ==
    ASSUME IInv, NEW r \in Record, NEW x \in Row, rows' = [rows EXCEPT ![r] = x],
           r \in Mcp => x.tools = x.cfg,
           r \notin Integration => x.st # "free",
           task' \in [Worker -> Task],
           \A v \in Worker :
                \/ task'[v] = Idle
                \/ /\ ~ At(v, "idle") /\ Saving(v, r)
                   /\ task'[v] = Behind(task[v], rows[r].cfg, x.cfg)
                \/ ~ Saving(v, r) /\ task'[v] = task[v],
           \A v \in Worker :
                task'[v] # Idle /\ ~ At(v, "idle") /\ task[v].req.rec = r
                => task[v].req.op # "create",
           moves' \in Nat, faults' \in Nat
    PROVE  IInv'
  <1>1. rows \in [Record -> Row] /\ rows' \in [Record -> Row]
        /\ \A s \in Record : rows'[s] = IF s = r THEN x ELSE rows[s]
    BY DEF IInv, TypeOK
  <1>2. TypeOK'
    BY <1>1 DEF TypeOK
  <1>3. ToolsMatchHeaders'
    BY <1>1 DEF IInv, ToolsMatchHeaders, Record
  <1>4. ASSUME NEW v \in Worker, task'[v].pc # "idle"
        PROVE  /\ ~ At(v, "idle") /\ task'[v] # Idle
               /\ task'[v].pc = task[v].pc /\ task'[v].req = task[v].req
               /\ InOrder(task[v]) => InOrder(task'[v])
    <2>1. task[v] \in Task /\ task'[v] # Idle
      BY <1>4, IdleIsTask DEF IInv, TypeOK
    <2>2. task'[v].pc = task[v].pc /\ task'[v].req = task[v].req
      BY <2>1, BehindIsTask
    <2> QED  BY <1>4, <2>1, <2>2 DEF At, InOrder
  <1>5. ASSUME NEW v \in Worker
        PROVE  Serving(v)'
    <2> SUFFICES ASSUME task'[v].pc # "idle"
                 PROVE  Serving(v)'
      BY DEF Serving, At
    <2> DEFINE q == task[v].req
    <2>1. /\ ~ At(v, "idle") /\ task'[v] # Idle /\ task'[v].req = q
          /\ InOrder(task[v]) => InOrder(task'[v])
      BY <1>4
    <2>2. Serving(v) /\ InOrder(task'[v]) /\ q.rec \in Record
      BY <2>1, BusyTask DEF IInv
    <2>3. q.op = "create" => rows'[q.rec].st = "free"
      BY <1>1, <2>1, <2>2 DEF Serving
    <2>4. q.op # "create" /\ q.rec \notin Integration => rows'[q.rec].st # "free"
      BY <1>1, <2>1, <2>2 DEF Serving
    <2>5. ASSUME q.op = "create", NEW u \in Worker \ {v}, task'[u].pc # "idle"
          PROVE  task'[u].req.rec # q.rec
      <3>1. ~ At(u, "idle") /\ task'[u].req = task[u].req
        BY <1>4, <2>5
      <3> QED  BY <2>1, <2>2, <2>5, <3>1 DEF Serving
    <2> QED  BY <2>1, <2>2, <2>3, <2>4, <2>5 DEF Serving, At
  <1>6. ASSUME NEW v \in Worker
        PROVE  Faithful(task'[v], rows'[task'[v].req.rec].cfg)
    <2>1. CASE task'[v].pc = "idle"
      BY <2>1 DEF Faithful, DraftFaithful, WriteFaithful, Discovered
    <2>2. CASE task'[v].pc # "idle"
      <3> DEFINE q == task[v].req
      <3>1. ~ At(v, "idle") /\ task'[v] # Idle /\ task'[v].req = q
        BY <1>4, <2>2
      <3>2. /\ task[v] \in Task /\ InOrder(task[v]) /\ q \in Requests /\ q.rec \in Record
            /\ rows[q.rec].cfg \in Config /\ Faithful(task[v], rows[q.rec].cfg)
        BY <3>1, BusyTask
      <3>3. CASE Saving(v, r)
        <4>1. task'[v] = Behind(task[v], rows[r].cfg, x.cfg) /\ q.rec = r
          BY <3>1, <3>3 DEF Saving
        <4>2. x.cfg \in Config /\ rows'[r].cfg = x.cfg
          BY <1>1 DEF Row
        <4> QED  BY <3>1, <3>2, <4>1, <4>2, BehindFaithful
      <3>4. CASE ~ Saving(v, r)
        <4>1. task'[v] = task[v]
          BY <3>1, <3>4
        <4>2. CASE q.rec # r
          BY <1>1, <3>2, <4>1, <4>2
        <4>3. CASE q.rec = r
          <5>1. ~ (task[v].pc \in {"merge", "check", "discover", "write"} /\ q.op = "save")
                /\ (task[v].pc = "merge" => q.op = "save")
            BY <3>2, <3>4, <4>3 DEF Saving, InOrder
          <5> QED  BY <3>2, <4>1, <5>1, FaithfulAnyway
        <4> QED  BY <4>2, <4>3
      <3> QED  BY <3>3, <3>4
    <2> QED  BY <2>1, <2>2
  <1> QED  BY <1>2, <1>3, <1>5, <1>6 DEF IInv

\* The same when a request that answers, w, gives the row its value.
LEMMA AnswerStep ==
    ASSUME IInv, NEW w \in Worker,
           NEW r \in Record, NEW x \in Row, rows' = [rows EXCEPT ![r] = x],
           r \in Mcp => x.tools = x.cfg,
           r \notin Integration => x.st # "free",
           task' \in [Worker -> Task], task'[w] = Idle,
           \A v \in Worker \ {w} :
                \/ /\ ~ At(v, "idle") /\ Saving(v, r)
                   /\ task'[v] = Behind(task[v], rows[r].cfg, x.cfg)
                \/ ~ Saving(v, r) /\ task'[v] = task[v],
           \A v \in Worker \ {w} :
                ~ At(v, "idle") /\ task[v].req.rec = r => task[v].req.op # "create",
           moves' \in Nat, faults' \in Nat
    PROVE  IInv'
  <1>1. \A v \in Worker :
            \/ task'[v] = Idle
            \/ /\ ~ At(v, "idle") /\ Saving(v, r)
               /\ task'[v] = Behind(task[v], rows[r].cfg, x.cfg)
            \/ ~ Saving(v, r) /\ task'[v] = task[v]
    OBVIOUS
  <1>2. \A v \in Worker :
            task'[v] # Idle /\ ~ At(v, "idle") /\ task[v].req.rec = r
            => task[v].req.op # "create"
    OBVIOUS
  <1> QED  BY <1>1, <1>2, RowStep

\* What Replaced makes of the tasks.
LEMMA ReplacedTasks ==
    ASSUME IInv, NEW w \in Worker, NEW r \in Record, NEW c \in Config, Replaced(w, r, c)
    PROVE  /\ task' \in [Worker -> Task]
           /\ task'[w] = Idle
           /\ \A v \in Worker \ {w} :
                \/ /\ ~ At(v, "idle") /\ Saving(v, r)
                   /\ task'[v] = Behind(task[v], rows[r].cfg, c)
                \/ ~ Saving(v, r) /\ task'[v] = task[v]
  <1>1. /\ task \in [Worker -> Task] /\ task'[w] = Idle
        /\ task' = [v \in Worker |->
                      IF v = w THEN Idle ELSE [task[v] EXCEPT !.missed = Missing(v, r, c)]]
    BY DEF Replaced, IInv, TypeOK
  <1>2. ASSUME NEW v \in Worker \ {w}
        PROVE  /\ task'[v] \in Task
               /\ \/ /\ ~ At(v, "idle") /\ Saving(v, r)
                     /\ task'[v] = Behind(task[v], rows[r].cfg, c)
                  \/ ~ Saving(v, r) /\ task'[v] = task[v]
    <2>1. task'[v] = [task[v] EXCEPT !.missed = Missing(v, r, c)] /\ task[v] \in Task
      BY <1>1
    <2>2. CASE Saving(v, r)
      <3>1. task'[v] = Behind(task[v], rows[r].cfg, c)
        BY <2>1, <2>2 DEF Missing, Behind, Saving
      <3>2. ~ At(v, "idle")
        BY <2>2 DEF Saving, At
      <3> QED  BY <2>1, <2>2, <3>1, <3>2, BehindIsTask
    <2>3. CASE ~ Saving(v, r)
      BY <2>1, <2>3 DEF Missing, Task
    <2> QED  BY <2>2, <2>3
  <1> QED  BY <1>1, <1>2, IdleIsTask

LEMMA InsertKeeps ==
    ASSUME IInv, NEW w \in Worker, Insert(w)
    PROVE  IInv'
  <1> DEFINE r == task[w].req.rec
             x == Holding(r, task[w].cfg, task[w].tools)
  <1>1. ~ At(w, "idle") /\ task[w].pc = "insert" /\ moves' \in Nat /\ faults' \in Nat
        /\ rows' = [rows EXCEPT ![r] = x] /\ task' = [task EXCEPT ![w] = Idle]
    BY DEF Insert, At, Respond, Become, IInv, TypeOK
  <1>2. /\ task[w] \in Task /\ InOrder(task[w]) /\ r \in Record /\ Serving(w)
        /\ task[w].cfg \in Config /\ task[w].tools \in Config
        /\ Faithful(task[w], rows[r].cfg)
    BY <1>1, BusyTask DEF IInv
  <1>3. x \in Row /\ x.st # "free" /\ x.cfg = task[w].cfg /\ (r \in Mcp => x.tools = x.cfg)
    BY <1>1, <1>2, RowTypes DEF Faithful, Discovered
  <1>4. /\ task' \in [Worker -> Task] /\ task'[w] = Idle
        /\ \A v \in Worker \ {w} : task'[v] = task[v]
    BY <1>1, IdleIsTask DEF IInv, TypeOK
  <1>5. \A v \in Worker \ {w} : At(v, "idle") \/ task[v].req.rec # r
    BY <1>1, <1>2 DEF Serving, InOrder
  <1> HIDE DEF x
  <1>6. \A v \in Worker \ {w} :
            \/ /\ ~ At(v, "idle") /\ Saving(v, r)
               /\ task'[v] = Behind(task[v], rows[r].cfg, x.cfg)
            \/ ~ Saving(v, r) /\ task'[v] = task[v]
    BY <1>4, <1>5 DEF Saving, At
  <1>7. \A v \in Worker \ {w} :
            ~ At(v, "idle") /\ task[v].req.rec = r => task[v].req.op # "create"
    BY <1>5
  <1>8. /\ r \in Record /\ rows' = [rows EXCEPT ![r] = x] /\ moves' \in Nat /\ faults' \in Nat
        /\ x \in Row /\ (r \in Mcp => x.tools = x.cfg) /\ (r \notin Integration => x.st # "free")
        /\ task' \in [Worker -> Task] /\ task'[w] = Idle
    BY <1>1, <1>2, <1>3, <1>4
  <1> HIDE DEF r
  <1> QED  BY <1>6, <1>7, <1>8, AnswerStep

LEMMA WriteKeeps ==
    ASSUME IInv, NEW w \in Worker, Write(w)
    PROVE  IInv'
  <1> DEFINE r == task[w].req.rec
             x == Holding(r, task[w].cfg, task[w].tools)
  <1>1. ~ At(w, "idle") /\ task[w].pc = "write" /\ moves' \in Nat /\ faults' \in Nat
    BY DEF Write, At, IInv, TypeOK
  <1>2. CASE Respond(w) /\ UNCHANGED rows
    BY <1>1, <1>2, Answers
  <1>3. CASE rows' = [rows EXCEPT ![r] = x] /\ Replaced(w, r, task[w].cfg)
    <2>1. /\ task[w] \in Task /\ InOrder(task[w]) /\ r \in Record
          /\ task[w].cfg \in Config /\ task[w].tools \in Config
          /\ Faithful(task[w], rows[r].cfg)
      BY <1>1, BusyTask
    <2>2. x \in Row /\ x.st # "free" /\ x.cfg = task[w].cfg /\ (r \in Mcp => x.tools = x.cfg)
      BY <1>1, <2>1, RowTypes DEF Faithful, Discovered
    <2> HIDE DEF x
    <2>3. /\ task' \in [Worker -> Task] /\ task'[w] = Idle
          /\ \A v \in Worker \ {w} :
                \/ /\ ~ At(v, "idle") /\ Saving(v, r)
                   /\ task'[v] = Behind(task[v], rows[r].cfg, x.cfg)
                \/ ~ Saving(v, r) /\ task'[v] = task[v]
      BY <1>3, <2>1, <2>2, ReplacedTasks
    <2>4. \A v \in Worker \ {w} :
              ~ At(v, "idle") /\ task[v].req.rec = r => task[v].req.op # "create"
      BY <1>1 DEF IInv, Serving
    <2> HIDE DEF r
    <2> QED  BY <1>1, <1>3, <2>1, <2>2, <2>3, <2>4, AnswerStep
  <1> QED  BY <1>2, <1>3 DEF Write

LEMMA DeleteKeeps ==
    ASSUME IInv, NEW w \in Worker, Delete(w)
    PROVE  IInv'
  <1> DEFINE r == task[w].req.rec
             x == [Empty EXCEPT !.st = IF r \in Integration THEN "free" ELSE "gone"]
  <1>1. ~ At(w, "idle") /\ moves' \in Nat /\ faults' \in Nat
        /\ rows' = [rows EXCEPT ![r] = x] /\ Replaced(w, r, Nothing)
    BY DEF Delete, At, IInv, TypeOK
  <1>2. r \in Record
    BY <1>1, BusyTask
  <1>3. x \in Row /\ x.cfg = Nothing /\ x.tools = x.cfg /\ (r \notin Integration => x.st # "free")
    BY RowTypes, NothingIsConfig DEF Empty, Row
  <1> HIDE DEF x
  <1>4. /\ task' \in [Worker -> Task] /\ task'[w] = Idle
        /\ \A v \in Worker \ {w} :
              \/ /\ ~ At(v, "idle") /\ Saving(v, r)
                 /\ task'[v] = Behind(task[v], rows[r].cfg, x.cfg)
              \/ ~ Saving(v, r) /\ task'[v] = task[v]
    BY <1>1, <1>2, <1>3, NothingIsConfig, ReplacedTasks
  <1>5. \A v \in Worker \ {w} :
            ~ At(v, "idle") /\ task[v].req.rec = r => task[v].req.op # "create"
    BY <1>1 DEF IInv, Serving
  <1>6. \A v \in Worker \ {w} :
            ~ At(v, "idle") /\ task[v].req.rec = r => task[v].req.op # "create"
    BY <1>5
  <1> HIDE DEF r
  <1> QED  BY <1>1, <1>2, <1>3, <1>4, <1>6, AnswerStep

LEMMA RefreshKeeps ==
    ASSUME IInv, NEW r \in Integration, NEW n \in Secret, NEW v \in Value, Refresh(r, n, v)
    PROVE  IInv'
  <1> DEFINE c == [rows[r].cfg EXCEPT ![n] = v]
             x == [rows[r] EXCEPT !.cfg = c]
  <1>1. /\ r \in Record /\ rows \in [Record -> Row] /\ rows[r] \in Row
        /\ rows[r].cfg \in Config /\ task \in [Worker -> Task]
    BY DEF IInv, TypeOK, Record, Row
  <1>2. c \in Config
    BY <1>1, ConstantsAssumption DEF Config, Entry
  <1>3. /\ rows' = [rows EXCEPT ![r].cfg = c] /\ moves' \in Nat /\ faults' \in Nat
        /\ task' = [w \in Worker |-> [task[w] EXCEPT !.missed = Missing(w, r, c)]]
    BY DEF Refresh, IInv, TypeOK
  <1> HIDE DEF c
  <1>4. x \in Row /\ x.cfg = c /\ rows' = [rows EXCEPT ![r] = x]
    BY <1>1, <1>2, <1>3 DEF Row
  <1> HIDE DEF x
  <1>5. ASSUME NEW w \in Worker
        PROVE  /\ task'[w] \in Task
               /\ \/ /\ ~ At(w, "idle") /\ Saving(w, r)
                     /\ task'[w] = Behind(task[w], rows[r].cfg, c)
                  \/ ~ Saving(w, r) /\ task'[w] = task[w]
    <2>1. task'[w] = [task[w] EXCEPT !.missed = Missing(w, r, c)] /\ task[w] \in Task
      BY <1>1, <1>3
    <2>2. CASE Saving(w, r)
      <3>1. task'[w] = Behind(task[w], rows[r].cfg, c)
        BY <2>1, <2>2 DEF Missing, Behind, Saving
      <3>2. ~ At(w, "idle")
        BY <2>2 DEF Saving, At
      <3> QED  BY <2>1, <2>2, <3>1, <3>2, BehindIsTask
    <2>3. CASE ~ Saving(w, r)
      BY <2>1, <2>3 DEF Missing, Task
    <2> QED  BY <2>2, <2>3
  <1>6. task' \in [Worker -> Task]
    BY <1>3, <1>5
  <1>7. \A w \in Worker :
            ~ At(w, "idle") /\ task[w].req.rec = r => task[w].req.op # "create"
    BY BusyTask, RequestFields
  <1>8. /\ (r \in Mcp => x.tools = x.cfg) /\ (r \notin Integration => x.st # "free")
    BY ConstantsAssumption
  <1>9. \A w \in Worker :
            \/ task'[w] = Idle
            \/ /\ ~ At(w, "idle") /\ Saving(w, r)
               /\ task'[w] = Behind(task[w], rows[r].cfg, x.cfg)
            \/ ~ Saving(w, r) /\ task'[w] = task[w]
    BY <1>4, <1>5
  <1>10. \A w \in Worker :
            task'[w] # Idle /\ ~ At(w, "idle") /\ task[w].req.rec = r
            => task[w].req.op # "create"
    BY <1>7
  <1>11. r \in Record /\ x \in Row /\ rows' = [rows EXCEPT ![r] = x]
         /\ moves' \in Nat /\ faults' \in Nat
    BY <1>1, <1>3, <1>4
  <1> QED  BY <1>6, <1>8, <1>9, <1>10, <1>11, RowStep

------------------------------------------------------------------------------
LEMMA InitHolds == Init => IInv
  <1> SUFFICES ASSUME Init
               PROVE  IInv
    OBVIOUS
  <1>1. PICK f \in [Record -> Initial], present \in SUBSET Record :
            rows = [r \in Record |-> IF r \in present THEN Holding(r, f[r], f[r]) ELSE Empty]
    BY DEF Init
  <1>2. \A r \in Record : f[r] \in Config
    BY ConstantsAssumption
  <1>3. ASSUME NEW r \in Record
        PROVE  rows[r] \in Row /\ (r \in Mcp => rows[r].tools = rows[r].cfg)
    <2>1. CASE r \in present
      BY <1>1, <1>2, <2>1, RowTypes
    <2>2. CASE r \notin present
      BY <1>1, <2>2, RowTypes
    <2> QED  BY <2>1, <2>2
  <1>4. TypeOK
    <2>1. rows \in [Record -> Row]
      BY <1>1, <1>3
    <2> QED  BY <2>1, IdleIsTask DEF TypeOK, Init
  <1>5. ToolsMatchHeaders
    BY <1>3 DEF ToolsMatchHeaders, Record
  <1>6. \A w \in Worker : task[w].pc = "idle"
    BY IdleIsTask DEF Init
  <1>7. \A w \in Worker : Serving(w) /\ Faithful(task[w], rows[task[w].req.rec].cfg)
    BY <1>6 DEF Serving, At, Faithful, DraftFaithful, WriteFaithful, Discovered
  <1> QED  BY <1>4, <1>5, <1>7 DEF IInv

LEMMA StutterKeeps ==
    ASSUME IInv, UNCHANGED vars
    PROVE  IInv'
  <1>1. rows' = rows /\ task' = task /\ moves' = moves /\ faults' = faults
    BY DEF vars
  <1>2. TypeOK' /\ ToolsMatchHeaders'
    BY <1>1 DEF IInv, TypeOK, ToolsMatchHeaders
  <1>3. ASSUME NEW w \in Worker
        PROVE  Serving(w)' /\ Faithful(task'[w], rows'[task'[w].req.rec].cfg)
    <2>1. Serving(w) /\ Faithful(task[w], rows[task[w].req.rec].cfg)
      BY DEF IInv
    <2> QED  BY <1>1, <2>1 DEF Serving, At
  <1> QED  BY <1>2, <1>3 DEF IInv

LEMMA NextKeeps == IInv /\ [Next]_vars => IInv'
  <1> SUFFICES ASSUME IInv, [Next]_vars
               PROVE  IInv'
    OBVIOUS
  <1>1. ASSUME NEW w \in Worker, NEW r \in Requests, Start(w, r)
        PROVE  IInv'
    BY <1>1, StartKeeps
  <1>2. ASSUME NEW w \in Worker, Step(w)
        PROVE  IInv'
    BY <1>2, ViewKeeps, MergeKeeps, CheckKeeps, DiscoverKeeps, InsertKeeps, WriteKeeps,
       DeleteKeeps DEF Step
  <1>3. ASSUME NEW w \in Worker, Fail(w)
        PROVE  IInv'
    BY <1>3, FailKeeps
  <1>4. ASSUME NEW r \in Integration, NEW n \in Secret, NEW v \in Value, Refresh(r, n, v)
        PROVE  IInv'
    BY <1>4, RefreshKeeps
  <1>5. CASE UNCHANGED vars
    BY <1>5, StutterKeeps
  <1> QED  BY <1>1, <1>2, <1>3, <1>4, <1>5 DEF Next

\* The inductive invariant holds of every behaviour.
THEOREM SecretInvariant == Spec => []IInv
  BY InitHolds, NextKeeps, PTL DEF Spec

\* An MCP server always holds the tools that were discovered with the headers stored
\* beside them, hidden ones included, however updates interleave and fail.
THEOREM ToolsDiscovered == Spec => []ToolsMatchHeaders
  <1>1. IInv => ToolsMatchHeaders
    BY DEF IInv
  <1> QED  BY <1>1, SecretInvariant, PTL

------------------------------------------------------------------------------
\* A step that ends a save: the only one is its Write.
LEMMA SaveIsWrite ==
    ASSUME IInv, [Next]_vars, NEW w \in Worker, Saves(w)
    PROVE  Write(w)
  <1>1. /\ task \in [Worker -> Task] /\ task[w].pc = "write" /\ task'[w].pc = "idle"
        /\ faults' = faults /\ faults \in Nat
    BY DEF IInv, TypeOK, Saves, At
  <1>2. ASSUME NEW v \in Worker, NEW t, Become(v, t), v # w
        PROVE  FALSE
    BY <1>1, <1>2 DEF Become
  <1>3. ASSUME NEW v \in Worker, NEW r \in Record, NEW c, Replaced(v, r, c), v # w
        PROVE  FALSE
    BY <1>1, <1>3 DEF Replaced, Task
  <1>4. ASSUME NEW v \in Worker, NEW r \in Requests, Start(v, r)
        PROVE  FALSE
    BY <1>1, <1>2, <1>4 DEF Start, At
  <1>5. ASSUME NEW v \in Worker, Fail(v)
        PROVE  FALSE
    BY <1>1, <1>5 DEF Fail
  <1>6. ASSUME NEW r \in Integration, NEW n \in Secret, NEW x \in Value, Refresh(r, n, x)
        PROVE  FALSE
    BY <1>1, <1>6 DEF Refresh, Task
  <1>7. ~ UNCHANGED vars
    BY <1>1 DEF vars
  <1>8. ASSUME NEW v \in Worker, Step(v), v # w
        PROVE  FALSE
    <2>1. ~ At(v, "idle")
      BY <1>8 DEF Step, View, Merge, Check, Discover, Insert, Write, Delete, At
    <2>2. task[v].req.rec \in Record
      BY <2>1, BusyTask
    <2>3. CASE View(v)
      BY <1>2, <1>8, <2>3 DEF View, Respond
    <2>4. CASE Merge(v)
      BY <1>2, <1>8, <2>4 DEF Merge
    <2>5. CASE Check(v)
      BY <1>2, <1>8, <2>5 DEF Check, Respond, Goto
    <2>6. CASE Discover(v)
      BY <1>2, <1>8, <2>6 DEF Discover, Respond
    <2>7. CASE Insert(v)
      BY <1>2, <1>8, <2>7 DEF Insert, Respond
    <2>8. CASE Write(v)
      BY <1>2, <1>3, <1>8, <2>2, <2>8 DEF Write, Respond
    <2>9. CASE Delete(v)
      BY <1>3, <1>8, <2>2, <2>9 DEF Delete
    <2> QED  BY <1>8, <2>3, <2>4, <2>5, <2>6, <2>7, <2>8, <2>9 DEF Step
  <1>9. Step(w)
    BY <1>4, <1>5, <1>6, <1>7, <1>8 DEF Next
  <1> QED  BY <1>1, <1>9 DEF Step, View, Merge, Check, Discover, Insert, Delete, At

LEMMA WriteIsEdit ==
    ASSUME IInv, [Next]_vars, NEW w \in Worker, Saves(w), NEW n \in Name
    PROVE  LET q == task[w].req
               c == rows[q.rec].cfg
           IN  Excepted(task[w], c, n) \/ rows'[q.rec].cfg[n] = Asked(q.rec, c, q.edit, n)
  <1> DEFINE q == task[w].req
             c == rows[q.rec].cfg
             x == Holding(q.rec, task[w].cfg, task[w].tools)
  <1>1. Write(w) /\ task[w].pc = "write"
    BY SaveIsWrite DEF Write, At
  <1>2. /\ q.rec \in Record /\ InOrder(task[w]) /\ Faithful(task[w], c)
        /\ task[w].cfg \in Config /\ task[w].tools \in Config
    BY <1>1, BusyTask DEF At
  <1>3. q.op = "save"
    BY <1>1, <1>2 DEF InOrder
  <1>4. rows' = [rows EXCEPT ![q.rec] = x]
    BY <1>1 DEF Write, Saves
  <1>5. rows \in [Record -> Row]
    BY DEF IInv, TypeOK
  <1>6. x.cfg = task[w].cfg
    BY <1>2, RowTypes
  <1> HIDE DEF x
  <1>7. rows'[q.rec].cfg = task[w].cfg
    BY <1>2, <1>4, <1>5, <1>6
  <1>8. Excepted(task[w], c, n) \/ task[w].cfg[n] = Asked(q.rec, c, q.edit, n)
    BY <1>1, <1>2, <1>3 DEF Faithful, WriteFaithful
  <1> QED  BY <1>7, <1>8

\* Whatever requests do to a row between the read and the write of a save, what the
\* save stores is its user's edit applied to the row as it is when it writes, but for
\* names changed behind it, or hidden for their value alone, that the edit relied on.
THEOREM SavesDoAsAsked == Spec => SavesAreEdits
  <1>1. IInv /\ [Next]_vars =>
          [\A w \in Worker : Saves(w) =>
              LET q == task[w].req
                  c == rows[q.rec].cfg
              IN  \A n \in Name :
                    Excepted(task[w], c, n)
                    \/ rows'[q.rec].cfg[n] = Asked(q.rec, c, q.edit, n)]_vars
    BY WriteIsEdit
  <1> QED  BY <1>1, SecretInvariant, PTL DEF Spec, SavesAreEdits

-------------------------------------------------------------------------------
\* The config of an agent.


\* A key of two configs joined, and of one restricted.
LEMMA JoinedKeys ==
    ASSUME NEW f, NEW g
    PROVE  /\ DOMAIN Joined(f, g) = DOMAIN f \cup DOMAIN g
           /\ \A k \in DOMAIN f : Joined(f, g)[k] = f[k]
           /\ \A k \in DOMAIN g \ DOMAIN f : Joined(f, g)[k] = g[k]
  BY DEF Joined

LEMMA RestrictedKeys ==
    ASSUME NEW f, NEW keys
    PROVE  DOMAIN Restrict(f, keys) = keys /\ \A k \in keys : Restrict(f, keys)[k] = f[k]
  BY DEF Restrict

\* What MergedConfig answers, key by key.
LEMMA MergedKey ==
    ASSUME NEW type, NEW sent, NEW stored, NEW new, NEW k
    PROVE  LET merged == MergedConfig(type, sent, stored, new)
           IN  /\ k \in DOMAIN merged <=>
                     k = "api_key" \/ k \in DOMAIN sent \/ k \in Kept(type, sent, stored)
               /\ k = "api_key" => merged[k] = KeyOf(sent, stored, new)
               /\ k # "api_key" /\ k \in DOMAIN sent => merged[k] = sent[k]
               /\ k # "api_key" /\ k \in Kept(type, sent, stored) => merged[k] = stored[k]
<1> DEFINE key == [api_key |-> KeyOf(sent, stored, new)]
           kept == Restrict(stored, Kept(type, sent, stored))
           rest == Joined(sent, kept)
<1>1. DOMAIN key = {"api_key"} /\ key.api_key = KeyOf(sent, stored, new)
  OBVIOUS
<1>2. /\ DOMAIN kept = Kept(type, sent, stored)
      /\ \A x \in Kept(type, sent, stored) : kept[x] = stored[x]
  BY RestrictedKeys
<1>3. Kept(type, sent, stored) \cap DOMAIN sent = {}
  BY DEF Kept
<1>4. MergedConfig(type, sent, stored, new) = Joined(key, rest)
  BY DEF MergedConfig
<1> HIDE DEF key, kept
<1>5. /\ DOMAIN rest = DOMAIN sent \cup DOMAIN kept
      /\ \A x \in DOMAIN sent : rest[x] = sent[x]
      /\ \A x \in DOMAIN kept \ DOMAIN sent : rest[x] = kept[x]
  BY JoinedKeys
<1> HIDE DEF rest
<1>6. /\ DOMAIN Joined(key, rest) = DOMAIN key \cup DOMAIN rest
      /\ \A x \in DOMAIN key : Joined(key, rest)[x] = key[x]
      /\ \A x \in DOMAIN rest \ DOMAIN key : Joined(key, rest)[x] = rest[x]
  BY JoinedKeys
<1> QED
  BY <1>1, <1>2, <1>3, <1>4, <1>5, <1>6

LEMMA StoredKeys ==
    ASSUME NEW c
    PROVE  /\ DOMAIN WithoutCopies(c) \subseteq DOMAIN c
           /\ DOMAIN c \ DOMAIN WithoutCopies(c) \subseteq {"custom_tools"}
           /\ \A k \in DOMAIN WithoutCopies(c) : WithoutCopies(c)[k] = c[k]
           /\ "custom_tools" \in DOMAIN WithoutCopies(c) => ValueOf(c, "custom_tool_ids") = {}
           /\ ValueOf(c, "custom_tool_ids") = {} => WithoutCopies(c) = c
<1> DEFINE less == DOMAIN c \ {"custom_tools"}
<1>1. /\ DOMAIN Restrict(c, less) = less
      /\ \A k \in less : Restrict(c, less)[k] = c[k]
  BY RestrictedKeys
<1>2. CASE ValueOf(c, "custom_tool_ids") # {}
  <2>1. WithoutCopies(c) = Restrict(c, less)
    BY <1>2 DEF WithoutCopies
  <2> QED
    BY <1>1, <1>2, <2>1
<1>3. CASE ValueOf(c, "custom_tool_ids") = {}
  <2>1. WithoutCopies(c) = c
    BY <1>3 DEF WithoutCopies
  <2> QED
    BY <1>3, <2>1
<1> QED
  BY <1>2, <1>3

\* What Update answers, key by key.
LEMMA UpdatedKey ==
    ASSUME NEW type, NEW sent, NEW a, NEW stored, stored = WithoutCopies(a.config), NEW k
    PROVE  LET merged == Update(type, sent, a)
           IN  /\ k \in DOMAIN merged <=>
                     k = "api_key" \/ k \in DOMAIN sent \/ k \in Kept(type, sent, stored)
               /\ k = "api_key" /\ Checked(type, a.type) =>
                     merged[k] = KeyOf(NoConfig, a.config, "again")
               /\ k = "api_key" /\ ~Checked(type, a.type) =>
                     merged[k] = KeyOf(sent, stored, "again")
               /\ k # "api_key" /\ k \in DOMAIN sent => merged[k] = sent[k]
               /\ k # "api_key" /\ k \in Kept(type, sent, stored) => merged[k] = stored[k]
<1> DEFINE plain == MergedConfig(type, sent, stored, "again")
           key == [api_key |-> KeyOf(NoConfig, a.config, "again")]
<1>1. /\ k \in DOMAIN plain <=>
             k = "api_key" \/ k \in DOMAIN sent \/ k \in Kept(type, sent, stored)
      /\ k = "api_key" => plain[k] = KeyOf(sent, stored, "again")
      /\ k # "api_key" /\ k \in DOMAIN sent => plain[k] = sent[k]
      /\ k # "api_key" /\ k \in Kept(type, sent, stored) => plain[k] = stored[k]
  BY MergedKey
<1>2. Update(type, sent, a) = IF Checked(type, a.type) THEN Joined(key, plain) ELSE plain
  BY DEF Update
<1>3. DOMAIN key = {"api_key"} /\ key.api_key = KeyOf(NoConfig, a.config, "again")
  OBVIOUS
<1> HIDE DEF plain, key
<1>4. /\ DOMAIN Joined(key, plain) = DOMAIN key \cup DOMAIN plain
      /\ \A x \in DOMAIN key : Joined(key, plain)[x] = key[x]
      /\ \A x \in DOMAIN plain \ DOMAIN key : Joined(key, plain)[x] = plain[x]
  BY JoinedKeys
<1>5. CASE Checked(type, a.type)
  BY <1>1, <1>2, <1>3, <1>4, <1>5
<1>6. CASE ~Checked(type, a.type)
  BY <1>1, <1>2, <1>6
<1> QED
  BY <1>5, <1>6

\* A save checks the values that it writes.
LEMMA UpdatedValues ==
    ASSUME NEW type, NEW sent, NEW a, NEW k, k # "api_key", k = "provider" => type = "external"
    PROVE  ValueOf(Update(type, sent, a), k) = Effective(sent, WithoutCopies(a.config), k)
<1> PICK stored : stored = WithoutCopies(a.config)
  OBVIOUS
<1>1. /\ k \in DOMAIN Update(type, sent, a) <=> k \in DOMAIN sent \/ k \in Kept(type, sent, stored)
      /\ k \in DOMAIN sent => Update(type, sent, a)[k] = sent[k]
      /\ k \in Kept(type, sent, stored) => Update(type, sent, a)[k] = stored[k]
  BY UpdatedKey
<1>2. k \in Kept(type, sent, stored) <=> k \in DOMAIN stored /\ k \notin DOMAIN sent
  BY DEF Kept
<1>3. ValueOf(Update(type, sent, a), k) = Effective(sent, stored, k)
  BY <1>1, <1>2 DEF ValueOf, Effective
<1> QED
  BY <1>3

-------------------------------------------------------------------------------
\* p lies before q.
Before(p, q) ==
    /\ p.rekeyed => q.rekeyed
    /\ p.crossed => q.crossed
    /\ p.repaired => q.repaired
    /\ p.emptied => q.emptied

LEMMA UpdatedApiKey ==
    ASSUME NEW type, NEW sent, NEW a, NEW stored, stored = WithoutCopies(a.config)
    PROVE  Update(type, sent, a).api_key =
               IF Checked(type, a.type) THEN KeyOf(NoConfig, a.config, "again")
               ELSE KeyOf(sent, stored, "again")
<1>1. PICK k : k = "api_key"
  OBVIOUS
<1>2. /\ Checked(type, a.type) =>
            Update(type, sent, a)[k] = KeyOf(NoConfig, a.config, "again")
      /\ ~Checked(type, a.type) =>
            Update(type, sent, a)[k] = KeyOf(sent, stored, "again")
  BY <1>1, UpdatedKey
<1> QED
  BY <1>1, <1>2

\* The key of an agent that is saved.
LEMMA KeptKey ==
    ASSUME NEW c, HasKey(c), NEW stored, stored = WithoutCopies(c)
    PROVE  /\ HasKey(stored) /\ stored.api_key = c.api_key
           /\ KeyOf(NoConfig, c, "again") = c.api_key
<1>1. /\ "api_key" \in DOMAIN c /\ c["api_key"] # ""
      /\ "api_key" \in DOMAIN stored /\ stored["api_key"] = c["api_key"]
  BY StoredKeys DEF HasKey
<1>2. ~HasKey(NoConfig)
  BY DEF HasKey, NoConfig
<1> QED
  BY <1>1, <1>2 DEF HasKey, KeyOf

LEMMA UpdateHasKey ==
    ASSUME NEW type, NEW sent, NEW a, HasKey(a.config)
    PROVE  HasKey(Update(type, sent, a))
<1> PICK stored, merged : stored = WithoutCopies(a.config) /\ merged = Update(type, sent, a)
  OBVIOUS
<1>1. HasKey(stored) /\ KeyOf(NoConfig, a.config, "again") = a.config.api_key
  BY KeptKey
<1>2. KeyOf(sent, stored, "again") # "" /\ KeyOf(NoConfig, a.config, "again") # ""
  BY <1>1 DEF HasKey, KeyOf
<1>3. "api_key" \in DOMAIN merged
  BY UpdatedKey
<1>4. merged.api_key = KeyOf(sent, stored, "again")
      \/ merged.api_key = KeyOf(NoConfig, a.config, "again")
  BY UpdatedApiKey
<1> QED
  BY <1>2, <1>3, <1>4 DEF HasKey

LEMMA UpdateKeepsKey ==
    ASSUME NEW type, NEW sent, NEW a, HasKey(a.config), Checked(type, a.type) \/ ~HasKey(sent)
    PROVE  Update(type, sent, a).api_key = a.config.api_key
<1> PICK stored : stored = WithoutCopies(a.config)
  OBVIOUS
<1>1. /\ HasKey(stored) /\ stored.api_key = a.config.api_key
      /\ KeyOf(NoConfig, a.config, "again") = a.config.api_key
  BY KeptKey
<1>2. Update(type, sent, a).api_key =
          IF Checked(type, a.type) THEN KeyOf(NoConfig, a.config, "again")
          ELSE KeyOf(sent, stored, "again")
  BY UpdatedApiKey
<1>3. ~HasKey(sent) => KeyOf(sent, stored, "again") = stored.api_key
  BY <1>1 DEF KeyOf
<1> QED
  BY <1>1, <1>2, <1>3

LEMMA EditTyped ==
    ASSUME NEW e \in Edits
    PROVE  /\ IsAgent(e) /\ IsConfig(e.config) /\ e.type \in Type /\ e.raw \in BOOLEAN
           /\ "api_key" \in DOMAIN e.config => e.config.api_key \in {"", "sent"}
           /\ "custom_tools" \in DOMAIN e.config =>
                 e.config.custom_tools = "sent" \/ (e.config.custom_tools = "blank" /\ Empties(e))
           /\ \A c : /\ WithConfig(e, c).type = e.type
                     /\ WithConfig(e, c).config = c
                     /\ WithConfig(e, c).raw = e.raw
                     /\ IsConfig(c) => IsAgent(WithConfig(e, c))
<1>1. IsAgent(e) /\ IsConfig(e.config) /\ e.type \in Type /\ e.raw \in BOOLEAN
  BY ConfigAssumption DEF IsAgent
<1>2. "api_key" \in DOMAIN e.config => e.config.api_key \in {"", "sent"}
  BY ConfigAssumption
<1>3. "custom_tools" \in DOMAIN e.config =>
          e.config.custom_tools = "sent" \/ (e.config.custom_tools = "blank" /\ Empties(e))
  <2> SUFFICES ASSUME "custom_tools" \in DOMAIN e.config
               PROVE  e.config.custom_tools = "sent" \/ (e.config.custom_tools = "blank" /\ Empties(e))
    OBVIOUS
  <2>1. e.config.custom_tools # "live"
    BY ConfigAssumption
  <2>2. e.config.custom_tools \in Values["custom_tools"]
    BY <1>1 DEF IsConfig
  <2>3. Values["custom_tools"] = {"sent", "live", "blank"}
    BY DEF Values
  <2> QED
    BY <2>1, <2>2, <2>3 DEF Empties
<1>4. ASSUME NEW c
      PROVE  /\ WithConfig(e, c).type = e.type
             /\ WithConfig(e, c).config = c
             /\ WithConfig(e, c).raw = e.raw
             /\ IsConfig(c) => IsAgent(WithConfig(e, c))
  BY <1>1 DEF IsAgent, WithConfig
<1> QED
  BY <1>1, <1>2, <1>3, <1>4

LEMMA SavedIs ==
    ASSUME NEW e \in Edits, NEW a, NEW b, b = Saved(e, a)
    PROVE  b.type = e.type /\ b.config = Update(e.type, e.config, a)
  BY EditTyped DEF Saved

LEMMA SavedKey ==
    ASSUME NEW e \in Edits, NEW a, HasKey(a.config), NEW b, b = Saved(e, a),
           Checked(e.type, a.type) \/ ~HasKey(e.config)
    PROVE  b.config.api_key = a.config.api_key
<1> PICK type, sent : type = e.type /\ sent = e.config
  OBVIOUS
<1>1. Update(type, sent, a).api_key = a.config.api_key
  BY UpdateKeepsKey
<1>2. b.config = Update(type, sent, a)
  BY SavedIs
<1> QED
  BY <1>1, <1>2

LEMMA SentKey ==
    ASSUME NEW type, NEW sent, NEW a, ~Checked(type, a.type), NEW k, k = "api_key",
           HasKey(sent)
    PROVE  k \in DOMAIN Update(type, sent, a) /\ Update(type, sent, a)[k] = sent[k]
<1> PICK stored : stored = WithoutCopies(a.config)
  OBVIOUS
<1>1. k \in DOMAIN Update(type, sent, a)
  BY UpdatedKey
<1>2. Update(type, sent, a)[k] = KeyOf(sent, stored, "again")
  BY UpdatedKey
<1>3. KeyOf(sent, stored, "again") = sent[k]
  BY DEF KeyOf
<1> QED
  BY <1>1, <1>2, <1>3

LEMMA KeyTyped ==
    ASSUME NEW sent, NEW stored, NEW new \in {"first", "again"}, IsConfig(sent), IsConfig(stored)
    PROVE  KeyOf(sent, stored, new) \in Values["api_key"]
<1>1. /\ "api_key" \in DOMAIN sent => sent["api_key"] \in Values["api_key"]
      /\ "api_key" \in DOMAIN stored => stored["api_key"] \in Values["api_key"]
  BY DEF IsConfig
<1>2. Values["api_key"] = {"", "first", "again", "sent"} /\ NoKeys.api_key = ""
  BY DEF Values, NoKeys
<1> QED
  BY <1>1, <1>2 DEF KeyOf, HasKey

LEMMA LessTyped ==
    ASSUME NEW c, IsConfig(c)
    PROVE  IsConfig(WithoutCopies(c))
  BY StoredKeys DEF IsConfig

LEMMA NoConfigTyped == IsConfig(NoConfig)
<1>1. DOMAIN NoConfig = {}
  BY DEF NoConfig
<1> QED
  BY <1>1 DEF IsConfig

LEMMA UpdatedTyped ==
    ASSUME NEW type, NEW sent, NEW a, IsConfig(sent), IsConfig(a.config)
    PROVE  IsConfig(Update(type, sent, a))
<1> PICK stored : stored = WithoutCopies(a.config)
  OBVIOUS
<1> PICK merged : merged = Update(type, sent, a)
  OBVIOUS
<1>1. IsConfig(stored)
  BY LessTyped
<1>2. /\ KeyOf(sent, stored, "again") \in Values["api_key"]
      /\ KeyOf(NoConfig, a.config, "again") \in Values["api_key"]
  BY <1>1, KeyTyped, NoConfigTyped
<1>3. "api_key" \in DOMAIN NoKeys
  BY DEF NoKeys
<1>4. ASSUME NEW k \in DOMAIN merged
      PROVE  k \in DOMAIN NoKeys /\ merged[k] \in Values[k]
  <2>1. CASE k = "api_key"
    <3>1. merged[k] \in {KeyOf(sent, stored, "again"), KeyOf(NoConfig, a.config, "again")}
      BY <2>1, UpdatedKey
    <3> QED
      BY <1>2, <1>3, <2>1, <3>1
  <2>2. CASE k # "api_key" /\ k \in DOMAIN sent
    <3>1. merged[k] = sent[k]
      BY <2>2, UpdatedKey
    <3> QED
      BY <2>2, <3>1 DEF IsConfig
  <2>3. CASE k # "api_key" /\ k \in Kept(type, sent, stored)
    <3>1. merged[k] = stored[k]
      BY <2>3, UpdatedKey
    <3>2. k \in DOMAIN stored
      BY <2>3 DEF Kept
    <3> QED
      BY <1>1, <3>1, <3>2 DEF IsConfig
  <2>4. k = "api_key" \/ k \in DOMAIN sent \/ k \in Kept(type, sent, stored)
    BY UpdatedKey
  <2> QED
    BY <2>1, <2>2, <2>3, <2>4
<1>5. IsConfig(merged)
  BY <1>4 DEF IsConfig
<1> QED
  BY <1>5

\* The tools of an agent that is saved.
LEMMA UpdatedTools ==
    ASSUME NEW e \in Edits, NEW a, NEW p, NEW q, Before(p, q), ToolsRead(a.config, p),
           Empties(e) => q.emptied
    PROVE  ToolsStored(Update(e.type, e.config, a), q)
<1> PICK stored : stored = WithoutCopies(a.config)
  OBVIOUS
<1> PICK k : k = "custom_tools"
  OBVIOUS
<1> PICK merged : merged = Update(e.type, e.config, a)
  OBVIOUS
<1>1. k # "api_key"
  OBVIOUS
<1>2. CASE k \in DOMAIN e.config
  <2>1. merged[k] = e.config[k]
    BY <1>1, <1>2, UpdatedKey
  <2>2. merged[k] = "sent" \/ (merged[k] = "blank" /\ Empties(e))
    BY <1>2, <2>1, EditTyped
  <2> QED
    BY <2>2 DEF ToolsStored
<1>3. CASE k \in Kept(e.type, e.config, stored)
  <2>1. merged[k] = stored[k]
    BY <1>1, <1>3, UpdatedKey
  <2>2. k \in DOMAIN stored
    BY <1>3 DEF Kept
  <2>3. k \in DOMAIN a.config /\ stored[k] = a.config[k] /\ ValueOf(a.config, "custom_tool_ids") = {}
    BY <2>2, StoredKeys
  <2>4. ToolsStored(a.config, p)
    BY <2>3 DEF ToolsRead
  <2>5. merged[k] = "sent" \/ (merged[k] = "blank" /\ (p.repaired \/ p.emptied))
    BY <2>1, <2>3, <2>4 DEF ToolsStored
  <2> QED
    BY <2>5 DEF ToolsStored, Before
<1>4. k \in DOMAIN merged => k \in DOMAIN e.config \/ k \in Kept(e.type, e.config, stored)
  BY <1>1, UpdatedKey
<1> QED
  BY <1>2, <1>3, <1>4 DEF ToolsStored

\* What a save writes is an agent that its checks let through.
LEMMA UpdateSound ==
    ASSUME NEW e \in Edits, NEW a, NEW p, NEW q, Sound(a, p), Before(p, q),
           IsConfig(a.config),
           MayUpdate(e.type, e.config, a),
           Empties(e) => q.emptied,
           e.type = "flow" /\ ~Checked(e.type, a.type) => q.crossed,
           NEW b, b = Saved(e, a)
    PROVE  IsAgent(b) /\ Sound(b, q) /\ ToolsStored(b.config, q)
<1> PICK merged : merged = Update(e.type, e.config, a)
  OBVIOUS
<1>1. b.type = e.type /\ b.config = merged /\ e.type \in Type /\ IsConfig(e.config)
  BY EditTyped DEF Saved
<1>2. IsAgent(b)
  BY <1>1, UpdatedTyped, EditTyped DEF Saved
<1>3. ToolsStored(merged, q)
  BY UpdatedTools DEF Sound
<1>4. HasKey(merged)
  BY UpdateHasKey DEF Sound
<1>5. ValueOf(merged, "preload_memory") => ValueOf(merged, "load_memory")
  <2>1. /\ ValueOf(merged, "preload_memory") =
              Effective(e.config, WithoutCopies(a.config), "preload_memory")
        /\ ValueOf(merged, "load_memory") =
              Effective(e.config, WithoutCopies(a.config), "load_memory")
    BY UpdatedValues
  <2> QED
    BY <2>1 DEF MayUpdate, Accepted
<1>6. e.type = "external" => ValueOf(merged, "provider") \in Provider
  <2>1. e.type = "external" => ValueOf(merged, "provider") =
            Effective(e.config, WithoutCopies(a.config), "provider")
    BY UpdatedValues
  <2> QED
    BY <2>1 DEF MayUpdate, Accepted
<1>7. Broken(b) => q.crossed
  <2>1. Broken(b) => e.type = "flow" /\ ValueOf(merged, "sub_agents") = {}
    BY <1>1 DEF Broken
  <2>2. Checked(e.type, a.type) /\ e.type = "flow" => ValueOf(merged, "sub_agents") # {}
    BY DEF MayUpdate, Whole
  <2> QED
    BY <2>1, <2>2
<1>8. Sound(b, q)
  BY <1>1, <1>3, <1>4, <1>5, <1>6, <1>7 DEF Sound, ToolsRead
<1> QED
  BY <1>1, <1>2, <1>3, <1>8

\* What Created answers, key by key.
LEMMA CreatedKey ==
    ASSUME NEW type, NEW sent, NEW k
    PROVE  LET made == Created(type, sent)
           IN  /\ k \in DOMAIN made <=> k = "api_key" \/ k \in DOMAIN sent
               /\ k = "api_key" => made[k] \in {"first", KeyOf(sent, NoConfig, "first")}
               /\ k # "api_key" /\ k \in DOMAIN sent => made[k] = sent[k]
<1> DEFINE plain == MergedConfig(type, sent, NoConfig, "first")
           key == [api_key |-> "first"]
<1>1. k \notin Kept(type, sent, NoConfig)
  BY DEF Kept, NoConfig
<1>2. /\ k \in DOMAIN plain <=> k = "api_key" \/ k \in DOMAIN sent
      /\ k = "api_key" => plain[k] = KeyOf(sent, NoConfig, "first")
      /\ k # "api_key" /\ k \in DOMAIN sent => plain[k] = sent[k]
  BY <1>1, MergedKey
<1>3. Created(type, sent) = IF type \in KeepsKey THEN Joined(key, plain) ELSE plain
  BY DEF Created
<1>4. DOMAIN key = {"api_key"} /\ key.api_key = "first"
  OBVIOUS
<1> HIDE DEF plain, key
<1>5. /\ DOMAIN Joined(key, plain) = DOMAIN key \cup DOMAIN plain
      /\ \A x \in DOMAIN key : Joined(key, plain)[x] = key[x]
      /\ \A x \in DOMAIN plain \ DOMAIN key : Joined(key, plain)[x] = plain[x]
  BY JoinedKeys
<1>6. CASE type \in KeepsKey
  BY <1>2, <1>3, <1>4, <1>5, <1>6
<1>7. CASE type \notin KeepsKey
  BY <1>2, <1>3, <1>7
<1> QED
  BY <1>6, <1>7

LEMMA CreatedApiKey ==
    ASSUME NEW type, NEW sent, IsConfig(sent)
    PROVE  /\ Created(type, sent).api_key # ""
           /\ Created(type, sent).api_key \in Values["api_key"]
<1> PICK k : k = "api_key"
  OBVIOUS
<1>1. Created(type, sent)[k] \in {"first", KeyOf(sent, NoConfig, "first")}
  BY CreatedKey
<1>2. KeyOf(sent, NoConfig, "first") \in Values["api_key"]
  BY KeyTyped, NoConfigTyped
<1>3. KeyOf(sent, NoConfig, "first") # ""
  BY DEF KeyOf, HasKey
<1>4. "first" \in Values["api_key"]
  BY DEF Values
<1> QED
  BY <1>1, <1>2, <1>3, <1>4

\* What a create writes is an agent that its checks let through.
LEMMA CreateSound ==
    ASSUME NEW e \in Edits, MayCreate(e.type, e.config), NEW q, Empties(e) => q.emptied,
           NEW b, b = WithConfig(e, Created(e.type, e.config))
    PROVE  IsAgent(b) /\ Sound(b, q) /\ ToolsStored(b.config, q)
<1> PICK made : made = Created(e.type, e.config)
  OBVIOUS
<1>1. b.type = e.type /\ b.config = made /\ e.type \in Type /\ IsConfig(e.config)
  BY EditTyped
<1>2. "api_key" \in DOMAIN made
  BY CreatedKey
<1>3. made["api_key"] \in Values["api_key"] /\ HasKey(made)
  BY <1>1, <1>2, CreatedApiKey DEF HasKey
<1>4. IsAgent(b)
  <2>1. ASSUME NEW k \in DOMAIN made
        PROVE  k \in DOMAIN NoKeys /\ made[k] \in Values[k]
    <3>1. CASE k = "api_key"
      BY <1>3, <3>1 DEF NoKeys
    <3>2. CASE k # "api_key"
      <4>1. k \in DOMAIN e.config /\ made[k] = e.config[k]
        BY <3>2, CreatedKey
      <4> QED
        BY <1>1, <4>1 DEF IsConfig
    <3> QED
      BY <3>1, <3>2
  <2>2. IsConfig(made)
    BY <2>1 DEF IsConfig
  <2> QED
    BY <2>2, EditTyped
<1>5. ASSUME NEW k, k # "api_key"
      PROVE  ValueOf(made, k) = Effective(e.config, NoConfig, k)
  <2>1. /\ k \in DOMAIN made <=> k \in DOMAIN e.config
        /\ k \in DOMAIN e.config => made[k] = e.config[k]
    BY <1>5, CreatedKey
  <2>2. k \notin DOMAIN NoConfig
    BY DEF NoConfig
  <2> QED
    BY <2>1, <2>2 DEF ValueOf, Effective
<1>6. ToolsStored(made, q)
  <2> PICK k : k = "custom_tools"
    OBVIOUS
  <2>1. k # "api_key"
    OBVIOUS
  <2>2. k \in DOMAIN made => k \in DOMAIN e.config /\ made[k] = e.config[k]
    BY <2>1, CreatedKey
  <2>3. k \in DOMAIN made => made[k] = "sent" \/ (made[k] = "blank" /\ Empties(e))
    BY <2>2, EditTyped
  <2> QED
    BY <2>3 DEF ToolsStored
<1>7. ValueOf(made, "preload_memory") => ValueOf(made, "load_memory")
  BY <1>5 DEF MayCreate, Accepted
<1>8. e.type = "external" => ValueOf(made, "provider") \in Provider
  BY <1>5 DEF MayCreate, Accepted
<1>9. ~Broken(b)
  BY <1>1 DEF Broken, MayCreate, Whole
<1>10. Sound(b, q)
  BY <1>1, <1>3, <1>6, <1>7, <1>8, <1>9 DEF Sound, ToolsRead
<1> QED
  BY <1>1, <1>4, <1>6, <1>10

\* What Repaired answers, key by key.
LEMMA RepairedKey ==
    ASSUME NEW c, NEW k
    PROVE  /\ k \in DOMAIN Repaired(c) =>
                 \/ k \in DOMAIN c /\ Repaired(c)[k] = c[k]
                 \/ k \in {"mcp_servers", "custom_tools"} /\ Repaired(c)[k] = NoKeys[k]
           /\ k \in DOMAIN c /\ k \notin {"sub_agents", "custom_tools"} =>
                 k \in DOMAIN Repaired(c) /\ Repaired(c)[k] = c[k]
<1> DEFINE most == Restrict(c, DOMAIN c \ {"sub_agents"})
<1>1. PICK added : /\ added \subseteq {"mcp_servers", "custom_tools"}
                   /\ Repaired(c) = Joined(most, Restrict(NoKeys, added))
  BY DEF Repaired
<1> DEFINE empty == Restrict(NoKeys, added)
<1>2. /\ DOMAIN most = DOMAIN c \ {"sub_agents"}
      /\ \A x \in DOMAIN c \ {"sub_agents"} : most[x] = c[x]
  BY RestrictedKeys
<1>3. DOMAIN empty = added /\ \A x \in added : empty[x] = NoKeys[x]
  BY RestrictedKeys
<1>4. Repaired(c) = Joined(most, empty)
  BY <1>1
<1> HIDE DEF most, empty
<1>5. /\ DOMAIN Joined(most, empty) = DOMAIN most \cup DOMAIN empty
      /\ \A x \in DOMAIN most : Joined(most, empty)[x] = most[x]
      /\ \A x \in DOMAIN empty \ DOMAIN most : Joined(most, empty)[x] = empty[x]
  BY JoinedKeys
<1> QED
  BY <1>1, <1>2, <1>3, <1>4, <1>5

LEMMA RepairedTyped ==
    ASSUME NEW c, IsConfig(c)
    PROVE  IsConfig(Repaired(c))
<1>1. ASSUME NEW k \in DOMAIN Repaired(c)
      PROVE  k \in DOMAIN NoKeys /\ Repaired(c)[k] \in Values[k]
  <2>1. CASE k \in DOMAIN c /\ Repaired(c)[k] = c[k]
    BY <2>1 DEF IsConfig
  <2>2. CASE k = "mcp_servers" /\ Repaired(c)[k] = NoKeys[k]
    BY <2>2 DEF NoKeys, Values
  <2>3. CASE k = "custom_tools" /\ Repaired(c)[k] = NoKeys[k]
    BY <2>3 DEF NoKeys, Values
  <2> QED
    BY <2>1, <2>2, <2>3, RepairedKey
<1> QED
  BY <1>1 DEF IsConfig

\* A repair leaves an agent that the checks let through, and its key.
LEMMA RepairSound ==
    ASSUME NEW a, IsAgent(a), NEW p, NEW q, Sound(a, p), ToolsStored(a.config, p), Before(p, q),
           Broken(a) => q.repaired,
           NEW b, b = Mended(a)
    PROVE  /\ IsAgent(b) /\ Sound(b, q) /\ ToolsStored(b.config, q)
           /\ b.config.api_key = a.config.api_key
<1>1. CASE Broken(a)
  <2> PICK c, d : c = a.config /\ d = Repaired(c)
    OBVIOUS
  <2>1. b.type = "llm" /\ b.config = d /\ b.raw = FALSE /\ IsConfig(d)
        /\ b \in [type : Type \cup {"none"}, config : {b.config}, raw : BOOLEAN]
    <3>1. IsConfig(d)
      BY RepairedTyped DEF IsAgent
    <3>2. b = [type |-> "llm", config |-> d, raw |-> FALSE]
      BY <1>1 DEF Mended
    <3> QED
      BY <3>1, <3>2 DEF Type
  <2>2. ASSUME NEW k \in {"api_key", "load_memory", "preload_memory"}
        PROVE  /\ k \in DOMAIN c => k \in DOMAIN d /\ d[k] = c[k]
               /\ k \in DOMAIN d => k \in DOMAIN c
    BY RepairedKey
  <2>3. /\ ValueOf(d, "load_memory") = ValueOf(c, "load_memory")
        /\ ValueOf(d, "preload_memory") = ValueOf(c, "preload_memory")
    BY <2>2 DEF ValueOf
  <2>4. HasKey(c) /\ (ValueOf(c, "preload_memory") => ValueOf(c, "load_memory"))
    BY DEF Sound
  <2>5. HasKey(d) /\ d.api_key = c.api_key
    <3>1. "api_key" \in DOMAIN c => "api_key" \in DOMAIN d /\ d["api_key"] = c["api_key"]
      BY <2>2
    <3> QED
      BY <2>4, <3>1 DEF HasKey
  <2>6. ToolsStored(d, q)
    <3> PICK k : k = "custom_tools"
      OBVIOUS
    <3>1. k \in DOMAIN d => (k \in DOMAIN c /\ d[k] = c[k]) \/ d[k] = NoKeys[k]
      BY RepairedKey
    <3>2. NoKeys[k] = "blank"
      BY DEF NoKeys
    <3>3. ToolsStored(c, p) /\ q.repaired
      BY <1>1
    <3> QED
      BY <3>1, <3>2, <3>3 DEF ToolsStored, Before
  <2>7. ~Broken(b) /\ b.type \in Type
    BY <2>1 DEF Broken, Type
  <2>8. Sound(b, q)
    BY <2>1, <2>3, <2>4, <2>5, <2>6, <2>7 DEF Sound, ToolsRead
  <2> QED
    BY <2>1, <2>5, <2>6, <2>8 DEF IsAgent
<1>2. CASE ~Broken(a)
  <2>1. b = [a EXCEPT !.raw = FALSE]
    BY <1>2 DEF Mended
  <2>2. /\ b.type = a.type /\ b.config = a.config
        /\ b \in [type : Type \cup {"none"}, config : {b.config}, raw : BOOLEAN]
    BY <2>1 DEF IsAgent
  <2>3. IsAgent(b)
    BY <2>2 DEF IsAgent
  <2>4. ToolsStored(b.config, q)
    BY <2>2 DEF ToolsStored, Before
  <2>5. ~Broken(b)
    BY <1>2, <2>2 DEF Broken
  <2>6. Sound(b, q)
    BY <2>2, <2>4, <2>5 DEF Sound, ToolsRead
  <2> QED
    BY <2>2, <2>3, <2>4, <2>6
<1> QED
  BY <1>1, <1>2

\* An agent that a save has expanded is as good as the one it read.
LEMMA HydrateSound ==
    ASSUME NEW a, IsAgent(a), NEW p, Sound(a, p), ToolsStored(a.config, p),
           NEW c, c = a.config \/ c = Hydrated(a.config), NEW b, b = WithConfig(a, c)
    PROVE  IsAgent(b) /\ Sound(b, p) /\ b.config.api_key = a.config.api_key
<1> PICK d : d = a.config
  OBVIOUS
<1>1. /\ b.type = a.type /\ b.config = c
      /\ b \in [type : Type \cup {"none"}, config : {b.config}, raw : BOOLEAN]
  BY DEF IsAgent, WithConfig
<1>2. CASE c = d
  <2>1. IsAgent(b)
    BY <1>1, <1>2 DEF IsAgent
  <2>2. Sound(b, p)
    BY <1>1, <1>2 DEF Sound, Broken
  <2> QED
    BY <1>1, <1>2, <2>1, <2>2
<1>3. CASE c # d
  <2> DEFINE live == [custom_tools |-> "live"]
  <2>1. /\ ValueOf(d, "custom_tool_ids") # {} /\ "custom_tools" \notin DOMAIN d
        /\ c = Joined(live, d)
    BY <1>3 DEF Hydrated
  <2>2. DOMAIN live = {"custom_tools"} /\ live["custom_tools"] = "live"
    OBVIOUS
  <2> HIDE DEF live
  <2>3. /\ DOMAIN c = {"custom_tools"} \cup DOMAIN d
        /\ c["custom_tools"] = "live"
        /\ \A k \in DOMAIN d : c[k] = d[k]
    BY <2>1, <2>2 DEF Joined
  <2>4. ASSUME NEW k, k # "custom_tools" PROVE ValueOf(c, k) = ValueOf(d, k)
    BY <2>3, <2>4 DEF ValueOf
  <2>5. IsConfig(c)
    <3>1. "live" \in Values["custom_tools"] /\ "custom_tools" \in DOMAIN NoKeys
      BY DEF Values, NoKeys
    <3>2. IsConfig(d)
      BY DEF IsAgent
    <3> QED
      BY <2>3, <3>1, <3>2 DEF IsConfig
  <2>6. ToolsRead(c, p)
    <3>1. ValueOf(c, "custom_tools") = "live"
      BY <2>3 DEF ValueOf
    <3> QED
      BY <2>1, <2>4, <3>1 DEF ToolsRead
  <2>7. /\ HasKey(d)
        /\ ValueOf(d, "preload_memory") => ValueOf(d, "load_memory")
        /\ a.type = "external" => ValueOf(d, "provider") \in Provider
    BY DEF Sound
  <2>8. Broken(b) => Broken(a)
    BY <1>1, <2>4 DEF Broken
  <2>9. HasKey(c) /\ c.api_key = d.api_key
    BY <2>3, <2>7 DEF HasKey
  <2>10. Sound(b, p)
    BY <1>1, <2>4, <2>6, <2>7, <2>8, <2>9 DEF Sound
  <2> QED
    BY <1>1, <2>5, <2>9, <2>10 DEF IsAgent
<1> QED
  BY <1>2, <1>3

-------------------------------------------------------------------------------
\* Steps.

LEMMA RequestTyped ==
    ASSUME NEW t, IsRequest(t)
    PROVE  /\ t \in [pc : {"idle", "load", "repair", "reread", "hydrate", "write", "reload",
                           "relink", "saved"},
                     save : BOOLEAN, edit : {t.edit}, found : {t.found}, copy : {t.copy},
                     alone : BOOLEAN]
           /\ IsAgent(t.edit) /\ IsAgent(t.found) /\ IsAgent(t.copy)
  BY DEF IsRequest

LEMMA NoAgentTyped ==
    IsAgent(NoAgent) /\ NoAgent.type = "none" /\ NoAgent.type \notin Type
<1>1. NoAgent.type = "none" /\ NoAgent.config = NoConfig
  BY DEF NoAgent
<1>2. NoAgent \in [type : Type \cup {"none"}, config : {NoAgent.config}, raw : BOOLEAN]
  BY DEF NoAgent
<1> QED
  BY <1>1, <1>2, NoConfigTyped DEF IsAgent, Type

LEMMA RestingFits ==
    ASSUME NEW a, NEW p
    PROVE  IsRequest(Resting) /\ Fits(Resting, a, p)
<1>1. IsRequest(Resting)
  BY NoAgentTyped DEF IsRequest, Resting
<1>2. Resting.pc = "idle" /\ Resting.save = FALSE
  BY DEF Resting
<1> QED
  BY <1>1, <1>2 DEF Fits

\* One request moves, and nothing else does.
LEMMA MoveStep ==
    ASSUME ConfigInv, NEW w \in Handler, NEW t, worker' = [worker EXCEPT ![w] = t],
           UNCHANGED <<row, gone, shared, past>>, requests' \in 0..MaxRequests,
           IsRequest(t), Fits(t, row, past)
    PROVE  ConfigInv'
<1>1. worker = [v \in Handler |-> worker[v]]
  BY DEF ConfigInv, ConfigTypeOK
<1>2. /\ worker' = [v \in Handler |-> worker'[v]]
      /\ worker'[w] = t /\ \A v \in Handler \ {w} : worker'[v] = worker[v]
  BY <1>1
<1>3. \A v \in Handler : IsRequest(worker'[v]) /\ Fits(worker'[v], row, past)
  BY <1>2 DEF ConfigInv, ConfigTypeOK
<1>4. ConfigTypeOK'
  BY <1>2, <1>3 DEF ConfigInv, ConfigTypeOK
<1>5. \A v \in Handler : Fits(worker[v], row, past)'
  BY <1>3
<1> QED
  BY <1>4, <1>5 DEF ConfigInv

\* A request that was not the writer still fits what was written.
LEMMA DisturbedFits ==
    ASSUME NEW t, IsRequest(t), NEW a, NEW b, NEW p, NEW q, Fits(t, a, p), Before(p, q),
           b.type \in Type, SameKey(b, a, q)
    PROVE  IsRequest(Disturbed(t)) /\ Fits(Disturbed(t), b, q)
<1>1. CASE t.pc = "saved"
  BY <1>1, RestingFits DEF Disturbed
<1>2. CASE t.pc # "saved"
  <2>1. PICK u : u = [t EXCEPT !.alone = FALSE]
    OBVIOUS
  <2>2. /\ u.pc = t.pc /\ u.save = t.save /\ u.edit = t.edit /\ u.found = t.found
        /\ u.copy = t.copy /\ u.alone = FALSE
        /\ u \in [pc : {"idle", "load", "repair", "reread", "hydrate", "write", "reload",
                        "relink", "saved"},
                  save : BOOLEAN, edit : {u.edit}, found : {u.found}, copy : {u.copy},
                  alone : BOOLEAN]
    <3>1. t \in [pc : {"idle", "load", "repair", "reread", "hydrate", "write", "reload",
                      "relink", "saved"},
                save : BOOLEAN, edit : {t.edit}, found : {t.found}, copy : {t.copy},
                alone : BOOLEAN]
      BY RequestTyped
    <3> QED
      BY <2>1, <3>1
  <2>3. IsRequest(u)
    BY <2>2, RequestTyped DEF IsRequest
  <2>4. ASSUME NEW x, Sound(x, p) PROVE Sound(x, q)
    BY <2>4 DEF Sound, ToolsRead, ToolsStored, Before
  <2>5. ASSUME NEW x, ToolsStored(x, p) PROVE ToolsStored(x, q)
    BY <2>5 DEF ToolsStored, Before
  <2>6. ASSUME NEW x, SameKey(x, a, p) PROVE SameKey(x, b, q)
    BY <2>6 DEF SameKey, Before
  <2>7. Fits(u, b, q)
    BY <1>2, <2>2, <2>4, <2>5, <2>6 DEF Fits
  <2> QED
    BY <1>2, <2>1, <2>3, <2>7 DEF Disturbed
<1> QED
  BY <1>1, <1>2

\* One request writes the agent.
LEMMA PutStep ==
    ASSUME ConfigInv, NEW w \in Handler, row # NoAgent, NEW a, NEW t, Puts(w, a, t),
           UNCHANGED <<gone, shared>>, requests' \in 0..MaxRequests,
           NEW q, q = past', Before(past, q),
           q \in [rekeyed : BOOLEAN, crossed : BOOLEAN, repaired : BOOLEAN, emptied : BOOLEAN],
           IsAgent(a), Sound(a, q), ToolsStored(a.config, q), SameKey(a, row, q),
           IsRequest(t), Fits(t, a, q)
    PROVE  ConfigInv'
<1>1. /\ row' = a
      /\ worker' = [v \in Handler |-> IF v = w THEN t ELSE Disturbed(worker[v])]
  BY DEF Puts
<1>2. a.type \in Type /\ a # NoAgent
  BY NoAgentTyped DEF Sound
<1>3. ASSUME NEW v \in Handler
      PROVE  IsRequest(worker'[v]) /\ Fits(worker'[v], a, q)
  <2>1. CASE v = w
    BY <1>1, <2>1
  <2>2. CASE v # w
    <3>1. IsRequest(worker[v]) /\ Fits(worker[v], row, past)
      BY DEF ConfigInv, ConfigTypeOK
    <3>2. IsRequest(Disturbed(worker[v])) /\ Fits(Disturbed(worker[v]), a, q)
      BY <1>2, <3>1, DisturbedFits
    <3> QED
      BY <1>1, <2>2, <3>2
  <2> QED
    BY <2>1, <2>2
<1>4. worker' = [v \in Handler |-> worker'[v]]
  BY <1>1
<1>5. ConfigTypeOK'
  BY <1>1, <1>3, <1>4 DEF ConfigInv, ConfigTypeOK
<1>6. Kin(shared, a, q)
  BY DEF ConfigInv, Kin, SameKey, Before
<1>7. /\ (row # NoAgent => Sound(row, past) /\ ToolsStored(row.config, past))'
      /\ (row = NoAgent => shared = {})'
  BY <1>1, <1>2
<1>8. \A v \in Handler : Fits(worker[v], row, past)'
  BY <1>1, <1>3
<1> QED
  BY <1>1, <1>5, <1>6, <1>7, <1>8 DEF ConfigInv

LEMMA InvFacts ==
    ASSUME ConfigInv
    PROVE  /\ IsAgent(row) /\ requests \in 0..MaxRequests /\ MaxRequests \in Nat
           /\ past \in [rekeyed : BOOLEAN, crossed : BOOLEAN, repaired : BOOLEAN,
                        emptied : BOOLEAN]
           /\ \A w \in Handler : IsRequest(worker[w]) /\ Fits(worker[w], row, past)
           /\ row # NoAgent <=> row.type \in Type
           /\ row # NoAgent => Sound(row, past) /\ ToolsStored(row.config, past)
           /\ SameKey(row, row, past) /\ Before(past, past)
  BY NoAgentTyped, ConfigAssumption
     DEF ConfigInv, ConfigTypeOK, Sound, SameKey, Before

LEMMA RefuseStep ==
    ASSUME ConfigInv, NEW w \in Handler, Refuse(w), UNCHANGED <<gone, shared, past>>,
           requests' \in 0..MaxRequests
    PROVE  ConfigInv'
<1>1. row' = row /\ worker' = [worker EXCEPT ![w] = Resting]
  BY DEF Refuse
<1>2. IsRequest(Resting) /\ Fits(Resting, row, past)
  BY RestingFits
<1> QED
  BY <1>1, <1>2, MoveStep

LEMMA CreateStep ==
    ASSUME ConfigInv, NEW w \in Handler, NEW e \in Edits, Create(w, e)
    PROVE  ConfigInv'
<1>1. row = NoAgent /\ requests' \in 0..MaxRequests /\ UNCHANGED <<gone, shared>>
  BY InvFacts DEF Create, Free
<1>2. CASE Refuse(w) /\ UNCHANGED past
  BY <1>1, <1>2, RefuseStep
<1>3. CASE ~(Refuse(w) /\ UNCHANGED past)
  <2> PICK a : a = WithConfig(e, Created(e.type, e.config))
    OBVIOUS
  <2> PICK q : q = [past EXCEPT !.emptied = Empties(e)]
    OBVIOUS
  <2> PICK t : t = [Resting EXCEPT !.pc = "relink", !.copy = a]
    OBVIOUS
  <2>1. /\ MayCreate(e.type, e.config) /\ row' = a /\ past' = q
        /\ worker' = [worker EXCEPT ![w] = t]
    BY <1>3 DEF Create
  <2>2. /\ q \in [rekeyed : BOOLEAN, crossed : BOOLEAN, repaired : BOOLEAN, emptied : BOOLEAN]
        /\ Empties(e) => q.emptied
    BY InvFacts DEF Empties
  <2>3. IsAgent(a) /\ Sound(a, q) /\ ToolsStored(a.config, q) /\ SameKey(a, a, q)
    BY <2>1, <2>2, CreateSound DEF SameKey
  <2>4. a.type \in Type /\ a # NoAgent
    BY <2>3, NoAgentTyped DEF Sound
  <2>5. /\ t.pc = "relink" /\ t.copy = a /\ t.save = FALSE /\ IsRequest(t)
    BY <2>3, NoAgentTyped DEF Resting, IsRequest
  <2>6. Fits(t, a, q)
    BY <2>3, <2>4, <2>5 DEF Fits
  <2>7. ASSUME NEW v \in Handler
        PROVE  worker[v].pc = "idle"
    BY <1>1, InvFacts DEF Fits
  <2>8. ASSUME NEW v \in Handler
        PROVE  IsRequest(worker'[v]) /\ Fits(worker'[v], a, q)
    <3>1. CASE v = w
      <4>1. worker'[v] = t
        BY <2>1, <3>1 DEF ConfigInv, ConfigTypeOK
      <4> QED
        BY <2>5, <2>6, <4>1
    <3>2. CASE v # w
      <4>1. worker'[v] = worker[v]
        BY <2>1, <3>2 DEF ConfigInv, ConfigTypeOK
      <4>2. IsRequest(worker[v]) /\ Fits(worker[v], row, past) /\ worker[v].pc = "idle"
        BY <2>7, InvFacts
      <4>3. Fits(worker[v], a, q)
        BY <4>2 DEF Fits
      <4> QED
        BY <4>1, <4>2, <4>3
    <3> QED
      BY <3>1, <3>2
  <2>9. worker' = [v \in Handler |-> worker'[v]]
    BY <2>1 DEF ConfigInv, ConfigTypeOK
  <2>10. ConfigTypeOK'
    BY <1>1, <2>1, <2>2, <2>3, <2>8, <2>9 DEF ConfigInv, ConfigTypeOK
  <2>11. shared = {} /\ Kin(shared, a, q)
    BY <1>1 DEF ConfigInv, Kin
  <2>12. \A v \in Handler : Fits(worker[v], row, past)'
    BY <2>1, <2>8
  <2> QED
    BY <1>1, <2>1, <2>3, <2>4, <2>10, <2>11, <2>12 DEF ConfigInv
<1> QED
  BY <1>2, <1>3

LEMMA GetStep ==
    ASSUME ConfigInv, NEW w \in Handler, Get(w)
    PROVE  ConfigInv'
<1> PICK t : t = [Resting EXCEPT !.pc = "load"]
  OBVIOUS
<1>1. /\ row # NoAgent /\ requests' \in 0..MaxRequests
      /\ worker' = [worker EXCEPT ![w] = t] /\ UNCHANGED <<row, gone, shared, past>>
  BY InvFacts DEF Get, Free
<1>2. t.pc = "load" /\ t.save = FALSE /\ IsRequest(t)
  BY NoAgentTyped DEF Resting, IsRequest
<1>3. Fits(t, row, past)
  BY <1>1, <1>2, InvFacts DEF Fits
<1> QED
  BY <1>1, <1>2, <1>3, MoveStep

LEMMA SaveStep ==
    ASSUME ConfigInv, NEW w \in Handler, NEW e \in Edits, Save(w, e)
    PROVE  ConfigInv'
<1> PICK t : t = [Resting EXCEPT !.pc = "load", !.save = TRUE, !.edit = e]
  OBVIOUS
<1>1. /\ row # NoAgent /\ requests' \in 0..MaxRequests
      /\ worker' = [worker EXCEPT ![w] = t] /\ UNCHANGED <<row, gone, shared, past>>
  BY InvFacts DEF Save, Free
<1>2. t.pc = "load" /\ t.edit = e /\ IsRequest(t)
  BY NoAgentTyped, EditTyped DEF Resting, IsRequest
<1>3. Fits(t, row, past)
  BY <1>1, <1>2, InvFacts DEF Fits
<1> QED
  BY <1>1, <1>2, <1>3, MoveStep

LEMMA LoadStep ==
    ASSUME ConfigInv, NEW w \in Handler, Load(w)
    PROVE  ConfigInv'
<1> PICK t : t = [worker[w] EXCEPT !.found = row, !.alone = TRUE,
                       !.pc = IF Broken(row) \/ row.raw THEN "repair" ELSE "hydrate"]
  OBVIOUS
<1>1. /\ worker[w].pc = "load" /\ worker' = [worker EXCEPT ![w] = t]
      /\ UNCHANGED <<row, gone, shared, past, requests>>
  BY DEF Load, ConfigInv, ConfigTypeOK
<1>2. IsRequest(worker[w]) /\ Fits(worker[w], row, past) /\ IsAgent(row)
  BY InvFacts
<1>3. row # NoAgent
  BY <1>1, <1>2, InvFacts DEF Fits
<1>4. /\ t.pc \in {"repair", "hydrate"} /\ t.found = row /\ t.save = worker[w].save
      /\ t.edit = worker[w].edit /\ IsRequest(t)
  BY <1>2 DEF IsRequest
<1>5. Fits(t, row, past)
  BY <1>2, <1>3, <1>4, InvFacts DEF Fits
<1> QED
  BY <1>1, <1>4, <1>5, InvFacts, MoveStep

LEMMA RereadStep ==
    ASSUME ConfigInv, NEW w \in Handler, Reread(w)
    PROVE  ConfigInv'
<1> PICK t : t = [worker[w] EXCEPT !.found = row, !.pc = "hydrate"]
  OBVIOUS
<1>1. /\ worker[w].pc = "reread" /\ worker' = [worker EXCEPT ![w] = t]
      /\ UNCHANGED <<row, gone, shared, past, requests>>
  BY DEF Reread, ConfigInv, ConfigTypeOK
<1>2. IsRequest(worker[w]) /\ Fits(worker[w], row, past) /\ IsAgent(row)
  BY InvFacts
<1>3. row # NoAgent
  BY <1>1, <1>2, InvFacts DEF Fits
<1>4. /\ t.pc = "hydrate" /\ t.found = row /\ t.save = worker[w].save
      /\ t.edit = worker[w].edit /\ IsRequest(t)
  BY <1>2 DEF IsRequest
<1>5. Fits(t, row, past)
  BY <1>2, <1>3, <1>4, InvFacts DEF Fits
<1> QED
  BY <1>1, <1>4, <1>5, InvFacts, MoveStep

LEMMA HydrateStep ==
    ASSUME ConfigInv, NEW w \in Handler, Hydrate(w)
    PROVE  ConfigInv'
<1> PICK a : a = worker[w].found
  OBVIOUS
<1>1. PICK c : /\ c = a.config \/ c = Hydrated(a.config)
               /\ worker' = [worker EXCEPT ![w] = Expanded(worker[w], c)]
  BY DEF Hydrate, ConfigInv, ConfigTypeOK
<1>2. worker[w].pc = "hydrate" /\ UNCHANGED <<row, gone, shared, past, requests>>
  BY DEF Hydrate
<1>3. IsRequest(worker[w]) /\ Fits(worker[w], row, past) /\ IsAgent(a)
  BY InvFacts DEF IsRequest
<1>4. CASE ~worker[w].save
  <2>1. Expanded(worker[w], c) = Resting
    BY <1>4 DEF Expanded
  <2> QED
    BY <1>1, <1>2, <2>1, InvFacts, RestingFits, MoveStep
<1>5. CASE worker[w].save
  <2> PICK b : b = WithConfig(a, c)
    OBVIOUS
  <2>0. PICK t : t = Expanded(worker[w], c)
    OBVIOUS
  <2>1. worker' = [worker EXCEPT ![w] = t]
    BY <1>1, <2>0
  <2>2. Sound(a, past) /\ ToolsStored(a.config, past) /\ SameKey(a, row, past)
    BY <1>2, <1>3 DEF Fits
  <2>3. IsAgent(b) /\ Sound(b, past) /\ b.config.api_key = a.config.api_key
    BY <1>1, <1>3, <2>2, HydrateSound
  <2>4. SameKey(b, row, past)
    BY <2>2, <2>3 DEF SameKey
  <2>5. /\ t.pc = "write" /\ t.found = b /\ t.save /\ t.edit = worker[w].edit /\ IsRequest(t)
    <3>1. t = [worker[w] EXCEPT !.found = b, !.pc = "write"]
      BY <1>5, <2>0 DEF Expanded
    <3> QED
      BY <1>3, <1>5, <2>3, <3>1 DEF IsRequest
  <2>6. Fits(t, row, past)
    BY <1>2, <1>3, <1>5, <2>3, <2>4, <2>5 DEF Fits
  <2> QED
    BY <1>2, <2>1, <2>5, <2>6, InvFacts, MoveStep
<1> QED
  BY <1>4, <1>5

LEMMA ReloadStep ==
    ASSUME ConfigInv, NEW w \in Handler, Reload(w)
    PROVE  ConfigInv'
<1> PICK t : t = [worker[w] EXCEPT !.copy = row, !.pc = "relink"]
  OBVIOUS
<1>1. /\ worker[w].pc = "reload" /\ worker' = [worker EXCEPT ![w] = t]
      /\ UNCHANGED <<row, gone, shared, past, requests>>
  BY DEF Reload, ConfigInv, ConfigTypeOK
<1>2. IsRequest(worker[w]) /\ Fits(worker[w], row, past) /\ IsAgent(row)
  BY InvFacts
<1>3. row # NoAgent
  BY <1>1, <1>2, InvFacts DEF Fits
<1>4. /\ t.pc = "relink" /\ t.copy = row /\ t.save = worker[w].save /\ t.alone = worker[w].alone
      /\ t.edit = worker[w].edit /\ t.found = worker[w].found /\ IsRequest(t)
  BY <1>2 DEF IsRequest
<1>5. Saved(t.edit, t.found) = Saved(worker[w].edit, worker[w].found)
  BY <1>4 DEF Saved
<1>6. Fits(t, row, past)
  BY <1>1, <1>2, <1>3, <1>4, <1>5, InvFacts DEF Fits
<1> QED
  BY <1>1, <1>4, <1>6, InvFacts, MoveStep

LEMMA RepairStep ==
    ASSUME ConfigInv, NEW w \in Handler, Repair(w)
    PROVE  ConfigInv'
<1> PICK a : a = worker[w].found
  OBVIOUS
<1> PICK b : b = Mended(a)
  OBVIOUS
<1>8. PICK q : q = [past EXCEPT !.repaired = @ \/ Broken(a)]
  OBVIOUS
<1>9. PICK t : t = [worker[w] EXCEPT !.pc = "reread"]
  OBVIOUS
<1>1. /\ worker[w].pc = "repair" /\ UNCHANGED <<gone, shared, requests>>
      /\ (Puts(w, b, t) /\ past' = q) \/ (Refuse(w) /\ UNCHANGED past)
  BY <1>8, <1>9 DEF Repair
<1>2. IsRequest(worker[w]) /\ Fits(worker[w], row, past) /\ IsAgent(a)
  BY InvFacts DEF IsRequest
<1>3. /\ row # NoAgent /\ Sound(a, past) /\ ToolsStored(a.config, past)
      /\ SameKey(a, row, past)
  BY <1>1, <1>2, InvFacts DEF Fits
<1>4. CASE Refuse(w) /\ UNCHANGED past
  BY <1>1, <1>4, InvFacts, RefuseStep
<1>5. CASE Puts(w, b, t) /\ past' = q
  <2>1. /\ q \in [rekeyed : BOOLEAN, crossed : BOOLEAN, repaired : BOOLEAN, emptied : BOOLEAN]
        /\ Before(past, q)
        /\ Broken(a) => q.repaired
        /\ q.rekeyed = past.rekeyed
    BY <1>8, InvFacts DEF Before, Broken
  <2>2. /\ IsAgent(b) /\ Sound(b, q) /\ ToolsStored(b.config, q)
        /\ b.config.api_key = a.config.api_key
    BY <1>2, <1>3, <2>1, RepairSound
  <2>3. SameKey(b, row, q)
    BY <1>3, <2>1, <2>2 DEF SameKey
  <2>4. /\ t.pc = "reread" /\ t.save = worker[w].save /\ t.edit = worker[w].edit
        /\ IsRequest(t)
    BY <1>2, <1>9 DEF IsRequest
  <2>5. Fits(t, b, q)
    BY <1>2, <2>2, <2>4 DEF Fits, Sound
  <2>6. UNCHANGED <<gone, shared>> /\ requests' \in 0..MaxRequests /\ q = past'
    BY <1>1, <1>5, InvFacts
  <2> QED
    BY <1>3, <1>5, <2>1, <2>2, <2>3, <2>4, <2>5, <2>6, PutStep
<1> QED
  BY <1>1, <1>4, <1>5

LEMMA OverwriteStep ==
    ASSUME ConfigInv, NEW w \in Handler, Overwrite(w)
    PROVE  ConfigInv'
<1>7. PICK e, a : e = worker[w].edit /\ a = worker[w].found
  OBVIOUS
<1>8. PICK b : b = Saved(e, a)
  OBVIOUS
<1>0. PICK q : q = [past EXCEPT
                   !.rekeyed = @ \/ (HasKey(e.config) /\ ~Checked(e.type, a.type)),
                   !.crossed = @ \/ (e.type = "flow" /\ ~Checked(e.type, a.type)),
                   !.emptied = @ \/ Empties(e)]
  OBVIOUS
<1>9. PICK t : t = [worker[w] EXCEPT !.pc = "reload"]
  OBVIOUS
<1>1. /\ worker[w].pc = "write" /\ UNCHANGED <<gone, shared, requests>>
      /\ \/ MayUpdate(e.type, e.config, a) /\ Puts(w, b, t) /\ past' = q
         \/ Refuse(w) /\ UNCHANGED past
  BY <1>0, <1>7, <1>8, <1>9 DEF Overwrite
<1>2. IsRequest(worker[w]) /\ Fits(worker[w], row, past) /\ IsAgent(a)
  BY <1>7, InvFacts DEF IsRequest
<1>3. /\ row # NoAgent /\ Sound(a, past) /\ SameKey(a, row, past)
      /\ worker[w].save /\ e \in Edits
  BY <1>1, <1>2, <1>7, InvFacts DEF Fits
<1>4. CASE Refuse(w) /\ UNCHANGED past
  BY <1>1, <1>4, InvFacts, RefuseStep
<1>5. CASE MayUpdate(e.type, e.config, a) /\ Puts(w, b, t) /\ past' = q
  <2>1. /\ q \in [rekeyed : BOOLEAN, crossed : BOOLEAN, repaired : BOOLEAN, emptied : BOOLEAN]
        /\ Before(past, q)
        /\ Empties(e) => q.emptied
        /\ e.type = "flow" /\ ~Checked(e.type, a.type) => q.crossed
        /\ ~q.rekeyed => /\ ~past.rekeyed
                         /\ Checked(e.type, a.type) \/ ~HasKey(e.config)
    BY <1>0, InvFacts DEF Before, Empties, Checked
  <2>2. IsAgent(b) /\ Sound(b, q) /\ ToolsStored(b.config, q)
    <3>1. IsConfig(a.config)
      BY <1>2 DEF IsAgent
    <3> QED
      BY <1>3, <1>5, <1>8, <2>1, <3>1, UpdateSound
  <2>3. SameKey(b, row, q)
    <3>1. HasKey(a.config)
      BY <1>3 DEF Sound
    <3>2. Checked(e.type, a.type) \/ ~HasKey(e.config)
              => b.config.api_key = a.config.api_key
      BY <1>3, <1>8, <3>1, SavedKey
    <3> QED
      BY <1>3, <2>1, <3>2 DEF SameKey
  <2>4. /\ t.pc = "reload" /\ t.save /\ t.edit = e /\ t.found = a /\ IsRequest(t)
    BY <1>2, <1>3, <1>7, <1>9 DEF IsRequest
  <2>5. b = Saved(t.edit, t.found)
    BY <1>8, <2>4
  <2>6. Fits(t, b, q)
    BY <1>3, <2>2, <2>4, <2>5 DEF Fits, Sound
  <2>7. UNCHANGED <<gone, shared>> /\ requests' \in 0..MaxRequests /\ q = past'
    BY <1>1, <1>5, InvFacts
  <2> QED
    BY <1>3, <1>5, <2>1, <2>2, <2>3, <2>4, <2>6, <2>7, PutStep
<1> QED
  BY <1>1, <1>4, <1>5

LEMMA RelinkStep ==
    ASSUME ConfigInv, NEW w \in Handler, Relink(w)
    PROVE  ConfigInv'
<1> PICK a, t : a = worker[w].copy /\ t = Over(worker[w])
  OBVIOUS
<1>1. /\ worker[w].pc = "relink" /\ UNCHANGED <<gone, shared, past, requests>>
      /\ \/ Puts(w, a, t)
         \/ UNCHANGED row /\ worker' = [worker EXCEPT ![w] = t]
         \/ Refuse(w)
  BY DEF Relink
<1>2. IsRequest(worker[w]) /\ Fits(worker[w], row, past) /\ IsAgent(a)
  BY InvFacts DEF IsRequest
<1>3. /\ row # NoAgent /\ Sound(a, past) /\ ToolsStored(a.config, past)
      /\ SameKey(a, row, past)
  BY <1>1, <1>2, InvFacts DEF Fits
<1>4. worker[w].save /\ worker[w].alone => a = row /\ row = Saved(worker[w].edit, worker[w].found)
  BY <1>1, <1>2 DEF Fits
<1>5. ASSUME NEW r \in {a, row}
      PROVE  IsRequest(t) /\ Fits(t, r, past)
  <2>1. CASE worker[w].save /\ worker[w].alone
    <3>1. t = [worker[w] EXCEPT !.pc = "saved", !.copy = NoAgent]
      BY <2>1 DEF Over
    <3>2. /\ t.pc = "saved" /\ t.save /\ t.edit = worker[w].edit /\ t.found = worker[w].found
          /\ IsRequest(t)
      BY <1>2, <2>1, <3>1, NoAgentTyped DEF IsRequest
    <3>3. r = Saved(t.edit, t.found) /\ r.type \in Type
      BY <1>3, <1>4, <2>1, <3>2, InvFacts DEF Saved
    <3>4. t.edit \in Edits
      BY <1>2, <2>1, <3>2 DEF Fits
    <3> QED
      BY <3>2, <3>3, <3>4 DEF Fits
  <2>2. CASE ~(worker[w].save /\ worker[w].alone)
    BY <2>2, RestingFits DEF Over
  <2> QED
    BY <2>1, <2>2
<1>6. CASE Puts(w, a, t)
  BY <1>1, <1>2, <1>3, <1>5, <1>6, InvFacts, PutStep
<1>7. CASE UNCHANGED row /\ worker' = [worker EXCEPT ![w] = t]
  BY <1>1, <1>5, <1>7, InvFacts, MoveStep
<1>8. CASE Refuse(w)
  BY <1>1, <1>8, InvFacts, RefuseStep
<1> QED
  BY <1>1, <1>6, <1>7, <1>8

LEMMA OthersStep ==
    ASSUME ConfigInv, Share \/ \E x \in Agent \cup Server : Leave(x)
    PROVE  ConfigInv'
<1>1. CASE Share
  <2>1. /\ row # NoAgent /\ shared' = shared \cup {row.config.api_key}
        /\ UNCHANGED <<row, gone, worker, past, requests>>
    BY <1>1 DEF Share
  <2>2. row.config.api_key \in {"first", "again", "sent"}
    <3>1. HasKey(row.config) /\ IsConfig(row.config)
      BY <2>1, InvFacts DEF Sound, IsAgent
    <3>2. row.config["api_key"] \in Values["api_key"] /\ row.config["api_key"] # ""
      BY <3>1 DEF HasKey, IsConfig
    <3> QED
      BY <3>2 DEF Values
  <2>3. ConfigTypeOK'
    BY <2>1, <2>2 DEF ConfigInv, ConfigTypeOK
  <2>4. Kin(shared', row, past)
    BY <2>1 DEF ConfigInv, Kin
  <2> QED
    BY <2>1, <2>3, <2>4 DEF ConfigInv
<1>2. CASE \E x \in Agent \cup Server : Leave(x)
  <2>1. /\ gone' \subseteq Agent \cup Server
        /\ UNCHANGED <<row, worker, shared, past, requests>>
    BY <1>2 DEF Leave, ConfigInv, ConfigTypeOK
  <2>2. ConfigTypeOK'
    BY <2>1 DEF ConfigInv, ConfigTypeOK
  <2> QED
    BY <2>1, <2>2 DEF ConfigInv
<1> QED
  BY <1>1, <1>2

LEMMA ConfigInitial == ConfigInit => ConfigInv
<1> SUFFICES ASSUME ConfigInit PROVE ConfigInv
  OBVIOUS
<1>1. \A w \in Handler : IsRequest(worker[w]) /\ Fits(worker[w], row, past)
  BY RestingFits DEF ConfigInit
<1>2. ConfigTypeOK
  <2>1. worker = [w \in Handler |-> worker[w]] /\ \A w \in Handler : IsRequest(worker[w])
    BY <1>1 DEF ConfigInit
  <2>2. past \in [rekeyed : BOOLEAN, crossed : BOOLEAN, repaired : BOOLEAN, emptied : BOOLEAN]
    BY DEF ConfigInit
  <2>3. MaxRequests \in Nat
    BY ConfigAssumption
  <2>4. IsAgent(row) /\ gone = {} /\ shared = {} /\ requests = 0
    BY NoAgentTyped DEF ConfigInit
  <2> QED
    BY <2>1, <2>2, <2>3, <2>4 DEF ConfigTypeOK
<1>3. Kin(shared, row, past)
  BY DEF ConfigInit, Kin
<1> QED
  BY <1>1, <1>2, <1>3 DEF ConfigInit, ConfigInv

LEMMA ConfigPreserved == ConfigInv /\ [ConfigNext]_configVars => ConfigInv'
<1> SUFFICES ASSUME ConfigInv, [ConfigNext]_configVars PROVE ConfigInv'
  OBVIOUS
<1>1. CASE UNCHANGED configVars
  BY <1>1 DEF configVars, ConfigInv, ConfigTypeOK
<1>2. CASE \E w \in Handler : Get(w) \/ \E e \in Edits : Create(w, e) \/ Save(w, e)
  BY <1>2, GetStep, CreateStep, SaveStep
<1>3. CASE \E w \in Handler : Serve(w)
  BY <1>3, LoadStep, RepairStep, RereadStep, HydrateStep, OverwriteStep, ReloadStep, RelinkStep
     DEF Serve
<1>4. CASE Share \/ \E x \in Agent \cup Server : Leave(x)
  BY <1>4, OthersStep
<1> QED
  BY <1>1, <1>2, <1>3, <1>4 DEF ConfigNext

THEOREM ConfigInvariant == ConfigSpec => []ConfigInv
<1> QED
  BY ConfigInitial, ConfigPreserved, PTL DEF ConfigSpec

\* A key that was handed out opens the agent until a save sends another
\* (GetShareAgent, ProcessAgentConfig).
THEOREM KeysHold == ConfigSpec => []SharedKeyHolds
<1>1. ConfigInv => SharedKeyHolds
  BY DEF ConfigInv, Kin, SharedKeyHolds
<1> QED
  BY <1>1, ConfigInvariant, PTL

\* What reads expand is never stored (dropHydratedCopies, reconstructCustomConfigurations).
THEOREM NoCopyStored == ConfigSpec => []CopiesStayOut
<1>1. ConfigInv => CopiesStayOut
  <2> SUFFICES ASSUME ConfigInv, row # NoAgent
               PROVE  /\ ValueOf(row.config, "custom_tools") # "live"
                      /\ ValueOf(row.config, "custom_tool_ids") # {}
                         /\ "custom_tools" \in DOMAIN row.config
                            => row.config.custom_tools = "sent" \/ past.repaired \/ past.emptied
    BY DEF CopiesStayOut
  <2>1. ToolsStored(row.config, past)
    BY DEF ConfigInv
  <2> QED
    BY <2>1 DEF ToolsStored, ValueOf, NoKeys
<1> QED
  BY <1>1, ConfigInvariant, PTL

\* What the table holds is what some check let through, although saves are checked against
\* what they read (config_processor.go, the processors, the validator).
THEOREM OnlyValidStored == ConfigSpec => []StoredIsValid
<1>1. ConfigInv => StoredIsValid
  <2> SUFFICES ASSUME ConfigInv PROVE StoredIsValid
    OBVIOUS
  <2>1. CASE row # NoAgent
    BY <2>1 DEF ConfigInv, Sound, StoredIsValid
  <2>2. CASE row = NoAgent
    <3>1. row.type = "none" /\ DOMAIN row.config = {}
      BY <2>2 DEF NoAgent, NoConfig
    <3>2. ~ValueOf(row.config, "preload_memory")
      BY <3>1 DEF ValueOf, NoKeys
    <3> QED
      BY <3>1, <3>2 DEF StoredIsValid, Broken
  <2> QED
    BY <2>1, <2>2
<1> QED
  BY <1>1, ConfigInvariant, PTL

\* A save that nobody overlapped does to every key what its request asked for (Update).
THEOREM SavesMerge == ConfigSpec => []SaveIsMerge
<1>1. ConfigInv => SaveIsMerge
  <2> SUFFICES ASSUME ConfigInv, NEW w \in Handler, worker[w].pc = "saved"
               PROVE  LET sent == worker[w].edit.config
                          stored == worker[w].found.config
                      IN  /\ row.type = worker[w].edit.type
                          /\ \A k \in DOMAIN sent : Exempt(w, k) \/ ValueOf(row.config, k) = sent[k]
                          /\ \A k \in DOMAIN stored \ DOMAIN sent :
                                Exempt(w, k) \/ ValueOf(row.config, k) = stored[k]
    BY DEF SaveIsMerge
  <2>7. PICK e, a : e = worker[w].edit /\ a = worker[w].found
    OBVIOUS
  <2>8. PICK sent, stored : sent = e.config /\ stored = a.config
    OBVIOUS
  <2>9. PICK merged : merged = Update(e.type, sent, a)
    OBVIOUS
  <2>1. e \in Edits /\ row = Saved(e, a)
    BY <2>7, InvFacts DEF Fits
  <2>2. row.type = e.type /\ row.config = merged
    BY <2>1, <2>8, <2>9, SavedIs
  <2>3. ASSUME NEW k \in DOMAIN sent
        PROVE  Exempt(w, k) \/ ValueOf(merged, k) = sent[k]
    <3>1. CASE k # "api_key"
      <4>1. k \in DOMAIN merged /\ merged[k] = sent[k]
        BY <3>1, <2>8, <2>9, UpdatedKey
      <4> QED
        BY <4>1 DEF ValueOf
    <3>2. CASE k = "api_key" /\ ~Checked(e.type, a.type) /\ HasKey(sent)
      <4>1. k \in DOMAIN merged /\ merged[k] = sent[k]
        BY <3>2, <2>9, SentKey
      <4> QED
        BY <4>1 DEF ValueOf
    <3>3. CASE k = "api_key" /\ (Checked(e.type, a.type) \/ ~HasKey(sent))
      BY <2>7, <2>8, <3>3 DEF Exempt
    <3> QED
      BY <3>1, <3>2, <3>3
  <2>4. ASSUME NEW k \in DOMAIN stored \ DOMAIN sent
        PROVE  Exempt(w, k) \/ ValueOf(merged, k) = stored[k]
    <3>1. CASE k = "api_key"
      <4>1. ~HasKey(sent)
        BY <3>1 DEF HasKey
      <4> QED
        BY <2>7, <2>8, <3>1, <4>1 DEF Exempt
    <3>2. CASE k = "provider" /\ e.type # "external"
      BY <2>7, <2>8, <3>2 DEF Exempt
    <3>3. CASE k = "custom_tools" /\ ValueOf(stored, "custom_tool_ids") # {}
      BY <2>7, <2>8, <3>3 DEF Exempt
    <3>4. CASE /\ k # "api_key" /\ (k = "provider" => e.type = "external")
               /\ k = "custom_tools" => ValueOf(stored, "custom_tool_ids") = {}
      <4>1. k \in DOMAIN WithoutCopies(stored) /\ WithoutCopies(stored)[k] = stored[k]
        BY <3>4, StoredKeys
      <4>2. k \in Kept(e.type, sent, WithoutCopies(stored))
        BY <3>4, <4>1 DEF Kept
      <4>3. k \in DOMAIN merged /\ merged[k] = WithoutCopies(stored)[k]
        BY <3>4, <4>2, <2>8, <2>9, UpdatedKey
      <4> QED
        BY <4>1, <4>3 DEF ValueOf
    <3> QED
      BY <3>1, <3>2, <3>3, <3>4
  <2> QED
    BY <2>2, <2>3, <2>4, <2>7, <2>8
<1> QED
  BY <1>1, ConfigInvariant, PTL

===============================================================================

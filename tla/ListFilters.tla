----------------------------- MODULE ListFilters -----------------------------
(***************************************************************************)
(* The filters of the agents, custom tools and custom MCP server lists     *)
(* (agent_filter.go, custom_tool_filter.go, custom_mcp_server_filter.go):  *)
(* clauses on whitelisted columns, glued by AND and OR, which become one   *)
(* SQL condition.  What a clause asks of a row is true, false or NULL; a   *)
(* row is listed when the condition is true.  Text is compared without     *)
(* case, which its values stand for already.                               *)
(***************************************************************************)
EXTENDS Integers, Sequences, FiniteSets

CONSTANTS
    Text,           \* what a text column, a tag or a value can be
    Date, Number,   \* the values that read as dates, and as integers the column can hold
    Null,
    Within          \* pairs <<v, text>>: v occurs in text, as ILIKE '%v%' sees it

ASSUME TextAssumption ==
    /\ Date \cap Number = {} /\ (Date \cup Number) \cap Text = {}
    /\ Null \notin Text \cup Date \cup Number
    /\ Within \subseteq Text \X Text /\ \A v \in Text : <<v, v>> \in Within

Value == Text \cup Date \cup Number

\* A row of any of the three tables, each of which has some of the columns.
Row == [name: Text, description: Text \cup {Null}, tags: SUBSET Text,
        created_at: Date \cup {Null}, timeout: Number]

Listing == {"agents", "tools", "servers"}

Presence == {"is_present", "is_not_present"}
Equality == {"equal_to", "not_equal_to"}
Likeness == {"contains", "does_not_contain"}
Operator == Presence \cup Equality \cup Likeness

\* Agents have a date: the column is NOT NULL in their table alone.
Fits(listing, row) == listing = "agents" => row.created_at # Null

\* value is what the value spells when it is split at its commas; blank is {}.
Clause == [column: {"name", "description", "tags", "created_at", "timeout", "other"},
           op: Operator, value: SUBSET Value, glue: {"and", "or"}]

Whitelist(listing) ==
    {"name", "description", "created_at"}
        \cup (IF listing # "agents" THEN {"tags"} ELSE {})
        \cup (IF listing = "servers" THEN {"timeout"} ELSE {})

\* A value without commas.  One with commas is a literal like any other, except as a text
\* that the agents list compares: it is no date, no number, and no text of a row.
Single(c) == Cardinality(c.value) = 1
IsDate(c) == Single(c) /\ c.value \subseteq Date
IsNumber(c) == Single(c) /\ c.value \subseteq Number

\* A clause that has no meaning for its column is left out of the condition.  The agents
\* list does not ask whether a date is one.
Applies(listing, c) ==
    /\ c.column \in Whitelist(listing)
    /\ \/ c.op \in Presence
       \/ /\ c.value # {}
          /\ CASE c.column = "created_at" -> c.op \in Equality /\ (listing = "agents" \/ IsDate(c))
               [] c.column = "timeout" -> c.op \in Equality /\ IsNumber(c)
               [] OTHER -> TRUE

\* The database refuses the text for a date.
CastError(listing, c) ==
    /\ Applies(listing, c)
    /\ c.column = "created_at" /\ c.op \in Equality /\ ~ IsDate(c)

Occurs(v, text) == text # Null /\ <<v, text>> \in Within

\* What SQL makes of a statement about a column: NULL when the column is, and NOT keeps it.
Is(p) == IF p THEN "true" ELSE "false"
Compared(stored, p) == IF stored = Null THEN "null" ELSE Is(p)
Not(truth) == CASE truth = "true" -> "false" [] truth = "false" -> "true" [] OTHER -> "null"

\* Mutant of OrNull: the negative operators have no "column IS NULL OR".
OrNothing(stored, truth) == truth

\* "column IS NULL OR ...".
OrNull(stored, truth) == IF stored = Null THEN "true" ELSE truth

\* =, or IN for a value of several texts, and ILIKE.
Literals(listing, c) == IF Single(c) \/ listing = "agents" THEN c.value ELSE {}
Equal(listing, c, stored) == Compared(stored, stored \in Literals(listing, c))
Like(c, stored) == Compared(stored, Single(c) /\ \E v \in c.value : Occurs(v, stored))

TextFragment(listing, c, stored) ==
    CASE c.op = "is_present"       -> Is(stored # Null)
      [] c.op = "is_not_present"   -> Is(stored = Null)
      [] c.op = "equal_to"         -> Equal(listing, c, stored)
      [] c.op = "not_equal_to"     -> OrNull(stored, Not(Equal(listing, c, stored)))
      [] c.op = "contains"         -> Like(c, stored)
      [] c.op = "does_not_contain" -> OrNull(stored, Not(Like(c, stored)))

\* A date or a number: "<>" stands alone.
ScalarFragment(c, stored) ==
    CASE c.op = "is_present"     -> Is(stored # Null)
      [] c.op = "is_not_present" -> Is(stored = Null)
      [] c.op = "equal_to"       -> Compared(stored, stored \in c.value)
      [] c.op = "not_equal_to"   -> Not(Compared(stored, stored \in c.value))

\* The tags are an array, never NULL and of no NULLs: "= ANY" and "EXISTS" over its elements.
AnyEqual(c, tags) == Is(Single(c) /\ c.value \subseteq tags)
AnyLike(c, tags) == Is(Single(c) /\ \E v \in c.value, tag \in tags : Occurs(v, tag))

TagsFragment(c, tags) ==
    CASE c.op = "is_present"       -> Is(tags # {})
      [] c.op = "is_not_present"   -> Is(tags = {})
      [] c.op = "equal_to"         -> AnyEqual(c, tags)
      [] c.op = "not_equal_to"     -> Not(AnyEqual(c, tags))
      [] c.op = "contains"         -> AnyLike(c, tags)
      [] c.op = "does_not_contain" -> Not(AnyLike(c, tags))

Fragment(listing, c, row) ==
    CASE c.column = "tags"                    -> TagsFragment(c, row.tags)
      [] c.column \in {"created_at", "timeout"} -> ScalarFragment(c, row[c.column])
      [] OTHER                                -> TextFragment(listing, c, row[c.column])

\* The clauses that are not left out.  One that is takes its glue with it.
Kept(listing, cs) == {i \in 1..Len(cs) : Applies(listing, cs[i])}

\* Clauses joined in one string, where AND binds before OR: k's run of ANDs.
Run(listing, cs, k) ==
    {i \in Kept(listing, cs) :
        \A m \in Kept(listing, cs) :
            (i < m /\ m <= k) \/ (k < m /\ m <= i) => cs[m].glue = "and"}

\* It is true when one of the runs is, and a run when each of its clauses is.
Condition(listing, cs, row) ==
    \/ Kept(listing, cs) = {}
    \/ \E k \in Kept(listing, cs) :
          \A i \in Run(listing, cs, k) : Fragment(listing, cs[i], row) = "true"

\* A query: the listing, its clauses, the search (blank is {}) and the tags of the older
\* parameter, any of which will do.
Matches(q, row) ==
    /\ q.search = {} \/ \E v \in q.search :
          \/ Occurs(v, row.name)
          \/ q.listing = "agents" /\ Occurs(v, row.description)
    /\ q.listing = "agents" \/ q.tags = {} \/ q.tags \cap row.tags # {}
    /\ Condition(q.listing, q.clauses, row)

\* The listing is answered 500.
Broken(q) == \E i \in 1..Len(q.clauses) : CastError(q.listing, q.clauses[i])
=============================================================================

----------------------------- MODULE MCListPages -----------------------------
(***************************************************************************)
(* A small instance of ListPages: queries that use every operator on each  *)
(* kind of column, and values that are no date, or several.                *)
(***************************************************************************)
EXTENDS ListPages, TLC

MCText == {"a", "ab"}
MCDate == {"d1", "d2"}
MCNumber == {"n1", "n2"}
MCWithin == {<<"a", "a">>, <<"ab", "ab">>, <<"a", "ab">>}
MCItem == {"x1", "x2", "x3"}

MCRowOf ==
    ("x1" :> [name |-> "a", description |-> Null, tags |-> {}, created_at |-> "d1",
              timeout |-> "n1"]) @@
    ("x2" :> [name |-> "ab", description |-> "a", tags |-> {"a"}, created_at |-> "d2",
              timeout |-> "n2"]) @@
    ("x3" :> [name |-> "ab", description |-> "ab", tags |-> {"a", "ab"}, created_at |-> Null,
              timeout |-> "n1"])

Plain(column, op, value) == [column |-> column, op |-> op, value |-> value, glue |-> "and"]

Ask(listing, clauses) ==
    [listing |-> listing, clauses |-> clauses, search |-> {}, tags |-> {}]

Or(c) == [c EXCEPT !.glue = "or"]

MCQueries ==
    {Ask("agents", <<>>),
     Ask("agents", <<Plain("name", "not_equal_to", {"a", "ab"}),
                     Or(Plain("description", "does_not_contain", {"ab"}))>>),
     Ask("agents", <<Plain("tags", "equal_to", {"a"}),
                     Plain("created_at", "not_equal_to", {"d1"}),
                     Or(Plain("name", "equal_to", {"a", "ab"})),
                     Plain("description", "not_equal_to", {"ab"})>>),
     Ask("agents", <<Plain("name", "equal_to", {"a"}),
                     Plain("created_at", "not_equal_to", {"d1", "d2"})>>),
     Ask("tools", <<Plain("created_at", "equal_to", {"d1", "d2"}),
                    Or(Plain("description", "contains", {"a"})),
                    Or(Plain("created_at", "not_equal_to", {"d1"}))>>),
     Ask("tools", <<Plain("name", "does_not_contain", {"ab"}),
                    Plain("description", "is_present", {}),
                    Or(Plain("tags", "contains", {"a"}))>>),
     [Ask("tools", <<Plain("timeout", "equal_to", {"n1"}),
                     Or(Plain("tags", "does_not_contain", {"ab"})),
                     Or(Plain("created_at", "equal_to", {"d1"}))>>)
        EXCEPT !.tags = {"a", "ab"}],
     Ask("servers", <<Plain("timeout", "not_equal_to", {"n1"}),
                      Or(Plain("description", "is_not_present", {})),
                      Plain("timeout", "equal_to", {"n1", "n2"}),
                      Plain("tags", "is_present", {})>>),
     Ask("servers", <<Plain("timeout", "equal_to", {"n2"}),
                      Plain("created_at", "not_equal_to", {"d1"}),
                      Or(Plain("tags", "is_not_present", {})),
                      Plain("timeout", "contains", {"n1"}),
                      Plain("description", "equal_to", {"ab"})>>),
     [Ask("servers", <<Plain("other", "equal_to", {"a"}), Plain("name", "contains", {}),
                       Or(Plain("tags", "equal_to", {"a"})),
                       Or(Plain("tags", "not_equal_to", {"ab"}))>>) EXCEPT !.search = {"a"}]}
=============================================================================

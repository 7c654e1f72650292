---------------------------- MODULE MCRulesStore ----------------------------
(***************************************************************************)
(* Values for TLC: a file written by hand and two rules posted to the API. *)
(***************************************************************************)
EXTENDS RulesStore

CONSTANTS t1, t2, c1

Rule(id, target, selector, action) ==
    [id |-> id, target |-> target, selector |-> selector, action |-> action]

MCStartFile == <<Rule("block-null-email", "column",
                      [tab |-> "dbo.Users", col |-> "Email"], "block")>>
MCStartProposed == <<Rule("trim-name", "column", [tab |-> None, col |-> "Name"],
                          "autocorrect")>>
MCPosted == {Model(Rule("no-orders", "pattern", <<"insert", "orders">>, "block")),
             [Model(Rule("users", "table", "dbo.Users", "block"))
                EXCEPT !.apply_in_envs = {"prod"}]}
=============================================================================

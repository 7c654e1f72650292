----------------------------- MODULE RuleTable -----------------------------
(***************************************************************************)
(* What the rules API promises of a table of rules in force and a table of *)
(* proposed ones: a request reads one content the table had and writes     *)
(* another, the first with one rule more or less.  It does not promise     *)
(* that the content read is still the latest one.                          *)
(***************************************************************************)
EXTENDS Selections

CONSTANTS
    Rule,           \* rules that may be added, records with an id
    Start,          \* the first content of the table
    Proposal        \* the first content of the table of proposals

VARIABLES
    tables,         \* contents of the table so far, the last one in force
    proposals       \* contents of the table of proposals

vars == <<tables, proposals>>

Init == tables = <<Start>> /\ proposals = <<Proposal>>

Ids(rules) == {rules[i].id : i \in DOMAIN rules}

Without(rules, id) == Selected(rules, {i \in DOMAIN rules : rules[i].id # id})

Added(rules)   == {Append(rules, r) : r \in {r \in Rule : r.id \notin Ids(rules)}}
Removed(rules) == {Without(rules, id) : id \in Ids(rules)}

Add ==
    /\ \E i \in DOMAIN tables : \E new \in Added(tables[i]) :
          tables' = Append(tables, new)
    /\ UNCHANGED proposals

Delete ==
    /\ \E i \in DOMAIN tables : \E new \in Removed(tables[i]) :
          tables' = Append(tables, new)
    /\ UNCHANGED proposals

Propose ==
    /\ \E i \in DOMAIN proposals : \E new \in Added(proposals[i]) :
          proposals' = Append(proposals, new)
    /\ UNCHANGED tables

Promote ==
    /\ \E i \in DOMAIN proposals : tables' = Append(tables, proposals[i])
    /\ UNCHANGED proposals

Next == Add \/ Delete \/ Propose \/ Promote

Spec == Init /\ [][Next]_vars
=============================================================================

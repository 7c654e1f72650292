---------------------------- MODULE PolicyEngine ----------------------------
(***************************************************************************)
(* The policy engine of src/policy: what a rules file loads into and which *)
(* rule decides an event.  The module holds operators only; the components *)
(* that load rules and ask for decisions extend it.                        *)
(*                                                                         *)
(* A rule is a record whose DOMAIN is the set of keys of its JSON object,  *)
(* so a key that is absent (or one the dataclass does not know) is told    *)
(* apart from a default value.  Selectors:                                 *)
(*   pattern  a sequence of text symbols,                                  *)
(*   table    a table,                                                     *)
(*   column   [tab |-> a table or None, col |-> a column]: None for a      *)
(*            selector without a dot.                                      *)
(* Case folding is left out: equal names are equal symbols.                *)
(***************************************************************************)
EXTENDS Selections

CONSTANTS
    None,           \* Python's None
    Environment     \* the ENVIRONMENT variable, or None

(***************************************************************************)
(* Keys and values a rules file may hold.                                  *)
(***************************************************************************)
Targets == {"table", "column", "pattern"}
Actions == {"allow", "block", "autocorrect"}

\* Fields of the dataclass Rule; the first four have no default.
RequiredFields == {"id", "target", "selector", "action"}
RuleFields     == RequiredFields \cup {"reason", "confidence", "enabled"}

(***************************************************************************)
(* load_rules: an object is kept when it passes the basic validation and   *)
(* the dataclass accepts its keys; any other is skipped without a trace.   *)
(***************************************************************************)
Loadable(r) ==
    /\ RequiredFields \subseteq DOMAIN r
    /\ r.target \in Targets
    /\ r.action \in Actions
    /\ DOMAIN r \subseteq RuleFields

LoadRules(file) == Selected(file, {i \in DOMAIN file : Loadable(file[i])})

(***************************************************************************)
(* Events the proxy builds: a statement, one value of a statement, one     *)
(* parameter of a procedure call.                                          *)
(***************************************************************************)
Statement(text) == [text |-> text, table |-> None, column |-> None]

ColumnValue(text, table, col) ==
    [text |-> text, table |-> table, column |-> [tab |-> table, col |-> col]]

Parameter(name) ==
    [text |-> <<>>, table |-> None, column |-> [tab |-> None, col |-> name]]

(***************************************************************************)
(* PolicyEngine.decide: the first rule, in file order, that is enabled,    *)
(* applies in this environment and matches the event.                      *)
(***************************************************************************)
Occurs(pattern, text) ==
    \E k \in 0..(Len(text) - Len(pattern)) :
        \A i \in 1..Len(pattern) : text[k + i] = pattern[i]

Enabled(r) == "enabled" \in DOMAIN r => r.enabled

InEnvironment(r) ==
    "apply_in_envs" \in DOMAIN r =>
        \/ r.apply_in_envs \in {None, {}}
        \/ Environment = None
        \/ Environment \in r.apply_in_envs

ColumnMatches(selector, column) ==
    IF selector.tab = None THEN selector.col = column.col ELSE selector = column

Matches(r, ev) ==
    \/ r.target = "table"   /\ ev.table # None  /\ r.selector = ev.table
    \/ r.target = "column"  /\ ev.column # None /\ ColumnMatches(r.selector, ev.column)
    \/ r.target = "pattern" /\ ev.text # <<>>   /\ Occurs(r.selector, ev.text)

Applies(r, ev) == Enabled(r) /\ InEnvironment(r) /\ Matches(r, ev)

Decide(rules, ev) ==
    LET hits == {i \in DOMAIN rules : Applies(rules[i], ev)}
    IN  IF hits = {}
        THEN [action |-> "allow", rule |-> None]
        ELSE LET first == CHOOSE i \in hits : \A j \in hits : i <= j
             IN  [action |-> rules[first].action, rule |-> rules[first].id]

(***************************************************************************)
(* get_rule: the index keeps the last rule of an id.                       *)
(***************************************************************************)
GetRule(rules, id) ==
    LET same == {i \in DOMAIN rules : rules[i].id = id}
    IN  rules[CHOOSE i \in same : \A j \in same : j <= i]

MinHits(r) == IF "min_hits_to_enforce" \in DOMAIN r THEN r.min_hits_to_enforce ELSE 0
=============================================================================

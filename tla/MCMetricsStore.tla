--------------------------- MODULE MCMetricsStore ---------------------------
(***************************************************************************)
(* Values for TLC: one rule that blocks, statements no rule is about, and  *)
(* one process that counts beside the proxy.                               *)
(***************************************************************************)
EXTENDS MetricsStore

MCRuleIds == {"no-delete"}
MCEvents  == {[rule |-> "no-delete", action |-> "block"],
              [rule |-> None, action |-> "allow"]}
MCMaxWork == [p \in Procs |-> IF p = Proxy THEN 2 ELSE 1]
=============================================================================

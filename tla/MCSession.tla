----------------------------- MODULE MCSession -----------------------------
(***************************************************************************)
(* Values for TLC: a statement that a rule blocks when its two words come  *)
(* in one read, and answers of the server.                                 *)
(***************************************************************************)
EXTENDS Session

CONSTANTS del, usr, row

MCRules == <<[id |-> "no-delete", target |-> "pattern", selector |-> <<del, usr>>,
              action |-> "block"]>>
MCKeywords == {del}
MCData == [p \in Peers |-> IF p = "client" THEN {del, usr} ELSE {row}]
MCMaxSent == [p \in Peers |-> IF p = "client" THEN 3 ELSE 1]
=============================================================================

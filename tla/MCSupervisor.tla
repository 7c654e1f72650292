---------------------------- MODULE MCSupervisor ----------------------------
(***************************************************************************)
(* Values for TLC: one statement, which writes one column; MCReports has   *)
(* more of them.                                                           *)
(***************************************************************************)
EXTENDS Supervisor

MCStatements == {<<"phone">>}
=============================================================================

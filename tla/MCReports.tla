------------------------------ MODULE MCReports -----------------------------
(***************************************************************************)
(* Values for TLC: two columns, an UPDATE of one of them, and an INSERT    *)
(* into both with an UPDATE of one behind it.                              *)
(***************************************************************************)
EXTENDS Reports

MCStatements == {<<"phone">>, <<"country", "phone", "phone">>}
=============================================================================

----------------------------- MODULE MCService -----------------------------
(***************************************************************************)
(* Values of Service's constants for TLC.                                  *)
(***************************************************************************)
EXTENDS Service

CONSTANTS FirstCall, SecondCall

TwoCalls == {FirstCall, SecondCall}
BothDatabases == {"pglite", "postgres"}

=============================================================================

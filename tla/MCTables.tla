------------------------------- MODULE MCTables -------------------------------
(* Model-checking instance of Tables: two servers.                           *)
EXTENDS Tables

CONSTANTS s1, s2

TwoServers == {s1, s2}
OneServer == {s1}
=============================================================================

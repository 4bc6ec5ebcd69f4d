----------------------------- MODULE MCMySQLLock -----------------------------
(* Model-checking instances of MySQLLock: interchangeable servers.           *)
EXTENDS MySQLLock, TLC

CONSTANTS n1, n2

TwoInstances == {n1, n2}
MCSymmetry == Permutations(TwoInstances)
=============================================================================

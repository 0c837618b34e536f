---------------------------- MODULE MCAccounts ----------------------------
(* Model values for the runs of Accounts.  Workers, cookies and codes are  *)
(* interchangeable: no action treats one of them in a way of its own.      *)
EXTENDS Accounts, TLC

CONSTANTS w1, w2, k1, k2, k3, k4, c1, c2, p1, p2, adm, ann

Symmetry == Permutations(Workers) \cup Permutations(Cookies) \cup Permutations(Codes)
=============================================================================

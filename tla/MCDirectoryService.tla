------------------------- MODULE MCDirectoryService -------------------------
(* Model values for the run of DirectoryService.                           *)
EXTENDS DirectoryService, TLC

CONSTANTS w1, w2, k1, k2, k3, k4, c1, p1, adm, ann, t1, x1, l1

Symmetry == Permutations(Workers) \cup Permutations(Cookies)
=============================================================================

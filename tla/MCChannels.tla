----------------------------- MODULE MCChannels -----------------------------
(* Small instances of Channels.                                            *)
EXTENDS Channels, TLC

CONSTANTS w1, w2, adm, ann, bob, t1, t2, x1, x2, p1, p2

Symmetry == Permutations({w1, w2}) \cup Permutations({t1, t2})
            \cup Permutations({x1, x2}) \cup Permutations({p1, p2})
=============================================================================

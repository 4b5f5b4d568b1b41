---------------------------- MODULE MCFileServer ----------------------------
(* Instances of FileServer for TLC.                                        *)
EXTENDS FileServer, TLC

CONSTANTS s1, s2, f1, f2, i1, i2, i3

MCSymmetry ==
    Permutations({s1, s2}) \union Permutations({f1, f2}) \union Permutations({i1, i2, i3})
=============================================================================

---------------------------- MODULE MCZmodemLink ----------------------------
\* Instances of ZmodemLink for TLC.
EXTENDS ZmodemLink, TLC

CONSTANTS f1, f2

PathSymmetry == Permutations(Paths)
=============================================================================

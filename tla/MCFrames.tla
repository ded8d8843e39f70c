------------------------------- MODULE MCFrames -------------------------------
\* Frames are alike, and so are addresses.
EXTENDS Frames, TLC

CONSTANTS f1, f2, a1, a2

MCFrame   == {f1, f2}
MCAddress == {a1, a2}
Symmetry  == Permutations(MCFrame) \cup Permutations(MCAddress)
=============================================================================

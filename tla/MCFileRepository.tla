-------------------------- MODULE MCFileRepository --------------------------
(* Instances of FileRepository for TLC.                                    *)
EXTENDS FileRepository, TLC

CONSTANTS i1, i2, i3, l1, l2, a

TwoIDs   == {i1, i2}
ThreeIDs == {i1, i2, i3}
TwoURLs  == {l1, l2}
OneUser  == {a}

\* No url is long; or one is, so that its line has no room for a user id.
NeverTooLong(rec) == FALSE
LongWithUser(rec) == rec.url = l2 /\ rec.user # Anonymous

Symmetry == Permutations(IDs) \cup Permutations(URLs)
IDSymmetry == Permutations(IDs)
=============================================================================

---------------------------- MODULE MCShortener ----------------------------
(* Instances of Shortener for TLC.                                         *)
EXTENDS Shortener, TLC

CONSTANTS i1, i2, i3, l1, l2, a, b, r1, r2, r3

ThreeIDs      == {i1, i2, i3}
TwoURLs       == {l1, l2}
OneUser       == {a}
TwoUsers      == {a, b}
TwoRequests   == {r1, r2}
ThreeRequests == {r1, r2, r3}

\* Batches of one url, and of two in both orders, with and without a repeated
\* url.  The batch of one is what can be stored with all its ids drawn anew
\* while another link takes up an id.
DistinctBatches == {<<l1>>, <<l2>>, <<l1, l2>>, <<l2, l1>>}
AllBatches      == {<<l1>>, <<l2>>} \cup (TwoURLs \X TwoURLs)

Symmetry == Permutations(IDs) \cup Permutations(URLs) \cup Permutations(Users)
              \cup Permutations(Requests)
=============================================================================

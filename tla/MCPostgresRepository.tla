------------------------ MODULE MCPostgresRepository ------------------------
(* An instance of PostgresRepository for TLC.                              *)
EXTENDS PostgresRepository

CONSTANTS c1, c2, c3, i1, i2, i3, l1, l2, a, b

ThreeCalls == {c1, c2, c3}
ThreeIDs   == {i1, i2, i3}
TwoURLs    == {l1, l2}
TwoUsers   == {a, b}

Of(i, l, u) == [id |-> i, url |-> l, user |-> u]

\* Two batches with the same urls in opposite order, of two users, with an id in
\* common; a url given twice; single links that meet both.
SomeBatches ==
  {<<Of(i1, l1, a), Of(i2, l2, a)>>, <<Of(i3, l2, b), Of(i1, l1, b)>>,
   <<Of(i1, l1, a), Of(i3, l1, a)>>, <<Of(i2, l1, b)>>, <<Of(i2, l2, a)>>}
=============================================================================

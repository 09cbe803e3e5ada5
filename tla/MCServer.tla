------------------------------ MODULE MCServer ------------------------------
(* An instance of Server for TLC.                                          *)
EXTENDS Server

CONSTANTS alice, bob, i1, i2, l1, l2

TwoClients    == {alice, bob}
TwoIDs        == {i1, i2}
TwoURLs       == {l1, l2}

NoCookies == [c \in TwoClients |-> IF c = alice THEN None ELSE Invalid]

Of(c, proto, op, us, is) ==
  [client |-> c, proto |-> proto, op |-> op, urls |-> us, ids |-> is]

\* Two clients create, resolve, list and delete the same links, over both protocols;
\* one link is created without a user when bob asks first.
SomeCalls ==
  {Of(alice, "http", "ShortenBatch", {l1, l2}, {}), Of(alice, "rpc", "ListUserURLs", {}, {}),
   Of(alice, "http", "DeleteUserURLs", {}, {i1, i2}), Of(bob, "rpc", "ShortenURL", {l1}, {}),
   Of(bob, "http", "ExpandURL", {}, {i1}), Of(bob, "http", "DeleteUserURLs", {}, {i1}),
   Of(alice, "rpc", "ExpandURL", {}, {i1})}
=============================================================================

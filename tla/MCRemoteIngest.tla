--------------------------- MODULE MCRemoteIngest ---------------------------
EXTENDS RemoteIngest

MCBadURI == <<"ftp", 0>>

Request(bucket, uris, keys, prefix) ==
  [bucket |-> bucket, uris |-> uris, keys |-> keys, prefix |-> prefix]

\* By URI, in one bucket and in two, with a bad one and with another bucket
\* beside; by bucket with keys, with a prefix, with both and with neither; with
\* URIs, keys that repeat them and a prefix; with blank keys, alone, beside a key
\* and beside a prefix; and what is rejected.
MCRequests == {
  Request("none", {<<"b1", 1>>, <<"b1", 2>>}, {}, FALSE),
  Request("none", {<<"b1", 1>>, <<"b2", 2>>}, {}, FALSE),
  Request("none", {<<"b1", 1>>, MCBadURI}, {}, FALSE),
  Request("b2", {<<"b1", 1>>}, {}, FALSE),
  Request("b1", {<<"b1", 1>>}, {1, 4}, FALSE),
  Request("none", {<<"b1", 1>>}, {2}, TRUE),
  Request("b1", {}, {1, 2}, FALSE),
  Request("b1", {}, {}, TRUE),
  Request("b1", {}, {Blank}, FALSE),
  Request("b1", {}, {Blank, 3}, FALSE),
  Request("b1", {}, {Blank}, TRUE),
  Request("b1", {}, {}, FALSE),
  Request("none", {}, {1}, TRUE)}

MCStores == {{"b1"} \X Keys, {<<"b1", 1>>, <<"b1", 2>>, <<"b2", 2>>}}
=============================================================================

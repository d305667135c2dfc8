------------------------------ MODULE MCSearch ------------------------------
EXTENDS Search, TLC

\* Lines with repetitions that differ in case, more lines than paths, a code
\* block, and nothing at all; a JSON object in one line and in two, with an
\* empty list and with an empty query, and one that is cut off.
MCAnswers == {<<"q1", "Q1", "_", "q2">>, <<"q2", "q1", "q3", "q4">>, <<"q3">>, <<>>,
              <<"fence", "q3", "q2", "fence">>, <<"json">>, <<"{", "list}">>, <<"empty">>,
              <<"blank">>, <<"fence", "cut", "q2">>}
MCQueriesOf == <<"json">> :> <<"q3", "q1", "q3", "q2", "q4">> @@
               <<"{", "list}">> :> <<"_", "q2">> @@
               <<"empty">> :> <<>> @@ <<"blank">> :> <<"_">>
MCLower == [q \in {"q", "q1", "Q1", "q2", "q3", "q4", "_", "fence", "json", "{", "list}", "empty", "blank", "cut"} |->
              IF q = "Q1" THEN "q1" ELSE q]

\* The rankings change as files are ingested.
MCVectorRanks == [q \in DOMAIN MCLower |->
  CASE q \in {"q1", "Q1"} -> {<<"a", "b", "c">>, <<"b", "a">>}
    [] q = "q2" -> {<<"c", "b">>}
    [] q = "q3" -> {<<>>, <<"d">>}
    [] OTHER -> {<<"a", "c", "e", "d">>}]
MCEntityRanks == [q \in DOMAIN MCLower |->
  CASE q \in {"q1", "Q1"} -> {<<"d", "b">>}
    [] q = "q2" -> {<<"e">>, <<"c", "e", "b">>}
    [] OTHER -> {<<"d", "a">>}]
=============================================================================

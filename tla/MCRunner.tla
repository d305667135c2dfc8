------------------------------ MODULE MCRunner ------------------------------
EXTENDS Runner

Row(id, doc, keys, offset, text) ==
  [id |-> id, doc |-> doc, keys |-> keys, offset |-> offset, text |-> text, valid |-> TRUE]

\* An importer that ensures the collection when it starts, with two goroutines,
\* and one that ensures it when it first writes.
MCProcOf == [g \in {"importer", "w1", "w2", "w3"} |-> IF g = "w3" THEN "p2" ELSE "p1"]

\* Two full batches, the first with two rows of one chunk, and then a bad line; a
\* file whose rows disagree on the document of a chunk; a file of one row.  The
\* last two share a partition.
MCRowsOf == [w \in {"w1", "w2", "w3"} |->
  CASE w = "w1" -> <<Row("a", "d", {"k1"}, 3, "t1"), Row("a", "d", {"k2"}, 1, "t2"),
                     Row("b", "d", {}, 0, "t3"), Row("c", "d", {"k1"}, 0, "t4"),
                     Row("f", "d", {}, 0, "t5"), Row("g", "d", {}, 0, "t6")>>
    [] w = "w2" -> <<Row("e", "d", {"k1"}, 0, "t7"), Row("e", "h", {"k2"}, 0, "t8")>>
    [] OTHER    -> <<Row("b", "h", {"k2"}, 0, "t9")>>]
MCPartitionOf == [w \in {"w1", "w2", "w3"} |-> IF w = "w1" THEN "_default" ELSE "north"]
=============================================================================

-------------------------- MODULE MCContentPaging --------------------------
EXTENDS ContentPaging

\* "z" is a letter of two bytes; "E" is the private-use rune of decimal.go.
MCRunes  == {"z", "9", ".", " ", "\n"}
MCWidth  == [r \in MCRunes \cup {"E"} |-> IF r = "z" THEN 2 ELSE 1]
MCWhite  == {" ", "\n"}
MCDigits == {"9"}

\* DefaultRecursiveSeparators, without the marks that behave as the full stop.
MCSeparators == <<<<"\n", "\n">>, <<"\n">>, <<".">>, <<" ">>, <<>>>>

NoOverlap == [size |-> 3, overlap |-> 0, keep |-> FALSE]
Kept      == [size |-> 3, overlap |-> 1, keep |-> TRUE]
Dropped   == [size |-> 3, overlap |-> 2, keep |-> FALSE]
MCOptions == {NoOverlap, Kept, Dropped}

\* keep_separator as configs/api.yaml has it, and as an operator may set it.
KeptWide      == [size |-> 4, overlap |-> 2, keep |-> TRUE]
MCOverlapping == {KeptWide, Dropped}
=============================================================================

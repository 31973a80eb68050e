--------------------------- MODULE MCSequentialHeaders ---------------------------
(* Values of the constants of SequentialHeaders.                             *)
EXTENDS SequentialHeaders, MCRangedInt

MCRank == [e \in Elements |-> CASE e = "one" -> 1 [] e = "two" -> 2
                                [] e = "deux" -> 2
                                [] e = "three" -> 3 [] OTHER -> 0]

MCSignatures == {<< >>, <<DefaultInt>>, <<IntParameter(-1, 1), BoolParameter>>,
                 <<BoolParameter, IntParameter(2, 3), IntParameter(0, 0)>>}

MCArguments == {-2, -1, 0, 1, 2, 3, 10, 11}

MCKeys == <<"key1", "key2", "key3">>

MCSequence == <<2, 1, 2>>

MCIndices == -1 .. 5

=============================================================================

--------------------------- MODULE MCConfigStore ---------------------------
(* ConfigStore with images of one to three cells on two pages. *)
EXTENDS ConfigStore, SequencesExt

MCValidImages == {<<"a">>, <<"a", "b">>, <<"b", "a", "a">>}
MCFactory == <<"a">>
(* The header and the first cell share page 0, as in the source. *)
MCPageOf == [i \in 1..3 |-> i \div 2]
MCChunks == BoundedSeq({"a", "b"}, 2)
MCTotals == 1..4
=============================================================================

----------------------------- MODULE MCInflate -----------------------------
(***************************************************************************)
(* Inflate with the streams that it is checked with: each kind of block,   *)
(* tables with every kind of run, copies that overlap and that cross the   *)
(* end of the window, and the ways in which a stream can be wrong.         *)
(***************************************************************************)
EXTENDS Inflate, Deflate

Header == <<<<"byte", 24>>, <<"byte", 25>>>> \* deflate, a window of 512 bytes
Good(tokens, limit) == [tokens |-> Header \o tokens, limit |-> limit, wrong |-> FALSE, off |-> 0,
                        trailing |-> <<>>]
Wrong(tokens, limit) == [Good(tokens, limit) EXCEPT !.wrong = TRUE]

(* Runs 0 to 4, 16, 17 and 18 have codes of 3 bits.  Two bits for the literals
   97 and 98, three for 99 and the end of block, two for a copy of 3 bytes;
   one bit for each of two distances, or two for each of four. *)
L == <<3, 3, 3, 3, 3, 0, 0, 0, 0, 0, 0, 0, 0, 0, 0, 0, 3, 3, 3>>
Literals == <<<<18, 97>>, <<2>>, <<2>>, <<3>>, <<18, 138>>, <<17, 10>>, <<17, 8>>, <<3>>, <<2>>>>
Two == <<"tables", L, 258, 2, Literals \o <<<<1>>, <<1>>>>>>
Four == <<"tables", L, 258, 4, Literals \o <<<<2>>, <<16, 3>>>>>>
(* A repetition that is too long, no code for the end of a block, and one with
   codes that do not use all bits. *)
TooLong == <<"tables", L, 258, 2, <<<<18, 138>>, <<18, 115>>, <<17, 8>>>>>>
NoEnd == <<"tables", L, 258, 2, <<<<18, 138>>, <<18, 120>>, <<1>>, <<1>>>>>>
Gaps == <<"tables", L, 258, 2, <<<<18, 97>>, <<2>>, <<18, 138>>, <<17, 10>>, <<17, 10>>, <<2>>, <<0>>, <<1>>, <<1>>>>>>

Dynamic == <<"block", 1, 2>>
Fixed == <<"block", 1, 1>>
End == <<"sym", 256>>
One == <<"sym", 1>>

Documents == <<
  Good(<<<<"block", 0, 0>>, <<"stored", 0>>, <<"block", 1, 0>>, <<"stored", 3>>,
         <<"data", 7>>, <<"data", 8>>, <<"data", 9>>>>, 3),
  Good(<<Fixed, <<"sym", 97>>, <<"sym", 200>>, <<"copy", 19, 2>>, <<"sym", 0>>, <<"copy", 5, 1>>, End>>, 27),
  Good(<<Dynamic, Two, <<"sym", 97>>, <<"sym", 99>>, <<"copy", 3, 2>>, <<"sym", 98>>, End>>, 6),
  Good(<<<<"block", 0, 2>>, Four, <<"sym", 98>>, End, Fixed, One, End>>, 2),
  Good(<<<<"block", 0, 1>>, One, <<"sym", 2>>, <<"copy", 258, 2>>, <<"copy", 251, 2>>, <<"sym", 3>>,
         <<"copy", 5, 512>>, End, <<"block", 1, 0>>, <<"stored", 1>>, <<"data", 4>>>>, 518),
  \* the header, the window, the type of a block, the length of a stored one
  [Wrong(<<>>, 1) EXCEPT !.tokens = <<<<"byte", 24>>, <<"byte", 26>>>>],
  [Wrong(<<>>, 1) EXCEPT !.tokens = <<<<"byte", 40>>, <<"byte", 21>>>>],
  Wrong(<<<<"block", 1, 3>>>>, 0),
  Wrong(<<<<"block", 1, 0>>, <<"byte", 1>>, <<"byte", 0>>, <<"byte", 255>>, <<"byte", 255>>>>, 0),
  \* a length, a distance and a copy that do not exist
  Wrong(<<Fixed, One, <<"sym", 286>>>>, 1),
  Wrong(<<Fixed, One, <<"sym", 257>>, <<"dist", 30>>>>, 1),
  Good(<<Fixed, One, <<"copy", 3, 2>>, End>>, 4),
  \* tables: too many symbols, a repetition of nothing and those above
  Wrong(<<Dynamic, <<"bits", 5, 30>>, <<"bits", 9, 0>>>>, 0),
  Wrong(<<Dynamic, <<"tables", L, 258, 2, <<>>>>, <<"bits", 3, 5>>>>, 0),
  Wrong(<<Dynamic, TooLong>>, 0),
  Wrong(<<Dynamic, NoEnd>>, 0),
  Wrong(<<Dynamic, Gaps, <<"sym", 97>>, <<"bits", 16, 65535>>>>, 1),
  \* more output than the image has, less, another checksum, bytes after the end
  Good(<<Fixed, One, <<"copy", 3, 1>>, End>>, 2),
  Good(<<Fixed, One, End>>, 2),
  [Good(<<Fixed, One, End>>, 1) EXCEPT !.off = 1],
  [Good(<<Fixed, One, End>>, 1) EXCEPT !.trailing = <<24, 25>>]>>

MCSent == <<>> \o [i \in 1..Len(Documents) |-> Stream(Documents[i])]
=============================================================================

----------------------------- MODULE ZlibStream -----------------------------
(***************************************************************************)
(* The zlib decoder, libs/od-uzlib/src/od_zlib_stream.c: what one step of  *)
(* it does with its state and with the input it was given.  A step reads   *)
(* one bit or one byte or copies one byte, and stops when the input ends   *)
(* inside of a code, a table or the checksum, so every place it can stop   *)
(* at is the end of a step.  The numbers are those of the code.            *)
(*                                                                         *)
(* Only valid pointers are passed and input_final is never set: the errors *)
(* for these are left out, as are those that no input reaches (a code      *)
(* length over 15, a tree larger than its storage, a symbol outside of     *)
(* it); InBounds of Inflate says that none does.                           *)
(***************************************************************************)
EXTENDS Integers, FiniteSets, Sequences

CONSTANT WindowBits \* OPENDISPLAY_ZLIB_WINDOW_BITS, 9

ASSUME ZlibStreamAssumption == WindowBits \in 9..15

WindowSize == 2^WindowBits

LengthBits == <<0, 0, 0, 0, 0, 0, 0, 0, 1, 1, 1, 1, 2, 2, 2, 2, 3, 3, 3, 3, 4, 4, 4, 4, 5, 5, 5, 5, 0>>
LengthBase == <<3, 4, 5, 6, 7, 8, 9, 10, 11, 13, 15, 17, 19, 23, 27, 31, 35, 43, 51, 59, 67, 83, 99,
                115, 131, 163, 195, 227, 258>>
DistBits == <<0, 0, 0, 0, 1, 1, 2, 2, 3, 3, 4, 4, 5, 5, 6, 6, 7, 7, 8, 8, 9, 9, 10, 10, 11, 11, 12, 12,
              13, 13>>
DistBase == <<1, 2, 3, 4, 5, 7, 9, 13, 17, 25, 33, 49, 65, 97, 129, 193, 257, 385, 513, 769, 1025,
              1537, 2049, 3073, 4097, 6145, 8193, 12289, 16385, 24577>>
ClcIdx == <<16, 17, 18, 0, 8, 7, 9, 6, 10, 5, 11, 4, 12, 3, 13, 2, 14, 1, 15>>

(* build_tree: how many symbols have a code of each length, and the symbols by
   length, those of one length in their order.  lengths is a function on
   0..n-1; a place is a symbol and how many come before it. *)
BuildTree(lengths) ==
  LET used == {v \in DOMAIN lengths : lengths[v] # 0}
      before(v) == {w \in used : lengths[w] < lengths[v] \/ (lengths[w] = lengths[v] /\ w < v)}
      places == {<<v, Cardinality(before(v))>> : v \in used}
  IN  [table |-> [l \in 1..15 |-> Cardinality({v \in used : lengths[v] = l})],
       trans |-> [i \in 1..Cardinality(used) |-> CHOOSE v \in used : <<v, i - 1>> \in places]]

NoTree == [table |-> <<>>, trans |-> <<>>]
FixedLiterals == BuildTree([v \in 0..287 |-> IF v \in 144..255 THEN 9
                                             ELSE IF v \in 256..279 THEN 7 ELSE 8])
FixedDistances == BuildTree([v \in 0..31 |-> 5])

(* What a reader keeps between two calls of it; one that is not active starts
   anew, whatever it was left with. *)
ReadBitsIdle == [active |-> FALSE, num |-> 0, pos |-> 0, base |-> 0, value |-> 0]
SymIdle == [active |-> FALSE, sum |-> 0, cur |-> 0, len |-> 0]

(* od_zlib_stream_reset.  The 16-bit stored_len and the 32-bit trailer_value
   are kept as the bytes they are read from, adler as its two halves. *)
Fresh(limit) ==
  [stage |-> "cmf", blockStage |-> "symbol", dynamicStage |-> "hlit",
   bitTag |-> 0, bitCount |-> 0, readBits |-> ReadBitsIdle, sym |-> SymIdle,
   cmf |-> 0, bfinal |-> 0, ltree |-> NoTree, tree |-> NoTree, lengths |-> [i \in 0..319 |-> 0],
   hlit |-> 0, hdist |-> 0, hclen |-> 0, dynI |-> 0, dynNum |-> 0, fill |-> 0,
   repeatBits |-> 0, repeatBase |-> 0, header |-> <<>>, storedLen |-> 0,
   matchLen |-> 0, matchOffset |-> 0, lengthSym |-> 0, distSym |-> 0,
   window |-> [i \in 0..(WindowSize - 1) |-> 0], windowPos |-> 0,
   expected |-> limit, count |-> 0, adler |-> <<1, 0>>, trailer |-> <<>>]

-----------------------------------------------------------------------------
(***************************************************************************)
(* How a step ends: it goes on, puts out a byte, needs more input, or      *)
(* fails.                                                                  *)
(***************************************************************************)
Goes(t) == [how |-> "goes", t |-> t, byte |-> 0]
(* mutant of Starves: a code cut by the end of a part starts again *)
StarvesAnew(t) == [how |-> "starves", t |-> [t EXCEPT !.sym = SymIdle], byte |-> 0]
Starves(t) == [how |-> "starves", t |-> t, byte |-> 0]
Fails(t) == [how |-> "fails", t |-> [t EXCEPT !.stage = "error"], byte |-> 0]

(* adler_update_byte *)
Adler(adler, byte) == LET s1 == (adler[1] + byte) % 65521 IN <<s1, (adler[2] + s1) % 65521>>

(* put_output_byte, into a buffer that has room *)
Puts(t, byte) ==
  IF t.count >= t.expected THEN Fails(t)
  ELSE [how |-> "puts", byte |-> byte,
        t |-> [t EXCEPT !.window[t.windowPos] = byte, !.windowPos = (@ + 1) % WindowSize,
                        !.count = @ + 1, !.adler = Adler(@, byte)]]

(***************************************************************************)
(* The readers: a result has the state after it, the input left, what was  *)
(* read, and how it ended: "got" it, "more" bits to come, out of "input",  *)
(* or an "error".                                                          *)
(***************************************************************************)
Read(rc, t, left, value) == [rc |-> rc, t |-> t, left |-> left, value |-> value]

ReadByte(s, input) == IF input = <<>> THEN Read("input", s, input, 0)
                      ELSE Read("got", s, Tail(input), Head(input))

ReadBit(s, input) ==
  LET byte == ReadByte(s, input)
  IN  IF s.bitCount > 0
      THEN Read("got", [s EXCEPT !.bitTag = @ \div 2, !.bitCount = @ - 1], input, s.bitTag % 2)
      ELSE IF input = <<>> THEN byte
      ELSE Read("got", [s EXCEPT !.bitTag = byte.value \div 2, !.bitCount = 7], byte.left, byte.value % 2)

(* read_bits, bit by bit: where it stopped is kept for the next call *)
ReadBits(s, input, num, base) ==
  LET r == IF s.readBits.active THEN s.readBits
           ELSE [active |-> TRUE, num |-> num, pos |-> 0, base |-> base, value |-> 0]
      bit == ReadBit([s EXCEPT !.readBits = r], input)
      pos == r.pos + 1
      value == r.value + bit.value * 2^r.pos
  IN  IF r.num = 0 THEN Read("got", [s EXCEPT !.readBits = ReadBitsIdle], input, r.base)
      ELSE IF bit.rc = "input" THEN bit
      ELSE IF pos < r.num
      THEN Read("more", [bit.t EXCEPT !.readBits = [r EXCEPT !.pos = pos, !.value = value]], bit.left, 0)
      ELSE Read("got", [bit.t EXCEPT !.readBits = ReadBitsIdle], bit.left, value + r.base)

(* decode_symbol, bit by bit *)
DecodeSymbol(s, input, tree) ==
  LET r == IF s.sym.active THEN s.sym ELSE [SymIdle EXCEPT !.active = TRUE]
      bit == ReadBit([s EXCEPT !.sym = r], input)
      len == r.len + 1
      sum == r.sum + tree.table[len]
      cur == 2 * r.cur + bit.value - tree.table[len]
  IN  IF bit.rc = "input" THEN bit
      ELSE IF len = 16 THEN Read("error", bit.t, bit.left, 0)
      ELSE IF cur >= 0
      THEN Read("more", [bit.t EXCEPT !.sym = [active |-> TRUE, sum |-> sum, cur |-> cur, len |-> len]],
                bit.left, 0)
      ELSE Read("got", [bit.t EXCEPT !.sym = SymIdle], bit.left, tree.trans[sum + cur + 1])

(* What is done with a result: Then says what with a value. *)
Leaving(o, left) == [how |-> o.how, t |-> o.t, byte |-> o.byte, left |-> left]
On(r, Then(_, _)) == Leaving(CASE r.rc = "got" -> Then(r.t, r.value)
                               [] r.rc = "more" -> Goes(r.t)
                               [] r.rc = "input" -> Starves(r.t)
                               [] r.rc = "error" -> Fails(r.t), r.left)

ResetCodeReaders(t) == [t EXCEPT !.readBits = ReadBitsIdle, !.sym = SymIdle]
(* mutant of EndOfBlock: an empty block is gone through again *)
EndOfBlockAgain(t) == [t EXCEPT !.blockStage = "symbol"]
EndOfBlock(t) == [t EXCEPT !.blockStage = "symbol",
                           !.stage = IF t.bfinal = 1 THEN "trailer" ELSE "final"]

-----------------------------------------------------------------------------
(***************************************************************************)
(* od_zlib_stream_poll, stage by stage.                                    *)
(***************************************************************************)
Cmf(s, input) ==
  On(ReadByte(s, input), LAMBDA t, byte: Goes([t EXCEPT !.cmf = byte, !.stage = "flg"]))

BadHeader(cmf, flg) == \/ (256 * cmf + flg) % 31 # 0
                       \/ cmf % 16 # 8
                       \/ (flg \div 32) % 2 = 1
                       \/ cmf \div 16 + 8 > WindowBits

Flg(s, input) ==
  On(ReadByte(s, input), LAMBDA t, byte: IF BadHeader(t.cmf, byte) THEN Fails(t)
                                         ELSE Goes([t EXCEPT !.stage = "final"]))

BlockFinal(s, input) ==
  On(ReadBit(s, input), LAMBDA t, bit: Goes([t EXCEPT !.bfinal = bit, !.stage = "type"]))

StartBlock(t, btype) ==
  CASE btype = 0 -> Goes([t EXCEPT !.bitCount = 0, !.header = <<>>, !.storedLen = 0, !.stage = "storedLen"])
    [] btype = 1 -> Goes([ResetCodeReaders(t) EXCEPT !.ltree = FixedLiterals, !.tree = FixedDistances,
                                                     !.blockStage = "symbol", !.stage = "blockData"])
    [] btype = 2 -> Goes([ResetCodeReaders(t) EXCEPT !.dynamicStage = "hlit", !.stage = "dynamicTrees"])
    [] OTHER -> Fails(t)
BlockType(s, input) == On(ReadBits(s, input, 2, 0), StartBlock)

(***************************************************************************)
(* process_dynamic_trees                                                   *)
(***************************************************************************)
Hlit(s, input) ==
  On(ReadBits(s, input, 5, 257), LAMBDA t, n: Goes([t EXCEPT !.hlit = n, !.dynamicStage = "hdist"]))
Hdist(s, input) ==
  On(ReadBits(s, input, 5, 1), LAMBDA t, n: Goes([t EXCEPT !.hdist = n, !.dynamicStage = "hclen"]))

(* DYN_HCLEN, DYN_CLEAR_CLEN; hdist is at most 32 by its five bits *)
Hclen(s, input) ==
  On(ReadBits(s, input, 4, 4), LAMBDA t, n:
       IF t.hlit > 286 THEN Fails(t)
       ELSE Goes([t EXCEPT !.hclen = n, !.dynI = 0, !.dynamicStage = "readClen",
                           !.lengths = [i \in DOMAIN @ |-> IF i < 19 THEN 0 ELSE @[i]]]))

(* DYN_READ_CLEN, DYN_BUILD_CLTREE *)
ReadClen(s, input) ==
  IF s.dynI < s.hclen
  THEN On(ReadBits(s, input, 3, 0),
          LAMBDA t, n: Goes([t EXCEPT !.lengths[ClcIdx[t.dynI + 1]] = n, !.dynI = @ + 1]))
  ELSE Leaving(Goes([ResetCodeReaders(s) EXCEPT !.tree = BuildTree([i \in 0..18 |-> s.lengths[i]]),
                                                !.dynNum = 0, !.dynamicStage = "readLengths"]), input)

Repeat(t, fill, bits, base) ==
  Goes([t EXCEPT !.fill = fill, !.repeatBits = bits, !.repeatBase = base, !.dynamicStage = "repeatBits"])

LengthSymbol(t, sym) ==
  CASE sym < 16 -> Goes([t EXCEPT !.lengths[t.dynNum] = sym, !.dynNum = @ + 1])
    [] sym = 16 -> IF t.dynNum = 0 THEN Fails(t) ELSE Repeat(t, t.lengths[t.dynNum - 1], 2, 3)
    [] sym = 17 -> Repeat(t, 0, 3, 3)
    [] sym = 18 -> Repeat(t, 0, 7, 11)
    [] OTHER -> Fails(t)

(* DYN_BUILD_TREES; the distances replace the code lengths in the union. *)
BuildTrees(s) ==
  IF s.lengths[256] = 0 THEN Fails(s)
  ELSE Goes([ResetCodeReaders(s) EXCEPT
               !.ltree = BuildTree([i \in 0..(s.hlit - 1) |-> s.lengths[i]]),
               !.tree = BuildTree([i \in 0..(s.hdist - 1) |-> s.lengths[s.hlit + i]]),
               !.dynamicStage = "hlit", !.blockStage = "symbol", !.stage = "blockData"])

ReadLengths(s, input) ==
  IF s.dynNum < s.hlit + s.hdist THEN On(DecodeSymbol(s, input, s.tree), LengthSymbol)
  ELSE Leaving(BuildTrees(s), input)

RepeatLengths(t, n) ==
  IF t.dynNum + n > t.hlit + t.hdist THEN Fails(t)
  ELSE Goes([t EXCEPT !.lengths = [i \in DOMAIN @ |-> IF i \in t.dynNum..(t.dynNum + n - 1)
                                                      THEN t.fill ELSE @[i]],
                      !.dynNum = @ + n, !.dynamicStage = "readLengths"])
RepeatBits(s, input) == On(ReadBits(s, input, s.repeatBits, s.repeatBase), RepeatLengths)

(***************************************************************************)
(* process_stored_header, process_stored_data                              *)
(***************************************************************************)
StoredLen(s, input) ==
  On(ReadByte(s, input), LAMBDA t, byte:
       LET h == Append(t.header, byte)
       IN  IF Len(h) < 4 THEN Goes([t EXCEPT !.header = h])
           ELSE IF h[1] + h[3] # 255 \/ h[2] + h[4] # 255 THEN Fails(t)
           ELSE Goes([t EXCEPT !.header = <<>>, !.storedLen = h[1] + 256 * h[2], !.stage = "storedData"]))

StoredData(s, input) ==
  IF s.storedLen = 0 THEN Leaving(Goes(EndOfBlock(s)), input)
  ELSE On(ReadByte(s, input), LAMBDA t, byte:
            Puts([IF t.storedLen = 1 THEN EndOfBlock(t) ELSE t EXCEPT !.storedLen = @ - 1], byte))

(***************************************************************************)
(* process_block_data                                                      *)
(***************************************************************************)
BlockSymbol(t, sym) ==
  IF sym < 256 THEN Puts(t, sym)
  ELSE IF sym = 256 THEN Goes(EndOfBlock(t))
  ELSE IF sym - 257 >= 29 THEN Fails(t)
  ELSE Goes([t EXCEPT !.lengthSym = sym - 257, !.blockStage = "lenExtra"])
Symbol(s, input) == On(DecodeSymbol(s, input, s.ltree), BlockSymbol)

LenExtra(s, input) ==
  On(ReadBits(s, input, LengthBits[s.lengthSym + 1], LengthBase[s.lengthSym + 1]),
     LAMBDA t, n: Goes([t EXCEPT !.matchLen = n, !.blockStage = "distSymbol"]))

DistSymbol(s, input) ==
  On(DecodeSymbol(s, input, s.tree), LAMBDA t, sym:
       IF sym >= 30 THEN Fails(t) ELSE Goes([t EXCEPT !.distSym = sym, !.blockStage = "distExtra"]))

(* mutant of Distance: what is in the window from before the image *)
DistanceInWindow(t, n) ==
  IF n > WindowSize THEN Fails(t) ELSE Goes([t EXCEPT !.matchOffset = n, !.blockStage = "matchCopy"])
Distance(t, n) ==
  IF n > WindowSize \/ n > t.count THEN Fails(t)
  ELSE Goes([t EXCEPT !.matchOffset = n, !.blockStage = "matchCopy"])
DistExtra(s, input) ==
  On(ReadBits(s, input, DistBits[s.distSym + 1], DistBase[s.distSym + 1]), Distance)

Source(s) == (s.windowPos + WindowSize - s.matchOffset) % WindowSize

MatchCopy(s, input) ==
  Leaving(Puts([s EXCEPT !.matchLen = @ - 1, !.blockStage = IF s.matchLen = 1 THEN "symbol" ELSE @],
               s.window[Source(s)]), input)

(***************************************************************************)
(* process_trailer                                                         *)
(***************************************************************************)
(* mutant of Complete: bytes after the stream are not noticed *)
CompleteTrailing(t, trailer, left) ==
  /\ trailer = <<t.adler[2] \div 256, t.adler[2] % 256, t.adler[1] \div 256, t.adler[1] % 256>>
  /\ t.count = t.expected

Complete(t, trailer, left) ==
  /\ trailer = <<t.adler[2] \div 256, t.adler[2] % 256, t.adler[1] \div 256, t.adler[1] % 256>>
  /\ t.count = t.expected
  /\ left = <<>>

Trailer(s, input) ==
  LET r == ReadByte(s, input)
  IN  On(r, LAMBDA t, byte:
            LET trailer == Append(t.trailer, byte)
            IN  IF Len(trailer) < 4 THEN Goes([t EXCEPT !.trailer = trailer])
                ELSE IF Complete(t, trailer, r.left) THEN Goes([t EXCEPT !.stage = "done"])
                ELSE Fails(t))

-----------------------------------------------------------------------------
Tables(s, input) ==
  CASE s.dynamicStage = "hlit" -> Hlit(s, input)
    [] s.dynamicStage = "hdist" -> Hdist(s, input)
    [] s.dynamicStage = "hclen" -> Hclen(s, input)
    [] s.dynamicStage = "readClen" -> ReadClen(s, input)
    [] s.dynamicStage = "readLengths" -> ReadLengths(s, input)
    [] s.dynamicStage = "repeatBits" -> RepeatBits(s, input)

BlockData(s, input) ==
  CASE s.blockStage = "symbol" -> Symbol(s, input)
    [] s.blockStage = "lenExtra" -> LenExtra(s, input)
    [] s.blockStage = "distSymbol" -> DistSymbol(s, input)
    [] s.blockStage = "distExtra" -> DistExtra(s, input)
    [] s.blockStage = "matchCopy" -> MatchCopy(s, input)

(* One step of od_zlib_stream_poll, before the end of the stream. *)
Step(s, input) ==
  CASE s.stage = "cmf" -> Cmf(s, input)
    [] s.stage = "flg" -> Flg(s, input)
    [] s.stage = "final" -> BlockFinal(s, input)
    [] s.stage = "type" -> BlockType(s, input)
    [] s.stage = "dynamicTrees" -> Tables(s, input)
    [] s.stage = "storedLen" -> StoredLen(s, input)
    [] s.stage = "storedData" -> StoredData(s, input)
    [] s.stage = "blockData" -> BlockData(s, input)
    [] s.stage = "trailer" -> Trailer(s, input)
=============================================================================

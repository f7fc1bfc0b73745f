--------------------------- MODULE InflateProofs ---------------------------
(***************************************************************************)
(* The proofs about Inflate.                                               *)
(***************************************************************************)
EXTENDS Inflate, SequenceTheorems, FiniteSetTheorems, TLAPS

(***************************************************************************)
(* The decoder's state as a record: its fields, and readers that have read *)
(* a number of bits.                                                       *)
(***************************************************************************)
Fields == {"stage", "blockStage", "dynamicStage", "bitTag", "bitCount", "readBits", "sym", "cmf",
           "bfinal", "ltree", "tree", "lengths", "hlit", "hdist", "hclen", "dynI", "dynNum", "fill",
           "repeatBits", "repeatBase", "header", "storedLen", "matchLen", "matchOffset", "lengthSym",
           "distSym", "window", "windowPos", "expected", "count", "adler", "trailer"}
Shaped(t) == DOMAIN t = Fields /\ t = [f \in Fields |-> t[f]]

(* A reader that has begun has read a bit. *)
Clean(t) == /\ Shaped(t)
            /\ t.readBits = ReadBitsIdle \/ (t.readBits.active /\ t.readBits.pos \in Nat \ {0})
            /\ t.sym = SymIdle \/ (t.sym.active /\ t.sym.len \in Nat \ {0})

Input == Seq(0..255)
-----------------------------------------------------------------------------
(***************************************************************************)
(* The readers.                                                            *)
(***************************************************************************)
Ends == {"got", "more", "error", "input"}

(* Two results that differ in what is left of the input at most. *)
Alike(a, b) == a.rc = b.rc /\ a.t = b.t /\ a.value = b.value

(* A reader uses the input only when it fails without, and then takes one byte:
   none is its result without input, one that with the first byte of i, and r
   that with i. *)
ReaderCut(none, one, r, i) ==
  /\ none.rc \in Ends /\ one.rc \in Ends /\ r.rc \in Ends
  /\ none.rc # "input" => Alike(r, none) /\ r.left = i
  /\ none.rc = "input" /\ i # <<>> => Alike(r, one) /\ r.left = Tail(i) /\ one.rc # "input"
  /\ none.rc = "input" => none.left = <<>>

LEMMA ReadByteCut ==
  ASSUME NEW t, NEW i \in Input
  PROVE  ReaderCut(ReadByte(t, <<>>), ReadByte(t, <<Head(i)>>), ReadByte(t, i), i)
BY DEF ReadByte, Read, Alike, ReaderCut, Input, Ends

LEMMA ReadBitCut ==
  ASSUME NEW t, NEW i \in Input
  PROVE  /\ ReaderCut(ReadBit(t, <<>>), ReadBit(t, <<Head(i)>>), ReadBit(t, i), i)
         /\ ReadBit(t, i).rc \in {"got", "input"}
         /\ ReadBit(t, i).rc = "input" => i = <<>> /\ ReadBit(t, i).t = t
BY DEF ReadBit, ReadByte, Read, Alike, ReaderCut, Input, Ends

LEMMA ReadBitsCut ==
  ASSUME NEW t, NEW i \in Input, NEW num, NEW base
  PROVE  ReaderCut(ReadBits(t, <<>>, num, base), ReadBits(t, <<Head(i)>>, num, base), ReadBits(t, i, num, base), i)
<1> DEFINE r == IF t.readBits.active THEN t.readBits
                ELSE [active |-> TRUE, num |-> num, pos |-> 0, base |-> base, value |-> 0]
           u == [t EXCEPT !.readBits = r]
<1>1. ReaderCut(ReadBit(u, <<>>), ReadBit(u, <<Head(i)>>), ReadBit(u, i), i)
  BY ReadBitCut
<1> HIDE DEF u
<1>3. \A j: ReadBits(t, j, num, base) =
              LET bit == ReadBit(u, j)
                  pos == r.pos + 1
                  value == r.value + bit.value * 2^r.pos
              IN  IF r.num = 0 THEN Read("got", [t EXCEPT !.readBits = ReadBitsIdle], j, r.base)
                  ELSE IF bit.rc = "input" THEN bit
                  ELSE IF pos < r.num
                  THEN Read("more", [bit.t EXCEPT !.readBits = [r EXCEPT !.pos = pos, !.value = value]], bit.left, 0)
                  ELSE Read("got", [bit.t EXCEPT !.readBits = ReadBitsIdle], bit.left, value + r.base)
  BY DEF ReadBits, u
<1> HIDE DEF r
<1>4. CASE r.num = 0
  <2>1. \A j: ReadBits(t, j, num, base) = Read("got", [t EXCEPT !.readBits = ReadBitsIdle], j, r.base)
    BY <1>3, <1>4
  <2> QED BY <2>1 DEF ReaderCut, Alike, Read, Ends
<1>5. CASE r.num # 0
  <2> DEFINE Made(bit) == IF bit.rc = "input" THEN bit
                          ELSE IF r.pos + 1 < r.num
                  THEN Read("more", [bit.t EXCEPT !.readBits = [r EXCEPT !.pos = r.pos + 1, !.value = r.value + bit.value * 2^r.pos]], bit.left, 0)
                  ELSE Read("got", [bit.t EXCEPT !.readBits = ReadBitsIdle], bit.left, r.value + bit.value * 2^r.pos + r.base)
  <2>1. \A j: ReadBits(t, j, num, base) = Made(ReadBit(u, j))
    BY <1>3, <1>5
  <2>2. \A a, b: Alike(a, b) /\ a.rc # "input" => Alike(Made(a), Made(b)) /\ Made(a).left = a.left /\ Made(a).rc \in {"got", "more"}
    BY DEF Alike, Read
  <2>3. \A a : a.rc = "input" => Made(a) = a
    OBVIOUS
  <2> HIDE DEF Made
  <2> QED BY <1>1, <2>1, <2>2, <2>3 DEF ReaderCut, Alike, Ends
<1> QED BY <1>4, <1>5

LEMMA DecodeSymbolCut ==
  ASSUME NEW t, NEW i \in Input, NEW tree
  PROVE  ReaderCut(DecodeSymbol(t, <<>>, tree), DecodeSymbol(t, <<Head(i)>>, tree), DecodeSymbol(t, i, tree), i)
<1> DEFINE r == IF t.sym.active THEN t.sym ELSE [SymIdle EXCEPT !.active = TRUE]
           u == [t EXCEPT !.sym = r]
           len == r.len + 1
           sum == r.sum + tree.table[len]
           cur(bit) == 2 * r.cur + bit.value - tree.table[len]
           Made(bit) ==
             IF bit.rc = "input" THEN bit
             ELSE IF len = 16 THEN Read("error", bit.t, bit.left, 0)
             ELSE IF cur(bit) >= 0
             THEN Read("more", [bit.t EXCEPT !.sym = [active |-> TRUE, sum |-> sum, cur |-> cur(bit), len |-> len]],
                       bit.left, 0)
             ELSE Read("got", [bit.t EXCEPT !.sym = SymIdle], bit.left, tree.trans[sum + cur(bit) + 1])
<1>1. ReaderCut(ReadBit(u, <<>>), ReadBit(u, <<Head(i)>>), ReadBit(u, i), i)
  BY ReadBitCut
<1>2. \A j: DecodeSymbol(t, j, tree) = Made(ReadBit(u, j))
  BY DEF DecodeSymbol
<1>3. \A a, b: Alike(a, b) /\ a.rc # "input" =>
                 Alike(Made(a), Made(b)) /\ Made(a).left = a.left /\ Made(a).rc \in {"got", "more", "error"}
  <2> HIDE DEF r, sum, len, cur
  <2> SUFFICES ASSUME NEW a, NEW b, Alike(a, b), a.rc # "input"
               PROVE  /\ Alike(Made(a), Made(b))
                      /\ Made(a).left = a.left /\ Made(a).rc \in {"got", "more", "error"}
    OBVIOUS
  <2>1. cur(a) = cur(b)
    BY DEF Alike, cur
  <2>2. CASE len = 16
    BY <2>2 DEF Alike, Read
  <2>3. CASE len # 16 /\ cur(a) >= 0
    BY <2>1, <2>3 DEF Alike, Read
  <2>4. CASE len # 16 /\ ~(cur(a) >= 0)
    BY <2>1, <2>4 DEF Alike, Read
  <2> QED BY <2>2, <2>3, <2>4
<1>4. \A a: a.rc = "input" => Made(a) = a
  OBVIOUS
<1> HIDE DEF Made, u
<1> QED BY <1>1, <1>2, <1>3, <1>4 DEF ReaderCut, Alike, Ends

-----------------------------------------------------------------------------
(***************************************************************************)
(* Stopping inside of a reader and coming back to it.                      *)
(***************************************************************************)
(* What readers leave as it was. *)
Others == Fields \ {"bitTag", "bitCount", "readBits", "sym"}

(* A reader that gets no input stops where it is. *)
Stopped(t, i, u) == i = <<>> /\ Unread(u) = t /\ \A f \in Others: u[f] = t[f]

LEMMA CleanIsUnread == ASSUME NEW t, Clean(t) PROVE Unread(t) = t
BY DEF Clean, Shaped, Fields, Unread, ReadBitsIdle, SymIdle

LEMMA ReadByteStops ==
  ASSUME NEW t, Clean(t), NEW i \in Input, ReadByte(t, i).rc = "input"
  PROVE  ReadByte(t, i).t = t /\ Stopped(t, i, t)
BY CleanIsUnread DEF ReadByte, Read, Stopped

LEMMA ReadBitStops ==
  ASSUME NEW t, Clean(t), NEW i \in Input, ReadBit(t, i).rc = "input"
  PROVE  ReadBit(t, i).t = t /\ Stopped(t, i, t)
BY CleanIsUnread, ReadBitCut DEF Stopped

LEMMA ReadBitsStops ==
  ASSUME NEW t, Clean(t), NEW i \in Input, NEW num, NEW base, ReadBits(t, i, num, base).rc = "input"
  PROVE  /\ Stopped(t, i, ReadBits(t, i, num, base).t)
         /\ \A j, n, b: ReadBits(ReadBits(t, i, num, base).t, j, n, b) = ReadBits(t, j, num, base)
<1> DEFINE r == IF t.readBits.active THEN t.readBits
                ELSE [active |-> TRUE, num |-> num, pos |-> 0, base |-> base, value |-> 0]
           u == [t EXCEPT !.readBits = r]
           Made(j) == LET bit == ReadBit(u, j)
                          pos == r.pos + 1
                          value == r.value + bit.value * 2^r.pos
                      IN  IF r.num = 0 THEN Read("got", [t EXCEPT !.readBits = ReadBitsIdle], j, r.base)
                          ELSE IF bit.rc = "input" THEN bit
                          ELSE IF pos < r.num
                          THEN Read("more", [bit.t EXCEPT !.readBits = [r EXCEPT !.pos = pos, !.value = value]], bit.left, 0)
                          ELSE Read("got", [bit.t EXCEPT !.readBits = ReadBitsIdle], bit.left, value + r.base)
<1>1. \A j: ReadBits(t, j, num, base) = Made(j)
  BY DEF ReadBits
<1>2. r.num # 0 /\ ReadBit(u, i).rc = "input" /\ ReadBits(t, i, num, base) = ReadBit(u, i)
  <2>1. Made(i).rc = "input"
    <3> HIDE DEF Made, r, u
    <3> QED BY <1>1
  <2> HIDE DEF r, u
  <2> QED BY <1>1, <2>1 DEF Read
<1>3. i = <<>> /\ ReadBits(t, i, num, base).t = u
  <2> HIDE DEF r, u, Made
  <2> QED BY <1>2, ReadBitCut
<1>4. u.readBits = r /\ r.active
  BY DEF Clean, Shaped, Fields
<1>5. [u EXCEPT !.readBits = r] = u
  BY DEF Clean, Shaped, Fields
<1>6. \A j, n, b: ReadBits(u, j, n, b) = Made(j)
  <2> SUFFICES ASSUME NEW j, NEW n, NEW b PROVE ReadBits(u, j, n, b) = Made(j)
    OBVIOUS
  <2> HIDE DEF r, u
  <2> QED BY <1>2, <1>4, <1>5 DEF ReadBits
<1>7. Unread(u) = t
  BY DEF Clean, Shaped, Fields, Unread, ReadBitsIdle, SymIdle
<1>8. \A f \in Others: u[f] = t[f]
  BY DEF Clean, Shaped, Others, Fields
<1> HIDE DEF Made, u, r
<1>9. \A j, n, b: ReadBits(u, j, n, b) = ReadBits(t, j, num, base)
  BY <1>1, <1>6
<1> QED BY <1>3, <1>7, <1>8, <1>9 DEF Stopped

LEMMA DecodeSymbolStops ==
  ASSUME NEW t, Clean(t), NEW i \in Input, NEW tree, DecodeSymbol(t, i, tree).rc = "input"
  PROVE  /\ Stopped(t, i, DecodeSymbol(t, i, tree).t)
         /\ \A j: DecodeSymbol(DecodeSymbol(t, i, tree).t, j, tree) = DecodeSymbol(t, j, tree)
<1> DEFINE r == IF t.sym.active THEN t.sym ELSE [SymIdle EXCEPT !.active = TRUE]
           u == [t EXCEPT !.sym = r]
           len == r.len + 1
           sum == r.sum + tree.table[len]
           Made(j) ==
             LET bit == ReadBit(u, j)
                 cur == 2 * r.cur + bit.value - tree.table[len]
             IN  IF bit.rc = "input" THEN bit
                 ELSE IF len = 16 THEN Read("error", bit.t, bit.left, 0)
                 ELSE IF cur >= 0
                 THEN Read("more", [bit.t EXCEPT !.sym = [active |-> TRUE, sum |-> sum, cur |-> cur, len |-> len]],
                           bit.left, 0)
                 ELSE Read("got", [bit.t EXCEPT !.sym = SymIdle], bit.left, tree.trans[sum + cur + 1])
<1>1. \A j: DecodeSymbol(t, j, tree) = Made(j)
  BY DEF DecodeSymbol
<1>2. ReadBit(u, i).rc = "input" /\ DecodeSymbol(t, i, tree) = ReadBit(u, i)
  <2>1. Made(i).rc = "input"
    <3> HIDE DEF Made, r, u, len, sum
    <3> QED BY <1>1
  <2> HIDE DEF r, u, len, sum
  <2> QED BY <1>1, <2>1 DEF Read
<1>3. i = <<>> /\ DecodeSymbol(t, i, tree).t = u
  <2> HIDE DEF r, u, Made, len, sum
  <2> QED BY <1>2, ReadBitCut
<1>4. u.sym = r /\ r.active
  BY DEF Clean, Shaped, Fields, SymIdle
<1>5. [u EXCEPT !.sym = r] = u
  BY DEF Clean, Shaped, Fields
<1>6. \A j: DecodeSymbol(u, j, tree) = Made(j)
  <2> SUFFICES ASSUME NEW j PROVE DecodeSymbol(u, j, tree) = Made(j)
    OBVIOUS
  <2> HIDE DEF r, u
  <2> QED BY <1>4, <1>5 DEF DecodeSymbol
<1>7. Unread(u) = t
  BY DEF Clean, Shaped, Fields, Unread, ReadBitsIdle, SymIdle
<1>8. \A f \in Others: u[f] = t[f]
  BY DEF Clean, Shaped, Others, Fields
<1> HIDE DEF Made, u, r, len, sum
<1>9. \A j: DecodeSymbol(u, j, tree) = DecodeSymbol(t, j, tree)
  BY <1>1, <1>6
<1> QED BY <1>3, <1>7, <1>8, <1>9 DEF Stopped

LEMMA ReadByteKeeps ==
  ASSUME NEW t, NEW i
  PROVE  ReadByte(t, i).t = t
BY DEF ReadByte, Read

LEMMA ReadBitKeeps ==
  ASSUME NEW t, Shaped(t), NEW i
  PROVE  /\ Shaped(ReadBit(t, i).t)
         /\ ReadBit(t, i).t.readBits = t.readBits /\ ReadBit(t, i).t.sym = t.sym
         /\ \A f \in Others: ReadBit(t, i).t[f] = t[f]
         /\ Clean(t) => Clean(ReadBit(t, i).t)
<1>1. CASE ReadBit(t, i).t = t
  BY <1>1
<1>2. ASSUME NEW a, NEW b, ReadBit(t, i).t = [t EXCEPT !.bitTag = a, !.bitCount = b]
      PROVE  /\ Shaped(ReadBit(t, i).t)
             /\ ReadBit(t, i).t.readBits = t.readBits /\ ReadBit(t, i).t.sym = t.sym
             /\ \A f \in Others: ReadBit(t, i).t[f] = t[f]
             /\ Clean(t) => Clean(ReadBit(t, i).t)
  <2>1. /\ Shaped(ReadBit(t, i).t)
        /\ ReadBit(t, i).t.readBits = t.readBits /\ ReadBit(t, i).t.sym = t.sym
        /\ \A f \in Others: ReadBit(t, i).t[f] = t[f]
    BY <1>2 DEF Shaped, Others, Fields
  <2> QED BY <2>1 DEF Clean
<1>3. CASE t.bitCount > 0
  <2>1. ReadBit(t, i) = Read("got", [t EXCEPT !.bitTag = @ \div 2, !.bitCount = @ - 1], i, t.bitTag % 2)
    BY <1>3 DEF ReadBit
  <2>2. ReadBit(t, i).t = [t EXCEPT !.bitTag = @ \div 2, !.bitCount = @ - 1]
    BY <2>1 DEF Read
  <2> QED BY <1>2, <2>2
<1>4. CASE ~(t.bitCount > 0) /\ i = <<>>
  BY <1>1, <1>4 DEF ReadBit, ReadByte, Read
<1>5. CASE ~(t.bitCount > 0) /\ i # <<>>
  <2> DEFINE b == ReadByte(t, i)
  <2>1. ReadBit(t, i) = Read("got", [t EXCEPT !.bitTag = b.value \div 2, !.bitCount = 7], b.left, b.value % 2)
    BY <1>5 DEF ReadBit
  <2> HIDE DEF b
  <2>2. ReadBit(t, i).t = [t EXCEPT !.bitTag = b.value \div 2, !.bitCount = 7]
    BY <2>1 DEF Read
  <2> QED BY <1>2, <2>2
<1> QED BY <1>3, <1>4, <1>5

LEMMA ReadBitsKeeps ==
  ASSUME NEW t, Clean(t), NEW i, NEW num, NEW base, ReadBits(t, i, num, base).rc # "input"
  PROVE  /\ Clean(ReadBits(t, i, num, base).t)
         /\ \A f \in Others: ReadBits(t, i, num, base).t[f] = t[f]
<1> DEFINE r == IF t.readBits.active THEN t.readBits
                ELSE [active |-> TRUE, num |-> num, pos |-> 0, base |-> base, value |-> 0]
           u == [t EXCEPT !.readBits = r]
           bit == ReadBit(u, i)
           pos == r.pos + 1
           value == r.value + bit.value * 2^r.pos
<1>1. ReadBits(t, i, num, base) =
        IF r.num = 0 THEN Read("got", [t EXCEPT !.readBits = ReadBitsIdle], i, r.base)
        ELSE IF bit.rc = "input" THEN bit
        ELSE IF pos < r.num
        THEN Read("more", [bit.t EXCEPT !.readBits = [r EXCEPT !.pos = pos, !.value = value]], bit.left, 0)
        ELSE Read("got", [bit.t EXCEPT !.readBits = ReadBitsIdle], bit.left, value + r.base)
  BY DEF ReadBits
<1>2. Shaped(u) /\ u.sym = t.sym /\ \A f \in Others: u[f] = t[f]
  BY DEF Clean, Shaped, Others, Fields
<1>3. Shaped(bit.t) /\ bit.t.sym = t.sym /\ \A f \in Others: bit.t[f] = t[f]
  <2> HIDE DEF u
  <2> QED BY <1>2, ReadBitKeeps
<1>4. /\ r.active /\ r.pos \in Nat
      /\ [r EXCEPT !.pos = pos, !.value = value].active
      /\ [r EXCEPT !.pos = pos, !.value = value].pos = r.pos + 1
  BY DEF Clean, ReadBitsIdle
<1> HIDE DEF r, u, bit, pos, value
<1>5. ASSUME NEW w, Shaped(w), w.sym = t.sym, \A f \in Others: w[f] = t[f], NEW q,
             q = ReadBitsIdle \/ (q.active /\ q.pos \in Nat \ {0})
      PROVE  Clean([w EXCEPT !.readBits = q]) /\ \A f \in Others: [w EXCEPT !.readBits = q][f] = t[f]
  BY <1>5 DEF Clean, Shaped, Others, Fields
<1>6. CASE r.num = 0
  <2>1. ReadBits(t, i, num, base) = Read("got", [t EXCEPT !.readBits = ReadBitsIdle], i, r.base)
    BY <1>1, <1>6
  <2>2. ReadBits(t, i, num, base).t = [t EXCEPT !.readBits = ReadBitsIdle]
    BY <2>1 DEF Read
  <2> QED BY <1>5, <2>2 DEF Clean
<1>7. CASE r.num # 0 /\ pos < r.num
  <2> DEFINE q == [r EXCEPT !.pos = pos, !.value = value]
  <2>1. ReadBits(t, i, num, base) = Read("more", [bit.t EXCEPT !.readBits = q], bit.left, 0)
    BY <1>1, <1>7 DEF Read
  <2>2. ReadBits(t, i, num, base).t = [bit.t EXCEPT !.readBits = q]
    BY <2>1 DEF Read
  <2>3. q.active /\ q.pos \in Nat \ {0}
    BY <1>4
  <2> HIDE DEF q
  <2> QED BY <1>3, <1>5, <2>2, <2>3
<1>8. CASE r.num # 0 /\ ~(pos < r.num)
  <2>1. ReadBits(t, i, num, base) = Read("got", [bit.t EXCEPT !.readBits = ReadBitsIdle], bit.left, value + r.base)
    BY <1>1, <1>8 DEF Read
  <2>2. ReadBits(t, i, num, base).t = [bit.t EXCEPT !.readBits = ReadBitsIdle]
    BY <2>1 DEF Read
  <2> QED BY <1>3, <1>5, <2>2
<1> QED BY <1>6, <1>7, <1>8

LEMMA DecodeSymbolKeeps ==
  ASSUME NEW t, Clean(t), NEW i, NEW tree, DecodeSymbol(t, i, tree).rc # "input"
  PROVE  /\ Clean(DecodeSymbol(t, i, tree).t)
         /\ \A f \in Others: DecodeSymbol(t, i, tree).t[f] = t[f]
<1> DEFINE r == IF t.sym.active THEN t.sym ELSE [SymIdle EXCEPT !.active = TRUE]
           u == [t EXCEPT !.sym = r]
           bit == ReadBit(u, i)
           len == r.len + 1
           sum == r.sum + tree.table[len]
           cur == 2 * r.cur + bit.value - tree.table[len]
           more == [active |-> TRUE, sum |-> sum, cur |-> cur, len |-> len]
<1>1. DecodeSymbol(t, i, tree) =
        IF bit.rc = "input" THEN bit
        ELSE IF len = 16 THEN Read("error", bit.t, bit.left, 0)
        ELSE IF cur >= 0 THEN Read("more", [bit.t EXCEPT !.sym = more], bit.left, 0)
        ELSE Read("got", [bit.t EXCEPT !.sym = SymIdle], bit.left, tree.trans[sum + cur + 1])
  BY DEF DecodeSymbol
<1>2. Shaped(u) /\ u.readBits = t.readBits /\ u.sym = r /\ \A f \in Others: u[f] = t[f]
  BY DEF Clean, Shaped, Others, Fields
<1>3. Shaped(bit.t) /\ bit.t.readBits = t.readBits /\ bit.t.sym = r /\ \A f \in Others: bit.t[f] = t[f]
  <2> HIDE DEF u
  <2> QED BY <1>2, ReadBitKeeps
<1>4. r.active /\ r.len \in Nat /\ more.active /\ more.len \in Nat \ {0}
  BY DEF Clean, SymIdle
<1> HIDE DEF r, u, bit, len, sum, cur, more
<1>5. ASSUME NEW w, Shaped(w), w.readBits = t.readBits, \A f \in Others: w[f] = t[f], NEW q,
             q = SymIdle \/ (q.active /\ q.len \in Nat \ {0})
      PROVE  Clean([w EXCEPT !.sym = q]) /\ \A f \in Others: [w EXCEPT !.sym = q][f] = t[f]
  BY <1>5 DEF Clean, Shaped, Others, Fields
<1>6. bit.rc # "input"
  BY <1>1
<1>7. CASE len = 16
  <2>1. r.len # 0
    BY <1>7 DEF len
  <2>2. r = t.sym
    BY <2>1 DEF r, SymIdle
  <2>3. Clean(bit.t)
    BY <1>3, <2>2 DEF Clean
  <2>4. DecodeSymbol(t, i, tree).t = bit.t
    BY <1>1, <1>6, <1>7 DEF Read
  <2> QED BY <1>3, <2>3, <2>4
<1>8. CASE len # 16 /\ cur >= 0
  <2>1. DecodeSymbol(t, i, tree) = Read("more", [bit.t EXCEPT !.sym = more], bit.left, 0)
    BY <1>1, <1>6, <1>8
  <2>2. DecodeSymbol(t, i, tree).t = [bit.t EXCEPT !.sym = more]
    BY <2>1 DEF Read
  <2> QED BY <1>3, <1>4, <1>5, <2>2
<1>9. CASE len # 16 /\ ~(cur >= 0)
  <2>1. DecodeSymbol(t, i, tree) = Read("got", [bit.t EXCEPT !.sym = SymIdle], bit.left, tree.trans[sum + cur + 1])
    BY <1>1, <1>6, <1>9
  <2>2. DecodeSymbol(t, i, tree).t = [bit.t EXCEPT !.sym = SymIdle]
    BY <2>1 DEF Read
  <2> QED BY <1>3, <1>5, <2>2
<1> QED BY <1>7, <1>8, <1>9

-----------------------------------------------------------------------------
(***************************************************************************)
(* Steps.                                                                  *)
(***************************************************************************)
Same(a, b) == a.how = b.how /\ a.t = b.t /\ a.byte = b.byte

(* A step uses the input as the readers do, but for the last byte of a stream,
   which is an error if others follow. *)
StepCut(none, one, o, i) ==
  /\ none.how # "starves" => Same(o, none) /\ o.left = i
  /\ none.how = "starves" /\ i # <<>> =>
       /\ o.left = Tail(i) /\ o.how # "starves" /\ one.how # "starves"
       /\ \/ Same(o, one)
          \/ one.t.stage = "done" /\ o.how = "fails" /\ Tail(i) # <<>>
  /\ none.how = "starves" => none.left = <<>>

(* What becomes of the result r of a reader, when v is made of its value. *)
Made(r, v) == Leaving(CASE r.rc = "got" -> v
                        [] r.rc = "more" -> Goes(r.t)
                        [] r.rc = "input" -> Starves(r.t)
                        [] r.rc = "error" -> Fails(r.t), r.left)

(* In the middle of a stream. *)
Working == {"cmf", "flg", "final", "type", "dynamicTrees", "storedLen", "storedData", "blockData", "trailer"}
InStage(t) == /\ t.stage \in Working
              /\ t.dynamicStage \in {"hlit", "hdist", "hclen", "readClen", "readLengths", "repeatBits"}
              /\ t.blockStage \in {"symbol", "lenExtra", "distSymbol", "distExtra", "matchCopy"}
Regular(t) == Clean(t) /\ InStage(t)

LEMMA KeptRegular ==
  ASSUME NEW u, Regular(u), NEW w, Shaped(w), InStage(w),
         w.readBits \in {u.readBits, ReadBitsIdle}, w.sym \in {u.sym, SymIdle}
  PROVE  Regular(w)
BY DEF Regular, Clean, ReadBitsIdle, SymIdle

LEMMA MadeEnds ==
  ASSUME NEW r, r.rc \in Ends, NEW v, v.how \in {"goes", "puts", "fails"}
  PROVE  /\ Made(r, v).left = r.left
         /\ Made(r, v).how = "starves" <=> r.rc = "input"
         /\ r.rc = "got" => Same(Made(r, v), v)
         /\ r.rc = "more" => Same(Made(r, v), Goes(r.t))
         /\ r.rc = "input" => Same(Made(r, v), Starves(r.t))
         /\ r.rc = "error" => Same(Made(r, v), Fails(r.t))
BY DEF Made, Leaving, Ends, Same, Goes, Starves, Fails

LEMMA OnCut ==
  ASSUME NEW none, NEW one, NEW r, NEW i, ReaderCut(none, one, r, i), NEW v0, NEW v1, NEW v,
         v0.how \in {"goes", "puts", "fails"}, v1.how \in {"goes", "puts", "fails"},
         v.how \in {"goes", "puts", "fails"},
         Alike(r, none) => v = v0, Alike(r, one) => v = v1
  PROVE  StepCut(Made(none, v0), Made(one, v1), Made(r, v), i)
<1>1. none.rc \in Ends /\ one.rc \in Ends /\ r.rc \in Ends
  BY DEF ReaderCut
<1>2. /\ Made(none, v0).left = none.left /\ (Made(none, v0).how = "starves" <=> none.rc = "input")
      /\ Made(one, v1).left = one.left /\ (Made(one, v1).how = "starves" <=> one.rc = "input")
      /\ Made(r, v).left = r.left /\ (Made(r, v).how = "starves" <=> r.rc = "input")
  BY <1>1, MadeEnds
<1>3. /\ Alike(r, none) => Same(Made(r, v), Made(none, v0))
      /\ Alike(r, one) => Same(Made(r, v), Made(one, v1))
  BY <1>1 DEF Made, Leaving, Alike, Same, Ends
<1> QED BY <1>1, <1>2, <1>3 DEF ReaderCut, StepCut, Alike, Same

LEMMA OthersRegular ==
  ASSUME NEW t, Regular(t), NEW u, Clean(u), \A f \in Others: u[f] = t[f]
  PROVE  Regular(u)
<1>1. u.stage = t.stage /\ u.dynamicStage = t.dynamicStage /\ u.blockStage = t.blockStage
  BY DEF Others, Fields
<1> QED BY <1>1 DEF Regular, InStage

LEMMA MadeResult ==
  ASSUME NEW r, r.rc \in Ends, NEW v, v.how \in {"goes", "puts", "fails"}
  PROVE  /\ Made(r, v).how = "starves" <=> r.rc = "input"
         /\ r.rc = "got" => Made(r, v).how = v.how /\ Made(r, v).t = v.t
         /\ r.rc = "more" => Made(r, v).t = r.t
         /\ r.rc = "input" => Made(r, v).t = r.t
         /\ r.rc = "error" => Made(r, v).how = "fails"
BY DEF Made, Leaving, Ends, Goes, Starves, Fails

(* A step of t that handles what a reader came back with: r with the input i,
   none and one as for ReaderCut. *)
Handled(t, i, r, none, one, o) ==
  /\ StepCut(none, one, o, i)
  /\ o.how = "starves" => r.rc = "input" /\ o.t = r.t
  /\ Regular(t) /\ o.how \in {"goes", "puts"} => Regular(o.t)

Kept(t, r) == Clean(t) /\ r.rc # "input" => Clean(r.t) /\ \A f \in Others: r.t[f] = t[f]

(* v0, v1 and v are what is made of the values. *)
LEMMA OnRegular ==
  ASSUME NEW t, NEW i, NEW none, NEW one, NEW r, ReaderCut(none, one, r, i), NEW v0, NEW v1, NEW v,
         v0.how \in {"goes", "puts", "fails"}, v1.how \in {"goes", "puts", "fails"},
         v.how \in {"goes", "puts", "fails"},
         Alike(r, none) => v = v0, Alike(r, one) => v = v1,
         Kept(t, r),
         Regular(r.t) /\ v.how # "fails" => Regular(v.t)
  PROVE  Handled(t, i, r, Made(none, v0), Made(one, v1), Made(r, v))
<1>1. StepCut(Made(none, v0), Made(one, v1), Made(r, v), i)
  BY OnCut
<1> DEFINE o == Made(r, v)
<1>2. r.rc \in Ends
  BY DEF ReaderCut
<1>3. /\ o.how = "starves" <=> r.rc = "input"
      /\ r.rc = "got" => o.how = v.how /\ o.t = v.t
      /\ r.rc = "more" => o.t = r.t
      /\ r.rc = "input" => o.t = r.t
      /\ r.rc = "error" => o.how = "fails"
  BY <1>2, MadeResult
<1> HIDE DEF o
<1>4. ASSUME Regular(t), o.how \in {"goes", "puts"} PROVE Regular(o.t)
  <2>1. r.rc # "input" /\ r.rc # "error"
    BY <1>3, <1>4
  <2>2. Regular(r.t)
    BY <1>4, <2>1, OthersRegular DEF Regular, Kept
  <2> QED BY <1>2, <1>3, <1>4, <2>1, <2>2 DEF Ends
<1> QED BY <1>1, <1>3, <1>4 DEF o, Handled

(* A step that reads nothing. *)
LEMMA StillIsRegular ==
  ASSUME NEW o, o.how \in {"goes", "puts", "fails"}, NEW i
  PROVE  /\ StepCut(Leaving(o, <<>>), Leaving(o, <<Head(i)>>), Leaving(o, i), i)
         /\ Leaving(o, i).how = o.how /\ Leaving(o, i).t = o.t
BY DEF Leaving, StepCut, Same

LEMMA CmfIsRegular ==
  ASSUME NEW t, NEW i \in Input
  PROVE  /\ StepCut(Cmf(t, <<>>), Cmf(t, <<Head(i)>>), Cmf(t, i), i)
         /\ Clean(t) /\ Cmf(t, i).how = "starves" => /\ Stopped(t, i, Cmf(t, i).t)
                                                     /\ \A j: Cmf(Cmf(t, i).t, j) = Cmf(t, j)
         /\ Regular(t) /\ Cmf(t, i).how \in {"goes", "puts"} => Regular(Cmf(t, i).t)
<1> DEFINE T(u, byte) ==
           Goes([u EXCEPT !.cmf = byte, !.stage = "flg"])
           G(r) == On(r, T)
<1>1. \A r: G(r) = Made(r, T(r.t, r.value))
  BY DEF On, Made
<1>2. \A u, v: T(u, v).how \in {"goes", "puts", "fails"}
  BY DEF Goes
<1>3. ASSUME NEW u, Regular(u), NEW v PROVE T(u, v).how # "fails" => Regular(T(u, v).t)
  <2> DEFINE w == T(u, v).t
  <2>1. Shaped(w)
    BY <1>3 DEF Goes, Regular, Clean, Shaped
  <2>2. w.readBits \in {u.readBits, ReadBitsIdle} /\ w.sym \in {u.sym, SymIdle}
    BY <1>3 DEF Goes, Regular, Clean, Shaped, Fields
  <2>3. T(u, v).how # "fails" => InStage(w)
    BY <1>3 DEF Goes, Regular, InStage, Working, Clean, Shaped, Fields
  <2> HIDE DEF w
  <2>4. InStage(w) => Regular(w)
    BY <1>3, <2>1, <2>2, KeptRegular
  <2> QED BY <2>3, <2>4 DEF w
<1>4. \A j: Cmf(t, j) = G(ReadByte(t, j))
  BY DEF Cmf
<1> DEFINE none == ReadByte(t, <<>>)
           one == ReadByte(t, <<Head(i)>>)
           all == ReadByte(t, i)
<1>5. ReaderCut(none, one, all, i)
  BY ReadByteCut
<1>6. Cmf(t, <<>>) = G(none) /\ Cmf(t, <<Head(i)>>) = G(one) /\ Cmf(t, i) = G(all)
  BY <1>4
<1>7. Clean(t) /\ all.rc = "input" => /\ Stopped(t, i, all.t)
                                          /\ \A j: Cmf(all.t, j) = Cmf(t, j)
  BY ReadByteStops
<1>8. Kept(t, all)
  BY ReadByteKeeps DEF Kept
<1> HIDE DEF none, one, all, G, T
<1>9. /\ Alike(all, none) => T(all.t, all.value) = T(none.t, none.value)
      /\ Alike(all, one) => T(all.t, all.value) = T(one.t, one.value)
      /\ T(none.t, none.value).how \in {"goes", "puts", "fails"} /\ T(one.t, one.value).how \in {"goes", "puts", "fails"}
      /\ T(all.t, all.value).how \in {"goes", "puts", "fails"} /\ (Regular(all.t) /\ T(all.t, all.value).how # "fails" => Regular(T(all.t, all.value).t))
  BY <1>2, <1>3 DEF Alike
<1>10. Handled(t, i, all, Made(none, T(none.t, none.value)), Made(one, T(one.t, one.value)), Made(all, T(all.t, all.value)))
  BY <1>5, <1>8, <1>9, OnRegular
<1>11. Cmf(t, <<>>) = Made(none, T(none.t, none.value)) /\ Cmf(t, <<Head(i)>>) = Made(one, T(one.t, one.value))
      /\ Cmf(t, i) = Made(all, T(all.t, all.value))
  BY <1>1, <1>6
<1> QED BY <1>7, <1>10, <1>11 DEF Handled

LEMMA FlgIsRegular ==
  ASSUME NEW t, NEW i \in Input
  PROVE  /\ StepCut(Flg(t, <<>>), Flg(t, <<Head(i)>>), Flg(t, i), i)
         /\ Clean(t) /\ Flg(t, i).how = "starves" => /\ Stopped(t, i, Flg(t, i).t)
                                                     /\ \A j: Flg(Flg(t, i).t, j) = Flg(t, j)
         /\ Regular(t) /\ Flg(t, i).how \in {"goes", "puts"} => Regular(Flg(t, i).t)
<1> DEFINE T(u, byte) ==
           IF BadHeader(u.cmf, byte) THEN Fails(u)
                               ELSE Goes([u EXCEPT !.stage = "final"])
           G(r) == On(r, T)
<1>1. \A r: G(r) = Made(r, T(r.t, r.value))
  BY DEF On, Made
<1>2. \A u, v: T(u, v).how \in {"goes", "puts", "fails"}
  BY DEF Goes, Fails
<1>3. ASSUME NEW u, Regular(u), NEW v PROVE T(u, v).how # "fails" => Regular(T(u, v).t)
  <2> DEFINE w == T(u, v).t
  <2>1. Shaped(w)
    BY <1>3 DEF Goes, Fails, Regular, Clean, Shaped
  <2>2. w.readBits \in {u.readBits, ReadBitsIdle} /\ w.sym \in {u.sym, SymIdle}
    BY <1>3 DEF Goes, Fails, Regular, Clean, Shaped, Fields
  <2>3. T(u, v).how # "fails" => InStage(w)
    BY <1>3 DEF Goes, Fails, Regular, InStage, Working, Clean, Shaped, Fields
  <2> HIDE DEF w
  <2>4. InStage(w) => Regular(w)
    BY <1>3, <2>1, <2>2, KeptRegular
  <2> QED BY <2>3, <2>4 DEF w
<1>4. \A j: Flg(t, j) = G(ReadByte(t, j))
  BY DEF Flg
<1> DEFINE none == ReadByte(t, <<>>)
           one == ReadByte(t, <<Head(i)>>)
           all == ReadByte(t, i)
<1>5. ReaderCut(none, one, all, i)
  BY ReadByteCut
<1>6. Flg(t, <<>>) = G(none) /\ Flg(t, <<Head(i)>>) = G(one) /\ Flg(t, i) = G(all)
  BY <1>4
<1>7. Clean(t) /\ all.rc = "input" => /\ Stopped(t, i, all.t)
                                          /\ \A j: Flg(all.t, j) = Flg(t, j)
  BY ReadByteStops
<1>8. Kept(t, all)
  BY ReadByteKeeps DEF Kept
<1> HIDE DEF none, one, all, G, T
<1>9. /\ Alike(all, none) => T(all.t, all.value) = T(none.t, none.value)
      /\ Alike(all, one) => T(all.t, all.value) = T(one.t, one.value)
      /\ T(none.t, none.value).how \in {"goes", "puts", "fails"} /\ T(one.t, one.value).how \in {"goes", "puts", "fails"}
      /\ T(all.t, all.value).how \in {"goes", "puts", "fails"} /\ (Regular(all.t) /\ T(all.t, all.value).how # "fails" => Regular(T(all.t, all.value).t))
  BY <1>2, <1>3 DEF Alike
<1>10. Handled(t, i, all, Made(none, T(none.t, none.value)), Made(one, T(one.t, one.value)), Made(all, T(all.t, all.value)))
  BY <1>5, <1>8, <1>9, OnRegular
<1>11. Flg(t, <<>>) = Made(none, T(none.t, none.value)) /\ Flg(t, <<Head(i)>>) = Made(one, T(one.t, one.value))
      /\ Flg(t, i) = Made(all, T(all.t, all.value))
  BY <1>1, <1>6
<1> QED BY <1>7, <1>10, <1>11 DEF Handled

LEMMA BlockFinalIsRegular ==
  ASSUME NEW t, NEW i \in Input
  PROVE  /\ StepCut(BlockFinal(t, <<>>), BlockFinal(t, <<Head(i)>>), BlockFinal(t, i), i)
         /\ Clean(t) /\ BlockFinal(t, i).how = "starves" => /\ Stopped(t, i, BlockFinal(t, i).t)
                                                     /\ \A j: BlockFinal(BlockFinal(t, i).t, j) = BlockFinal(t, j)
         /\ Regular(t) /\ BlockFinal(t, i).how \in {"goes", "puts"} => Regular(BlockFinal(t, i).t)
<1> DEFINE T(u, bit) ==
           Goes([u EXCEPT !.bfinal = bit, !.stage = "type"])
           G(r) == On(r, T)
<1>1. \A r: G(r) = Made(r, T(r.t, r.value))
  BY DEF On, Made
<1>2. \A u, v: T(u, v).how \in {"goes", "puts", "fails"}
  BY DEF Goes
<1>3. ASSUME NEW u, Regular(u), NEW v PROVE T(u, v).how # "fails" => Regular(T(u, v).t)
  <2> DEFINE w == T(u, v).t
  <2>1. Shaped(w)
    BY <1>3 DEF Goes, Regular, Clean, Shaped
  <2>2. w.readBits \in {u.readBits, ReadBitsIdle} /\ w.sym \in {u.sym, SymIdle}
    BY <1>3 DEF Goes, Regular, Clean, Shaped, Fields
  <2>3. T(u, v).how # "fails" => InStage(w)
    BY <1>3 DEF Goes, Regular, InStage, Working, Clean, Shaped, Fields
  <2> HIDE DEF w
  <2>4. InStage(w) => Regular(w)
    BY <1>3, <2>1, <2>2, KeptRegular
  <2> QED BY <2>3, <2>4 DEF w
<1>4. \A j: BlockFinal(t, j) = G(ReadBit(t, j))
  BY DEF BlockFinal
<1> DEFINE none == ReadBit(t, <<>>)
           one == ReadBit(t, <<Head(i)>>)
           all == ReadBit(t, i)
<1>5. ReaderCut(none, one, all, i)
  BY ReadBitCut
<1>6. BlockFinal(t, <<>>) = G(none) /\ BlockFinal(t, <<Head(i)>>) = G(one) /\ BlockFinal(t, i) = G(all)
  BY <1>4
<1>7. Clean(t) /\ all.rc = "input" => /\ Stopped(t, i, all.t)
                                          /\ \A j: BlockFinal(all.t, j) = BlockFinal(t, j)
  BY ReadBitStops
<1>8. Kept(t, all)
  BY ReadBitKeeps DEF Kept, Clean
<1> HIDE DEF none, one, all, G, T
<1>9. /\ Alike(all, none) => T(all.t, all.value) = T(none.t, none.value)
      /\ Alike(all, one) => T(all.t, all.value) = T(one.t, one.value)
      /\ T(none.t, none.value).how \in {"goes", "puts", "fails"} /\ T(one.t, one.value).how \in {"goes", "puts", "fails"}
      /\ T(all.t, all.value).how \in {"goes", "puts", "fails"} /\ (Regular(all.t) /\ T(all.t, all.value).how # "fails" => Regular(T(all.t, all.value).t))
  BY <1>2, <1>3 DEF Alike
<1>10. Handled(t, i, all, Made(none, T(none.t, none.value)), Made(one, T(one.t, one.value)), Made(all, T(all.t, all.value)))
  BY <1>5, <1>8, <1>9, OnRegular
<1>11. BlockFinal(t, <<>>) = Made(none, T(none.t, none.value)) /\ BlockFinal(t, <<Head(i)>>) = Made(one, T(one.t, one.value))
      /\ BlockFinal(t, i) = Made(all, T(all.t, all.value))
  BY <1>1, <1>6
<1> QED BY <1>7, <1>10, <1>11 DEF Handled

LEMMA BlockTypeIsRegular ==
  ASSUME NEW t, NEW i \in Input
  PROVE  /\ StepCut(BlockType(t, <<>>), BlockType(t, <<Head(i)>>), BlockType(t, i), i)
         /\ Clean(t) /\ BlockType(t, i).how = "starves" => /\ Stopped(t, i, BlockType(t, i).t)
                                                     /\ \A j: BlockType(BlockType(t, i).t, j) = BlockType(t, j)
         /\ Regular(t) /\ BlockType(t, i).how \in {"goes", "puts"} => Regular(BlockType(t, i).t)
<1> DEFINE G(r) == On(r, StartBlock)
<1>1. \A r: G(r) = Made(r, StartBlock(r.t, r.value))
  BY DEF On, Made
<1>2. \A u, v: StartBlock(u, v).how \in {"goes", "puts", "fails"}
  BY DEF StartBlock, ResetCodeReaders, Goes, Fails
<1>3. ASSUME NEW u, Regular(u), NEW v PROVE StartBlock(u, v).how # "fails" => Regular(StartBlock(u, v).t)
  <2> DEFINE w == StartBlock(u, v).t
  <2>1. Shaped(w)
    <3> DEFINE a == [u EXCEPT !.bitCount = 0, !.header = <<>>, !.storedLen = 0, !.stage = "storedLen"]
               b == [ResetCodeReaders(u) EXCEPT !.ltree = FixedLiterals, !.tree = FixedDistances,
                                                !.blockStage = "symbol", !.stage = "blockData"]
               c == [ResetCodeReaders(u) EXCEPT !.dynamicStage = "hlit", !.stage = "dynamicTrees"]
               d == [u EXCEPT !.stage = "error"]
    <3>1. Shaped(a) /\ Shaped(b) /\ Shaped(c) /\ Shaped(d)
      BY <1>3 DEF ResetCodeReaders, Regular, Clean, Shaped
    <3>2. Goes(a).t = a /\ Goes(b).t = b /\ Goes(c).t = c /\ Fails(u).t = d
      BY DEF Goes, Fails
    <3>3. StartBlock(u, v) \in {Goes(a), Goes(b), Goes(c), Fails(u)}
      BY DEF StartBlock
    <3> HIDE DEF a, b, c, d
    <3> QED BY <3>1, <3>2, <3>3
  <2>2. w.readBits \in {u.readBits, ReadBitsIdle} /\ w.sym \in {u.sym, SymIdle}
    BY <1>3 DEF StartBlock, ResetCodeReaders, Goes, Fails, Regular, Clean, Shaped, Fields
  <2>3. StartBlock(u, v).how # "fails" => InStage(w)
    BY <1>3 DEF StartBlock, ResetCodeReaders, Goes, Fails, Regular, InStage, Working, Clean, Shaped, Fields
  <2> HIDE DEF w
  <2>4. InStage(w) => Regular(w)
    BY <1>3, <2>1, <2>2, KeptRegular
  <2> QED BY <2>3, <2>4 DEF w
<1>4. \A j: BlockType(t, j) = G(ReadBits(t, j, 2, 0))
  BY DEF BlockType
<1> DEFINE none == ReadBits(t, <<>>, 2, 0)
           one == ReadBits(t, <<Head(i)>>, 2, 0)
           all == ReadBits(t, i, 2, 0)
<1>5. ReaderCut(none, one, all, i)
  BY ReadBitsCut
<1>6. BlockType(t, <<>>) = G(none) /\ BlockType(t, <<Head(i)>>) = G(one) /\ BlockType(t, i) = G(all)
  BY <1>4
<1>7. Clean(t) /\ all.rc = "input" => /\ Stopped(t, i, all.t)
                                          /\ \A j: BlockType(all.t, j) = BlockType(t, j)
  <2> DEFINE u == all.t
  <2> HIDE DEF G
  <2> SUFFICES ASSUME Clean(t), all.rc = "input" PROVE Stopped(t, i, u) /\ \A j: BlockType(u, j) = BlockType(t, j)
    OBVIOUS
  <2>1. Stopped(t, i, u) /\ \A j, n, b: ReadBits(u, j, n, b) = ReadBits(t, j, 2, 0)
    BY ReadBitsStops
  <2> HIDE DEF u, all, one, none
  <2>3. \A j: BlockType(u, j) = G(ReadBits(u, j, 2, 0))
    BY <2>1 DEF BlockType, G
  <2> QED BY <2>1, <2>3, <1>4
<1>8. Kept(t, all)
  BY ReadBitsKeeps DEF Kept
<1> HIDE DEF none, one, all, G
<1>9. /\ Alike(all, none) => StartBlock(all.t, all.value) = StartBlock(none.t, none.value)
      /\ Alike(all, one) => StartBlock(all.t, all.value) = StartBlock(one.t, one.value)
      /\ StartBlock(none.t, none.value).how \in {"goes", "puts", "fails"} /\ StartBlock(one.t, one.value).how \in {"goes", "puts", "fails"}
      /\ StartBlock(all.t, all.value).how \in {"goes", "puts", "fails"} /\ (Regular(all.t) /\ StartBlock(all.t, all.value).how # "fails" => Regular(StartBlock(all.t, all.value).t))
  BY <1>2, <1>3 DEF Alike
<1>10. Handled(t, i, all, Made(none, StartBlock(none.t, none.value)), Made(one, StartBlock(one.t, one.value)), Made(all, StartBlock(all.t, all.value)))
  BY <1>5, <1>8, <1>9, OnRegular
<1>11. BlockType(t, <<>>) = Made(none, StartBlock(none.t, none.value)) /\ BlockType(t, <<Head(i)>>) = Made(one, StartBlock(one.t, one.value))
      /\ BlockType(t, i) = Made(all, StartBlock(all.t, all.value))
  BY <1>1, <1>6
<1> QED BY <1>7, <1>10, <1>11 DEF Handled

LEMMA HlitIsRegular ==
  ASSUME NEW t, NEW i \in Input
  PROVE  /\ StepCut(Hlit(t, <<>>), Hlit(t, <<Head(i)>>), Hlit(t, i), i)
         /\ Clean(t) /\ Hlit(t, i).how = "starves" => /\ Stopped(t, i, Hlit(t, i).t)
                                                     /\ \A j: Hlit(Hlit(t, i).t, j) = Hlit(t, j)
         /\ Regular(t) /\ Hlit(t, i).how \in {"goes", "puts"} => Regular(Hlit(t, i).t)
<1> DEFINE T(u, n) ==
           Goes([u EXCEPT !.hlit = n, !.dynamicStage = "hdist"])
           G(r) == On(r, T)
<1>1. \A r: G(r) = Made(r, T(r.t, r.value))
  BY DEF On, Made
<1>2. \A u, v: T(u, v).how \in {"goes", "puts", "fails"}
  BY DEF Goes
<1>3. ASSUME NEW u, Regular(u), NEW v PROVE T(u, v).how # "fails" => Regular(T(u, v).t)
  <2> DEFINE w == T(u, v).t
  <2>1. Shaped(w)
    BY <1>3 DEF Goes, Regular, Clean, Shaped
  <2>2. w.readBits \in {u.readBits, ReadBitsIdle} /\ w.sym \in {u.sym, SymIdle}
    BY <1>3 DEF Goes, Regular, Clean, Shaped, Fields
  <2>3. T(u, v).how # "fails" => InStage(w)
    BY <1>3 DEF Goes, Regular, InStage, Working, Clean, Shaped, Fields
  <2> HIDE DEF w
  <2>4. InStage(w) => Regular(w)
    BY <1>3, <2>1, <2>2, KeptRegular
  <2> QED BY <2>3, <2>4 DEF w
<1>4. \A j: Hlit(t, j) = G(ReadBits(t, j, 5, 257))
  BY DEF Hlit
<1> DEFINE none == ReadBits(t, <<>>, 5, 257)
           one == ReadBits(t, <<Head(i)>>, 5, 257)
           all == ReadBits(t, i, 5, 257)
<1>5. ReaderCut(none, one, all, i)
  BY ReadBitsCut
<1>6. Hlit(t, <<>>) = G(none) /\ Hlit(t, <<Head(i)>>) = G(one) /\ Hlit(t, i) = G(all)
  BY <1>4
<1>7. Clean(t) /\ all.rc = "input" => /\ Stopped(t, i, all.t)
                                          /\ \A j: Hlit(all.t, j) = Hlit(t, j)
  <2> DEFINE u == all.t
  <2> HIDE DEF G, T
  <2> SUFFICES ASSUME Clean(t), all.rc = "input" PROVE Stopped(t, i, u) /\ \A j: Hlit(u, j) = Hlit(t, j)
    OBVIOUS
  <2>1. Stopped(t, i, u) /\ \A j, n, b: ReadBits(u, j, n, b) = ReadBits(t, j, 5, 257)
    <3> DEFINE m == 5
               base == 257
    <3> HIDE DEF m, base
    <3>1. ReadBits(t, i, m, base).rc = "input"
      BY DEF m, base
    <3>2. /\ Stopped(t, i, ReadBits(t, i, m, base).t)
          /\ \A j, n, b: ReadBits(ReadBits(t, i, m, base).t, j, n, b) = ReadBits(t, j, m, base)
      BY <3>1, ReadBitsStops
    <3> QED BY <3>2 DEF m, base
  <2> HIDE DEF u, all, one, none
  <2>3. \A j: Hlit(u, j) = G(ReadBits(u, j, 5, 257))
    BY <2>1 DEF Hlit, G, T
  <2> QED BY <2>1, <2>3, <1>4
<1>8. Kept(t, all)
  BY ReadBitsKeeps DEF Kept
<1> HIDE DEF none, one, all, G, T
<1>9. /\ Alike(all, none) => T(all.t, all.value) = T(none.t, none.value)
      /\ Alike(all, one) => T(all.t, all.value) = T(one.t, one.value)
      /\ T(none.t, none.value).how \in {"goes", "puts", "fails"} /\ T(one.t, one.value).how \in {"goes", "puts", "fails"}
      /\ T(all.t, all.value).how \in {"goes", "puts", "fails"} /\ (Regular(all.t) /\ T(all.t, all.value).how # "fails" => Regular(T(all.t, all.value).t))
  BY <1>2, <1>3 DEF Alike
<1>10. Handled(t, i, all, Made(none, T(none.t, none.value)), Made(one, T(one.t, one.value)), Made(all, T(all.t, all.value)))
  BY <1>5, <1>8, <1>9, OnRegular
<1>11. Hlit(t, <<>>) = Made(none, T(none.t, none.value)) /\ Hlit(t, <<Head(i)>>) = Made(one, T(one.t, one.value))
      /\ Hlit(t, i) = Made(all, T(all.t, all.value))
  BY <1>1, <1>6
<1> QED BY <1>7, <1>10, <1>11 DEF Handled

LEMMA HdistIsRegular ==
  ASSUME NEW t, NEW i \in Input
  PROVE  /\ StepCut(Hdist(t, <<>>), Hdist(t, <<Head(i)>>), Hdist(t, i), i)
         /\ Clean(t) /\ Hdist(t, i).how = "starves" => /\ Stopped(t, i, Hdist(t, i).t)
                                                     /\ \A j: Hdist(Hdist(t, i).t, j) = Hdist(t, j)
         /\ Regular(t) /\ Hdist(t, i).how \in {"goes", "puts"} => Regular(Hdist(t, i).t)
<1> DEFINE T(u, n) ==
           Goes([u EXCEPT !.hdist = n, !.dynamicStage = "hclen"])
           G(r) == On(r, T)
<1>1. \A r: G(r) = Made(r, T(r.t, r.value))
  BY DEF On, Made
<1>2. \A u, v: T(u, v).how \in {"goes", "puts", "fails"}
  BY DEF Goes
<1>3. ASSUME NEW u, Regular(u), NEW v PROVE T(u, v).how # "fails" => Regular(T(u, v).t)
  <2> DEFINE w == T(u, v).t
  <2>1. Shaped(w)
    BY <1>3 DEF Goes, Regular, Clean, Shaped
  <2>2. w.readBits \in {u.readBits, ReadBitsIdle} /\ w.sym \in {u.sym, SymIdle}
    BY <1>3 DEF Goes, Regular, Clean, Shaped, Fields
  <2>3. T(u, v).how # "fails" => InStage(w)
    BY <1>3 DEF Goes, Regular, InStage, Working, Clean, Shaped, Fields
  <2> HIDE DEF w
  <2>4. InStage(w) => Regular(w)
    BY <1>3, <2>1, <2>2, KeptRegular
  <2> QED BY <2>3, <2>4 DEF w
<1>4. \A j: Hdist(t, j) = G(ReadBits(t, j, 5, 1))
  BY DEF Hdist
<1> DEFINE none == ReadBits(t, <<>>, 5, 1)
           one == ReadBits(t, <<Head(i)>>, 5, 1)
           all == ReadBits(t, i, 5, 1)
<1>5. ReaderCut(none, one, all, i)
  BY ReadBitsCut
<1>6. Hdist(t, <<>>) = G(none) /\ Hdist(t, <<Head(i)>>) = G(one) /\ Hdist(t, i) = G(all)
  BY <1>4
<1>7. Clean(t) /\ all.rc = "input" => /\ Stopped(t, i, all.t)
                                          /\ \A j: Hdist(all.t, j) = Hdist(t, j)
  <2> DEFINE u == all.t
  <2> HIDE DEF G, T
  <2> SUFFICES ASSUME Clean(t), all.rc = "input" PROVE Stopped(t, i, u) /\ \A j: Hdist(u, j) = Hdist(t, j)
    OBVIOUS
  <2>1. Stopped(t, i, u) /\ \A j, n, b: ReadBits(u, j, n, b) = ReadBits(t, j, 5, 1)
    <3> DEFINE m == 5
               base == 1
    <3> HIDE DEF m, base
    <3>1. ReadBits(t, i, m, base).rc = "input"
      BY DEF m, base
    <3>2. /\ Stopped(t, i, ReadBits(t, i, m, base).t)
          /\ \A j, n, b: ReadBits(ReadBits(t, i, m, base).t, j, n, b) = ReadBits(t, j, m, base)
      BY <3>1, ReadBitsStops
    <3> QED BY <3>2 DEF m, base
  <2> HIDE DEF u, all, one, none
  <2>3. \A j: Hdist(u, j) = G(ReadBits(u, j, 5, 1))
    BY <2>1 DEF Hdist, G, T
  <2> QED BY <2>1, <2>3, <1>4
<1>8. Kept(t, all)
  BY ReadBitsKeeps DEF Kept
<1> HIDE DEF none, one, all, G, T
<1>9. /\ Alike(all, none) => T(all.t, all.value) = T(none.t, none.value)
      /\ Alike(all, one) => T(all.t, all.value) = T(one.t, one.value)
      /\ T(none.t, none.value).how \in {"goes", "puts", "fails"} /\ T(one.t, one.value).how \in {"goes", "puts", "fails"}
      /\ T(all.t, all.value).how \in {"goes", "puts", "fails"} /\ (Regular(all.t) /\ T(all.t, all.value).how # "fails" => Regular(T(all.t, all.value).t))
  BY <1>2, <1>3 DEF Alike
<1>10. Handled(t, i, all, Made(none, T(none.t, none.value)), Made(one, T(one.t, one.value)), Made(all, T(all.t, all.value)))
  BY <1>5, <1>8, <1>9, OnRegular
<1>11. Hdist(t, <<>>) = Made(none, T(none.t, none.value)) /\ Hdist(t, <<Head(i)>>) = Made(one, T(one.t, one.value))
      /\ Hdist(t, i) = Made(all, T(all.t, all.value))
  BY <1>1, <1>6
<1> QED BY <1>7, <1>10, <1>11 DEF Handled

LEMMA HclenIsRegular ==
  ASSUME NEW t, NEW i \in Input
  PROVE  /\ StepCut(Hclen(t, <<>>), Hclen(t, <<Head(i)>>), Hclen(t, i), i)
         /\ Clean(t) /\ Hclen(t, i).how = "starves" => /\ Stopped(t, i, Hclen(t, i).t)
                                                     /\ \A j: Hclen(Hclen(t, i).t, j) = Hclen(t, j)
         /\ Regular(t) /\ Hclen(t, i).how \in {"goes", "puts"} => Regular(Hclen(t, i).t)
<1> DEFINE T(u, n) ==
           IF u.hlit > 286 THEN Fails(u)
           ELSE Goes([u EXCEPT !.hclen = n, !.dynI = 0, !.dynamicStage = "readClen",
                               !.lengths = [k \in DOMAIN @ |-> IF k < 19 THEN 0 ELSE @[k]]])
           G(r) == On(r, T)
<1>1. \A r: G(r) = Made(r, T(r.t, r.value))
  BY DEF On, Made
<1>2. \A u, v: T(u, v).how \in {"goes", "puts", "fails"}
  BY DEF Goes, Fails
<1>3. ASSUME NEW u, Regular(u), NEW v PROVE T(u, v).how # "fails" => Regular(T(u, v).t)
  <2> DEFINE w == T(u, v).t
  <2>1. Shaped(w)
    BY <1>3 DEF Goes, Fails, Regular, Clean, Shaped
  <2>2. w.readBits \in {u.readBits, ReadBitsIdle} /\ w.sym \in {u.sym, SymIdle}
    BY <1>3 DEF Goes, Fails, Regular, Clean, Shaped, Fields
  <2>3. T(u, v).how # "fails" => InStage(w)
    BY <1>3 DEF Goes, Fails, Regular, InStage, Working, Clean, Shaped, Fields
  <2> HIDE DEF w
  <2>4. InStage(w) => Regular(w)
    BY <1>3, <2>1, <2>2, KeptRegular
  <2> QED BY <2>3, <2>4 DEF w
<1>4. \A j: Hclen(t, j) = G(ReadBits(t, j, 4, 4))
  BY DEF Hclen
<1> DEFINE none == ReadBits(t, <<>>, 4, 4)
           one == ReadBits(t, <<Head(i)>>, 4, 4)
           all == ReadBits(t, i, 4, 4)
<1>5. ReaderCut(none, one, all, i)
  BY ReadBitsCut
<1>6. Hclen(t, <<>>) = G(none) /\ Hclen(t, <<Head(i)>>) = G(one) /\ Hclen(t, i) = G(all)
  BY <1>4
<1>7. Clean(t) /\ all.rc = "input" => /\ Stopped(t, i, all.t)
                                          /\ \A j: Hclen(all.t, j) = Hclen(t, j)
  <2> DEFINE u == all.t
  <2> HIDE DEF G, T
  <2> SUFFICES ASSUME Clean(t), all.rc = "input" PROVE Stopped(t, i, u) /\ \A j: Hclen(u, j) = Hclen(t, j)
    OBVIOUS
  <2>1. Stopped(t, i, u) /\ \A j, n, b: ReadBits(u, j, n, b) = ReadBits(t, j, 4, 4)
    BY ReadBitsStops
  <2> HIDE DEF u, all, one, none
  <2>3. \A j: Hclen(u, j) = G(ReadBits(u, j, 4, 4))
    BY <2>1 DEF Hclen, G, T
  <2> QED BY <2>1, <2>3, <1>4
<1>8. Kept(t, all)
  BY ReadBitsKeeps DEF Kept
<1> HIDE DEF none, one, all, G, T
<1>9. /\ Alike(all, none) => T(all.t, all.value) = T(none.t, none.value)
      /\ Alike(all, one) => T(all.t, all.value) = T(one.t, one.value)
      /\ T(none.t, none.value).how \in {"goes", "puts", "fails"} /\ T(one.t, one.value).how \in {"goes", "puts", "fails"}
      /\ T(all.t, all.value).how \in {"goes", "puts", "fails"} /\ (Regular(all.t) /\ T(all.t, all.value).how # "fails" => Regular(T(all.t, all.value).t))
  BY <1>2, <1>3 DEF Alike
<1>10. Handled(t, i, all, Made(none, T(none.t, none.value)), Made(one, T(one.t, one.value)), Made(all, T(all.t, all.value)))
  BY <1>5, <1>8, <1>9, OnRegular
<1>11. Hclen(t, <<>>) = Made(none, T(none.t, none.value)) /\ Hclen(t, <<Head(i)>>) = Made(one, T(one.t, one.value))
      /\ Hclen(t, i) = Made(all, T(all.t, all.value))
  BY <1>1, <1>6
<1> QED BY <1>7, <1>10, <1>11 DEF Handled

LEMMA ReadClenIsRegular ==
  ASSUME NEW t, NEW i \in Input
  PROVE  /\ StepCut(ReadClen(t, <<>>), ReadClen(t, <<Head(i)>>), ReadClen(t, i), i)
         /\ Clean(t) /\ ReadClen(t, i).how = "starves" => /\ Stopped(t, i, ReadClen(t, i).t)
                                                     /\ \A j: ReadClen(ReadClen(t, i).t, j) = ReadClen(t, j)
         /\ Regular(t) /\ ReadClen(t, i).how \in {"goes", "puts"} => Regular(ReadClen(t, i).t)
<1> DEFINE T(u, n) ==
           Goes([u EXCEPT !.lengths[ClcIdx[u.dynI + 1]] = n, !.dynI = @ + 1])
           G(r) == On(r, T)
<1>1. \A r: G(r) = Made(r, T(r.t, r.value))
  BY DEF On, Made
<1>2. \A u, v: T(u, v).how \in {"goes", "puts", "fails"}
  BY DEF Goes
<1>3. ASSUME NEW u, Regular(u), NEW v PROVE T(u, v).how # "fails" => Regular(T(u, v).t)
  <2> DEFINE w == T(u, v).t
  <2>1. Shaped(w)
    BY <1>3 DEF Goes, Regular, Clean, Shaped
  <2>2. w.readBits \in {u.readBits, ReadBitsIdle} /\ w.sym \in {u.sym, SymIdle}
    BY <1>3 DEF Goes, Regular, Clean, Shaped, Fields
  <2>3. T(u, v).how # "fails" => InStage(w)
    BY <1>3 DEF Goes, Regular, InStage, Working, Clean, Shaped, Fields
  <2> HIDE DEF w
  <2>4. InStage(w) => Regular(w)
    BY <1>3, <2>1, <2>2, KeptRegular
  <2> QED BY <2>3, <2>4 DEF w
<1>4. CASE t.dynI < t.hclen
  <2>1. \A j: ReadClen(t, j) = G(ReadBits(t, j, 3, 0))
    BY <1>4 DEF ReadClen
  <2> DEFINE none == ReadBits(t, <<>>, 3, 0)
             one == ReadBits(t, <<Head(i)>>, 3, 0)
             all == ReadBits(t, i, 3, 0)
  <2>2. ReaderCut(none, one, all, i)
    BY ReadBitsCut
  <2>3. ReadClen(t, <<>>) = G(none) /\ ReadClen(t, <<Head(i)>>) = G(one) /\ ReadClen(t, i) = G(all)
    BY <2>1
  <2>4. Clean(t) /\ all.rc = "input" => /\ Stopped(t, i, all.t)
                                            /\ \A j: ReadClen(all.t, j) = ReadClen(t, j)
    <3> DEFINE u == all.t
    <3> HIDE DEF G, T
    <3> SUFFICES ASSUME Clean(t), all.rc = "input" PROVE Stopped(t, i, u) /\ \A j: ReadClen(u, j) = ReadClen(t, j)
      OBVIOUS
    <3>1. Stopped(t, i, u) /\ \A j, n, b: ReadBits(u, j, n, b) = ReadBits(t, j, 3, 0)
      BY ReadBitsStops
    <3> HIDE DEF u, all, one, none
    <3>2. u.dynI = t.dynI /\ u.hclen = t.hclen
      BY <3>1 DEF Stopped, Others, Fields
    <3>3. \A j: ReadClen(u, j) = G(ReadBits(u, j, 3, 0))
      BY <3>1, <3>2, <1>4 DEF ReadClen, G, T
    <3> QED BY <3>1, <3>2, <3>3, <2>1
  <2>5. Kept(t, all)
    BY ReadBitsKeeps DEF Kept
  <2> HIDE DEF none, one, all, G, T
  <2>6. /\ Alike(all, none) => T(all.t, all.value) = T(none.t, none.value)
        /\ Alike(all, one) => T(all.t, all.value) = T(one.t, one.value)
        /\ T(none.t, none.value).how \in {"goes", "puts", "fails"} /\ T(one.t, one.value).how \in {"goes", "puts", "fails"}
        /\ T(all.t, all.value).how \in {"goes", "puts", "fails"} /\ (Regular(all.t) /\ T(all.t, all.value).how # "fails" => Regular(T(all.t, all.value).t))
    BY <1>2, <1>3 DEF Alike
  <2>7. Handled(t, i, all, Made(none, T(none.t, none.value)), Made(one, T(one.t, one.value)), Made(all, T(all.t, all.value)))
    BY <2>2, <2>5, <2>6, OnRegular
  <2>8. ReadClen(t, <<>>) = Made(none, T(none.t, none.value)) /\ ReadClen(t, <<Head(i)>>) = Made(one, T(one.t, one.value))
        /\ ReadClen(t, i) = Made(all, T(all.t, all.value))
    BY <1>1, <2>3
  <2> QED BY <2>4, <2>7, <2>8 DEF Handled
<1>5. CASE ~(t.dynI < t.hclen)
  <2> DEFINE o == Goes([ResetCodeReaders(t) EXCEPT !.tree = BuildTree([k \in 0..18 |-> t.lengths[k]]),
                                                         !.dynNum = 0, !.dynamicStage = "readLengths"])
  <2>1. \A j: ReadClen(t, j) = Leaving(o, j)
    BY <1>5 DEF ReadClen
  <2>2. o.how \in {"goes", "fails"}
    BY DEF Goes
  <2>3. Regular(t) /\ o.how # "fails" => Regular(o.t)
    <3> SUFFICES ASSUME Regular(t), o.how # "fails" PROVE Regular(o.t)
      OBVIOUS
    <3>1. Shaped(o.t)
      BY DEF ResetCodeReaders, Goes, Regular, Clean, Shaped
    <3>2. o.t.readBits \in {t.readBits, ReadBitsIdle} /\ o.t.sym \in {t.sym, SymIdle}
      BY DEF ResetCodeReaders, Goes, Regular, Clean, Shaped, Fields
    <3>3. InStage(o.t)
      BY DEF ResetCodeReaders, Goes, Regular, InStage, Working, Clean, Shaped, Fields
    <3> HIDE DEF o
    <3> QED BY <3>1, <3>2, <3>3, KeptRegular
  <2> HIDE DEF o
  <2>4. /\ StepCut(Leaving(o, <<>>), Leaving(o, <<Head(i)>>), Leaving(o, i), i)
        /\ Leaving(o, i).how = o.how /\ Leaving(o, i).t = o.t
    BY <2>2, StillIsRegular
  <2> QED BY <2>1, <2>2, <2>3, <2>4
<1> QED BY <1>4, <1>5

LEMMA ReadLengthsIsRegular ==
  ASSUME NEW t, NEW i \in Input
  PROVE  /\ StepCut(ReadLengths(t, <<>>), ReadLengths(t, <<Head(i)>>), ReadLengths(t, i), i)
         /\ Clean(t) /\ ReadLengths(t, i).how = "starves" => /\ Stopped(t, i, ReadLengths(t, i).t)
                                                     /\ \A j: ReadLengths(ReadLengths(t, i).t, j) = ReadLengths(t, j)
         /\ Regular(t) /\ ReadLengths(t, i).how \in {"goes", "puts"} => Regular(ReadLengths(t, i).t)
<1> DEFINE G(r) == On(r, LengthSymbol)
<1>1. \A r: G(r) = Made(r, LengthSymbol(r.t, r.value))
  BY DEF On, Made
<1>2. \A u, v: LengthSymbol(u, v).how \in {"goes", "puts", "fails"}
  BY DEF LengthSymbol, Repeat, Goes, Fails
<1>3. ASSUME NEW u, Regular(u), NEW v PROVE LengthSymbol(u, v).how # "fails" => Regular(LengthSymbol(u, v).t)
  <2> DEFINE w == LengthSymbol(u, v).t
  <2>1. Shaped(w)
    <3>1. \A a, b, c: Shaped(Repeat(u, a, b, c).t)
      BY <1>3 DEF Repeat, Goes, Regular, Clean, Shaped
    <3>2. Shaped(Fails(u).t)
      BY <1>3 DEF Fails, Regular, Clean, Shaped
    <3>3. Shaped(Goes([u EXCEPT !.lengths[u.dynNum] = v, !.dynNum = @ + 1]).t)
      BY <1>3 DEF Goes, Regular, Clean, Shaped
    <3>4. \/ LengthSymbol(u, v) = Fails(u)
          \/ LengthSymbol(u, v) = Goes([u EXCEPT !.lengths[u.dynNum] = v, !.dynNum = @ + 1])
          \/ \E a, b, c: LengthSymbol(u, v) = Repeat(u, a, b, c)
      BY DEF LengthSymbol
    <3> QED BY <3>1, <3>2, <3>3, <3>4
  <2>2. w.readBits \in {u.readBits, ReadBitsIdle} /\ w.sym \in {u.sym, SymIdle}
    BY <1>3 DEF LengthSymbol, Repeat, Goes, Fails, Regular, Clean, Shaped, Fields
  <2>3. LengthSymbol(u, v).how # "fails" => InStage(w)
    BY <1>3 DEF LengthSymbol, Repeat, Goes, Fails, Regular, InStage, Working, Clean, Shaped, Fields
  <2> HIDE DEF w
  <2>4. InStage(w) => Regular(w)
    BY <1>3, <2>1, <2>2, KeptRegular
  <2> QED BY <2>3, <2>4 DEF w
<1>4. CASE t.dynNum < t.hlit + t.hdist
  <2>1. \A j: ReadLengths(t, j) = G(DecodeSymbol(t, j, t.tree))
    BY <1>4 DEF ReadLengths
  <2> DEFINE none == DecodeSymbol(t, <<>>, t.tree)
             one == DecodeSymbol(t, <<Head(i)>>, t.tree)
             all == DecodeSymbol(t, i, t.tree)
  <2>2. ReaderCut(none, one, all, i)
    BY DecodeSymbolCut
  <2>3. ReadLengths(t, <<>>) = G(none) /\ ReadLengths(t, <<Head(i)>>) = G(one) /\ ReadLengths(t, i) = G(all)
    BY <2>1
  <2>4. Clean(t) /\ all.rc = "input" => /\ Stopped(t, i, all.t)
                                            /\ \A j: ReadLengths(all.t, j) = ReadLengths(t, j)
    <3> DEFINE u == all.t
    <3> HIDE DEF G
    <3> SUFFICES ASSUME Clean(t), all.rc = "input" PROVE Stopped(t, i, u) /\ \A j: ReadLengths(u, j) = ReadLengths(t, j)
      OBVIOUS
    <3>1. Stopped(t, i, u) /\ \A j: DecodeSymbol(u, j, t.tree) = DecodeSymbol(t, j, t.tree)
      BY DecodeSymbolStops
    <3> HIDE DEF u, all, one, none
    <3>2. u.dynNum = t.dynNum /\ u.hlit = t.hlit /\ u.hdist = t.hdist /\ u.tree = t.tree
      BY <3>1 DEF Stopped, Others, Fields
    <3>3. \A j: ReadLengths(u, j) = G(DecodeSymbol(u, j, u.tree))
      BY <3>1, <3>2, <1>4 DEF ReadLengths, G
    <3> QED BY <3>1, <3>2, <3>3, <2>1
  <2>5. Kept(t, all)
    BY DecodeSymbolKeeps DEF Kept
  <2> HIDE DEF none, one, all, G
  <2>6. /\ Alike(all, none) => LengthSymbol(all.t, all.value) = LengthSymbol(none.t, none.value)
        /\ Alike(all, one) => LengthSymbol(all.t, all.value) = LengthSymbol(one.t, one.value)
        /\ LengthSymbol(none.t, none.value).how \in {"goes", "puts", "fails"} /\ LengthSymbol(one.t, one.value).how \in {"goes", "puts", "fails"}
        /\ LengthSymbol(all.t, all.value).how \in {"goes", "puts", "fails"} /\ (Regular(all.t) /\ LengthSymbol(all.t, all.value).how # "fails" => Regular(LengthSymbol(all.t, all.value).t))
    BY <1>2, <1>3 DEF Alike
  <2>7. Handled(t, i, all, Made(none, LengthSymbol(none.t, none.value)), Made(one, LengthSymbol(one.t, one.value)), Made(all, LengthSymbol(all.t, all.value)))
    BY <2>2, <2>5, <2>6, OnRegular
  <2>8. ReadLengths(t, <<>>) = Made(none, LengthSymbol(none.t, none.value)) /\ ReadLengths(t, <<Head(i)>>) = Made(one, LengthSymbol(one.t, one.value))
        /\ ReadLengths(t, i) = Made(all, LengthSymbol(all.t, all.value))
    BY <1>1, <2>3
  <2> QED BY <2>4, <2>7, <2>8 DEF Handled
<1>5. CASE ~(t.dynNum < t.hlit + t.hdist)
  <2> DEFINE o == BuildTrees(t)
  <2>1. \A j: ReadLengths(t, j) = Leaving(o, j)
    BY <1>5 DEF ReadLengths
  <2>2. o.how \in {"goes", "fails"}
    BY DEF BuildTrees, Goes, Fails
  <2>3. Regular(t) /\ o.how # "fails" => Regular(o.t)
    <3> SUFFICES ASSUME Regular(t), o.how # "fails" PROVE Regular(o.t)
      OBVIOUS
    <3>1. Shaped(o.t)
      BY DEF BuildTrees, ResetCodeReaders, Goes, Fails, Regular, Clean, Shaped
    <3>2. o.t.readBits \in {t.readBits, ReadBitsIdle} /\ o.t.sym \in {t.sym, SymIdle}
      BY DEF BuildTrees, ResetCodeReaders, Goes, Fails, Regular, Clean, Shaped, Fields
    <3>3. InStage(o.t)
      BY DEF BuildTrees, ResetCodeReaders, Goes, Fails, Regular, InStage, Working, Clean, Shaped, Fields
    <3> HIDE DEF o
    <3> QED BY <3>1, <3>2, <3>3, KeptRegular
  <2> HIDE DEF o
  <2>4. /\ StepCut(Leaving(o, <<>>), Leaving(o, <<Head(i)>>), Leaving(o, i), i)
        /\ Leaving(o, i).how = o.how /\ Leaving(o, i).t = o.t
    BY <2>2, StillIsRegular
  <2> QED BY <2>1, <2>2, <2>3, <2>4
<1> QED BY <1>4, <1>5

LEMMA RepeatBitsIsRegular ==
  ASSUME NEW t, NEW i \in Input
  PROVE  /\ StepCut(RepeatBits(t, <<>>), RepeatBits(t, <<Head(i)>>), RepeatBits(t, i), i)
         /\ Clean(t) /\ RepeatBits(t, i).how = "starves" => /\ Stopped(t, i, RepeatBits(t, i).t)
                                                     /\ \A j: RepeatBits(RepeatBits(t, i).t, j) = RepeatBits(t, j)
         /\ Regular(t) /\ RepeatBits(t, i).how \in {"goes", "puts"} => Regular(RepeatBits(t, i).t)
<1> DEFINE G(r) == On(r, RepeatLengths)
<1>1. \A r: G(r) = Made(r, RepeatLengths(r.t, r.value))
  BY DEF On, Made
<1>2. \A u, v: RepeatLengths(u, v).how \in {"goes", "puts", "fails"}
  BY DEF RepeatLengths, Goes, Fails
<1>3. ASSUME NEW u, Regular(u), NEW v PROVE RepeatLengths(u, v).how # "fails" => Regular(RepeatLengths(u, v).t)
  <2> DEFINE w == RepeatLengths(u, v).t
  <2>1. Shaped(w)
    BY <1>3 DEF RepeatLengths, Goes, Fails, Regular, Clean, Shaped
  <2>2. w.readBits \in {u.readBits, ReadBitsIdle} /\ w.sym \in {u.sym, SymIdle}
    BY <1>3 DEF RepeatLengths, Goes, Fails, Regular, Clean, Shaped, Fields
  <2>3. RepeatLengths(u, v).how # "fails" => InStage(w)
    BY <1>3 DEF RepeatLengths, Goes, Fails, Regular, InStage, Working, Clean, Shaped, Fields
  <2> HIDE DEF w
  <2>4. InStage(w) => Regular(w)
    BY <1>3, <2>1, <2>2, KeptRegular
  <2> QED BY <2>3, <2>4 DEF w
<1>4. \A j: RepeatBits(t, j) = G(ReadBits(t, j, t.repeatBits, t.repeatBase))
  BY DEF RepeatBits
<1> DEFINE none == ReadBits(t, <<>>, t.repeatBits, t.repeatBase)
           one == ReadBits(t, <<Head(i)>>, t.repeatBits, t.repeatBase)
           all == ReadBits(t, i, t.repeatBits, t.repeatBase)
<1>5. ReaderCut(none, one, all, i)
  BY ReadBitsCut
<1>6. RepeatBits(t, <<>>) = G(none) /\ RepeatBits(t, <<Head(i)>>) = G(one) /\ RepeatBits(t, i) = G(all)
  BY <1>4
<1>7. Clean(t) /\ all.rc = "input" => /\ Stopped(t, i, all.t)
                                          /\ \A j: RepeatBits(all.t, j) = RepeatBits(t, j)
  <2> DEFINE u == all.t
  <2> HIDE DEF G
  <2> SUFFICES ASSUME Clean(t), all.rc = "input" PROVE Stopped(t, i, u) /\ \A j: RepeatBits(u, j) = RepeatBits(t, j)
    OBVIOUS
  <2>1. Stopped(t, i, u) /\ \A j, n, b: ReadBits(u, j, n, b) = ReadBits(t, j, t.repeatBits, t.repeatBase)
    BY ReadBitsStops
  <2> HIDE DEF u, all, one, none
  <2>3. \A j: RepeatBits(u, j) = G(ReadBits(u, j, u.repeatBits, u.repeatBase))
    BY <2>1 DEF RepeatBits, G
  <2> QED BY <2>1, <2>3, <1>4
<1>8. Kept(t, all)
  BY ReadBitsKeeps DEF Kept
<1> HIDE DEF none, one, all, G
<1>9. /\ Alike(all, none) => RepeatLengths(all.t, all.value) = RepeatLengths(none.t, none.value)
      /\ Alike(all, one) => RepeatLengths(all.t, all.value) = RepeatLengths(one.t, one.value)
      /\ RepeatLengths(none.t, none.value).how \in {"goes", "puts", "fails"} /\ RepeatLengths(one.t, one.value).how \in {"goes", "puts", "fails"}
      /\ RepeatLengths(all.t, all.value).how \in {"goes", "puts", "fails"} /\ (Regular(all.t) /\ RepeatLengths(all.t, all.value).how # "fails" => Regular(RepeatLengths(all.t, all.value).t))
  BY <1>2, <1>3 DEF Alike
<1>10. Handled(t, i, all, Made(none, RepeatLengths(none.t, none.value)), Made(one, RepeatLengths(one.t, one.value)), Made(all, RepeatLengths(all.t, all.value)))
  BY <1>5, <1>8, <1>9, OnRegular
<1>11. RepeatBits(t, <<>>) = Made(none, RepeatLengths(none.t, none.value)) /\ RepeatBits(t, <<Head(i)>>) = Made(one, RepeatLengths(one.t, one.value))
      /\ RepeatBits(t, i) = Made(all, RepeatLengths(all.t, all.value))
  BY <1>1, <1>6
<1> QED BY <1>7, <1>10, <1>11 DEF Handled

LEMMA StoredLenIsRegular ==
  ASSUME NEW t, NEW i \in Input
  PROVE  /\ StepCut(StoredLen(t, <<>>), StoredLen(t, <<Head(i)>>), StoredLen(t, i), i)
         /\ Clean(t) /\ StoredLen(t, i).how = "starves" => /\ Stopped(t, i, StoredLen(t, i).t)
                                                     /\ \A j: StoredLen(StoredLen(t, i).t, j) = StoredLen(t, j)
         /\ Regular(t) /\ StoredLen(t, i).how \in {"goes", "puts"} => Regular(StoredLen(t, i).t)
<1> DEFINE T(u, byte) ==
           LET h == Append(u.header, byte)
           IN  IF Len(h) < 4 THEN Goes([u EXCEPT !.header = h])
               ELSE IF h[1] + h[3] # 255 \/ h[2] + h[4] # 255 THEN Fails(u)
               ELSE Goes([u EXCEPT !.header = <<>>, !.storedLen = h[1] + 256 * h[2],
                                   !.stage = "storedData"])
           G(r) == On(r, T)
<1>1. \A r: G(r) = Made(r, T(r.t, r.value))
  BY DEF On, Made
<1>2. \A u, v: T(u, v).how \in {"goes", "puts", "fails"}
  BY DEF Goes, Fails
<1>3. ASSUME NEW u, Regular(u), NEW v PROVE T(u, v).how # "fails" => Regular(T(u, v).t)
  <2> DEFINE w == T(u, v).t
  <2>1. Shaped(w)
    <3>1. \A h: Shaped(Goes([u EXCEPT !.header = h]).t)
      BY <1>3 DEF Goes, Regular, Clean, Shaped
    <3>2. Shaped(Fails(u).t)
      BY <1>3 DEF Fails, Regular, Clean, Shaped
    <3>3. \A n: Shaped(Goes([u EXCEPT !.header = <<>>, !.storedLen = n, !.stage = "storedData"]).t)
      BY <1>3 DEF Goes, Regular, Clean, Shaped
    <3>4. \/ T(u, v) = Fails(u)
          \/ \E h: T(u, v) = Goes([u EXCEPT !.header = h])
          \/ \E n: T(u, v) = Goes([u EXCEPT !.header = <<>>, !.storedLen = n, !.stage = "storedData"])
      <4> DEFINE h == Append(u.header, v)
                 n == h[1] + 256 * h[2]
      <4>1. T(u, v) = IF Len(h) < 4 THEN Goes([u EXCEPT !.header = h])
                      ELSE IF h[1] + h[3] # 255 \/ h[2] + h[4] # 255 THEN Fails(u)
                      ELSE Goes([u EXCEPT !.header = <<>>, !.storedLen = n, !.stage = "storedData"])
        OBVIOUS
      <4> HIDE DEF h, n, T
      <4>2. T(u, v) \in {Fails(u), Goes([u EXCEPT !.header = h]),
                         Goes([u EXCEPT !.header = <<>>, !.storedLen = n, !.stage = "storedData"])}
        BY <4>1
      <4> QED BY <4>2
    <3> HIDE DEF T
    <3> QED BY <3>1, <3>2, <3>3, <3>4
  <2>2. w.readBits \in {u.readBits, ReadBitsIdle} /\ w.sym \in {u.sym, SymIdle}
    BY <1>3 DEF Goes, Fails, Regular, Clean, Shaped, Fields
  <2>3. T(u, v).how # "fails" => InStage(w)
    BY <1>3 DEF Goes, Fails, Regular, InStage, Working, Clean, Shaped, Fields
  <2> HIDE DEF w
  <2>4. InStage(w) => Regular(w)
    BY <1>3, <2>1, <2>2, KeptRegular
  <2> QED BY <2>3, <2>4 DEF w
<1>4. \A j: StoredLen(t, j) = G(ReadByte(t, j))
  BY DEF StoredLen
<1> DEFINE none == ReadByte(t, <<>>)
           one == ReadByte(t, <<Head(i)>>)
           all == ReadByte(t, i)
<1>5. ReaderCut(none, one, all, i)
  BY ReadByteCut
<1>6. StoredLen(t, <<>>) = G(none) /\ StoredLen(t, <<Head(i)>>) = G(one) /\ StoredLen(t, i) = G(all)
  BY <1>4
<1>7. Clean(t) /\ all.rc = "input" => /\ Stopped(t, i, all.t)
                                          /\ \A j: StoredLen(all.t, j) = StoredLen(t, j)
  BY ReadByteStops
<1>8. Kept(t, all)
  BY ReadByteKeeps DEF Kept
<1> HIDE DEF none, one, all, G, T
<1>9. /\ Alike(all, none) => T(all.t, all.value) = T(none.t, none.value)
      /\ Alike(all, one) => T(all.t, all.value) = T(one.t, one.value)
      /\ T(none.t, none.value).how \in {"goes", "puts", "fails"} /\ T(one.t, one.value).how \in {"goes", "puts", "fails"}
      /\ T(all.t, all.value).how \in {"goes", "puts", "fails"} /\ (Regular(all.t) /\ T(all.t, all.value).how # "fails" => Regular(T(all.t, all.value).t))
  BY <1>2, <1>3 DEF Alike
<1>10. Handled(t, i, all, Made(none, T(none.t, none.value)), Made(one, T(one.t, one.value)), Made(all, T(all.t, all.value)))
  BY <1>5, <1>8, <1>9, OnRegular
<1>11. StoredLen(t, <<>>) = Made(none, T(none.t, none.value)) /\ StoredLen(t, <<Head(i)>>) = Made(one, T(one.t, one.value))
      /\ StoredLen(t, i) = Made(all, T(all.t, all.value))
  BY <1>1, <1>6
<1> QED BY <1>7, <1>10, <1>11 DEF Handled

LEMMA StoredDataIsRegular ==
  ASSUME NEW t, NEW i \in Input
  PROVE  /\ StepCut(StoredData(t, <<>>), StoredData(t, <<Head(i)>>), StoredData(t, i), i)
         /\ Clean(t) /\ StoredData(t, i).how = "starves" => /\ Stopped(t, i, StoredData(t, i).t)
                                                     /\ \A j: StoredData(StoredData(t, i).t, j) = StoredData(t, j)
         /\ Regular(t) /\ StoredData(t, i).how \in {"goes", "puts"} => Regular(StoredData(t, i).t)
<1> DEFINE T(u, byte) ==
           Puts([IF u.storedLen = 1 THEN EndOfBlock(u) ELSE u EXCEPT !.storedLen = @ - 1], byte)
           G(r) == On(r, T)
<1>1. \A r: G(r) = Made(r, T(r.t, r.value))
  BY DEF On, Made
<1>2. \A u, v: T(u, v).how \in {"goes", "puts", "fails"}
  BY DEF Puts, EndOfBlock, Fails
<1>3. ASSUME NEW u, Regular(u), NEW v PROVE T(u, v).how # "fails" => Regular(T(u, v).t)
  <2> DEFINE w == T(u, v).t
  <2>1. Shaped(w)
    <3>1. \A a: Shaped(a) => Shaped(Puts(a, v).t)
      BY DEF Puts, Fails, Shaped
    <3>2. Shaped([IF u.storedLen = 1 THEN EndOfBlock(u) ELSE u EXCEPT !.storedLen = @ - 1])
      <4>1. Shaped(IF u.storedLen = 1 THEN EndOfBlock(u) ELSE u)
        BY <1>3 DEF EndOfBlock, Regular, Clean, Shaped
      <4> QED BY <4>1 DEF Shaped
    <3> QED BY <3>1, <3>2
  <2>2. w.readBits \in {u.readBits, ReadBitsIdle} /\ w.sym \in {u.sym, SymIdle}
    BY <1>3 DEF Puts, EndOfBlock, Fails, Regular, Clean, Shaped, Fields
  <2>3. T(u, v).how # "fails" => InStage(w)
    BY <1>3 DEF Puts, EndOfBlock, Fails, Regular, InStage, Working, Clean, Shaped, Fields
  <2> HIDE DEF w
  <2>4. InStage(w) => Regular(w)
    BY <1>3, <2>1, <2>2, KeptRegular
  <2> QED BY <2>3, <2>4 DEF w
<1>4. CASE t.storedLen # 0
  <2>1. \A j: StoredData(t, j) = G(ReadByte(t, j))
    BY <1>4 DEF StoredData
  <2> DEFINE none == ReadByte(t, <<>>)
             one == ReadByte(t, <<Head(i)>>)
             all == ReadByte(t, i)
  <2>2. ReaderCut(none, one, all, i)
    BY ReadByteCut
  <2>3. StoredData(t, <<>>) = G(none) /\ StoredData(t, <<Head(i)>>) = G(one) /\ StoredData(t, i) = G(all)
    BY <2>1
  <2>4. Clean(t) /\ all.rc = "input" => /\ Stopped(t, i, all.t)
                                            /\ \A j: StoredData(all.t, j) = StoredData(t, j)
    BY ReadByteStops
  <2>5. Kept(t, all)
    BY ReadByteKeeps DEF Kept
  <2> HIDE DEF none, one, all, G, T
  <2>6. /\ Alike(all, none) => T(all.t, all.value) = T(none.t, none.value)
        /\ Alike(all, one) => T(all.t, all.value) = T(one.t, one.value)
        /\ T(none.t, none.value).how \in {"goes", "puts", "fails"} /\ T(one.t, one.value).how \in {"goes", "puts", "fails"}
        /\ T(all.t, all.value).how \in {"goes", "puts", "fails"} /\ (Regular(all.t) /\ T(all.t, all.value).how # "fails" => Regular(T(all.t, all.value).t))
    BY <1>2, <1>3 DEF Alike
  <2>7. Handled(t, i, all, Made(none, T(none.t, none.value)), Made(one, T(one.t, one.value)), Made(all, T(all.t, all.value)))
    BY <2>2, <2>5, <2>6, OnRegular
  <2>8. StoredData(t, <<>>) = Made(none, T(none.t, none.value)) /\ StoredData(t, <<Head(i)>>) = Made(one, T(one.t, one.value))
        /\ StoredData(t, i) = Made(all, T(all.t, all.value))
    BY <1>1, <2>3
  <2> QED BY <2>4, <2>7, <2>8 DEF Handled
<1>5. CASE ~(t.storedLen # 0)
  <2> DEFINE o == Goes(EndOfBlock(t))
  <2>1. \A j: StoredData(t, j) = Leaving(o, j)
    BY <1>5 DEF StoredData
  <2>2. o.how \in {"goes", "fails"}
    BY DEF Goes
  <2>3. Regular(t) /\ o.how # "fails" => Regular(o.t)
    <3> SUFFICES ASSUME Regular(t), o.how # "fails" PROVE Regular(o.t)
      OBVIOUS
    <3>1. Shaped(o.t)
      BY DEF EndOfBlock, Goes, Regular, Clean, Shaped
    <3>2. o.t.readBits \in {t.readBits, ReadBitsIdle} /\ o.t.sym \in {t.sym, SymIdle}
      BY DEF EndOfBlock, Goes, Regular, Clean, Shaped, Fields
    <3>3. InStage(o.t)
      BY DEF EndOfBlock, Goes, Regular, InStage, Working, Clean, Shaped, Fields
    <3> HIDE DEF o
    <3> QED BY <3>1, <3>2, <3>3, KeptRegular
  <2> HIDE DEF o
  <2>4. /\ StepCut(Leaving(o, <<>>), Leaving(o, <<Head(i)>>), Leaving(o, i), i)
        /\ Leaving(o, i).how = o.how /\ Leaving(o, i).t = o.t
    BY <2>2, StillIsRegular
  <2> QED BY <2>1, <2>2, <2>3, <2>4
<1> QED BY <1>4, <1>5

LEMMA SymbolIsRegular ==
  ASSUME NEW t, NEW i \in Input
  PROVE  /\ StepCut(Symbol(t, <<>>), Symbol(t, <<Head(i)>>), Symbol(t, i), i)
         /\ Clean(t) /\ Symbol(t, i).how = "starves" => /\ Stopped(t, i, Symbol(t, i).t)
                                                     /\ \A j: Symbol(Symbol(t, i).t, j) = Symbol(t, j)
         /\ Regular(t) /\ Symbol(t, i).how \in {"goes", "puts"} => Regular(Symbol(t, i).t)
<1> DEFINE G(r) == On(r, BlockSymbol)
<1>1. \A r: G(r) = Made(r, BlockSymbol(r.t, r.value))
  BY DEF On, Made
<1>2. \A u, v: BlockSymbol(u, v).how \in {"goes", "puts", "fails"}
  BY DEF BlockSymbol, Puts, EndOfBlock, Goes, Fails
<1>3. ASSUME NEW u, Regular(u), NEW v PROVE BlockSymbol(u, v).how # "fails" => Regular(BlockSymbol(u, v).t)
  <2> DEFINE w == BlockSymbol(u, v).t
  <2>1. Shaped(w)
    <3>1. Shaped(Puts(u, v).t)
      BY <1>3 DEF Puts, Fails, Regular, Clean, Shaped
    <3>2. Shaped(Goes(EndOfBlock(u)).t)
      BY <1>3 DEF EndOfBlock, Goes, Regular, Clean, Shaped
    <3>3. Shaped(Fails(u).t)
      BY <1>3 DEF Fails, Regular, Clean, Shaped
    <3>4. Shaped(Goes([u EXCEPT !.lengthSym = v - 257, !.blockStage = "lenExtra"]).t)
      BY <1>3 DEF Goes, Regular, Clean, Shaped
    <3>5. BlockSymbol(u, v) \in {Puts(u, v), Goes(EndOfBlock(u)), Fails(u),
                                 Goes([u EXCEPT !.lengthSym = v - 257, !.blockStage = "lenExtra"])}
      BY DEF BlockSymbol
    <3> QED BY <3>1, <3>2, <3>3, <3>4, <3>5
  <2>2. w.readBits \in {u.readBits, ReadBitsIdle} /\ w.sym \in {u.sym, SymIdle}
    BY <1>3 DEF BlockSymbol, Puts, EndOfBlock, Goes, Fails, Regular, Clean, Shaped, Fields
  <2>3. BlockSymbol(u, v).how # "fails" => InStage(w)
    BY <1>3 DEF BlockSymbol, Puts, EndOfBlock, Goes, Fails, Regular, InStage, Working, Clean, Shaped, Fields
  <2> HIDE DEF w
  <2>4. InStage(w) => Regular(w)
    BY <1>3, <2>1, <2>2, KeptRegular
  <2> QED BY <2>3, <2>4 DEF w
<1>4. \A j: Symbol(t, j) = G(DecodeSymbol(t, j, t.ltree))
  BY DEF Symbol
<1> DEFINE none == DecodeSymbol(t, <<>>, t.ltree)
           one == DecodeSymbol(t, <<Head(i)>>, t.ltree)
           all == DecodeSymbol(t, i, t.ltree)
<1>5. ReaderCut(none, one, all, i)
  BY DecodeSymbolCut
<1>6. Symbol(t, <<>>) = G(none) /\ Symbol(t, <<Head(i)>>) = G(one) /\ Symbol(t, i) = G(all)
  BY <1>4
<1>7. Clean(t) /\ all.rc = "input" => /\ Stopped(t, i, all.t)
                                          /\ \A j: Symbol(all.t, j) = Symbol(t, j)
  <2> DEFINE u == all.t
  <2> HIDE DEF G
  <2> SUFFICES ASSUME Clean(t), all.rc = "input" PROVE Stopped(t, i, u) /\ \A j: Symbol(u, j) = Symbol(t, j)
    OBVIOUS
  <2>1. Stopped(t, i, u) /\ \A j: DecodeSymbol(u, j, t.ltree) = DecodeSymbol(t, j, t.ltree)
    BY DecodeSymbolStops
  <2> HIDE DEF u, all, one, none
  <2>2. u.ltree = t.ltree
    BY <2>1 DEF Stopped, Others, Fields
  <2>3. \A j: Symbol(u, j) = G(DecodeSymbol(u, j, u.ltree))
    BY <2>1, <2>2 DEF Symbol, G
  <2> QED BY <2>1, <2>2, <2>3, <1>4
<1>8. Kept(t, all)
  BY DecodeSymbolKeeps DEF Kept
<1> HIDE DEF none, one, all, G
<1>9. /\ Alike(all, none) => BlockSymbol(all.t, all.value) = BlockSymbol(none.t, none.value)
      /\ Alike(all, one) => BlockSymbol(all.t, all.value) = BlockSymbol(one.t, one.value)
      /\ BlockSymbol(none.t, none.value).how \in {"goes", "puts", "fails"} /\ BlockSymbol(one.t, one.value).how \in {"goes", "puts", "fails"}
      /\ BlockSymbol(all.t, all.value).how \in {"goes", "puts", "fails"} /\ (Regular(all.t) /\ BlockSymbol(all.t, all.value).how # "fails" => Regular(BlockSymbol(all.t, all.value).t))
  BY <1>2, <1>3 DEF Alike
<1>10. Handled(t, i, all, Made(none, BlockSymbol(none.t, none.value)), Made(one, BlockSymbol(one.t, one.value)), Made(all, BlockSymbol(all.t, all.value)))
  BY <1>5, <1>8, <1>9, OnRegular
<1>11. Symbol(t, <<>>) = Made(none, BlockSymbol(none.t, none.value)) /\ Symbol(t, <<Head(i)>>) = Made(one, BlockSymbol(one.t, one.value))
      /\ Symbol(t, i) = Made(all, BlockSymbol(all.t, all.value))
  BY <1>1, <1>6
<1> QED BY <1>7, <1>10, <1>11 DEF Handled

LEMMA LenExtraIsRegular ==
  ASSUME NEW t, NEW i \in Input
  PROVE  /\ StepCut(LenExtra(t, <<>>), LenExtra(t, <<Head(i)>>), LenExtra(t, i), i)
         /\ Clean(t) /\ LenExtra(t, i).how = "starves" => /\ Stopped(t, i, LenExtra(t, i).t)
                                                     /\ \A j: LenExtra(LenExtra(t, i).t, j) = LenExtra(t, j)
         /\ Regular(t) /\ LenExtra(t, i).how \in {"goes", "puts"} => Regular(LenExtra(t, i).t)
<1> DEFINE T(u, n) ==
           Goes([u EXCEPT !.matchLen = n, !.blockStage = "distSymbol"])
           G(r) == On(r, T)
<1>1. \A r: G(r) = Made(r, T(r.t, r.value))
  BY DEF On, Made
<1>2. \A u, v: T(u, v).how \in {"goes", "puts", "fails"}
  BY DEF Goes
<1>3. ASSUME NEW u, Regular(u), NEW v PROVE T(u, v).how # "fails" => Regular(T(u, v).t)
  <2> DEFINE w == T(u, v).t
  <2>1. Shaped(w)
    BY <1>3 DEF Goes, Regular, Clean, Shaped
  <2>2. w.readBits \in {u.readBits, ReadBitsIdle} /\ w.sym \in {u.sym, SymIdle}
    BY <1>3 DEF Goes, Regular, Clean, Shaped, Fields
  <2>3. T(u, v).how # "fails" => InStage(w)
    BY <1>3 DEF Goes, Regular, InStage, Working, Clean, Shaped, Fields
  <2> HIDE DEF w
  <2>4. InStage(w) => Regular(w)
    BY <1>3, <2>1, <2>2, KeptRegular
  <2> QED BY <2>3, <2>4 DEF w
<1>4. \A j: LenExtra(t, j) = G(ReadBits(t, j, LengthBits[t.lengthSym + 1], LengthBase[t.lengthSym + 1]))
  BY DEF LenExtra
<1> DEFINE none == ReadBits(t, <<>>, LengthBits[t.lengthSym + 1], LengthBase[t.lengthSym + 1])
           one == ReadBits(t, <<Head(i)>>, LengthBits[t.lengthSym + 1], LengthBase[t.lengthSym + 1])
           all == ReadBits(t, i, LengthBits[t.lengthSym + 1], LengthBase[t.lengthSym + 1])
<1>5. ReaderCut(none, one, all, i)
  BY ReadBitsCut
<1>6. LenExtra(t, <<>>) = G(none) /\ LenExtra(t, <<Head(i)>>) = G(one) /\ LenExtra(t, i) = G(all)
  BY <1>4
<1>7. Clean(t) /\ all.rc = "input" => /\ Stopped(t, i, all.t)
                                          /\ \A j: LenExtra(all.t, j) = LenExtra(t, j)
  <2> DEFINE u == all.t
  <2> HIDE DEF G, T
  <2> SUFFICES ASSUME Clean(t), all.rc = "input" PROVE Stopped(t, i, u) /\ \A j: LenExtra(u, j) = LenExtra(t, j)
    OBVIOUS
  <2>1. Stopped(t, i, u) /\ \A j, n, b: ReadBits(u, j, n, b) = ReadBits(t, j, LengthBits[t.lengthSym + 1], LengthBase[t.lengthSym + 1])
    BY ReadBitsStops
  <2> HIDE DEF u, all, one, none
  <2>3. \A j: LenExtra(u, j) = G(ReadBits(u, j, LengthBits[u.lengthSym + 1], LengthBase[u.lengthSym + 1]))
    BY <2>1 DEF LenExtra, G, T
  <2> QED BY <2>1, <2>3, <1>4
<1>8. Kept(t, all)
  BY ReadBitsKeeps DEF Kept
<1> HIDE DEF none, one, all, G, T
<1>9. /\ Alike(all, none) => T(all.t, all.value) = T(none.t, none.value)
      /\ Alike(all, one) => T(all.t, all.value) = T(one.t, one.value)
      /\ T(none.t, none.value).how \in {"goes", "puts", "fails"} /\ T(one.t, one.value).how \in {"goes", "puts", "fails"}
      /\ T(all.t, all.value).how \in {"goes", "puts", "fails"} /\ (Regular(all.t) /\ T(all.t, all.value).how # "fails" => Regular(T(all.t, all.value).t))
  BY <1>2, <1>3 DEF Alike
<1>10. Handled(t, i, all, Made(none, T(none.t, none.value)), Made(one, T(one.t, one.value)), Made(all, T(all.t, all.value)))
  BY <1>5, <1>8, <1>9, OnRegular
<1>11. LenExtra(t, <<>>) = Made(none, T(none.t, none.value)) /\ LenExtra(t, <<Head(i)>>) = Made(one, T(one.t, one.value))
      /\ LenExtra(t, i) = Made(all, T(all.t, all.value))
  BY <1>1, <1>6
<1> QED BY <1>7, <1>10, <1>11 DEF Handled

LEMMA DistSymbolIsRegular ==
  ASSUME NEW t, NEW i \in Input
  PROVE  /\ StepCut(DistSymbol(t, <<>>), DistSymbol(t, <<Head(i)>>), DistSymbol(t, i), i)
         /\ Clean(t) /\ DistSymbol(t, i).how = "starves" => /\ Stopped(t, i, DistSymbol(t, i).t)
                                                     /\ \A j: DistSymbol(DistSymbol(t, i).t, j) = DistSymbol(t, j)
         /\ Regular(t) /\ DistSymbol(t, i).how \in {"goes", "puts"} => Regular(DistSymbol(t, i).t)
<1> DEFINE T(u, sym) ==
           IF sym >= 30 THEN Fails(u) ELSE Goes([u EXCEPT !.distSym = sym, !.blockStage = "distExtra"])
           G(r) == On(r, T)
<1>1. \A r: G(r) = Made(r, T(r.t, r.value))
  BY DEF On, Made
<1>2. \A u, v: T(u, v).how \in {"goes", "puts", "fails"}
  BY DEF Goes, Fails
<1>3. ASSUME NEW u, Regular(u), NEW v PROVE T(u, v).how # "fails" => Regular(T(u, v).t)
  <2> DEFINE w == T(u, v).t
  <2>1. Shaped(w)
    BY <1>3 DEF Goes, Fails, Regular, Clean, Shaped
  <2>2. w.readBits \in {u.readBits, ReadBitsIdle} /\ w.sym \in {u.sym, SymIdle}
    BY <1>3 DEF Goes, Fails, Regular, Clean, Shaped, Fields
  <2>3. T(u, v).how # "fails" => InStage(w)
    BY <1>3 DEF Goes, Fails, Regular, InStage, Working, Clean, Shaped, Fields
  <2> HIDE DEF w
  <2>4. InStage(w) => Regular(w)
    BY <1>3, <2>1, <2>2, KeptRegular
  <2> QED BY <2>3, <2>4 DEF w
<1>4. \A j: DistSymbol(t, j) = G(DecodeSymbol(t, j, t.tree))
  BY DEF DistSymbol
<1> DEFINE none == DecodeSymbol(t, <<>>, t.tree)
           one == DecodeSymbol(t, <<Head(i)>>, t.tree)
           all == DecodeSymbol(t, i, t.tree)
<1>5. ReaderCut(none, one, all, i)
  BY DecodeSymbolCut
<1>6. DistSymbol(t, <<>>) = G(none) /\ DistSymbol(t, <<Head(i)>>) = G(one) /\ DistSymbol(t, i) = G(all)
  BY <1>4
<1>7. Clean(t) /\ all.rc = "input" => /\ Stopped(t, i, all.t)
                                          /\ \A j: DistSymbol(all.t, j) = DistSymbol(t, j)
  <2> DEFINE u == all.t
  <2> HIDE DEF G, T
  <2> SUFFICES ASSUME Clean(t), all.rc = "input" PROVE Stopped(t, i, u) /\ \A j: DistSymbol(u, j) = DistSymbol(t, j)
    OBVIOUS
  <2>1. Stopped(t, i, u) /\ \A j: DecodeSymbol(u, j, t.tree) = DecodeSymbol(t, j, t.tree)
    BY DecodeSymbolStops
  <2> HIDE DEF u, all, one, none
  <2>2. u.tree = t.tree
    BY <2>1 DEF Stopped, Others, Fields
  <2>3. \A j: DistSymbol(u, j) = G(DecodeSymbol(u, j, u.tree))
    BY <2>1, <2>2 DEF DistSymbol, G, T
  <2> QED BY <2>1, <2>2, <2>3, <1>4
<1>8. Kept(t, all)
  BY DecodeSymbolKeeps DEF Kept
<1> HIDE DEF none, one, all, G, T
<1>9. /\ Alike(all, none) => T(all.t, all.value) = T(none.t, none.value)
      /\ Alike(all, one) => T(all.t, all.value) = T(one.t, one.value)
      /\ T(none.t, none.value).how \in {"goes", "puts", "fails"} /\ T(one.t, one.value).how \in {"goes", "puts", "fails"}
      /\ T(all.t, all.value).how \in {"goes", "puts", "fails"} /\ (Regular(all.t) /\ T(all.t, all.value).how # "fails" => Regular(T(all.t, all.value).t))
  BY <1>2, <1>3 DEF Alike
<1>10. Handled(t, i, all, Made(none, T(none.t, none.value)), Made(one, T(one.t, one.value)), Made(all, T(all.t, all.value)))
  BY <1>5, <1>8, <1>9, OnRegular
<1>11. DistSymbol(t, <<>>) = Made(none, T(none.t, none.value)) /\ DistSymbol(t, <<Head(i)>>) = Made(one, T(one.t, one.value))
      /\ DistSymbol(t, i) = Made(all, T(all.t, all.value))
  BY <1>1, <1>6
<1> QED BY <1>7, <1>10, <1>11 DEF Handled

LEMMA DistExtraIsRegular ==
  ASSUME NEW t, NEW i \in Input
  PROVE  /\ StepCut(DistExtra(t, <<>>), DistExtra(t, <<Head(i)>>), DistExtra(t, i), i)
         /\ Clean(t) /\ DistExtra(t, i).how = "starves" => /\ Stopped(t, i, DistExtra(t, i).t)
                                                     /\ \A j: DistExtra(DistExtra(t, i).t, j) = DistExtra(t, j)
         /\ Regular(t) /\ DistExtra(t, i).how \in {"goes", "puts"} => Regular(DistExtra(t, i).t)
<1> DEFINE G(r) == On(r, Distance)
<1>1. \A r: G(r) = Made(r, Distance(r.t, r.value))
  BY DEF On, Made
<1>2. \A u, v: Distance(u, v).how \in {"goes", "puts", "fails"}
  BY DEF Distance, Goes, Fails
<1>3. ASSUME NEW u, Regular(u), NEW v PROVE Distance(u, v).how # "fails" => Regular(Distance(u, v).t)
  <2> DEFINE w == Distance(u, v).t
  <2>1. Shaped(w)
    BY <1>3 DEF Distance, Goes, Fails, Regular, Clean, Shaped
  <2>2. w.readBits \in {u.readBits, ReadBitsIdle} /\ w.sym \in {u.sym, SymIdle}
    BY <1>3 DEF Distance, Goes, Fails, Regular, Clean, Shaped, Fields
  <2>3. Distance(u, v).how # "fails" => InStage(w)
    BY <1>3 DEF Distance, Goes, Fails, Regular, InStage, Working, Clean, Shaped, Fields
  <2> HIDE DEF w
  <2>4. InStage(w) => Regular(w)
    BY <1>3, <2>1, <2>2, KeptRegular
  <2> QED BY <2>3, <2>4 DEF w
<1>4. \A j: DistExtra(t, j) = G(ReadBits(t, j, DistBits[t.distSym + 1], DistBase[t.distSym + 1]))
  BY DEF DistExtra
<1> DEFINE none == ReadBits(t, <<>>, DistBits[t.distSym + 1], DistBase[t.distSym + 1])
           one == ReadBits(t, <<Head(i)>>, DistBits[t.distSym + 1], DistBase[t.distSym + 1])
           all == ReadBits(t, i, DistBits[t.distSym + 1], DistBase[t.distSym + 1])
<1>5. ReaderCut(none, one, all, i)
  BY ReadBitsCut
<1>6. DistExtra(t, <<>>) = G(none) /\ DistExtra(t, <<Head(i)>>) = G(one) /\ DistExtra(t, i) = G(all)
  BY <1>4
<1>7. Clean(t) /\ all.rc = "input" => /\ Stopped(t, i, all.t)
                                          /\ \A j: DistExtra(all.t, j) = DistExtra(t, j)
  <2> DEFINE u == all.t
  <2> HIDE DEF G
  <2> SUFFICES ASSUME Clean(t), all.rc = "input" PROVE Stopped(t, i, u) /\ \A j: DistExtra(u, j) = DistExtra(t, j)
    OBVIOUS
  <2>1. Stopped(t, i, u) /\ \A j, n, b: ReadBits(u, j, n, b) = ReadBits(t, j, DistBits[t.distSym + 1], DistBase[t.distSym + 1])
    BY ReadBitsStops
  <2> HIDE DEF u, all, one, none
  <2>3. \A j: DistExtra(u, j) = G(ReadBits(u, j, DistBits[u.distSym + 1], DistBase[u.distSym + 1]))
    BY <2>1 DEF DistExtra, G
  <2> QED BY <2>1, <2>3, <1>4
<1>8. Kept(t, all)
  BY ReadBitsKeeps DEF Kept
<1> HIDE DEF none, one, all, G
<1>9. /\ Alike(all, none) => Distance(all.t, all.value) = Distance(none.t, none.value)
      /\ Alike(all, one) => Distance(all.t, all.value) = Distance(one.t, one.value)
      /\ Distance(none.t, none.value).how \in {"goes", "puts", "fails"} /\ Distance(one.t, one.value).how \in {"goes", "puts", "fails"}
      /\ Distance(all.t, all.value).how \in {"goes", "puts", "fails"} /\ (Regular(all.t) /\ Distance(all.t, all.value).how # "fails" => Regular(Distance(all.t, all.value).t))
  BY <1>2, <1>3 DEF Alike
<1>10. Handled(t, i, all, Made(none, Distance(none.t, none.value)), Made(one, Distance(one.t, one.value)), Made(all, Distance(all.t, all.value)))
  BY <1>5, <1>8, <1>9, OnRegular
<1>11. DistExtra(t, <<>>) = Made(none, Distance(none.t, none.value)) /\ DistExtra(t, <<Head(i)>>) = Made(one, Distance(one.t, one.value))
      /\ DistExtra(t, i) = Made(all, Distance(all.t, all.value))
  BY <1>1, <1>6
<1> QED BY <1>7, <1>10, <1>11 DEF Handled

LEMMA MatchCopyIsRegular ==
  ASSUME NEW t, NEW i \in Input
  PROVE  /\ StepCut(MatchCopy(t, <<>>), MatchCopy(t, <<Head(i)>>), MatchCopy(t, i), i)
         /\ MatchCopy(t, i).how # "starves"
         /\ Regular(t) /\ MatchCopy(t, i).how \in {"goes", "puts"} => Regular(MatchCopy(t, i).t)
<1> DEFINE w == [t EXCEPT !.matchLen = @ - 1, !.blockStage = IF t.matchLen = 1 THEN "symbol" ELSE @]
           byte == t.window[Source(t)]
           o == Puts(w, byte)
<1>1. \A j: MatchCopy(t, j) = Leaving(o, j)
  BY DEF MatchCopy
<1>2. o.how \in {"goes", "puts", "fails"}
  BY DEF Puts, Fails
<1>3. ASSUME Regular(t), o.how # "fails" PROVE Regular(o.t)
  <2>1. Shaped(w)
    BY <1>3 DEF Regular, Clean, Shaped
  <2>2. w.readBits = t.readBits /\ w.sym = t.sym
    BY <1>3 DEF Regular, Clean, Shaped, Fields
  <2>3. InStage(w)
    BY <1>3 DEF Regular, InStage, Working, Clean, Shaped, Fields
  <2> HIDE DEF w, byte
  <2>4. Shaped(o.t)
    BY <2>1 DEF Puts, Fails, Shaped
  <2>5. o.t.readBits = w.readBits /\ o.t.sym = w.sym
    BY <2>1 DEF Puts, Fails, Shaped, Fields
  <2>6. InStage(o.t)
    BY <1>3, <2>1, <2>3 DEF Puts, Fails, InStage, Working, Shaped, Fields
  <2> HIDE DEF o
  <2> QED BY <1>3, <2>2, <2>4, <2>5, <2>6, KeptRegular
<1> HIDE DEF o
<1>4. /\ StepCut(MatchCopy(t, <<>>), MatchCopy(t, <<Head(i)>>), MatchCopy(t, i), i)
      /\ MatchCopy(t, i).how = o.how /\ MatchCopy(t, i).t = o.t
  BY <1>1, <1>2, StillIsRegular
<1> QED BY <1>2, <1>3, <1>4

(* The end of a stream *)
Ended(o) == Clean(o.t) /\ o.t.stage = "done" /\ o.left = <<>>

(* The last byte of a stream: others that follow make the step fail. *)
LEMMA TrailerIsRegular ==
  ASSUME NEW t, Clean(t), NEW i \in Input
  PROVE  /\ StepCut(Trailer(t, <<>>), Trailer(t, <<Head(i)>>), Trailer(t, i), i)
         /\ Trailer(t, i).how = "starves" => Stopped(t, i, Trailer(t, i).t) /\ Trailer(t, i).t = t
         /\ Regular(t) /\ Trailer(t, i).how \in {"goes", "puts"} =>
              Regular(Trailer(t, i).t) \/ Ended(Trailer(t, i))
<1> DEFINE After(byte, left) ==
             LET trailer == Append(t.trailer, byte)
             IN  IF Len(trailer) < 4 THEN Goes([t EXCEPT !.trailer = trailer])
                 ELSE IF Complete(t, trailer, left) THEN Goes([t EXCEPT !.stage = "done"])
                 ELSE Fails(t)
<1>1. Trailer(t, <<>>) = Leaving(Starves(t), <<>>)
  BY DEF Trailer, ReadByte, Read, On
<1>2. ASSUME NEW j \in Input, j # <<>> PROVE Trailer(t, j) = Leaving(After(Head(j), Tail(j)), Tail(j))
  BY <1>2 DEF Trailer, ReadByte, Read, On
<1>3. CASE i = <<>>
  BY <1>1, <1>3, CleanIsUnread DEF StepCut, Same, Leaving, Starves, Stopped
<1>4. CASE i # <<>>
  <2> DEFINE b == Head(i)
  <2>1. /\ <<b>> \in Input /\ Head(<<b>>) = b /\ Tail(<<b>>) = <<>>
    <3>2. b \in 0..255
      BY <1>4, HeadTailProperties DEF Input
    <3> QED BY <3>2 DEF Input
  <2>2. /\ Trailer(t, i) = Leaving(After(b, Tail(i)), Tail(i))
        /\ Trailer(t, <<b>>) = Leaving(After(b, <<>>), <<>>)
    <3> HIDE DEF After
    <3> QED BY <1>2, <1>4, <2>1
  <2>3. \A left: After(b, left).how \in {"goes", "fails"}
    BY DEF Goes, Fails
  <2>4. Trailer(t, i).how # "starves"
    <3> HIDE DEF After
    <3> QED BY <2>2, <2>3 DEF Leaving
  <2>5. ASSUME Regular(t), Trailer(t, i).how \in {"goes", "puts"}
        PROVE  Regular(Trailer(t, i).t) \/ Ended(Trailer(t, i))
    <3> DEFINE more == [t EXCEPT !.trailer = Append(t.trailer, b)]
               done == [t EXCEPT !.stage = "done"]
    <3>1. Regular(more) /\ Clean(done) /\ done.stage = "done"
      BY <2>5 DEF Regular, Clean, Shaped, Fields, InStage
    <3>2. \/ After(b, Tail(i)) = Goes(more)
          \/ After(b, Tail(i)) = Fails(t)
          \/ After(b, Tail(i)) = Goes(done) /\ Tail(i) = <<>>
      BY DEF Complete
    <3> HIDE DEF After, more, done
    <3>3. After(b, Tail(i)) # Fails(t)
      BY <2>2, <2>5 DEF Leaving, Fails
    <3> QED BY <2>2, <3>1, <3>2, <3>3 DEF Leaving, Goes, Ended
  <2>6. StepCut(Trailer(t, <<>>), Trailer(t, <<Head(i)>>), Trailer(t, i), i)
    <3>1. CASE After(b, Tail(i)) = After(b, <<>>)
      <4> HIDE DEF After
      <4> QED BY <1>1, <2>2, <2>3, <3>1 DEF StepCut, Same, Leaving, Starves
    <3>2. CASE Tail(i) # <<>> /\ ~(Len(Append(t.trailer, b)) < 4)
      <4>1. After(b, Tail(i)) = Fails(t)
        BY <3>2 DEF Complete
      <4>2. After(b, <<>>) = Fails(t) \/ After(b, <<>>) = Goes([t EXCEPT !.stage = "done"])
        BY <3>2
      <4>3. CASE After(b, <<>>) = Fails(t)
        BY <4>1, <4>3, <3>1
      <4>4. CASE After(b, <<>>) = Goes([t EXCEPT !.stage = "done"])
        <5> HIDE DEF After
        <5>1. After(b, <<>>).t.stage = "done" /\ After(b, Tail(i)).how = "fails"
          BY <4>1, <4>4 DEF Goes, Fails, Clean, Shaped, Fields
        <5> QED BY <1>1, <2>2, <2>3, <3>2, <5>1 DEF StepCut, Leaving, Starves
      <4> QED BY <4>2, <4>3, <4>4
    <3> QED BY <3>1, <3>2
  <2> QED BY <2>4, <2>5, <2>6
<1> QED BY <1>3, <1>4

LEMMA TablesIsRegular ==
  ASSUME NEW t, Regular(t), NEW i \in Input
  PROVE  /\ StepCut(Tables(t, <<>>), Tables(t, <<Head(i)>>), Tables(t, i), i)
         /\ Tables(t, i).how = "starves" => /\ Stopped(t, i, Tables(t, i).t)
                                           /\ \A j: Tables(Tables(t, i).t, j) = Tables(t, j)
         /\ Tables(t, i).how \in {"goes", "puts"} => Regular(Tables(t, i).t)
<1>1. CASE t.dynamicStage = "hlit"
  <2>1. \A j: Tables(t, j) = Hlit(t, j)
    BY <1>1 DEF Tables
  <2>2. ASSUME NEW u, Stopped(t, i, u) PROVE \A j: Tables(u, j) = Hlit(u, j)
    <3>1. u.dynamicStage = t.dynamicStage
      BY <2>2 DEF Stopped, Others, Fields
    <3> QED BY <1>1, <3>1 DEF Tables
  <2> QED BY <2>1, <2>2, HlitIsRegular DEF Regular
<1>2. CASE t.dynamicStage = "hdist"
  <2>1. \A j: Tables(t, j) = Hdist(t, j)
    BY <1>2 DEF Tables
  <2>2. ASSUME NEW u, Stopped(t, i, u) PROVE \A j: Tables(u, j) = Hdist(u, j)
    <3>1. u.dynamicStage = t.dynamicStage
      BY <2>2 DEF Stopped, Others, Fields
    <3> QED BY <1>2, <3>1 DEF Tables
  <2> QED BY <2>1, <2>2, HdistIsRegular DEF Regular
<1>3. CASE t.dynamicStage = "hclen"
  <2>1. \A j: Tables(t, j) = Hclen(t, j)
    BY <1>3 DEF Tables
  <2>2. ASSUME NEW u, Stopped(t, i, u) PROVE \A j: Tables(u, j) = Hclen(u, j)
    <3>1. u.dynamicStage = t.dynamicStage
      BY <2>2 DEF Stopped, Others, Fields
    <3> QED BY <1>3, <3>1 DEF Tables
  <2> QED BY <2>1, <2>2, HclenIsRegular DEF Regular
<1>4. CASE t.dynamicStage = "readClen"
  <2>1. \A j: Tables(t, j) = ReadClen(t, j)
    BY <1>4 DEF Tables
  <2>2. ASSUME NEW u, Stopped(t, i, u) PROVE \A j: Tables(u, j) = ReadClen(u, j)
    <3>1. u.dynamicStage = t.dynamicStage
      BY <2>2 DEF Stopped, Others, Fields
    <3> QED BY <1>4, <3>1 DEF Tables
  <2> QED BY <2>1, <2>2, ReadClenIsRegular DEF Regular
<1>5. CASE t.dynamicStage = "readLengths"
  <2>1. \A j: Tables(t, j) = ReadLengths(t, j)
    BY <1>5 DEF Tables
  <2>2. ASSUME NEW u, Stopped(t, i, u) PROVE \A j: Tables(u, j) = ReadLengths(u, j)
    <3>1. u.dynamicStage = t.dynamicStage
      BY <2>2 DEF Stopped, Others, Fields
    <3> QED BY <1>5, <3>1 DEF Tables
  <2> QED BY <2>1, <2>2, ReadLengthsIsRegular DEF Regular
<1>6. CASE t.dynamicStage = "repeatBits"
  <2>1. \A j: Tables(t, j) = RepeatBits(t, j)
    BY <1>6 DEF Tables
  <2>2. ASSUME NEW u, Stopped(t, i, u) PROVE \A j: Tables(u, j) = RepeatBits(u, j)
    <3>1. u.dynamicStage = t.dynamicStage
      BY <2>2 DEF Stopped, Others, Fields
    <3> QED BY <1>6, <3>1 DEF Tables
  <2> QED BY <2>1, <2>2, RepeatBitsIsRegular DEF Regular
<1> QED BY <1>1, <1>2, <1>3, <1>4, <1>5, <1>6 DEF Regular, InStage

LEMMA BlockDataIsRegular ==
  ASSUME NEW t, Regular(t), NEW i \in Input
  PROVE  /\ StepCut(BlockData(t, <<>>), BlockData(t, <<Head(i)>>), BlockData(t, i), i)
         /\ BlockData(t, i).how = "starves" => /\ Stopped(t, i, BlockData(t, i).t)
                                              /\ \A j: BlockData(BlockData(t, i).t, j) = BlockData(t, j)
         /\ BlockData(t, i).how \in {"goes", "puts"} => Regular(BlockData(t, i).t)
<1>1. CASE t.blockStage = "symbol"
  <2>1. \A j: BlockData(t, j) = Symbol(t, j)
    BY <1>1 DEF BlockData
  <2>2. ASSUME NEW u, Stopped(t, i, u) PROVE \A j: BlockData(u, j) = Symbol(u, j)
    <3>1. u.blockStage = t.blockStage
      BY <2>2 DEF Stopped, Others, Fields
    <3> QED BY <1>1, <3>1 DEF BlockData
  <2> QED BY <2>1, <2>2, SymbolIsRegular DEF Regular
<1>2. CASE t.blockStage = "lenExtra"
  <2>1. \A j: BlockData(t, j) = LenExtra(t, j)
    BY <1>2 DEF BlockData
  <2>2. ASSUME NEW u, Stopped(t, i, u) PROVE \A j: BlockData(u, j) = LenExtra(u, j)
    <3>1. u.blockStage = t.blockStage
      BY <2>2 DEF Stopped, Others, Fields
    <3> QED BY <1>2, <3>1 DEF BlockData
  <2> QED BY <2>1, <2>2, LenExtraIsRegular DEF Regular
<1>3. CASE t.blockStage = "distSymbol"
  <2>1. \A j: BlockData(t, j) = DistSymbol(t, j)
    BY <1>3 DEF BlockData
  <2>2. ASSUME NEW u, Stopped(t, i, u) PROVE \A j: BlockData(u, j) = DistSymbol(u, j)
    <3>1. u.blockStage = t.blockStage
      BY <2>2 DEF Stopped, Others, Fields
    <3> QED BY <1>3, <3>1 DEF BlockData
  <2> QED BY <2>1, <2>2, DistSymbolIsRegular DEF Regular
<1>4. CASE t.blockStage = "distExtra"
  <2>1. \A j: BlockData(t, j) = DistExtra(t, j)
    BY <1>4 DEF BlockData
  <2>2. ASSUME NEW u, Stopped(t, i, u) PROVE \A j: BlockData(u, j) = DistExtra(u, j)
    <3>1. u.blockStage = t.blockStage
      BY <2>2 DEF Stopped, Others, Fields
    <3> QED BY <1>4, <3>1 DEF BlockData
  <2> QED BY <2>1, <2>2, DistExtraIsRegular DEF Regular
<1>5. CASE t.blockStage = "matchCopy"
  <2>1. \A j: BlockData(t, j) = MatchCopy(t, j)
    BY <1>5 DEF BlockData
  <2> QED BY <2>1, MatchCopyIsRegular
<1> QED BY <1>1, <1>2, <1>3, <1>4, <1>5 DEF Regular, InStage

(* What a step is, by the stage. *)
LEMMA StepOf ==
  ASSUME NEW t, NEW j
  PROVE  /\ t.stage = "cmf" => Step(t, j) = Cmf(t, j)
         /\ t.stage = "flg" => Step(t, j) = Flg(t, j)
         /\ t.stage = "final" => Step(t, j) = BlockFinal(t, j)
         /\ t.stage = "type" => Step(t, j) = BlockType(t, j)
         /\ t.stage = "dynamicTrees" => Step(t, j) = Tables(t, j)
         /\ t.stage = "storedLen" => Step(t, j) = StoredLen(t, j)
         /\ t.stage = "storedData" => Step(t, j) = StoredData(t, j)
         /\ t.stage = "blockData" => Step(t, j) = BlockData(t, j)
         /\ t.stage = "trailer" => Step(t, j) = Trailer(t, j)
<1>1. ASSUME t.stage = "cmf" PROVE Step(t, j) = Cmf(t, j)
  BY <1>1 DEF Step
<1>2. ASSUME t.stage = "flg" PROVE Step(t, j) = Flg(t, j)
  BY <1>2 DEF Step
<1>3. ASSUME t.stage = "final" PROVE Step(t, j) = BlockFinal(t, j)
  BY <1>3 DEF Step
<1>4. ASSUME t.stage = "type" PROVE Step(t, j) = BlockType(t, j)
  BY <1>4 DEF Step
<1>5. ASSUME t.stage = "dynamicTrees" PROVE Step(t, j) = Tables(t, j)
  BY <1>5 DEF Step
<1>6. ASSUME t.stage = "storedLen" PROVE Step(t, j) = StoredLen(t, j)
  BY <1>6 DEF Step
<1>7. ASSUME t.stage = "storedData" PROVE Step(t, j) = StoredData(t, j)
  BY <1>7 DEF Step
<1>8. ASSUME t.stage = "blockData" PROVE Step(t, j) = BlockData(t, j)
  BY <1>8 DEF Step
<1>9. ASSUME t.stage = "trailer" PROVE Step(t, j) = Trailer(t, j)
  BY <1>9 DEF Step
<1> QED BY <1>1, <1>2, <1>3, <1>4, <1>5, <1>6, <1>7, <1>8, <1>9

LEMMA StepIsRegular ==
  ASSUME NEW t, Regular(t), NEW i \in Input
  PROVE  /\ StepCut(Step(t, <<>>), Step(t, <<Head(i)>>), Step(t, i), i)
         /\ Step(t, i).how = "starves" => /\ Stopped(t, i, Step(t, i).t)
                                         /\ \A j: Step(Step(t, i).t, j) = Step(t, j)
         /\ Step(t, i).how \in {"goes", "puts"} => Regular(Step(t, i).t) \/ Ended(Step(t, i))
<1>1. CASE t.stage = "cmf"
  <2>1. \A j: Step(t, j) = Cmf(t, j)
    BY <1>1, StepOf
  <2>2. ASSUME NEW u, Stopped(t, i, u) PROVE \A j: Step(u, j) = Cmf(u, j)
    <3>1. u.stage = t.stage
      BY <2>2 DEF Stopped, Others, Fields
    <3> QED BY <1>1, <3>1, StepOf
  <2> QED BY <2>1, <2>2, CmfIsRegular DEF Regular
<1>2. CASE t.stage = "flg"
  <2>1. \A j: Step(t, j) = Flg(t, j)
    BY <1>2, StepOf
  <2>2. ASSUME NEW u, Stopped(t, i, u) PROVE \A j: Step(u, j) = Flg(u, j)
    <3>1. u.stage = t.stage
      BY <2>2 DEF Stopped, Others, Fields
    <3> QED BY <1>2, <3>1, StepOf
  <2> QED BY <2>1, <2>2, FlgIsRegular DEF Regular
<1>3. CASE t.stage = "final"
  <2>1. \A j: Step(t, j) = BlockFinal(t, j)
    BY <1>3, StepOf
  <2>2. ASSUME NEW u, Stopped(t, i, u) PROVE \A j: Step(u, j) = BlockFinal(u, j)
    <3>1. u.stage = t.stage
      BY <2>2 DEF Stopped, Others, Fields
    <3> QED BY <1>3, <3>1, StepOf
  <2> QED BY <2>1, <2>2, BlockFinalIsRegular DEF Regular
<1>4. CASE t.stage = "type"
  <2>1. \A j: Step(t, j) = BlockType(t, j)
    BY <1>4, StepOf
  <2>2. ASSUME NEW u, Stopped(t, i, u) PROVE \A j: Step(u, j) = BlockType(u, j)
    <3>1. u.stage = t.stage
      BY <2>2 DEF Stopped, Others, Fields
    <3> QED BY <1>4, <3>1, StepOf
  <2> QED BY <2>1, <2>2, BlockTypeIsRegular DEF Regular
<1>5. CASE t.stage = "dynamicTrees"
  <2>1. \A j: Step(t, j) = Tables(t, j)
    BY <1>5, StepOf
  <2>2. ASSUME NEW u, Stopped(t, i, u) PROVE \A j: Step(u, j) = Tables(u, j)
    <3>1. u.stage = t.stage
      BY <2>2 DEF Stopped, Others, Fields
    <3> QED BY <1>5, <3>1, StepOf
  <2> QED BY <2>1, <2>2, TablesIsRegular DEF Regular
<1>6. CASE t.stage = "storedLen"
  <2>1. \A j: Step(t, j) = StoredLen(t, j)
    BY <1>6, StepOf
  <2>2. ASSUME NEW u, Stopped(t, i, u) PROVE \A j: Step(u, j) = StoredLen(u, j)
    <3>1. u.stage = t.stage
      BY <2>2 DEF Stopped, Others, Fields
    <3> QED BY <1>6, <3>1, StepOf
  <2> QED BY <2>1, <2>2, StoredLenIsRegular DEF Regular
<1>7. CASE t.stage = "storedData"
  <2>1. \A j: Step(t, j) = StoredData(t, j)
    BY <1>7, StepOf
  <2>2. ASSUME NEW u, Stopped(t, i, u) PROVE \A j: Step(u, j) = StoredData(u, j)
    <3>1. u.stage = t.stage
      BY <2>2 DEF Stopped, Others, Fields
    <3> QED BY <1>7, <3>1, StepOf
  <2> QED BY <2>1, <2>2, StoredDataIsRegular DEF Regular
<1>8. CASE t.stage = "blockData"
  <2>1. \A j: Step(t, j) = BlockData(t, j)
    BY <1>8, StepOf
  <2>2. ASSUME NEW u, Stopped(t, i, u) PROVE \A j: Step(u, j) = BlockData(u, j)
    <3>1. u.stage = t.stage
      BY <2>2 DEF Stopped, Others, Fields
    <3> QED BY <1>8, <3>1, StepOf
  <2> QED BY <2>1, <2>2, BlockDataIsRegular DEF Regular
<1>9. CASE t.stage = "trailer"
  <2>1. \A j: Step(t, j) = Trailer(t, j)
    BY <1>9, StepOf
  <2>2. ASSUME NEW u, Stopped(t, i, u) PROVE \A j: Step(u, j) = Trailer(u, j)
    <3>1. u.stage = t.stage
      BY <2>2 DEF Stopped, Others, Fields
    <3> QED BY <1>9, <3>1, StepOf
  <2> QED BY <2>1, <2>2, TrailerIsRegular DEF Regular
<1> QED BY <1>1, <1>2, <1>3, <1>4, <1>5, <1>6, <1>7, <1>8, <1>9 DEF Regular, InStage, Working

-----------------------------------------------------------------------------
(***************************************************************************)
(* The invariant: between two steps the decoder is at the end, or can be   *)
(* taken for one that is in the middle of a stream and has not begun with  *)
(* a reader in vain.                                                       *)
(***************************************************************************)
Resumes(t) == Regular(Unread(t)) /\ \A j: Step(t, j) = Step(Unread(t), j)

TypeOK == /\ which \in DOMAIN Streams /\ fed \in 0..Len(Meaning.bytes)
          /\ input \in Input /\ \E S: emitted \in Seq(S) /\ output \in Seq(S)
          /\ z \in [done: BOOLEAN, failed: BOOLEAN] /\ pc \in {"idle", "poll"}

IInv == /\ TypeOK
        /\ z.failed => pc = "idle" /\ ~z.done
        /\ ~z.failed => \/ s.stage = "done" /\ Clean(s) /\ input = <<>>
                        \/ Resumes(s) /\ ~z.done
        /\ pc = "idle" => /\ input = <<>> /\ output = <<>>
                          /\ ~z.failed => IF s.stage = "done" THEN z.done ELSE Step(s, <<>>).how = "starves"

LEMMA StageUnread == ASSUME NEW t, Clean(Unread(t)) PROVE Unread(t).stage = t.stage
BY DEF Clean, Shaped, Fields, Unread

LEMMA RegularResumes == ASSUME NEW t, Regular(t) PROVE Resumes(t) /\ Unread(t) = t
BY CleanIsUnread DEF Regular, Resumes

LEMMA FreshResumes ==
  ASSUME NEW limit
  PROVE  /\ Resumes(Fresh(limit)) /\ Unread(Fresh(limit)) = Fresh(limit)
         /\ Fresh(limit).stage = "cmf" /\ Step(Fresh(limit), <<>>).how = "starves"
<1> DEFINE t == Fresh(limit)
<1>1. Shaped(t)
  BY DEF Fresh, Shaped, Fields
<1>2. /\ t.stage = "cmf" /\ t.dynamicStage = "hlit" /\ t.blockStage = "symbol"
      /\ t.readBits = ReadBitsIdle /\ t.sym = SymIdle
  BY DEF Fresh
<1> HIDE DEF t
<1>3. Regular(t)
  BY <1>1, <1>2 DEF Regular, Clean, InStage, Working
<1>4. Step(t, <<>>) = Cmf(t, <<>>)
  BY <1>2 DEF Step
<1>5. Cmf(t, <<>>).how = "starves"
  BY DEF Cmf, ReadByte, Read, On, Leaving, Starves
<1> QED BY <1>2, <1>3, <1>4, <1>5, RegularResumes DEF t

(* A step, whether the decoder comes back to a reader or not. *)
LEMMA ResumedStep ==
  ASSUME NEW t, Resumes(t), NEW i \in Input
  PROVE  /\ t.stage = Unread(t).stage /\ t.stage \in Working
         /\ StepCut(Step(Unread(t), <<>>), Step(Unread(t), <<Head(i)>>), Step(t, i), i)
         /\ Step(t, i).how = "starves" =>
              /\ i = <<>> /\ Step(t, i).left = <<>>
              /\ Resumes(Step(t, i).t) /\ Unread(Step(t, i).t) = Unread(t)
              /\ Step(Step(t, i).t, <<>>).how = "starves"
         /\ Step(t, i).how \in {"goes", "puts"} =>
              /\ Resumes(Step(t, i).t) \/ Ended(Step(t, i))
              /\ Unread(Step(t, i).t) = Step(t, i).t
         /\ Step(t, i).left \in Input
<1> DEFINE u == Unread(t)
           o == Step(t, i)
<1>1. Regular(u) /\ Clean(u) /\ o = Step(u, i)
  BY DEF Resumes, Regular
<1>2. t.stage = u.stage /\ u.stage \in Working
  BY <1>1, StageUnread DEF Regular, InStage
<1> HIDE DEF u
<1>3. /\ StepCut(Step(u, <<>>), Step(u, <<Head(i)>>), Step(u, i), i)
      /\ Step(u, i).how = "starves" => Stopped(u, i, Step(u, i).t) /\ \A j: Step(Step(u, i).t, j) = Step(u, j)
      /\ Step(u, i).how \in {"goes", "puts"} => Regular(Step(u, i).t) \/ Ended(Step(u, i))
  BY <1>1, StepIsRegular
<1> HIDE DEF o
<1>4. ASSUME o.how = "starves" PROVE i = <<>> /\ Resumes(o.t) /\ Unread(o.t) = u
  BY <1>1, <1>3, <1>4 DEF Stopped, Resumes
<1>5. ASSUME o.how \in {"goes", "puts"} PROVE (Resumes(o.t) \/ Ended(o)) /\ Unread(o.t) = o.t
  BY <1>1, <1>3, <1>5, RegularResumes, CleanIsUnread DEF Ended
<1>6. o.how = "starves" => o.left = <<>> /\ Step(o.t, <<>>).how = "starves"
  BY <1>1, <1>3, <1>4 DEF StepCut
<1>7. o.left \in Input
  <2>1. CASE i = <<>>
    BY <1>1, <1>3, <2>1 DEF StepCut, Input
  <2>2. CASE i # <<>>
    <3>1. Tail(i) \in Input
      BY <2>2, HeadTailProperties DEF Input
    <3> QED BY <1>1, <1>3, <2>2, <3>1 DEF StepCut
  <2> QED BY <2>1, <2>2
<1> QED BY <1>1, <1>2, <1>3, <1>4, <1>5, <1>6, <1>7 DEF u, o

(***************************************************************************)
(* Sequences of bytes.                                                     *)
(***************************************************************************)
LEMMA PartOf ==
  ASSUME NEW b \in Input, NEW m \in 1..(Len(b) + 1), NEW n \in 0..Len(b)
  PROVE  SubSeq(b, m, n) \in Input /\ Len(SubSeq(b, m, n)) = IF m <= n THEN n - m + 1 ELSE 0
<1>1. Len(b) \in Nat /\ \A k \in 1..Len(b): b[k] \in 0..255
  BY LenProperties DEF Input
<1>2. ASSUME NEW k \in m..n PROVE b[k] \in 0..255
  <2>1. k \in 1..Len(b)
    BY <1>1
  <2> QED BY <1>1, <2>1
<1> QED BY <1>1, <1>2, SubSeqProperties DEF Input

LEMMA DropFirst ==
  ASSUME NEW a \in Input, NEW b \in Input
  PROVE  SubSeq(a \o b, Len(a) + 1, Len(a \o b)) = b
<1>1. Len(a) \in Nat /\ Len(b) \in Nat /\ Len(a \o b) = Len(a) + Len(b)
  BY LenProperties, ConcatProperties DEF Input
<1>2. CASE b = <<>>
  BY <1>1, <1>2, SubSeqEmpty
<1>3. CASE b # <<>>
  <2>1. Len(b) # 0
    BY <1>3, EmptySeq DEF Input
  <2>2. SubSeq(a \o b, Len(a) + 1, Len(a) + Len(b)) = SubSeq(b, (Len(a) + 1) - Len(a), (Len(a) + Len(b)) - Len(a))
    BY <1>1, <2>1, SubSeqOfConcat2 DEF Input
  <2>3. (Len(a) + 1) - Len(a) = 1 /\ (Len(a) + Len(b)) - Len(a) = Len(b)
    BY <1>1
  <2> QED BY <1>1, <2>2, <2>3, SubSeqFull DEF Input
<1> QED BY <1>2, <1>3

LEMMA FirstOf ==
  ASSUME NEW a \in Input, a # <<>>, NEW b \in Input
  PROVE  /\ a \o b # <<>> /\ Head(a \o b) = Head(a) /\ Tail(a \o b) = Tail(a) \o b
         /\ Tail(a) \in Input /\ a \o b \in Input
<1>1. Tail(a) \in Input /\ Tail(a) \o b \in Input /\ a \o b \in Input
  BY HeadTailProperties, ConcatProperties DEF Input
<1>2. Len(a) \in Nat \ {0} /\ Len(b) \in Nat /\ Len(a \o b) = Len(a) + Len(b) /\ Len(Tail(a)) = Len(a) - 1
  BY EmptySeq, LenProperties, ConcatProperties, HeadTailProperties DEF Input
<1>3. a \o b # <<>>
  BY <1>1, <1>2, EmptySeq DEF Input
<1>4. Tail(a \o b) \in Input /\ Len(Tail(a \o b)) = Len(a) + Len(b) - 1
  BY <1>1, <1>2, <1>3, HeadTailProperties DEF Input
<1>5. Len(Tail(a) \o b) = Len(a) + Len(b) - 1
  BY <1>1, <1>2, ConcatProperties DEF Input
<1>6. ASSUME NEW k \in 1..(Len(a) + Len(b) - 1) PROVE Tail(a \o b)[k] = (Tail(a) \o b)[k]
  <2>1. Tail(a \o b)[k] = (a \o b)[k + 1]
    BY <1>1, <1>3, <1>4, HeadTailProperties DEF Input
  <2>2. (a \o b)[k + 1] = IF k + 1 <= Len(a) THEN a[k + 1] ELSE b[(k + 1) - Len(a)]
    BY <1>2, ConcatProperties DEF Input
  <2>3. (Tail(a) \o b)[k] = IF k <= Len(Tail(a)) THEN Tail(a)[k] ELSE b[k - Len(Tail(a))]
    BY <1>1, <1>2, ConcatProperties DEF Input
  <2>4. k <= Len(Tail(a)) => Tail(a)[k] = a[k + 1]
    BY <1>2, HeadTailProperties DEF Input
  <2> QED BY <1>2, <2>1, <2>2, <2>3, <2>4
<1>7. Tail(a \o b) = Tail(a) \o b
  BY <1>1, <1>4, <1>5, <1>6, SeqEqual DEF Input
<1>8. Head(a \o b) = Head(a)
  <2>1. (a \o b)[1] = a[1]
    BY <1>2, ConcatProperties DEF Input
  <2> QED BY <1>1, <1>3, <2>1
<1> QED BY <1>1, <1>3, <1>7, <1>8

LEMMA NextPart ==
  ASSUME NEW b \in Input, NEW k \in 0..Len(b), NEW n \in 0..(Len(b) - k)
  PROVE  /\ SubSeq(b, k + 1, k + n) \o SubSeq(b, k + n + 1, Len(b)) = SubSeq(b, k + 1, Len(b))
         /\ SubSeq(SubSeq(b, k + 1, Len(b)), n + 1, Len(SubSeq(b, k + 1, Len(b)))) = SubSeq(b, k + n + 1, Len(b))
         /\ Len(SubSeq(b, k + 1, Len(b))) = Len(b) - k /\ SubSeq(b, k + 1, k + n) \in Input
         /\ SubSeq(b, k + 1, Len(b)) \in Input
<1>1. Len(b) \in Nat
  BY LenProperties DEF Input
<1> DEFINE l == SubSeq(b, k + 1, k + n)
           r == SubSeq(b, k + n + 1, Len(b))
           lr == SubSeq(b, k + 1, Len(b))
<1>2. l \o r = lr
  <2>1. k + 1 \in 1..(Len(b) + 1) /\ k + n \in ((k + 1) - 1)..Len(b) /\ Len(b) \in (k + n)..Len(b)
    BY <1>1
  <2> QED BY <2>1, ConcatAdjacentSubSeq DEF Input
<1>3. l \in Input /\ Len(l) = n /\ r \in Input /\ lr \in Input /\ Len(lr) = Len(b) - k
  <2>1. /\ k + 1 \in 1..(Len(b) + 1) /\ k + n + 1 \in 1..(Len(b) + 1)
        /\ k + n \in 0..Len(b) /\ Len(b) \in 0..Len(b)
    BY <1>1
  <2>2. l \in Input /\ r \in Input /\ lr \in Input
    BY <2>1, PartOf
  <2>3. Len(l) = IF k + 1 <= k + n THEN (k + n) - (k + 1) + 1 ELSE 0
    BY <2>1, PartOf
  <2>4. Len(lr) = IF k + 1 <= Len(b) THEN Len(b) - (k + 1) + 1 ELSE 0
    BY <2>1, PartOf
  <2> QED BY <1>1, <2>2, <2>3, <2>4
<1> HIDE DEF l, r, lr
<1>4. SubSeq(l \o r, n + 1, Len(l \o r)) = r
  BY <1>3, DropFirst
<1> QED BY <1>2, <1>3, <1>4 DEF l, r, lr

LEMMA MoreOutput ==
  ASSUME NEW a, NEW b, \E S: a \in Seq(S) /\ b \in Seq(S), NEW byte
  PROVE  /\ \E S: a \o b \in Seq(S) /\ <<>> \in Seq(S)
         /\ \E S: a \in Seq(S) /\ <<>> \in Seq(S)
         /\ \E S: a \in Seq(S) /\ Append(b, byte) \in Seq(S)
         /\ (a \o b) \o <<>> = a \o b
         /\ a \o Append(b, byte) = Append(a \o b, byte)
<1>1. PICK S: a \in Seq(S) /\ b \in Seq(S)
  OBVIOUS
<1> DEFINE T == S \cup {byte}
<1>2. a \o b \in Seq(S) /\ <<>> \in Seq(S) /\ (a \o b) \o <<>> = a \o b
  BY <1>1, EmptySeq, ConcatProperties, ConcatEmptySeq
<1>3. S \subseteq T /\ byte \in T
  OBVIOUS
<1> HIDE DEF T
<1>4. a \in Seq(T) /\ b \in Seq(T) /\ a \o b \in Seq(T) /\ <<byte>> \in Seq(T)
  BY <1>1, <1>2, <1>3, SeqMonotonic
<1>5. /\ Append(b, byte) \in Seq(T) /\ Append(b, byte) = b \o <<byte>>
      /\ Append(a \o b, byte) = (a \o b) \o <<byte>>
  BY <1>3, <1>4, AppendProperties, AppendIsConcat
<1>6. (a \o b) \o <<byte>> = a \o (b \o <<byte>>)
  BY <1>4, ConcatAssociative
<1> QED BY <1>1, <1>2, <1>4, <1>5, <1>6

(***************************************************************************)
(* The invariant holds.                                                    *)
(***************************************************************************)
LEMMA InitInv == Init => IInv
<1> SUFFICES ASSUME Init PROVE IInv
  OBVIOUS
<1>1. /\ which \in DOMAIN Streams /\ input = <<>> /\ output = <<>> /\ emitted = <<>> /\ fed = 0 /\ pc = "idle"
      /\ z = [done |-> FALSE, failed |-> FALSE] /\ s = Fresh(Streams[which].limit)
  BY DEF Init
<1>2. Resumes(s) /\ s.stage = "cmf" /\ Step(s, <<>>).how = "starves"
  BY <1>1, FreshResumes
<1>3. Meaning.bytes \in Input
  BY <1>1, InflateAssumption DEF Meaning, Input
<1>4. TypeOK
  <2>1. Len(Meaning.bytes) \in Nat
    BY <1>3, LenProperties DEF Input
  <2>2. <<>> \in Seq({}) /\ <<>> \in Input
    BY EmptySeq DEF Input
  <2> QED BY <1>1, <2>1, <2>2 DEF TypeOK
<1> QED BY <1>1, <1>2, <1>4 DEF IInv

LEMMA DecodeInv == IInv /\ Decode => IInv'
<1> SUFFICES ASSUME IInv, Decode PROVE IInv'
  OBVIOUS
<1> DEFINE o == Step(s, input)
<1>1. /\ pc = "poll" /\ ~z.failed /\ ~z.done /\ Resumes(s) /\ TypeOK /\ input \in Input
      /\ \E S: emitted \in Seq(S) /\ output \in Seq(S)
  BY DEF IInv, TypeOK, Decode
<1>2. /\ s' = o.t /\ which' = which /\ fed' = fed
      /\ \/ o.how = "goes" /\ input' = o.left /\ UNCHANGED <<z, pc, output, emitted>>
         \/ o.how = "puts" /\ input' = o.left /\ output' = Append(output, o.byte) /\ UNCHANGED <<z, pc, emitted>>
         \/ o.how = "starves" /\ input' = o.left /\ Returns(z.done)
         \/ o.how = "fails" /\ Broken
  BY DEF Decode
<1>3. /\ s.stage \in Working
      /\ o.how = "starves" => o.left = <<>> /\ Resumes(o.t) /\ Unread(o.t) = Unread(s) /\ Step(o.t, <<>>).how = "starves"
      /\ o.how \in {"goes", "puts"} => Resumes(o.t) \/ Ended(o)
      /\ o.left \in Input
  BY <1>1, ResumedStep
<1> HIDE DEF o
<1>4. (which \in DOMAIN Streams /\ fed \in 0..Len(Meaning.bytes))'
  BY <1>1, <1>2 DEF TypeOK, Meaning
<1>5. CASE o.how \in {"goes", "puts"}
  <2>1. input' = o.left /\ UNCHANGED <<z, pc, emitted>> /\ (output' = output \/ output' = Append(output, o.byte))
    BY <1>2, <1>5
  <2>2. \E S: emitted' \in Seq(S) /\ output' \in Seq(S)
    <3>1. \E S: emitted \in Seq(S) /\ Append(output, o.byte) \in Seq(S)
      BY <1>1, MoreOutput
    <3>2. CASE output' = output
      BY <1>1, <2>1, <3>2
    <3>3. CASE output' = Append(output, o.byte)
      BY <2>1, <3>1, <3>3
    <3> QED BY <2>1, <3>2, <3>3
  <2>3. TypeOK'
    BY <1>1, <1>3, <1>4, <2>1, <2>2 DEF TypeOK
  <2>4. (s'.stage = "done" /\ Clean(s') /\ input' = <<>>) \/ (Resumes(s') /\ ~z'.done)
    BY <1>1, <1>2, <1>3, <1>5, <2>1 DEF Ended
  <2>5. pc' = "poll" /\ ~z'.failed
    BY <1>1, <2>1
  <2> QED BY <2>3, <2>4, <2>5 DEF IInv
<1>6. CASE o.how = "starves"
  <2>1. /\ input' = <<>> /\ z' = [done |-> FALSE, failed |-> FALSE] /\ pc' = "idle"
        /\ emitted' = emitted \o output /\ output' = <<>>
    <3>1. z.done = FALSE
      BY <1>1 DEF TypeOK
    <3> QED BY <1>2, <1>3, <1>6, <3>1 DEF Returns
  <2>2. \E S: emitted' \in Seq(S) /\ output' \in Seq(S)
    BY <1>1, <2>1, MoreOutput
  <2>3. TypeOK'
    BY <1>3, <1>4, <1>6, <2>1, <2>2 DEF TypeOK
  <2>4. Resumes(s') /\ Step(s', <<>>).how = "starves"
    BY <1>2, <1>3, <1>6
  <2>5. s'.stage \in Working
    BY <2>4, <2>3, ResumedStep DEF TypeOK
  <2> QED BY <2>1, <2>3, <2>4, <2>5 DEF IInv, Working
<1>7. CASE o.how = "fails"
  <2>1. /\ input' = <<>> /\ z' = [done |-> FALSE, failed |-> TRUE] /\ pc' = "idle"
        /\ emitted' = emitted /\ output' = <<>>
    BY <1>2, <1>7 DEF Broken
  <2>2. \E S: emitted' \in Seq(S) /\ output' \in Seq(S)
    BY <1>1, <2>1, MoreOutput
  <2>3. input' \in Input
    BY <2>1, EmptySeq DEF Input
  <2>4. TypeOK'
    BY <1>4, <2>1, <2>2, <2>3 DEF TypeOK
  <2> QED BY <2>1, <2>4 DEF IInv
<1> QED BY <1>2, <1>5, <1>6, <1>7

LEMMA NextInv == IInv /\ [Next]_vars => IInv'
<1> SUFFICES ASSUME IInv, [Next]_vars PROVE IInv'
  OBVIOUS
<1>1. CASE Decode
  BY <1>1, DecodeInv
<1>2. CASE Emit
  <2>1. /\ pc = "poll" /\ emitted' = emitted \o output /\ output' = <<>>
        /\ UNCHANGED <<s, input, z, pc, which, fed>>
    BY <1>2 DEF Emit
  <2>2. \E S: emitted' \in Seq(S) /\ output' \in Seq(S)
    BY <2>1, MoreOutput DEF IInv, TypeOK
  <2>3. TypeOK'
    BY <2>1, <2>2 DEF IInv, TypeOK, Meaning
  <2> QED BY <2>1, <2>3 DEF IInv, Resumes
<1>3. CASE Finish
  <2>1. /\ pc = "poll" /\ s.stage = "done" /\ UNCHANGED <<s, input, which, fed>>
        /\ z' = [done |-> TRUE, failed |-> FALSE] /\ pc' = "idle" /\ emitted' = emitted \o output /\ output' = <<>>
    BY <1>3 DEF Finish, Returns
  <2>2. \E S: emitted' \in Seq(S) /\ output' \in Seq(S)
    BY <2>1, MoreOutput DEF IInv, TypeOK
  <2>3. TypeOK'
    BY <2>1, <2>2 DEF IInv, TypeOK, Meaning
  <2>4. ~z.failed
    BY <2>1 DEF IInv
  <2>5. Clean(s) /\ input = <<>>
    <3>1. Resumes(s) => s.stage \in Working
      BY <2>3, ResumedStep DEF IInv, TypeOK
    <3> QED BY <2>1, <2>4, <3>1 DEF IInv, Working
  <2> QED BY <2>1, <2>3, <2>5 DEF IInv
<1>4. CASE Reset
  <2>1. /\ pc = "idle" /\ which' \in DOMAIN Streams /\ s' = Fresh(Streams[which'].limit) /\ input' = <<>>
        /\ z' = [done |-> FALSE, failed |-> FALSE] /\ output' = <<>> /\ emitted' = <<>> /\ fed' = 0 /\ pc' = "idle"
    BY <1>4 DEF Reset
  <2>2. Resumes(s') /\ s'.stage = "cmf" /\ Step(s', <<>>).how = "starves"
    BY <2>1, FreshResumes
  <2>3. Len(Meaning.bytes)' \in Nat
    BY <2>1, InflateAssumption, LenProperties DEF Meaning
  <2>4. <<>> \in Seq({}) /\ <<>> \in Input
    BY EmptySeq DEF Input
  <2>5. TypeOK'
    BY <2>1, <2>3, <2>4 DEF TypeOK
  <2> QED BY <2>1, <2>2, <2>5 DEF IInv
<1>5. ASSUME NEW size \in Sizes, Feed(size) PROVE IInv'
  <2> DEFINE bytes == Streams[which].bytes
             n == IF size < Len(bytes) - fed THEN size ELSE Len(bytes) - fed
  <2>1. /\ pc = "idle" /\ ~z.failed /\ fed' = fed + n /\ UNCHANGED <<output, emitted, which>>
        /\ IF input # <<>> \/ (s.stage = "done" /\ n > 0)
           THEN /\ s' = [s EXCEPT !.stage = "error"] /\ z' = [done |-> FALSE, failed |-> TRUE]
                /\ UNCHANGED <<input, pc>>
           ELSE /\ input' = SubSeq(bytes, fed + 1, fed + n) /\ pc' = "poll"
                /\ UNCHANGED <<s, z>>
    BY <1>5 DEF Feed
  <2>2. /\ bytes \in Input /\ Len(bytes) \in Nat /\ fed \in 0..Len(bytes) /\ size \in Nat
        /\ n \in 0..(Len(bytes) - fed)
    <3>1. bytes \in Input /\ fed \in 0..Len(bytes) /\ size \in Nat
      BY InflateAssumption DEF IInv, TypeOK, Meaning, Input
    <3>2. Len(bytes) \in Nat
      BY <3>1, LenProperties DEF Input
    <3> QED BY <3>1, <3>2
  <2> HIDE DEF n
  <2>3. fed' \in 0..Len(Meaning.bytes)'
    BY <2>1, <2>2 DEF Meaning
  <2>4. CASE input # <<>> \/ (s.stage = "done" /\ n > 0)
    <3>1. z' = [done |-> FALSE, failed |-> TRUE] /\ UNCHANGED <<input, pc, output, emitted, which>>
      BY <2>1, <2>4
    <3>2. TypeOK'
      BY <2>3, <3>1 DEF IInv, TypeOK
    <3> QED BY <2>1, <3>1, <3>2 DEF IInv
  <2>5. CASE ~(input # <<>> \/ (s.stage = "done" /\ n > 0))
    <3>1. input' = SubSeq(bytes, fed + 1, fed + n) /\ pc' = "poll" /\ UNCHANGED <<s, z>>
      BY <2>1, <2>5
    <3>2. input' \in Input
      <4> HIDE DEF bytes
      <4> QED BY <2>2, <3>1, NextPart
    <3>3. TypeOK'
      BY <2>1, <2>3, <3>1, <3>2 DEF IInv, TypeOK
    <3>4. s.stage = "done" => input' = <<>>
      <4>1. s.stage = "done" => n = 0
        BY <2>2, <2>5
      <4> QED BY <2>2, <3>1, <4>1, SubSeqEmpty
    <3>5. Resumes(s) => Resumes(s')
      BY <3>1
    <3> QED BY <2>1, <3>1, <3>3, <3>4, <3>5 DEF IInv
  <2> QED BY <2>4, <2>5
<1>6. CASE UNCHANGED vars
  BY <1>6 DEF vars, IInv, TypeOK, Meaning, Resumes
<1> QED BY <1>1, <1>2, <1>3, <1>4, <1>5, <1>6 DEF Next, Poll

-----------------------------------------------------------------------------
(***************************************************************************)
(* The refinement.                                                         *)
(***************************************************************************)
Later == SubSeq(Meaning.bytes, fed + 1, Len(Meaning.bytes))

LEMMA LaterIs == ASSUME TypeOK PROVE Later \in Input /\ Len(Later) = Len(Meaning.bytes) - fed
<1>1. Meaning.bytes \in Input /\ fed \in 0..Len(Meaning.bytes)
  BY InflateAssumption DEF TypeOK, Meaning, Input
<1>2. Len(Meaning.bytes) \in Nat
  BY <1>1, LenProperties DEF Input
<1>3. 0 \in 0..(Len(Meaning.bytes) - fed)
  BY <1>1, <1>2
<1> QED BY <1>1, <1>3, NextPart DEF Later

LEMMA WholeInit == Init => Whole!Init
<1> SUFFICES ASSUME Init PROVE Whole!Init
  OBVIOUS
<1>1. /\ which \in DOMAIN Streams /\ input = <<>> /\ output = <<>> /\ emitted = <<>> /\ fed = 0
      /\ ~z.failed /\ s = Fresh(Streams[which].limit)
  BY DEF Init
<1>2. Decoder = Fresh(Streams[which].limit)
  BY <1>1, FreshResumes DEF Decoder
<1>3. Ahead = Streams[which].bytes
  <2>1. Meaning.bytes \in Input
    BY <1>1, InflateAssumption DEF Meaning, Input
  <2>2. SubSeq(Meaning.bytes, 0 + 1, Len(Meaning.bytes)) = Meaning.bytes
    BY <2>1, SubSeqFull DEF Input
  <2> QED BY <1>1, <2>1, <2>2, ConcatEmptySeq DEF Ahead, Meaning, Input
<1>4. Decoded = <<>>
  <2>1. <<>> \in Seq({}) /\ <<>> \o <<>> = <<>>
    BY EmptySeq, ConcatEmptySeq
  <2> QED BY <1>1, <2>1 DEF Decoded
<1> QED BY <1>1, <1>2, <1>3, <1>4 DEF Whole!Init, Whole!Streams, Streams

(* A step of the decoder takes what the specification says it takes. *)
LEMMA TakenIs ==
  ASSUME IInv, pc = "poll", s.stage # "done", Step(s, input).how # "starves"
  PROVE  /\ Whole!Decoding /\ Whole!Rest = Step(s, input).left \o Later
         /\ \/ Same(Step(s, input), Step(Decoder, Whole!Taken))
            \/ /\ Step(Decoder, Whole!Taken).t.stage = "done"
               /\ Step(s, input).how = "fails" /\ Step(s, input).left # <<>>
<1> DEFINE u == Unread(s)
           o == Step(s, input)
           none == Step(u, <<>>)
           one == Step(u, <<Head(input)>>)
<1>1. /\ ~z.failed /\ Resumes(s) /\ input \in Input /\ Later \in Input
      /\ Decoder = u /\ Ahead = input \o Later
  BY LaterIs DEF IInv, TypeOK, Decoder, Ahead, Later
<1>2. /\ u.stage \in Working /\ StepCut(none, one, o, input)
      /\ \A j: Step(s, j) = Step(u, j)
  BY <1>1, ResumedStep DEF Resumes
<1>3. Whole!Open /\ (Whole!Hungry <=> none.how = "starves")
  BY <1>1, <1>2 DEF Whole!Open, Whole!Hungry, Working
<1>4. CASE none.how # "starves"
  <2>1. Whole!Decoding /\ Whole!Taken = <<>> /\ Whole!Rest = input \o Later
    BY <1>1, <1>3, <1>4 DEF Whole!Decoding, Whole!Taken, Whole!Rest
  <2>2. Same(o, none) /\ o.left = input
    BY <1>2, <1>4 DEF StepCut
  <2> HIDE DEF o
  <2>3. Step(Decoder, Whole!Taken) = none
    BY <1>1, <2>1
  <2> QED BY <2>1, <2>2, <2>3 DEF o
<1>5. CASE none.how = "starves"
  <2>1. input # <<>>
    BY <1>2, <1>5
  <2>2. /\ Ahead # <<>> /\ Head(Ahead) = Head(input) /\ Tail(Ahead) = Tail(input) \o Later
    BY <1>1, <2>1, FirstOf
  <2>3. Whole!Decoding /\ Whole!Taken = <<Head(input)>> /\ Whole!Rest = Tail(input) \o Later
    BY <1>3, <1>5, <2>2 DEF Whole!Decoding, Whole!Taken, Whole!Rest
  <2>4. /\ o.left = Tail(input)
        /\ Same(o, one) \/ (one.t.stage = "done" /\ o.how = "fails" /\ Tail(input) # <<>>)
    BY <1>2, <1>5, <2>1 DEF StepCut
  <2>5. Step(Decoder, Whole!Taken) = one
    BY <1>1, <2>3
  <2> HIDE DEF o, one
  <2> QED BY <2>3, <2>4, <2>5 DEF o
<1> QED BY <1>4, <1>5

(* With an error the bytes not taken of those fed so far are lost. *)
LEMMA BreaksIs ==
  ASSUME NEW rest \in Input, NEW later \in Input, NEW least \in Nat, least <= Len(rest)
  PROVE  \E n \in least..Len(rest \o later): <<>> \o later = SubSeq(rest \o later, n + 1, Len(rest \o later))
<1>1. Len(rest) \in Nat /\ Len(later) \in Nat /\ Len(rest \o later) = Len(rest) + Len(later)
  BY LenProperties, ConcatProperties DEF Input
<1>2. SubSeq(rest \o later, Len(rest) + 1, Len(rest \o later)) = later
  BY DropFirst
<1>3. <<>> \o later = later
  BY ConcatEmptySeq DEF Input
<1>4. Len(rest) \in least..Len(rest \o later)
  BY <1>1
<1> QED BY <1>2, <1>3, <1>4

LEMMA DecodeRefines == ASSUME IInv, Decode PROVE Whole!Next \/ UNCHANGED Whole!vars
<1> DEFINE o == Step(s, input)
           r == Step(Decoder, Whole!Taken)
<1>1. /\ pc = "poll" /\ ~z.failed /\ ~z.done /\ Resumes(s) /\ TypeOK /\ input \in Input
      /\ \E S: emitted \in Seq(S) /\ output \in Seq(S)
      /\ s.stage # "done"
  BY DEF IInv, TypeOK, Decode
<1>2. /\ s' = o.t /\ which' = which /\ fed' = fed
      /\ \/ o.how = "goes" /\ input' = o.left /\ UNCHANGED <<z, pc, output, emitted>>
         \/ o.how = "puts" /\ input' = o.left /\ output' = Append(output, o.byte) /\ UNCHANGED <<z, pc, emitted>>
         \/ o.how = "starves" /\ input' = o.left /\ Returns(z.done)
         \/ o.how = "fails" /\ Broken
  BY DEF Decode
<1>3. /\ o.how = "starves" => input = <<>> /\ o.left = <<>> /\ Unread(o.t) = Unread(s)
      /\ o.how \in {"goes", "puts"} => Unread(o.t) = o.t
      /\ o.left \in Input /\ Later \in Input
  BY <1>1, ResumedStep, LaterIs
<1>4. Later' = Later /\ Decoder = Unread(s) /\ Ahead = input \o Later /\ Decoded = emitted \o output
  BY <1>1, <1>2 DEF Later, Meaning, Decoder, Ahead, Decoded
<1>5. o.how # "starves" =>
        /\ Whole!Decoding /\ Whole!Rest = o.left \o Later
        /\ Same(o, r) \/ (r.t.stage = "done" /\ o.how = "fails" /\ o.left # <<>>)
  BY <1>1, TakenIs
<1> HIDE DEF o, r
<1>6. Ahead' = input' \o Later
  BY <1>4 DEF Ahead, Later
<1>7. CASE o.how = "goes"
  <2>1. s' = o.t /\ z' = z /\ input' = o.left /\ UNCHANGED <<output, emitted>>
    BY <1>2, <1>7
  <2>2. Decoder' = o.t /\ Ahead' = Whole!Rest /\ Decoded' = Decoded
    BY <1>1, <1>3, <1>5, <1>6, <1>7, <2>1 DEF Decoder, Decoded, Unread
  <2>3. Same(o, r)
    BY <1>5, <1>7
  <2> QED BY <1>2, <1>5, <1>7, <2>2, <2>3 DEF Same, r, Whole!Next, Whole!Decodes
<1>8. CASE o.how = "puts"
  <2>1. s' = o.t /\ z' = z /\ input' = o.left /\ output' = Append(output, o.byte) /\ emitted' = emitted
    BY <1>2, <1>8
  <2>2. Decoder' = o.t /\ Ahead' = Whole!Rest
    BY <1>1, <1>3, <1>5, <1>6, <1>8, <2>1 DEF Decoder, Unread
  <2>3. Decoded' = Append(Decoded, o.byte)
    BY <1>1, <1>4, <2>1, MoreOutput DEF Decoded
  <2>4. Same(o, r)
    BY <1>5, <1>8
  <2> QED BY <1>2, <1>5, <1>8, <2>2, <2>3, <2>4 DEF Same, r, Whole!Next, Whole!Decodes
<1>9. CASE o.how = "starves"
  <2>1. /\ s' = o.t /\ input' = <<>> /\ z' = [done |-> z.done, failed |-> FALSE]
        /\ emitted' = emitted \o output /\ output' = <<>>
    BY <1>2, <1>3, <1>9 DEF Returns
  <2>2. Decoder' = Decoder /\ Ahead' = Ahead
    BY <1>1, <1>3, <1>4, <1>6, <1>9, <2>1 DEF Decoder, Unread
  <2>3. Decoded' = Decoded
    BY <1>1, <1>4, <2>1, MoreOutput DEF Decoded
  <2> QED BY <1>2, <2>2, <2>3 DEF Whole!vars
<1>10. CASE o.how = "fails"
  <2>1. z'.failed /\ input' = <<>>
    BY <1>2, <1>10 DEF Broken
  <2>2. Decoder' = Whole!Broken /\ Decoded' = <<>> /\ Ahead' = <<>> \o Later
    BY <1>6, <2>1 DEF Decoder, Decoded, Whole!Broken
  <2>3. Len(o.left) \in Nat /\ (o.left # <<>> => Len(o.left) # 0)
    BY <1>3, LenProperties, EmptySeq DEF Input
  <2>4. CASE Same(o, r)
    <3>1. \E n \in 0..Len(Whole!Rest): Ahead' = SubSeq(Whole!Rest, n + 1, Len(Whole!Rest))
      <4>1. 0 \in Nat /\ 0 <= Len(o.left)
        BY <2>3
      <4>2. \E n \in 0..Len(o.left \o Later): <<>> \o Later = SubSeq(o.left \o Later, n + 1, Len(o.left \o Later))
        BY <1>3, <4>1, BreaksIs
      <4> QED BY <1>5, <1>10, <2>2, <4>2
    <3>2. Whole!Breaks(0)
      BY <2>2, <3>1 DEF Whole!Breaks
    <3> QED BY <1>2, <1>5, <1>10, <2>4, <3>2 DEF Same, r, Whole!Next, Whole!Decodes
  <2>5. CASE r.t.stage = "done" /\ o.left # <<>>
    <3>1. \E n \in 1..Len(Whole!Rest): Ahead' = SubSeq(Whole!Rest, n + 1, Len(Whole!Rest))
      <4>1. 1 \in Nat /\ 1 <= Len(o.left)
        BY <2>3, <2>5
      <4>2. \E n \in 1..Len(o.left \o Later): <<>> \o Later = SubSeq(o.left \o Later, n + 1, Len(o.left \o Later))
        BY <1>3, <4>1, BreaksIs
      <4> QED BY <1>5, <1>10, <2>2, <4>2
    <3>2. Whole!Breaks(1)
      BY <2>2, <3>1 DEF Whole!Breaks
    <3> QED BY <1>2, <1>5, <1>10, <2>5, <3>2 DEF r, Whole!Next, Whole!Refuses
  <2> QED BY <1>5, <1>10, <2>4, <2>5
<1> QED BY <1>2, <1>7, <1>8, <1>9, <1>10

LEMMA FeedRefines ==
  ASSUME IInv, NEW size \in Sizes, Feed(size)
  PROVE  Whole!Next \/ UNCHANGED Whole!vars
<1> DEFINE bytes == Streams[which].bytes
           n == IF size < Len(bytes) - fed THEN size ELSE Len(bytes) - fed
<1>1. /\ pc = "idle" /\ ~z.failed /\ fed' = fed + n /\ UNCHANGED <<output, emitted, which>>
      /\ IF input # <<>> \/ (s.stage = "done" /\ n > 0)
         THEN /\ s' = [s EXCEPT !.stage = "error"] /\ z' = [done |-> FALSE, failed |-> TRUE]
              /\ UNCHANGED <<input, pc>>
         ELSE /\ input' = SubSeq(bytes, fed + 1, fed + n) /\ pc' = "poll"
              /\ UNCHANGED <<s, z>>
  BY DEF Feed
<1>2. TypeOK /\ input = <<>> /\ output = <<>>
  BY <1>1 DEF IInv
<1>3. bytes \in Input /\ fed \in 0..Len(bytes) /\ n \in 0..(Len(bytes) - fed)
  <2>1. bytes \in Input /\ fed \in 0..Len(bytes) /\ size \in Nat
    BY <1>2, InflateAssumption DEF TypeOK, Meaning, Input
  <2>2. Len(bytes) \in Nat
    BY <2>1, LenProperties DEF Input
  <2> QED BY <2>1, <2>2
<1> HIDE DEF n
<1>4. Later = SubSeq(bytes, fed + 1, Len(bytes)) /\ Later' = SubSeq(bytes, fed + n + 1, Len(bytes))
  BY <1>1 DEF Later, Meaning
<1> HIDE DEF bytes
<1>5. /\ SubSeq(bytes, fed + 1, fed + n) \o Later' = Later
      /\ SubSeq(Later, n + 1, Len(Later)) = Later'
      /\ Len(Later) = Len(bytes) - fed /\ Later \in Input
  BY <1>3, <1>4, NextPart
<1>6. Later' \in Input
  <2>1. Len(bytes) \in Nat
    BY <1>3, LenProperties DEF Input
  <2>2. fed + n + 1 \in 1..(Len(bytes) + 1) /\ Len(bytes) \in 0..Len(bytes)
    BY <1>3, <2>1
  <2> QED BY <1>3, <1>4, <2>2, PartOf
<1>7. Ahead = Later
  <2>1. Ahead = <<>> \o Later
    BY <1>2 DEF Ahead, Later
  <2> QED BY <1>5, <2>1, ConcatEmptySeq DEF Input
<1>8. CASE input # <<>> \/ (s.stage = "done" /\ n > 0)
  <2>1. z'.failed /\ input' = <<>> /\ s.stage = "done" /\ n > 0
    BY <1>1, <1>2, <1>8
  <2>2. Decoder' = Whole!Broken /\ Decoded' = <<>>
    BY <2>1 DEF Decoder, Decoded, Whole!Broken
  <2>3. Decoder.stage = "done"
    <3>1. Clean(s)
      <4>1. Resumes(s) => s.stage \in Working
        BY <1>2, ResumedStep DEF TypeOK
      <4> QED BY <1>1, <2>1, <4>1 DEF IInv, Working
    <3> QED BY <1>1, <2>1, <3>1, CleanIsUnread DEF Decoder
  <2>4. Whole!Rest = Later
    BY <1>7, <2>3 DEF Whole!Rest, Whole!Hungry, Whole!Open
  <2>5. Ahead' = Later'
    <3>1. Ahead' = <<>> \o Later'
      BY <2>1 DEF Ahead, Later
    <3> QED BY <1>6, <3>1, ConcatEmptySeq DEF Input
  <2>6. n \in 1..Len(Later)
    BY <1>3, <1>5, <2>1
  <2>7. Whole!Breaks(1)
    BY <1>5, <2>2, <2>4, <2>5, <2>6 DEF Whole!Breaks
  <2> QED BY <1>1, <2>3, <2>7 DEF Whole!Next, Whole!Refuses
<1>9. CASE ~(input # <<>> \/ (s.stage = "done" /\ n > 0))
  <2>1. input' = SubSeq(bytes, fed + 1, fed + n) /\ UNCHANGED <<s, z>>
    BY <1>1, <1>9
  <2>2. Ahead' = Ahead
    BY <1>5, <1>7, <2>1 DEF Ahead, Later
  <2>3. Decoder' = Decoder /\ Decoded' = Decoded
    BY <1>1, <2>1 DEF Decoder, Decoded, Unread
  <2> QED BY <1>1, <2>2, <2>3 DEF Whole!vars
<1> QED BY <1>8, <1>9

LEMMA StepRefines == IInv /\ [Next]_vars => [Whole!Next]_Whole!vars
<1> SUFFICES ASSUME IInv, [Next]_vars PROVE Whole!Next \/ UNCHANGED Whole!vars
  OBVIOUS
<1>1. CASE Decode
  BY <1>1, DecodeRefines
<1>2. ASSUME Emit \/ Finish PROVE UNCHANGED Whole!vars
  <2>1. /\ pc = "poll" /\ s' = s /\ input' = input /\ which' = which /\ fed' = fed /\ ~z'.failed
        /\ emitted' = emitted \o output /\ output' = <<>>
    BY <1>2 DEF Emit, Finish, Returns, IInv
  <2>2. ~z.failed /\ \E S: emitted \in Seq(S) /\ output \in Seq(S)
    BY <2>1 DEF IInv, TypeOK
  <2>3. Decoder' = Decoder /\ Ahead' = Ahead
    BY <2>1, <2>2 DEF Decoder, Ahead, Unread, Meaning
  <2>4. Decoded' = Decoded
    BY <2>1, <2>2, MoreOutput DEF Decoded
  <2> QED BY <2>1, <2>3, <2>4 DEF Whole!vars
<1>3. CASE Reset
  <2>1. /\ which' \in DOMAIN Streams /\ s' = Fresh(Streams[which'].limit) /\ input' = <<>>
        /\ ~z'.failed /\ output' = <<>> /\ emitted' = <<>> /\ fed' = 0
    BY <1>3 DEF Reset
  <2>2. Decoder' = Fresh(Streams[which'].limit)
    BY <2>1, FreshResumes DEF Decoder
  <2>3. Ahead' = Streams[which'].bytes
    <3>1. Streams[which'].bytes \in Input
      BY <2>1, InflateAssumption DEF Input
    <3>2. SubSeq(Streams[which'].bytes, 0 + 1, Len(Streams[which'].bytes)) = Streams[which'].bytes
      BY <3>1, SubSeqFull DEF Input
    <3> QED BY <2>1, <3>1, <3>2, ConcatEmptySeq DEF Ahead, Meaning, Input
  <2>4. Decoded' = <<>>
    <3>1. <<>> \in Seq({}) /\ <<>> \o <<>> = <<>>
      BY EmptySeq, ConcatEmptySeq
    <3> QED BY <2>1, <3>1 DEF Decoded
  <2> QED BY <2>1, <2>2, <2>3, <2>4 DEF Whole!Next, Whole!Start, Whole!Streams, Streams
<1>4. ASSUME NEW size \in Sizes, Feed(size) PROVE Whole!Next \/ UNCHANGED Whole!vars
  BY <1>4, FeedRefines
<1>5. CASE UNCHANGED vars
  BY <1>5 DEF vars, Whole!vars, Decoder, Ahead, Decoded, Unread, Meaning
<1> QED BY <1>1, <1>2, <1>3, <1>4, <1>5 DEF Next, Poll

-----------------------------------------------------------------------------
(* Between two steps the decoder stands where the same bytes, given to it one
   by one, would have brought it, but for a reader that was begun in vain
   (od_zlib_stream.c:253-306). *)
THEOREM Invariant == Spec => []IInv
<1>1. Init => IInv
  BY InitInv
<1>2. IInv /\ [Next]_vars => IInv'
  BY NextInv
<1> QED BY <1>1, <1>2, PTL DEF Spec

(* For every stream, whether it is a zlib stream or not, whatever parts it is
   cut into and whatever the size of the buffer: od_inflate_feed and the
   decoder, which stops wherever the input ends, do what decoding the whole
   stream byte by byte does (od_zlib_stream.c:228-306, inflate.c:9-37). *)
THEOREM CutAnywhere == Spec => WholeSpec
<1>1. Init => Whole!Init
  BY WholeInit
<1>2. IInv /\ [Next]_vars => [Whole!Next]_Whole!vars
  BY StepRefines
<1> QED BY <1>1, <1>2, Invariant, PTL DEF Spec, WholeSpec, Whole!Spec

-----------------------------------------------------------------------------
LEMMA RightInParts == ASSUME IInv, Whole!Right PROVE Faithful /\ Verdict
<1>1. TypeOK /\ Meaning.bad \in Nat /\ Meaning.bytes \in Input
  BY InflateAssumption DEF IInv, TypeOK, Meaning, Input
<1>2. SUFFICES ASSUME pc = "idle"
               PROVE  /\ ~z.failed => emitted = [i \in Known |-> Meaning.out[i]]
                      /\ z.failed <=> fed >= Meaning.bad
                      /\ z.done <=> fed = Meaning.size /\ fed < Meaning.bad
  BY DEF Faithful, Verdict
<1>3. input = <<>> /\ output = <<>> /\ Later \in Input /\ Len(Later) = Len(Meaning.bytes) - fed
      /\ fed \in Nat /\ Len(Meaning.bytes) \in Nat
  <2>1. Len(Meaning.bytes) \in Nat
    BY <1>1, LenProperties DEF Input
  <2> QED BY <1>1, <1>2, <2>1, LaterIs DEF IInv, TypeOK
<1>4. Whole!Meaning = Meaning /\ Whole!Received = fed /\ Whole!Known = Known
  <2>1. Ahead = Later
    BY <1>3, ConcatEmptySeq DEF Ahead, Later, Input
  <2>2. Whole!Meaning = Meaning
    BY DEF Whole!Meaning, Meaning, Whole!Streams, Streams
  <2>3. Whole!Received = fed
    BY <1>3, <2>1, <2>2 DEF Whole!Received
  <2> QED BY <2>2, <2>3 DEF Whole!Known, Known
<1>5. CASE z.failed
  <2>1. Decoder.stage = "error"
    BY <1>5 DEF Decoder, Fresh
  <2>2. fed >= Meaning.bad
    BY <1>4, <2>1 DEF Whole!Right
  <2>3. ~z.done
    BY <1>5 DEF IInv
  <2> QED BY <1>1, <1>3, <1>5, <2>2, <2>3
<1>6. CASE ~z.failed
  <2>1. Decoder = Unread(s) /\ Decoded = emitted
    <3>1. \E S: emitted \in Seq(S)
      BY <1>1 DEF TypeOK
    <3> QED BY <1>3, <1>6, <3>1, ConcatEmptySeq DEF Decoder, Decoded
  <2>2. CASE s.stage = "done"
    <3>1. z.done
      BY <1>2, <1>6, <2>2 DEF IInv
    <3>2. Clean(s)
      <4>1. Resumes(s) => s.stage \in Working
        BY <1>1, ResumedStep DEF TypeOK
      <4> QED BY <1>6, <2>2, <4>1 DEF IInv, Working
    <3>3. Decoder.stage = "done"
      BY <2>1, <2>2, <3>2, CleanIsUnread
    <3>4. /\ Decoded = [i \in Whole!Known |-> Whole!Meaning.out[i]]
          /\ Whole!Received < Whole!Meaning.bad
          /\ Decoder.stage = "done" <=> Whole!Received = Whole!Meaning.size
      BY <3>3 DEF Whole!Right
    <3>5. emitted = [i \in Known |-> Meaning.out[i]] /\ fed < Meaning.bad /\ fed = Meaning.size
      BY <1>4, <2>1, <3>3, <3>4
    <3> QED BY <1>1, <1>3, <1>6, <3>1, <3>5
  <2>3. CASE s.stage # "done"
    <3>1. Resumes(s) /\ ~z.done /\ Step(s, <<>>).how = "starves"
      BY <1>2, <1>6, <2>3 DEF IInv
    <3>2. Decoder.stage = s.stage /\ s.stage \in Working
      BY <1>1, <2>1, <3>1, ResumedStep DEF TypeOK
    <3>3. Whole!Hungry /\ Decoder.stage # "done" /\ Decoder.stage # "error"
      BY <2>1, <3>1, <3>2 DEF Whole!Hungry, Whole!Open, Working, Resumes
    <3>4. /\ Decoded = [i \in Whole!Known |-> Whole!Meaning.out[i]]
          /\ Whole!Received < Whole!Meaning.bad
          /\ Decoder.stage = "done" <=> Whole!Received = Whole!Meaning.size
      BY <3>3 DEF Whole!Right
    <3>5. emitted = [i \in Known |-> Meaning.out[i]] /\ fed < Meaning.bad /\ fed # Meaning.size
      BY <1>4, <2>1, <3>3, <3>4
    <3> QED BY <1>1, <1>3, <1>6, <3>1, <3>5
  <2> QED BY <2>2, <2>3
<1> QED BY <1>5, <1>6

(* If the decoder is right about the streams when it gets them byte by byte,
   the image is right in parts of any sizes: the bytes handed on after each
   are exactly those that the bytes received so far stand for. *)
THEOREM FaithfulInParts == Spec /\ (Whole!Spec => []Whole!Right) => []Faithful
<1>1. IInv /\ Whole!Right => Faithful
  BY RightInParts
<1> QED BY <1>1, Invariant, CutAnywhere, PTL DEF WholeSpec

(* If the decoder is right about the streams when it gets them byte by byte,
   then in parts of any sizes a stream is taken for complete when all of it has
   arrived, and for wrong at the end of the part that shows the error. *)
THEOREM VerdictInParts == Spec /\ (Whole!Spec => []Whole!Right) => []Verdict
<1>1. IInv /\ Whole!Right => Verdict
  BY RightInParts
<1> QED BY <1>1, Invariant, CutAnywhere, PTL DEF WholeSpec
-----------------------------------------------------------------------------
(***************************************************************************)
(* Trees: build_tree on the lengths of the codes of n symbols.             *)
(***************************************************************************)
Lengths(n) == [0..n - 1 -> 0..15]
Used(lengths) == {v \in DOMAIN lengths: lengths[v] # 0}
OfLength(lengths, l) == {v \in Used(lengths): lengths[v] = l}
UpTo(lengths, l) == {v \in Used(lengths): lengths[v] <= l}
Earlier(lengths, v) ==
  {w \in Used(lengths): lengths[w] < lengths[v] \/ (lengths[w] = lengths[v] /\ w < v)}

LEMMA UsedIsFinite ==
  ASSUME NEW n \in Nat, NEW lengths \in Lengths(n)
  PROVE  /\ Used(lengths) \subseteq 0..n - 1 /\ IsFiniteSet(Used(lengths))
         /\ Cardinality(Used(lengths)) \in 0..n
         /\ \A S \in SUBSET Used(lengths): IsFiniteSet(S) /\ Cardinality(S) \in 0..Cardinality(Used(lengths))
<1>1. Used(lengths) \subseteq 0..n - 1
  BY DEF Used, Lengths
<1>2. IsFiniteSet(0..n - 1) /\ Cardinality(0..n - 1) = n
  BY FS_Interval
<1>3. IsFiniteSet(Used(lengths)) /\ Cardinality(Used(lengths)) <= n
  BY <1>1, <1>2, FS_Subset
<1>4. Cardinality(Used(lengths)) \in Nat
  BY <1>3, FS_CardinalityType
<1>5. \A S \in SUBSET Used(lengths): /\ IsFiniteSet(S) /\ Cardinality(S) <= Cardinality(Used(lengths))
                                     /\ Cardinality(S) \in Nat
  BY <1>3, FS_Subset, FS_CardinalityType
<1> QED BY <1>1, <1>3, <1>4, <1>5

(* The symbols with a code that come before v are fewer than those before w, if
   v comes before w. *)
LEMMA EarlierGrows ==
  ASSUME NEW n \in Nat, NEW lengths \in Lengths(n), NEW v \in Used(lengths), NEW w \in Used(lengths),
         v \in Earlier(lengths, w)
  PROVE  Cardinality(Earlier(lengths, v)) < Cardinality(Earlier(lengths, w))
<1>1. \A x \in Used(lengths): x \in Int /\ lengths[x] \in Int
  BY DEF Used, Lengths
<1>2. Earlier(lengths, v) \subseteq Earlier(lengths, w) /\ v \notin Earlier(lengths, v)
  <2>1. v \notin Earlier(lengths, v)
    BY <1>1 DEF Earlier
  <2>2. ASSUME NEW x \in Earlier(lengths, v) PROVE x \in Earlier(lengths, w)
    <3>1. x \in Used(lengths) /\ (lengths[x] < lengths[v] \/ (lengths[x] = lengths[v] /\ x < v))
      BY <2>2 DEF Earlier
    <3>2. lengths[v] < lengths[w] \/ (lengths[v] = lengths[w] /\ v < w)
      BY DEF Earlier
    <3>3. x \in Int /\ lengths[x] \in Int /\ v \in Int /\ lengths[v] \in Int /\ w \in Int /\ lengths[w] \in Int
      BY <1>1, <3>1
    <3>4. lengths[x] < lengths[w] \/ (lengths[x] = lengths[w] /\ x < w)
      BY <3>1, <3>2, <3>3
    <3> QED BY <3>1, <3>4 DEF Earlier
  <2> QED BY <2>1, <2>2
<1>3. Earlier(lengths, w) \in SUBSET Used(lengths)
  BY DEF Earlier
<1>4. IsFiniteSet(Earlier(lengths, w))
  BY <1>3, UsedIsFinite
<1> DEFINE S == Earlier(lengths, v)
           T == Earlier(lengths, w)
<1>5. IsFiniteSet(S) /\ Cardinality(S) <= Cardinality(T) /\ (Cardinality(T) = Cardinality(S) => T = S)
  BY <1>2, <1>4, FS_Subset
<1>6. T # S
  BY <1>2
<1>7. Cardinality(S) \in Nat /\ Cardinality(T) \in Nat
  BY <1>4, <1>5, FS_CardinalityType
<1> QED BY <1>5, <1>6, <1>7

(* Every place is taken by a symbol. *)
LEMMA PlacesAreTaken ==
  ASSUME NEW n \in Nat, NEW lengths \in Lengths(n), NEW i \in 1..Cardinality(Used(lengths))
  PROVE  \E v \in Used(lengths): Cardinality(Earlier(lengths, v)) = i - 1
<1> DEFINE U == Used(lengths)
           N == Cardinality(U)
           rank == [v \in U |-> Cardinality(Earlier(lengths, v))]
<1>1. IsFiniteSet(U) /\ N \in Nat
  BY UsedIsFinite
<1>2. ASSUME NEW v \in U PROVE rank[v] \in 0..N - 1
  <2>1. Earlier(lengths, v) \in SUBSET U
    BY DEF Earlier
  <2>2. v \notin Earlier(lengths, v)
    BY DEF Earlier, Used, Lengths
  <2>3. Earlier(lengths, v) \in SUBSET (U \ {v})
    BY <2>1, <2>2
  <2>4. IsFiniteSet(U \ {v}) /\ Cardinality(U \ {v}) = N - 1
    BY <1>1, FS_RemoveElement
  <2>5. Cardinality(Earlier(lengths, v)) <= N - 1 /\ Cardinality(Earlier(lengths, v)) \in Nat
    BY <2>3, <2>4, FS_Subset, FS_CardinalityType
  <2> QED BY <1>1, <2>5
<1>3. ASSUME NEW v \in U, NEW w \in U, v # w PROVE rank[v] # rank[w]
  <2>1. v \in Earlier(lengths, w) \/ w \in Earlier(lengths, v)
    <3>1. v \in Int /\ w \in Int /\ lengths[v] \in Int /\ lengths[w] \in Int
      BY DEF Used, Lengths
    <3>2. \/ lengths[v] < lengths[w] \/ lengths[w] < lengths[v]
          \/ lengths[v] = lengths[w] /\ (v < w \/ w < v)
      BY <1>3, <3>1
    <3> QED BY <3>2 DEF Earlier
  <2>2. rank[v] < rank[w] \/ rank[w] < rank[v]
    BY <2>1, EarlierGrows
  <2> QED BY <1>1, <1>2, <2>2
<1>4. rank \in Injection(U, 0..N - 1)
  BY <1>2, <1>3 DEF Injection, IsInjective
<1>5. IsFiniteSet(0..N - 1) /\ Cardinality(0..N - 1) = N
  <2> HIDE DEF N
  <2>1. 0 \in Int /\ N - 1 \in Int
    BY <1>1
  <2> QED BY <1>1, <2>1, FS_Interval
<1>6. rank \in Surjection(U, 0..N - 1)
  <2> HIDE DEF rank
  <2> QED BY <1>1, <1>4, <1>5, FS_Injection
<1>7. i - 1 \in 0..N - 1
  BY <1>1
<1>8. \E v \in U: rank[v] = i - 1
  BY <1>6, <1>7 DEF Surjection
<1> QED BY <1>8

LEMMA TreeOf ==
  ASSUME NEW n \in Nat, NEW lengths \in Lengths(n)
  PROVE  /\ \A l \in 1..15: BuildTree(lengths).table[l] = Cardinality(OfLength(lengths, l))
         /\ BuildTree(lengths).trans \in [1..Cardinality(Used(lengths)) -> 0..n - 1]
<1> DEFINE U == Used(lengths)
           places == {<<v, Cardinality(Earlier(lengths, v))>> : v \in U}
           trans == [i \in 1..Cardinality(U) |-> CHOOSE v \in U : <<v, i - 1>> \in places]
<1>1. BuildTree(lengths) = [table |-> [l \in 1..15 |-> Cardinality(OfLength(lengths, l))], trans |-> trans]
  BY DEF BuildTree, Used, OfLength, Earlier
<1>2. ASSUME NEW i \in 1..Cardinality(U) PROVE trans[i] \in 0..n - 1
  <2>1. \E v \in U: <<v, i - 1>> \in places
    BY PlacesAreTaken
  <2>2. trans[i] \in U
    BY <2>1
  <2> QED BY <2>2, UsedIsFinite
<1> HIDE DEF places
<1>3. trans \in [1..Cardinality(U) -> 0..n - 1]
  BY <1>2
<1> HIDE DEF trans, U
<1>4. BuildTree(lengths).table = [l \in 1..15 |-> Cardinality(OfLength(lengths, l))]
  BY <1>1
<1>5. BuildTree(lengths).trans = trans
  BY <1>1
<1> QED BY <1>3, <1>4, <1>5 DEF U

(* The codes of one more length. *)
LEMMA UpToNext ==
  ASSUME NEW n \in Nat, NEW lengths \in Lengths(n), NEW l \in 0..14
  PROVE  /\ Cardinality(UpTo(lengths, l)) \in Nat /\ Cardinality(OfLength(lengths, l + 1)) \in Nat
         /\ Cardinality(UpTo(lengths, l + 1)) = Cardinality(UpTo(lengths, l)) + Cardinality(OfLength(lengths, l + 1))
         /\ Cardinality(UpTo(lengths, l + 1)) <= Cardinality(Used(lengths))
<1> DEFINE S == UpTo(lengths, l)
           T == OfLength(lengths, l + 1)
           R == UpTo(lengths, l + 1)
<1>1. S \in SUBSET Used(lengths) /\ T \in SUBSET Used(lengths) /\ R \in SUBSET Used(lengths)
  BY DEF UpTo, OfLength
<1>2. R = S \cup T /\ S \cap T = {}
  <2>1. \A v \in Used(lengths): lengths[v] \in Int
    BY DEF Used, Lengths
  <2> QED BY <2>1 DEF UpTo, OfLength
<1>3. IsFiniteSet(S) /\ IsFiniteSet(T) /\ Cardinality(R) \in 0..Cardinality(Used(lengths))
  BY <1>1, UsedIsFinite
<1>4. Cardinality(S \cup T) = Cardinality(S) + Cardinality(T) - Cardinality(S \cap T)
  BY <1>3, FS_Union
<1>5. Cardinality({}) = 0
  BY FS_EmptySet
<1>6. Cardinality(S) \in Nat /\ Cardinality(T) \in Nat
  BY <1>3, FS_CardinalityType
<1>7. Cardinality(Used(lengths)) \in Nat
  BY UsedIsFinite
<1> HIDE DEF S, T, R
<1>8. Cardinality(R) = Cardinality(S) + Cardinality(T) /\ Cardinality(R) <= Cardinality(Used(lengths))
  <2>1. Cardinality(R) = Cardinality(S \cup T) /\ Cardinality(S \cap T) = 0
    BY <1>2, <1>5
  <2>2. Cardinality(R) <= Cardinality(Used(lengths))
    BY <1>3, <1>7
  <2> QED BY <1>4, <1>6, <2>1, <2>2
<1> QED BY <1>6, <1>8 DEF S, T, R

LEMMA UpToNone ==
  ASSUME NEW n \in Nat, NEW lengths \in Lengths(n)
  PROVE  Cardinality(UpTo(lengths, 0)) = 0
<1>1. UpTo(lengths, 0) = {}
  BY DEF UpTo, Used, Lengths
<1> QED BY <1>1, FS_EmptySet
-----------------------------------------------------------------------------
(***************************************************************************)
(* The readers stay in their bounds.                                       *)
(***************************************************************************)
Table == [0..319 -> 0..15]

(* What holds of the decoder's state at all times. *)
Sound(t) == /\ Shaped(t)
            /\ t.bitTag \in Nat /\ t.bitCount \in Nat
            /\ t.lengths \in Table
            /\ t.window \in [0..WindowSize - 1 -> 0..255] /\ t.windowPos \in 0..WindowSize - 1
            /\ t.expected \in Nat /\ t.count \in 0..t.expected

(* A reader of num bits and a base, and one of a code of a tree. *)
BitsFit(r, num, base) ==
  \/ r = ReadBitsIdle
  \/ /\ r.active /\ r.num = num /\ r.base = base
     /\ r.pos \in 0..num - 1 /\ r.value \in 0..2^r.pos - 1
CodeFits(r, lengths) ==
  \/ r = SymIdle
  \/ /\ r.active /\ r.len \in 0..15 /\ r.cur \in Nat
     /\ r.sum = Cardinality(UpTo(lengths, r.len))

LEMMA Powers ==
  /\ \A k \in 0..15: 2^k \in Nat \ {0}
  /\ \A k \in 0..12: 2^(k + 1) = 2 * 2^k
  /\ 2^0 = 1
  /\ 2^1 = 2 /\ 2^2 = 4 /\ 2^3 = 8 /\ 2^4 = 16 /\ 2^5 = 32 /\ 2^7 = 128
OBVIOUS

LEMMA WindowFacts == WindowSize \in Nat \ {0}
<1>1. WindowBits \in 0..15
  BY ZlibStreamAssumption
<1> QED BY <1>1, Powers, Zenon DEF WindowSize

(* Only what the readers of bits keep is different. *)
LEMMA SoundFrame ==
  ASSUME NEW t, Sound(t), NEW u, Shaped(u), \A f \in Others: u[f] = t[f],
         u.bitTag \in Nat, u.bitCount \in Nat
  PROVE  Sound(u)
<1>1. /\ u.lengths = t.lengths /\ u.window = t.window /\ u.windowPos = t.windowPos
      /\ u.expected = t.expected /\ u.count = t.count
  BY DEF Others, Fields
<1> QED BY <1>1 DEF Sound

LEMMA ReadByteSound ==
  ASSUME NEW t, NEW i \in Input
  PROVE  /\ ReadByte(t, i).rc \in {"got", "input"} /\ ReadByte(t, i).t = t
         /\ ReadByte(t, i).rc = "got" => ReadByte(t, i).value \in 0..255
<1>1. i # <<>> => Head(i) \in 0..255
  BY HeadTailProperties DEF Input
<1> QED BY <1>1 DEF ReadByte, Read

LEMMA ReadBitSound ==
  ASSUME NEW t, Sound(t), NEW i \in Input
  PROVE  /\ ReadBit(t, i).rc \in {"got", "input"} /\ Sound(ReadBit(t, i).t)
         /\ ReadBit(t, i).t.readBits = t.readBits /\ ReadBit(t, i).t.sym = t.sym
         /\ \A f \in Others: ReadBit(t, i).t[f] = t[f]
         /\ ReadBit(t, i).rc = "got" => ReadBit(t, i).value \in {0, 1}
<1>1. /\ Shaped(ReadBit(t, i).t)
      /\ ReadBit(t, i).t.readBits = t.readBits /\ ReadBit(t, i).t.sym = t.sym
      /\ \A f \in Others: ReadBit(t, i).t[f] = t[f]
  BY ReadBitKeeps DEF Sound
<1>2. /\ ReadBit(t, i).rc \in {"got", "input"}
      /\ ReadBit(t, i).rc = "got" => ReadBit(t, i).value \in {0, 1}
      /\ ReadBit(t, i).t.bitTag \in Nat /\ ReadBit(t, i).t.bitCount \in Nat
  <2>1. CASE t.bitCount > 0
    <3>1. ReadBit(t, i) = Read("got", [t EXCEPT !.bitTag = @ \div 2, !.bitCount = @ - 1], i, t.bitTag % 2)
      BY <2>1 DEF ReadBit
    <3>2. /\ ReadBit(t, i).t = [t EXCEPT !.bitTag = @ \div 2, !.bitCount = @ - 1]
          /\ ReadBit(t, i).rc = "got" /\ ReadBit(t, i).value = t.bitTag % 2
      BY <3>1 DEF Read
    <3>3. t.bitTag \div 2 \in Nat /\ t.bitCount - 1 \in Nat /\ t.bitTag % 2 \in {0, 1}
      <4>1. t.bitTag \in Nat /\ t.bitCount \in Nat
        BY DEF Sound
      <4> QED BY <2>1, <4>1
    <3>4. DOMAIN t = Fields
      BY DEF Sound, Shaped
    <3>5. ReadBit(t, i).t.bitTag = t.bitTag \div 2 /\ ReadBit(t, i).t.bitCount = t.bitCount - 1
      BY <3>2, <3>4 DEF Fields
    <3> QED BY <3>2, <3>3, <3>5
  <2>2. CASE ~(t.bitCount > 0) /\ i = <<>>
    BY <2>2 DEF ReadBit, ReadByte, Read, Sound
  <2>3. CASE ~(t.bitCount > 0) /\ i # <<>>
    <3> DEFINE b == ReadByte(t, i)
    <3>1. ReadBit(t, i) = Read("got", [t EXCEPT !.bitTag = b.value \div 2, !.bitCount = 7], b.left, b.value % 2)
      BY <2>3 DEF ReadBit
    <3>2. b.value \in 0..255
      BY <2>3, HeadTailProperties DEF ReadByte, Read, Input
    <3> HIDE DEF b
    <3>3. /\ ReadBit(t, i).t = [t EXCEPT !.bitTag = b.value \div 2, !.bitCount = 7]
          /\ ReadBit(t, i).rc = "got" /\ ReadBit(t, i).value = b.value % 2
      BY <3>1 DEF Read
    <3>4. b.value \div 2 \in Nat /\ b.value % 2 \in {0, 1}
      BY <3>2
    <3>5. DOMAIN t = Fields
      BY DEF Sound, Shaped
    <3>6. ReadBit(t, i).t.bitTag = b.value \div 2 /\ ReadBit(t, i).t.bitCount = 7
      BY <3>3, <3>5 DEF Fields
    <3> QED BY <3>3, <3>4, <3>6
  <2> QED BY <2>1, <2>2, <2>3
<1> QED BY <1>1, <1>2, SoundFrame

(* What read_bits comes back with: nothing else has changed, and what was read
   is a number of num bits and the base. *)
BitsRead(t, r, num, base) ==
  /\ r.rc \in {"got", "more", "input"} /\ Sound(r.t) /\ r.t.sym = t.sym
  /\ \A f \in Others: r.t[f] = t[f]
  /\ BitsFit(r.t.readBits, num, base)
  /\ r.rc = "got" => r.t.readBits = ReadBitsIdle /\ r.value \in base..base + 2^num - 1

LEMMA ReadBitsSound ==
  ASSUME NEW t, Sound(t), NEW i \in Input, NEW num \in 0..13, NEW base \in Nat,
         BitsFit(t.readBits, num, base)
  PROVE  BitsRead(t, ReadBits(t, i, num, base), num, base)
<1> DEFINE r == IF t.readBits.active THEN t.readBits
                ELSE [active |-> TRUE, num |-> num, pos |-> 0, base |-> base, value |-> 0]
           u == [t EXCEPT !.readBits = r]
           bit == ReadBit(u, i)
           pos == r.pos + 1
           value == r.value + bit.value * 2^r.pos
           all == ReadBits(t, i, num, base)
<1>1. all = IF r.num = 0 THEN Read("got", [t EXCEPT !.readBits = ReadBitsIdle], i, r.base)
            ELSE IF bit.rc = "input" THEN bit
            ELSE IF pos < r.num
            THEN Read("more", [bit.t EXCEPT !.readBits = [r EXCEPT !.pos = pos, !.value = value]], bit.left, 0)
            ELSE Read("got", [bit.t EXCEPT !.readBits = ReadBitsIdle], bit.left, value + r.base)
  BY DEF ReadBits
<1>2. Shaped(u) /\ u.sym = t.sym /\ u.readBits = r /\ u.bitTag = t.bitTag /\ u.bitCount = t.bitCount
  BY DEF Sound, Shaped, Fields
<1>3. \A f \in Others: u[f] = t[f]
  BY DEF Sound, Shaped, Others, Fields
<1>4. r.active /\ r.num = num /\ r.base = base
  BY DEF BitsFit, ReadBitsIdle
<1>5. num > 0 => r.pos \in 0..num - 1 /\ r.value \in 0..2^r.pos - 1
  <2>1. CASE t.readBits.active
    <3>1. t.readBits # ReadBitsIdle
      BY <2>1 DEF ReadBitsIdle
    <3> QED BY <2>1, <3>1 DEF BitsFit
  <2>2. CASE ~t.readBits.active
    <3>1. r.pos = 0 /\ r.value = 0
      BY <2>2
    <3> HIDE DEF r
    <3> QED BY <3>1, Powers
  <2> QED BY <2>1, <2>2
<1> HIDE DEF r, u, bit, pos, value, all
<1>6. Sound(u)
  <2>1. u.bitTag \in Nat /\ u.bitCount \in Nat
    BY <1>2 DEF Sound
  <2> QED BY <1>2, <1>3, <2>1, SoundFrame
<1>7. /\ bit.rc \in {"got", "input"} /\ Sound(bit.t) /\ bit.t.readBits = r /\ bit.t.sym = t.sym
      /\ \A f \in Others: bit.t[f] = t[f]
      /\ bit.rc = "got" => bit.value \in {0, 1}
  BY <1>2, <1>3, <1>6, ReadBitSound DEF bit
<1>8. ASSUME NEW w, Sound(w), w.sym = t.sym, \A f \in Others: w[f] = t[f], NEW q
      PROVE  /\ Sound([w EXCEPT !.readBits = q]) /\ [w EXCEPT !.readBits = q].sym = t.sym
             /\ \A f \in Others: [w EXCEPT !.readBits = q][f] = t[f]
             /\ [w EXCEPT !.readBits = q].readBits = q
  <2> DEFINE x == [w EXCEPT !.readBits = q]
  <2>1. /\ Shaped(x) /\ x.sym = t.sym /\ x.readBits = q /\ x.bitTag = w.bitTag /\ x.bitCount = w.bitCount
        /\ \A f \in Others: x[f] = t[f]
    BY <1>8 DEF Sound, Shaped, Others, Fields
  <2> HIDE DEF x
  <2>2. x.bitTag \in Nat /\ x.bitCount \in Nat
    BY <1>8, <2>1 DEF Sound
  <2>3. Sound(x)
    BY <2>1, <2>2, SoundFrame
  <2> QED BY <2>1, <2>3 DEF x
<1>9. CASE num = 0
  <2>1. all = Read("got", [t EXCEPT !.readBits = ReadBitsIdle], i, base)
    BY <1>1, <1>4, <1>9
  <2>2. all.rc = "got" /\ all.t = [t EXCEPT !.readBits = ReadBitsIdle] /\ all.value = base
    BY <2>1 DEF Read
  <2>3. base \in base..base + 2^num - 1
    BY <1>9, Powers
  <2>4. /\ Sound(all.t) /\ all.t.sym = t.sym /\ all.t.readBits = ReadBitsIdle
        /\ \A f \in Others: all.t[f] = t[f]
    BY <1>8, <2>2
  <2> QED BY <2>2, <2>3, <2>4 DEF BitsRead, all, BitsFit
<1>10. CASE num # 0 /\ bit.rc = "input"
  <2>1. all = bit
    BY <1>1, <1>4, <1>10
  <2>2. BitsFit(r, num, base)
    BY <1>4, <1>5, <1>10 DEF BitsFit
  <2> QED BY <1>7, <1>10, <2>1, <2>2 DEF BitsRead, all
<1>11. CASE num # 0 /\ bit.rc = "got"
  <2>1. /\ r.pos \in 0..12 /\ r.value \in 0..2^r.pos - 1 /\ r.pos < num /\ bit.value \in {0, 1}
    BY <1>5, <1>7, <1>11
  <2> DEFINE p == 2^r.pos
  <2>2. 2^pos = 2 * p /\ p \in Nat
    <3>1. r.pos \in 0..12 /\ r.pos \in 0..15
      BY <2>1
    <3>2. /\ \A k \in 0..12: 2^(k + 1) = 2 * 2^k
          /\ \A k \in 0..15: 2^k \in Nat
      BY Powers
    <3>3. 2^(r.pos + 1) = 2 * 2^r.pos /\ 2^r.pos \in Nat
      BY <3>1, <3>2, Zenon
    <3> QED BY <3>3 DEF pos
  <2>3. value \in 0..2 * p - 1
    <3>1. value = r.value + bit.value * p /\ r.value \in 0..p - 1
      BY <2>1 DEF value
    <3> HIDE DEF p
    <3>2. bit.value * p = 0 \/ bit.value * p = p
      BY <2>1, <2>2
    <3> QED BY <2>2, <3>1, <3>2
  <2> HIDE DEF p
  <2>4. CASE pos < num
    <3> DEFINE q == [r EXCEPT !.pos = pos, !.value = value]
    <3>1. all = Read("more", [bit.t EXCEPT !.readBits = q], bit.left, 0)
      BY <1>1, <1>4, <1>11, <2>4
    <3>2. all.rc = "more" /\ all.t = [bit.t EXCEPT !.readBits = q]
      BY <3>1 DEF Read
    <3>3. q.active /\ q.num = num /\ q.base = base /\ q.pos = pos /\ q.value = value
      BY <1>4, <2>1 DEF r, BitsFit, ReadBitsIdle
    <3> HIDE DEF q
    <3>4. BitsFit(q, num, base)
      BY <2>1, <2>2, <2>3, <2>4, <3>3 DEF BitsFit, pos
    <3>5. /\ Sound(all.t) /\ all.t.sym = t.sym /\ all.t.readBits = q
          /\ \A f \in Others: all.t[f] = t[f]
      BY <1>7, <1>8, <3>2
    <3> QED BY <3>2, <3>4, <3>5 DEF BitsRead, all
  <2>5. CASE ~(pos < num)
    <3>1. all = Read("got", [bit.t EXCEPT !.readBits = ReadBitsIdle], bit.left, value + base)
      BY <1>1, <1>4, <1>11, <2>5
    <3>2. all.rc = "got" /\ all.t = [bit.t EXCEPT !.readBits = ReadBitsIdle] /\ all.value = value + base
      BY <3>1 DEF Read
    <3>3. pos = num
      BY <2>1, <2>5 DEF pos
    <3>4. value + base \in base..base + 2^num - 1
      BY <2>2, <2>3, <3>3
    <3>5. /\ Sound(all.t) /\ all.t.sym = t.sym /\ all.t.readBits = ReadBitsIdle
          /\ \A f \in Others: all.t[f] = t[f]
      <4>1. Sound(bit.t) /\ bit.t.sym = t.sym /\ \A f \in Others: bit.t[f] = t[f]
        BY <1>7
      <4> HIDE DEF BitsRead
      <4> QED BY <1>8, <3>2, <4>1
    <3> QED BY <3>2, <3>4, <3>5 DEF BitsRead, all, BitsFit
  <2> QED BY <2>4, <2>5
<1> QED BY <1>7, <1>9, <1>10, <1>11

(* The next bit of a code either ends it, at a symbol of the tree, or not. *)
NextBit(lengths, len, cur, sum, bit, count) ==
  /\ sum \in Nat /\ count \in Nat
  /\ sum + count = Cardinality(UpTo(lengths, len + 1))
  /\ 2 * cur + bit - count < 0 =>
       sum + count + (2 * cur + bit - count) + 1 \in 1..Cardinality(Used(lengths))

LEMMA CodeIndex ==
  ASSUME NEW n \in Nat, NEW lengths \in Lengths(n), NEW len \in 0..14, NEW cur \in Nat, NEW sum,
         sum = Cardinality(UpTo(lengths, len)), NEW bit \in {0, 1}, NEW count,
         count = BuildTree(lengths).table[len + 1]
  PROVE  NextBit(lengths, len, cur, sum, bit, count)
<1> DEFINE C == Cardinality(OfLength(lengths, len + 1))
           U == Cardinality(UpTo(lengths, len + 1))
           N == Cardinality(Used(lengths))
<1>1. /\ sum \in Nat /\ C \in Nat /\ U = sum + C /\ U <= N
  BY UpToNext
<1>2. len + 1 \in 1..15
  OBVIOUS
<1>3. count = C
  BY <1>2, TreeOf
<1>4. N \in Nat
  BY UsedIsFinite
<1> HIDE DEF C, U, N
<1>5. 2 * cur + bit - count < 0 => sum + count + (2 * cur + bit - count) + 1 \in 1..N
  BY <1>1, <1>3, <1>4
<1> QED BY <1>1, <1>3, <1>5 DEF U, N, NextBit

(* What decode_symbol comes back with. *)
CodeRead(t, r, lengths, n) ==
  /\ r.rc \in {"got", "more", "input", "error"} /\ Sound(r.t) /\ r.t.readBits = t.readBits
  /\ \A f \in Others: r.t[f] = t[f]
  /\ r.rc \in {"more", "input"} => CodeFits(r.t.sym, lengths)
  /\ r.rc = "got" => r.t.sym = SymIdle /\ r.value \in 0..n - 1

LEMMA DecodeSymbolSound ==
  ASSUME NEW t, Sound(t), NEW i \in Input, NEW n \in Nat, NEW lengths \in Lengths(n), NEW tree,
         tree = BuildTree(lengths), CodeFits(t.sym, lengths)
  PROVE  CodeRead(t, DecodeSymbol(t, i, tree), lengths, n)
<1> DEFINE r == IF t.sym.active THEN t.sym ELSE [SymIdle EXCEPT !.active = TRUE]
           u == [t EXCEPT !.sym = r]
           bit == ReadBit(u, i)
           len == r.len + 1
           count == tree.table[len]
           sum == r.sum + count
           cur == 2 * r.cur + bit.value - count
           more == [active |-> TRUE, sum |-> sum, cur |-> cur, len |-> len]
           all == DecodeSymbol(t, i, tree)
<1>1. all = IF bit.rc = "input" THEN bit
            ELSE IF len = 16 THEN Read("error", bit.t, bit.left, 0)
            ELSE IF cur >= 0 THEN Read("more", [bit.t EXCEPT !.sym = more], bit.left, 0)
            ELSE Read("got", [bit.t EXCEPT !.sym = SymIdle], bit.left, tree.trans[sum + cur + 1])
  BY DEF DecodeSymbol
<1>2. Shaped(u) /\ u.readBits = t.readBits /\ u.sym = r /\ u.bitTag = t.bitTag /\ u.bitCount = t.bitCount
  BY DEF Sound, Shaped, Fields
<1>3. \A f \in Others: u[f] = t[f]
  BY DEF Sound, Shaped, Others, Fields
<1>4. CodeFits(r, lengths) /\ r.active /\ r.len \in 0..15 /\ r.cur \in Nat
      /\ r.sum = Cardinality(UpTo(lengths, r.len))
  <2>1. CASE t.sym.active
    <3>1. t.sym # SymIdle
      BY <2>1 DEF SymIdle
    <3> QED BY <2>1, <3>1 DEF CodeFits
  <2>2. CASE ~t.sym.active
    <3>1. r.active /\ r.len = 0 /\ r.cur = 0 /\ r.sum = 0
      BY <2>2 DEF SymIdle
    <3> HIDE DEF r
    <3>2. r.sum = Cardinality(UpTo(lengths, r.len))
      BY <3>1, UpToNone
    <3> QED BY <3>1, <3>2 DEF CodeFits
  <2> QED BY <2>1, <2>2
<1> HIDE DEF r, u, bit, len, count, sum, cur, more, all
<1>5. Sound(u)
  <2>1. u.bitTag \in Nat /\ u.bitCount \in Nat
    BY <1>2 DEF Sound
  <2> QED BY <1>2, <1>3, <2>1, SoundFrame
<1>6. /\ bit.rc \in {"got", "input"} /\ Sound(bit.t) /\ bit.t.sym = r /\ bit.t.readBits = t.readBits
      /\ \A f \in Others: bit.t[f] = t[f]
      /\ bit.rc = "got" => bit.value \in {0, 1}
  BY <1>2, <1>3, <1>5, ReadBitSound DEF bit
<1>7. ASSUME NEW w, Sound(w), w.readBits = t.readBits, \A f \in Others: w[f] = t[f], NEW q
      PROVE  /\ Sound([w EXCEPT !.sym = q]) /\ [w EXCEPT !.sym = q].readBits = t.readBits
             /\ \A f \in Others: [w EXCEPT !.sym = q][f] = t[f]
             /\ [w EXCEPT !.sym = q].sym = q
  <2> DEFINE x == [w EXCEPT !.sym = q]
  <2>1. /\ Shaped(x) /\ x.readBits = t.readBits /\ x.sym = q /\ x.bitTag = w.bitTag /\ x.bitCount = w.bitCount
        /\ \A f \in Others: x[f] = t[f]
    BY <1>7 DEF Sound, Shaped, Others, Fields
  <2> HIDE DEF x
  <2>2. x.bitTag \in Nat /\ x.bitCount \in Nat
    BY <1>7, <2>1 DEF Sound
  <2>3. \A f \in Others: x[f] = w[f]
    BY <1>7, <2>1
  <2>4. Sound(x)
    BY <1>7, <2>1, <2>2, <2>3, SoundFrame
  <2> QED BY <2>1, <2>4 DEF x
<1>8. CASE bit.rc = "input"
  <2>1. all = bit
    BY <1>1, <1>8
  <2> QED BY <1>4, <1>6, <1>8, <2>1 DEF CodeRead, all
<1>9. CASE bit.rc = "got" /\ len = 16
  <2>1. all = Read("error", bit.t, bit.left, 0)
    BY <1>1, <1>9
  <2>2. all.rc = "error" /\ all.t = bit.t
    BY <2>1 DEF Read
  <2> QED BY <1>6, <2>2 DEF CodeRead, all
<1>10. CASE bit.rc = "got" /\ len # 16
  <2>1. r.len \in 0..14 /\ len \in 1..15
    BY <1>4, <1>10 DEF len
  <2>2. bit.value \in {0, 1}
    BY <1>6, <1>10
  <2>3. count = BuildTree(lengths).table[r.len + 1]
    BY DEF count, len
  <2>4. /\ r.sum \in Nat /\ count \in Nat /\ sum = Cardinality(UpTo(lengths, len))
        /\ cur < 0 => sum + cur + 1 \in 1..Cardinality(Used(lengths))
    <3>1. /\ r.sum \in Nat /\ count \in Nat
          /\ r.sum + count = Cardinality(UpTo(lengths, r.len + 1))
          /\ 2 * r.cur + bit.value - count < 0 =>
               r.sum + count + (2 * r.cur + bit.value - count) + 1 \in 1..Cardinality(Used(lengths))
      <4> DEFINE l == r.len
                 c == r.cur
                 m == r.sum
                 b == bit.value
      <4>1. /\ l \in 0..14 /\ c \in Nat /\ m = Cardinality(UpTo(lengths, l)) /\ b \in {0, 1}
            /\ count = BuildTree(lengths).table[l + 1]
        BY <1>4, <2>1, <2>2, <2>3
      <4> HIDE DEF l, c, m, b
      <4>2. NextBit(lengths, l, c, m, b, count)
        BY <4>1, CodeIndex
      <4> QED BY <4>2 DEF l, c, m, b, NextBit
    <3> QED BY <3>1 DEF sum, cur, len
  <2>5. cur \in Int
    BY <1>4, <2>2, <2>4 DEF cur
  <2>6. CASE cur >= 0
    <3>1. all = Read("more", [bit.t EXCEPT !.sym = more], bit.left, 0)
      BY <1>1, <1>10, <2>6
    <3>2. all.rc = "more" /\ all.t = [bit.t EXCEPT !.sym = more]
      BY <3>1 DEF Read
    <3>3. CodeFits(more, lengths)
      BY <2>1, <2>4, <2>5, <2>6 DEF CodeFits, more
    <3>4. /\ Sound(all.t) /\ all.t.readBits = t.readBits /\ all.t.sym = more
          /\ \A f \in Others: all.t[f] = t[f]
      BY <1>6, <1>7, <3>2
    <3> QED BY <3>2, <3>3, <3>4 DEF CodeRead, all
  <2>7. CASE ~(cur >= 0)
    <3>1. all = Read("got", [bit.t EXCEPT !.sym = SymIdle], bit.left, tree.trans[sum + cur + 1])
      BY <1>1, <1>10, <2>7
    <3>2. /\ all.rc = "got" /\ all.t = [bit.t EXCEPT !.sym = SymIdle]
          /\ all.value = tree.trans[sum + cur + 1]
      BY <3>1 DEF Read
    <3>3. sum + cur + 1 \in 1..Cardinality(Used(lengths))
      BY <2>4, <2>5, <2>7
    <3>4. all.value \in 0..n - 1
      <4>1. tree.trans \in [1..Cardinality(Used(lengths)) -> 0..n - 1]
        BY TreeOf
      <4> QED BY <3>2, <3>3, <4>1
    <3>5. /\ Sound(all.t) /\ all.t.readBits = t.readBits /\ all.t.sym = SymIdle
          /\ \A f \in Others: all.t[f] = t[f]
      BY <1>6, <1>7, <3>2
    <3> QED BY <3>2, <3>4, <3>5 DEF CodeRead, all
  <2> QED BY <2>6, <2>7
<1> QED BY <1>6, <1>8, <1>9, <1>10

LEMMA CodeFinds ==
  ASSUME NEW n \in Nat, NEW lengths \in Lengths(n), NEW sym, CodeFits(sym, lengths),
         NEW size \in Nat, n <= size
  PROVE  Finds(BuildTree(lengths), sym, size)
<1>1. sym.len \in 0..15 /\ sym.cur \in Nat /\ sym.sum = Cardinality(UpTo(lengths, sym.len))
  BY UpToNone DEF CodeFits, SymIdle
<1> DEFINE tree == BuildTree(lengths)
           N == Cardinality(Used(lengths))
<1>2. N \in 0..n /\ tree.trans \in [1..N -> 0..n - 1]
  BY UsedIsFinite, TreeOf
<1>3. Len(tree.trans) = N /\ DOMAIN tree.trans = 1..N
  <2> HIDE DEF tree, N
  <2>1. tree.trans \in Seq(0..n - 1)
    BY <1>2
  <2> QED BY <1>2, <2>1, LenProperties
<1>4. ASSUME sym.len < 15, NEW bit \in {0, 1}
      PROVE  LET cur == 2 * sym.cur + bit - tree.table[sym.len + 1]
             IN  cur < 0 => sym.sum + tree.table[sym.len + 1] + cur + 1 \in DOMAIN tree.trans
  <2>1. sym.len \in 0..14
    BY <1>1, <1>4
  <2>2. NextBit(lengths, sym.len, sym.cur, sym.sum, bit, tree.table[sym.len + 1])
    BY <1>1, <2>1, CodeIndex
  <2> QED BY <1>3, <2>2 DEF NextBit
<1> HIDE DEF tree, N
<1>5. Len(tree.trans) <= size
  BY <1>2, <1>3
<1> QED BY <1>1, <1>4, <1>5 DEF Finds, tree

-----------------------------------------------------------------------------
(***************************************************************************)
(* The places the decoder can be at, and what its tables hold there.       *)
(***************************************************************************)
Built(tree, size) == \E n \in 0..size: \E lengths \in Lengths(n): tree = BuildTree(lengths)
InCode(tree, sym, size) ==
  \E n \in 0..size: \E lengths \in Lengths(n): tree = BuildTree(lengths) /\ CodeFits(sym, lengths)

LEMMA BuiltCode ==
  ASSUME NEW tree, NEW size
  PROVE  Built(tree, size) <=> InCode(tree, SymIdle, size)
BY DEF Built, InCode, CodeFits

LEMMA InCodeBuilt ==
  ASSUME NEW tree, NEW sym, NEW size, InCode(tree, sym, size)
  PROVE  Built(tree, size)
BY DEF Built, InCode

LEMMA InCodeFinds ==
  ASSUME NEW tree, NEW sym, NEW size \in Nat, InCode(tree, sym, size)
  PROVE  Finds(tree, sym, size)
<1>1. PICK n \in 0..size: \E lengths \in Lengths(n): tree = BuildTree(lengths) /\ CodeFits(sym, lengths)
  BY DEF InCode
<1>2. PICK lengths \in Lengths(n): tree = BuildTree(lengths) /\ CodeFits(sym, lengths)
  BY <1>1
<1>3. n \in Nat /\ n <= size
  BY <1>1
<1> QED BY <1>2, <1>3, CodeFinds

(* What decode_symbol comes back with, for a tree of size symbols. *)
SymbolRead(t, r, tree, size) ==
  /\ r.rc \in {"got", "more", "input", "error"} /\ Sound(r.t) /\ r.t.readBits = t.readBits
  /\ \A f \in Others: r.t[f] = t[f]
  /\ r.rc \in {"more", "input"} => InCode(tree, r.t.sym, size)
  /\ r.rc = "got" => r.t.sym = SymIdle /\ r.value \in 0..size - 1

LEMMA SymbolReadSound ==
  ASSUME NEW t, Sound(t), NEW i \in Input, NEW tree, NEW size \in Nat, InCode(tree, t.sym, size)
  PROVE  SymbolRead(t, DecodeSymbol(t, i, tree), tree, size)
<1>1. PICK n \in 0..size: \E lengths \in Lengths(n): tree = BuildTree(lengths) /\ CodeFits(t.sym, lengths)
  BY DEF InCode
<1>2. PICK lengths \in Lengths(n): tree = BuildTree(lengths) /\ CodeFits(t.sym, lengths)
  BY <1>1
<1>3. n \in Nat /\ n <= size
  BY <1>1
<1> DEFINE r == DecodeSymbol(t, i, tree)
<1>4. CodeRead(t, r, lengths, n)
  BY <1>2, <1>3, DecodeSymbolSound
<1> HIDE DEF r
<1>5. \A sym: CodeFits(sym, lengths) => InCode(tree, sym, size)
  BY <1>1, <1>2 DEF InCode
<1>6. \A k \in 0..n - 1: k \in 0..size - 1
  BY <1>3
<1> QED BY <1>4, <1>5, <1>6 DEF CodeRead, SymbolRead, r

LEMMA BuiltIs ==
  ASSUME NEW n \in Nat, NEW lengths \in [0..n - 1 -> 0..15], NEW size \in Nat, n <= size
  PROVE  Built(BuildTree(lengths), size)
BY DEF Built, Lengths

LEMMA FixedTrees == Built(FixedLiterals, 288) /\ Built(FixedDistances, 32)
<1> DEFINE f == [v \in 0..287 |-> IF v \in 144..255 THEN 9 ELSE IF v \in 256..279 THEN 7 ELSE 8]
           d == [v \in 0..31 |-> 5]
<1>1. f \in [0..288 - 1 -> 0..15] /\ d \in [0..32 - 1 -> 0..15]
  OBVIOUS
<1>2. FixedLiterals = BuildTree(f) /\ FixedDistances = BuildTree(d)
  BY DEF FixedLiterals, FixedDistances
<1> HIDE DEF f, d
<1>3. ASSUME NEW n \in Nat, NEW lengths \in [0..n - 1 -> 0..15]
      PROVE  Built(BuildTree(lengths), n)
  BY <1>3, BuiltIs
<1>4. Built(BuildTree(f), 288)
  <2> DEFINE n == 288
  <2>1. n \in Nat /\ f \in [0..n - 1 -> 0..15]
    BY <1>1
  <2> HIDE DEF n
  <2>2. Built(BuildTree(f), n)
    BY <1>3, <2>1
  <2> QED BY <2>2 DEF n
<1>5. Built(BuildTree(d), 32)
  <2> DEFINE n == 32
  <2>1. n \in Nat /\ d \in [0..n - 1 -> 0..15]
    BY <1>1
  <2> HIDE DEF n
  <2>2. Built(BuildTree(d), n)
    BY <1>3, <2>1
  <2> QED BY <2>2 DEF n
<1> QED BY <1>2, <1>4, <1>5

Idle(t) == t.readBits = ReadBitsIdle /\ t.sym = SymIdle
Bits(t, num, base) == BitsFit(t.readBits, num, base) /\ t.sym = SymIdle
Code(t, tree, size) == t.readBits = ReadBitsIdle /\ InCode(tree, t.sym, size)

AtBytes(t) == t.stage \in {"cmf", "flg", "final", "trailer"} /\ Idle(t)
AtType(t) == t.stage = "type" /\ Bits(t, 2, 0)

(* process_dynamic_trees *)
AtTable(t, stage) == t.stage = "dynamicTrees" /\ t.dynamicStage = stage
AtHlit(t) == AtTable(t, "hlit") /\ Bits(t, 5, 257)
AtHdist(t) == AtTable(t, "hdist") /\ Bits(t, 5, 1) /\ t.hlit \in 257..288
AtHclen(t) == AtTable(t, "hclen") /\ Bits(t, 4, 4) /\ t.hlit \in 257..288 /\ t.hdist \in 1..32
Counts(t) == t.hlit \in 257..286 /\ t.hdist \in 1..32
AtReadClen(t) == AtTable(t, "readClen") /\ Bits(t, 3, 0) /\ Counts(t)
                 /\ t.hclen \in 4..19 /\ t.dynI \in 0..t.hclen
AtReadLengths(t) == AtTable(t, "readLengths") /\ Code(t, t.tree, 19) /\ Counts(t)
                    /\ t.dynNum \in 0..t.hlit + t.hdist
AtRepeatBits(t) == AtTable(t, "repeatBits") /\ Bits(t, t.repeatBits, t.repeatBase) /\ Counts(t)
                   /\ t.dynNum \in 0..t.hlit + t.hdist /\ Built(t.tree, 19) /\ t.fill \in 0..15
                   /\ t.repeatBits \in {2, 3, 7} /\ t.repeatBase \in {3, 11}

(* process_stored_header, process_stored_data *)
AtStoredLen(t) == t.stage = "storedLen" /\ Idle(t) /\ t.header \in Seq(0..255) /\ Len(t.header) < 4
Words == 0..2^16 - 1
AtStoredData(t) == t.stage = "storedData" /\ Idle(t) /\ t.storedLen \in Words

(* process_block_data *)
AtBlock(t, stage) == t.stage = "blockData" /\ t.blockStage = stage
AtSymbol(t) == AtBlock(t, "symbol") /\ Code(t, t.ltree, 288) /\ Built(t.tree, 32)
AtLenExtra(t) == AtBlock(t, "lenExtra") /\ t.lengthSym \in 0..28
                 /\ Bits(t, LengthBits[t.lengthSym + 1], LengthBase[t.lengthSym + 1])
                 /\ Built(t.ltree, 288) /\ Built(t.tree, 32)
AtDistSymbol(t) == AtBlock(t, "distSymbol") /\ Code(t, t.tree, 32) /\ Built(t.ltree, 288)
                   /\ t.matchLen \in Nat \ {0}
AtDistExtra(t) == AtBlock(t, "distExtra") /\ t.distSym \in 0..29
                  /\ Bits(t, DistBits[t.distSym + 1], DistBase[t.distSym + 1])
                  /\ Built(t.ltree, 288) /\ Built(t.tree, 32) /\ t.matchLen \in Nat \ {0}
AtMatchCopy(t) == AtBlock(t, "matchCopy") /\ Idle(t) /\ Built(t.ltree, 288) /\ Built(t.tree, 32)
                  /\ t.matchLen \in Nat \ {0}
                  /\ t.matchOffset \in 1..WindowSize /\ t.matchOffset <= t.count

AtTables(t) == \/ AtHlit(t) \/ AtHdist(t) \/ AtHclen(t) \/ AtReadClen(t)
               \/ AtReadLengths(t) \/ AtRepeatBits(t)
AtData(t) == \/ AtSymbol(t) \/ AtLenExtra(t) \/ AtDistSymbol(t) \/ AtDistExtra(t) \/ AtMatchCopy(t)
Placed(t) == \/ AtBytes(t) \/ AtType(t) \/ AtTables(t) \/ AtStoredLen(t) \/ AtStoredData(t) \/ AtData(t)
             \/ t.stage = "done"
Bounded(t) == Sound(t) /\ Placed(t)

(* What a step does with the window. *)
Written(t, u, byte) ==
  /\ byte \in 0..255 /\ u.window = [t.window EXCEPT ![t.windowPos] = byte]
  /\ u.windowPos = (t.windowPos + 1) % WindowSize /\ u.count = t.count + 1
NotWritten(t, u) == u.window = t.window /\ u.windowPos = t.windowPos /\ u.count = t.count
StepSound(t, o) ==
  /\ o.how # "fails" => Bounded(o.t)
  /\ o.how \in {"goes", "starves"} => NotWritten(t, o.t)
  /\ o.how = "puts" => Written(t, o.t, o.byte)
  /\ o.how \in {"goes", "starves", "puts", "fails"}

LEMMA GoesSound ==
  ASSUME NEW t, NEW w, Bounded(w), NotWritten(t, w)
  PROVE  StepSound(t, Goes(w))
BY DEF StepSound, Goes

LEMMA FailsSound ==
  ASSUME NEW t, NEW w
  PROVE  StepSound(t, Fails(w))
BY DEF StepSound, Fails

(* A reader has read something: the decoder goes on from u. *)
Got(t, u) == Sound(u) /\ Idle(u) /\ \A f \in Others: u[f] = t[f]

LEMMA GotNotWritten ==
  ASSUME NEW t, NEW u, Got(t, u)
  PROVE  NotWritten(t, u)
BY DEF Got, NotWritten, Others, Fields

(* The decoder goes from u to w without a byte of output. *)
Moved(u, w) ==
  /\ Shaped(w) /\ w.bitTag \in Nat /\ w.bitCount \in Nat /\ w.lengths \in Table
  /\ NotWritten(u, w) /\ w.expected = u.expected

LEMMA MovedSound ==
  ASSUME NEW u, Sound(u), NEW w, Moved(u, w)
  PROVE  Sound(w)
BY DEF Moved, Sound, NotWritten

LEMMA MovesSound ==
  ASSUME NEW t, NEW u, Got(t, u), NEW w, Moved(u, w), Placed(w)
  PROVE  StepSound(t, Goes(w))
<1>1. Sound(w)
  BY MovedSound DEF Got
<1>2. NotWritten(t, w)
  BY GotNotWritten DEF Moved, NotWritten
<1> QED BY <1>1, <1>2, GoesSound DEF Bounded

LEMMA EditedFunction ==
  ASSUME NEW D, NEW R, NEW f \in [D -> R], NEW x, NEW y \in R
  PROVE  [f EXCEPT ![x] = y] \in [D -> R]
OBVIOUS

LEMMA PutsSound ==
  ASSUME NEW t, NEW w, Sound(w), NotWritten(t, w), NEW byte \in 0..255,
         AtBytes(w) \/ AtStoredData(w) \/ AtSymbol(w) \/ AtMatchCopy(w)
  PROVE  StepSound(t, Puts(w, byte))
<1> DEFINE x == [w EXCEPT !.window[w.windowPos] = byte, !.windowPos = (@ + 1) % WindowSize,
                          !.count = @ + 1, !.adler = Adler(@, byte)]
<1>1. CASE w.count >= w.expected
  BY <1>1, FailsSound DEF Puts
<1>2. CASE ~(w.count >= w.expected)
  <2>1. Puts(w, byte) = [how |-> "puts", byte |-> byte, t |-> x]
    BY <1>2 DEF Puts
  <2>2. DOMAIN w = Fields /\ Shaped(x)
    BY DEF Sound, Shaped
  <2>3. /\ x.window = [w.window EXCEPT ![w.windowPos] = byte]
        /\ x.windowPos = (w.windowPos + 1) % WindowSize
        /\ x.count = w.count + 1
    BY <2>2 DEF Fields
  <2>4. \A f \in Fields \ {"window", "windowPos", "count", "adler"}: x[f] = w[f]
    BY <2>2
  <2> HIDE DEF x
  <2>5. Puts(w, byte).how = "puts" /\ Puts(w, byte).t = x /\ Puts(w, byte).byte = byte
    BY <2>1
  <2>6. Written(t, x, byte)
    BY <2>3 DEF Written, NotWritten
  <2>7. /\ x.stage = w.stage /\ x.blockStage = w.blockStage /\ x.readBits = w.readBits /\ x.sym = w.sym
        /\ x.storedLen = w.storedLen /\ x.ltree = w.ltree /\ x.tree = w.tree
        /\ x.matchLen = w.matchLen /\ x.matchOffset = w.matchOffset
        /\ x.bitTag = w.bitTag /\ x.bitCount = w.bitCount /\ x.lengths = w.lengths /\ x.expected = w.expected
    BY <2>4 DEF Fields
  <2>8. Sound(x)
    <3>1. w.windowPos \in 0..WindowSize - 1 /\ w.window \in [0..WindowSize - 1 -> 0..255]
          /\ w.count \in 0..w.expected /\ w.expected \in Nat
      BY DEF Sound
    <3>2. x.window \in [0..WindowSize - 1 -> 0..255]
      <4> DEFINE D == 0..WindowSize - 1
                 R == 0..255
      <4>1. w.window \in [D -> R] /\ byte \in R
        BY <3>1
      <4> HIDE DEF D, R
      <4>2. x.window \in [D -> R]
        BY <2>3, <4>1, EditedFunction
      <4> QED BY <4>2 DEF D, R
    <3>3. x.windowPos \in 0..WindowSize - 1
      <4> DEFINE p == w.windowPos + 1
      <4>1. p \in Nat
        BY <3>1
      <4> HIDE DEF p
      <4>2. p % WindowSize \in 0..WindowSize - 1
        BY <4>1, WindowFacts
      <4> QED BY <2>3, <4>2 DEF p
    <3>4. x.count \in 0..x.expected
      BY <1>2, <2>3, <2>7, <3>1
    <3> QED BY <2>2, <2>7, <3>2, <3>3, <3>4 DEF Sound
  <2>9. AtBytes(x) \/ AtStoredData(x) \/ AtSymbol(x) \/ AtMatchCopy(x)
    <3>1. AtBytes(w) => AtBytes(x)
      BY <2>7 DEF AtBytes, Idle
    <3>2. AtStoredData(w) => AtStoredData(x)
      BY <2>7 DEF AtStoredData, Idle
    <3>3. AtSymbol(w) => AtSymbol(x)
      BY <2>7 DEF AtSymbol, AtBlock, Code
    <3>4. AtMatchCopy(w) => AtMatchCopy(x)
      <4>1. w.count \in Nat
        BY DEF Sound
      <4>2. ASSUME w.matchOffset \in 1..WindowSize, w.matchOffset <= w.count
            PROVE  w.matchOffset <= w.count + 1
        BY <4>1, <4>2, WindowFacts
      <4> QED BY <2>3, <2>7, <4>2 DEF AtMatchCopy, AtBlock, Idle
    <3> QED BY <3>1, <3>2, <3>3, <3>4
  <2>10. Bounded(x)
    BY <2>8, <2>9 DEF Bounded, Placed, AtData
  <2> QED BY <2>5, <2>6, <2>10 DEF StepSound
<1> QED BY <1>1, <1>2

(* A reader that has more to read, or no input, leaves the decoder where it is. *)
Waits(t, r) == /\ r.rc \in {"got", "more", "input", "error"} /\ \A f \in Others: r.t[f] = t[f]
               /\ r.rc \in {"more", "input"} => Bounded(r.t)

LEMMA MadeSound ==
  ASSUME NEW t, NEW r, Waits(t, r), NEW v, r.rc = "got" => StepSound(t, v)
  PROVE  StepSound(t, Made(r, v))
<1>1. NotWritten(t, r.t)
  BY DEF Waits, NotWritten, Others, Fields
<1>2. CASE r.rc = "got"
  <2>1. Made(r, v).how = v.how /\ Made(r, v).t = v.t /\ Made(r, v).byte = v.byte
    BY <1>2 DEF Made, Leaving
  <2> QED BY <1>2, <2>1 DEF StepSound
<1>3. CASE r.rc = "more"
  <2>1. Made(r, v).how = "goes" /\ Made(r, v).t = r.t
    BY <1>3 DEF Made, Leaving, Goes
  <2> QED BY <1>1, <1>3, <2>1 DEF StepSound, Waits
<1>4. CASE r.rc = "input"
  <2>1. Made(r, v).how = "starves" /\ Made(r, v).t = r.t
    BY <1>4 DEF Made, Leaving, Starves
  <2> QED BY <1>1, <1>4, <2>1 DEF StepSound, Waits
<1>5. CASE r.rc = "error"
  <2>1. Made(r, v).how = "fails"
    BY <1>5 DEF Made, Leaving, Fails
  <2> QED BY <2>1 DEF StepSound
<1> QED BY <1>2, <1>3, <1>4, <1>5 DEF Waits

LEMMA LeavingSound ==
  ASSUME NEW t, NEW o, StepSound(t, o), NEW i
  PROVE  StepSound(t, Leaving(o, i))
<1>1. Leaving(o, i).how = o.how /\ Leaving(o, i).t = o.t /\ Leaving(o, i).byte = o.byte
  BY DEF Leaving
<1> QED BY <1>1 DEF StepSound

(* What the readers come back with, at a place where they are idle or have begun. *)
LEMMA ByteGot ==
  ASSUME NEW t, Bounded(t), Idle(t), NEW i \in Input
  PROVE  /\ Waits(t, ReadByte(t, i)) /\ Got(t, ReadByte(t, i).t) /\ ReadByte(t, i).t = t
         /\ ReadByte(t, i).rc = "got" => ReadByte(t, i).value \in 0..255
<1>1. /\ ReadByte(t, i).rc \in {"got", "input"} /\ ReadByte(t, i).t = t
      /\ ReadByte(t, i).rc = "got" => ReadByte(t, i).value \in 0..255
  BY ReadByteSound
<1> QED BY <1>1 DEF Waits, Got, Bounded

BitsGot(t, r, num, base) ==
  /\ r.rc \in {"got", "more", "input"} /\ Sound(r.t) /\ Bits(r.t, num, base)
  /\ \A f \in Others: r.t[f] = t[f]
  /\ r.rc = "got" => Got(t, r.t) /\ r.value \in base..base + 2^num - 1

LEMMA BitsAreGot ==
  ASSUME NEW t, Sound(t), NEW i \in Input, NEW num \in 0..13, NEW base \in Nat, Bits(t, num, base)
  PROVE  BitsGot(t, ReadBits(t, i, num, base), num, base)
<1> DEFINE r == ReadBits(t, i, num, base)
<1>1. BitsRead(t, r, num, base)
  BY ReadBitsSound DEF Bits
<1> HIDE DEF r
<1>2. BitsGot(t, r, num, base)
  BY <1>1 DEF BitsRead, BitsGot, Bits, Got, Idle
<1> QED BY <1>2 DEF r

SymbolGot(t, r, tree, size) ==
  /\ r.rc \in {"got", "more", "input", "error"} /\ Sound(r.t)
  /\ \A f \in Others: r.t[f] = t[f]
  /\ r.rc \in {"more", "input"} => Code(r.t, tree, size)
  /\ r.rc = "got" => Got(t, r.t) /\ r.value \in 0..size - 1

LEMMA SymbolIsGot ==
  ASSUME NEW t, Sound(t), NEW i \in Input, NEW tree, NEW size \in Nat, Code(t, tree, size)
  PROVE  SymbolGot(t, DecodeSymbol(t, i, tree), tree, size)
<1> DEFINE r == DecodeSymbol(t, i, tree)
<1>1. SymbolRead(t, r, tree, size)
  BY SymbolReadSound DEF Code
<1> HIDE DEF r
<1>2. SymbolGot(t, r, tree, size)
  BY <1>1 DEF SymbolRead, SymbolGot, Code, Got, Idle
<1> QED BY <1>2 DEF r

LEMMA BitGot ==
  ASSUME NEW t, Sound(t), AtBytes(t), NEW i \in Input
  PROVE  Waits(t, ReadBit(t, i)) /\ Got(t, ReadBit(t, i).t)
<1> DEFINE r == ReadBit(t, i)
<1>1. /\ r.rc \in {"got", "input"} /\ Sound(r.t) /\ r.t.readBits = t.readBits /\ r.t.sym = t.sym
      /\ \A f \in Others: r.t[f] = t[f]
  BY ReadBitSound
<1> HIDE DEF r
<1>2. r.t.stage = t.stage
  BY <1>1 DEF Others, Fields
<1>3. AtBytes(r.t)
  BY <1>1, <1>2 DEF AtBytes, Idle
<1>4. Waits(t, r) /\ Got(t, r.t)
  BY <1>1, <1>3 DEF Waits, Got, AtBytes, Bounded, Placed
<1> QED BY <1>4 DEF r

LEMMA ResetGot ==
  ASSUME NEW t, Sound(t)
  PROVE  Got(t, ResetCodeReaders(t))
<1> DEFINE u == ResetCodeReaders(t)
<1>1. Shaped(u) /\ u.bitTag = t.bitTag /\ u.bitCount = t.bitCount /\ Idle(u)
  BY DEF Sound, Shaped, Fields, ResetCodeReaders, Idle
<1>2. \A f \in Others: u[f] = t[f]
  BY DEF Sound, Shaped, Fields, ResetCodeReaders, Others
<1> HIDE DEF u
<1>3. u.bitTag \in Nat /\ u.bitCount \in Nat
  BY <1>1 DEF Sound
<1>4. Got(t, u)
  BY <1>1, <1>2, <1>3, SoundFrame DEF Got
<1> QED BY <1>4 DEF u

LEMMA PutsMoves ==
  ASSUME NEW t, NEW u, Got(t, u), NEW w, Moved(u, w), NEW byte \in 0..255,
         AtBytes(w) \/ AtStoredData(w) \/ AtSymbol(w) \/ AtMatchCopy(w)
  PROVE  StepSound(t, Puts(w, byte))
<1>1. Sound(w)
  BY MovedSound DEF Got
<1>2. NotWritten(t, w)
  BY GotNotWritten DEF Moved, NotWritten
<1> QED BY <1>1, <1>2, PutsSound

LEMMA TableFacts ==
  /\ \A k \in 1..29: LengthBits[k] \in 0..13 /\ LengthBase[k] \in Nat \ {0}
  /\ \A k \in 1..30: DistBits[k] \in 0..13 /\ DistBase[k] \in Nat \ {0}
  /\ \A k \in 1..19: ClcIdx[k] \in 0..18
  /\ DOMAIN LengthBits = 1..29 /\ DOMAIN DistBits = 1..30 /\ Len(ClcIdx) = 19
BY DEF LengthBits, LengthBase, DistBits, DistBase, ClcIdx

LEMMA WordFacts ==
  /\ \A a, b \in 0..255: a + 256 * b \in Words
  /\ \A k \in Words: k \notin {0, 1} => k - 1 \in Words
<1>1. 2^16 = 65536
  OBVIOUS
<1>2. ASSUME NEW a \in 0..255, NEW b \in 0..255 PROVE a + 256 * b \in Words
  <2>1. a + 256 * b \in Nat /\ a + 256 * b < 65536
    OBVIOUS
  <2> QED BY <1>1, <2>1 DEF Words
<1>3. ASSUME NEW k \in Words, k \notin {0, 1} PROVE k - 1 \in Words
  <2>1. k \in Nat /\ k < 65536
    BY <1>1 DEF Words
  <2>2. k - 1 \in Nat /\ k - 1 < 65536
    BY <1>3, <2>1
  <2> QED BY <1>1, <2>2 DEF Words
<1> QED BY <1>2, <1>3

Edited(l, k, x) == [l EXCEPT ![k] = x]
LEMMA EditedLengths ==
  ASSUME NEW l \in Table, NEW k, NEW x \in 0..15
  PROVE  Edited(l, k, x) \in Table
BY EditedFunction DEF Table, Edited

LEMMA ClearedLengths ==
  ASSUME NEW l \in Table
  PROVE  [k \in DOMAIN l |-> IF k < 19 THEN 0 ELSE l[k]] \in Table
<1> DEFINE D == 0..319
           R == 0..15
<1>1. Table = [D -> R]
  BY DEF Table
<1>2. 0 \in R
  OBVIOUS
<1> HIDE DEF D, R
<1> QED BY <1>1, <1>2

Repeated(l, S, x) == [k \in DOMAIN l |-> IF k \in S THEN x ELSE l[k]]
LEMMA RepeatedLengths ==
  ASSUME NEW l \in Table, NEW S, NEW x \in 0..15
  PROVE  Repeated(l, S, x) \in Table
<1> DEFINE D == 0..319
           R == 0..15
<1>1. Table = [D -> R] /\ x \in R
  BY DEF Table
<1> HIDE DEF D, R
<1> QED BY <1>1 DEF Repeated

(***************************************************************************)
(* One lemma for each stage.                                               *)
(***************************************************************************)

LEMMA CmfSound ==
  ASSUME NEW t, Sound(t), AtBytes(t), NEW i \in Input
  PROVE  StepSound(t, Cmf(t, i))
<1> DEFINE r == ReadByte(t, i)
           u == r.t
           w == [u EXCEPT !.cmf = r.value, !.stage = "flg"]
           v == Goes(w)
<1>1. Waits(t, r) /\ Got(t, u) /\ u = t /\ (r.rc = "got" => r.value \in 0..255)
  BY ByteGot DEF AtBytes, Bounded, Placed
<1>2. Cmf(t, i) = Made(r, v)
  BY DEF Cmf, On, Made
<1> HIDE DEF r, v, w
<1>3. ASSUME r.rc = "got" PROVE StepSound(t, v)
  <2>1. Got(t, u) /\ r.value \in 0..255 /\ u = t
    BY <1>1, <1>3
  <2>2. StepSound(t, Goes(w))
    <3>1. DOMAIN u = Fields
      BY <2>1 DEF Got, Sound, Shaped
    <3>2. Shaped(w)
      BY <3>1 DEF w, Shaped
    <3>3. /\ w.bitTag = u.bitTag /\ w.bitCount = u.bitCount /\ w.lengths = u.lengths
          /\ w.window = u.window /\ w.windowPos = u.windowPos /\ w.count = u.count
          /\ w.expected = u.expected /\ w.stage = "flg" /\ w.readBits = u.readBits
          /\ w.sym = u.sym
      BY <3>1 DEF w, Fields
    <3>4. Moved(u, w)
      BY <2>1, <3>2, <3>3 DEF Moved, NotWritten, Got, Sound
    <3>5. AtBytes(w)
      BY <2>1, <3>3 DEF AtBytes, Got, Idle
    <3> QED BY <2>1, <3>4, <3>5, MovesSound DEF Placed
  <2> QED BY <2>2 DEF v
<1> QED BY <1>1, <1>2, <1>3, MadeSound

LEMMA FlgSound ==
  ASSUME NEW t, Sound(t), AtBytes(t), NEW i \in Input
  PROVE  StepSound(t, Flg(t, i))
<1> DEFINE r == ReadByte(t, i)
           u == r.t
           w == [u EXCEPT !.stage = "final"]
           v == IF BadHeader(u.cmf, r.value) THEN Fails(u) ELSE Goes(w)
<1>1. Waits(t, r) /\ Got(t, u) /\ u = t /\ (r.rc = "got" => r.value \in 0..255)
  BY ByteGot DEF AtBytes, Bounded, Placed
<1>2. Flg(t, i) = Made(r, v)
  BY DEF Flg, On, Made
<1> HIDE DEF r, v, w
<1>3. ASSUME r.rc = "got" PROVE StepSound(t, v)
  <2>1. Got(t, u) /\ r.value \in 0..255 /\ u = t
    BY <1>1, <1>3
  <2>2. StepSound(t, Fails(u))
    BY FailsSound
  <2>3. StepSound(t, Goes(w))
    <3>1. DOMAIN u = Fields
      BY <2>1 DEF Got, Sound, Shaped
    <3>2. Shaped(w)
      BY <3>1 DEF w, Shaped
    <3>3. /\ w.bitTag = u.bitTag /\ w.bitCount = u.bitCount /\ w.lengths = u.lengths
          /\ w.window = u.window /\ w.windowPos = u.windowPos /\ w.count = u.count
          /\ w.expected = u.expected /\ w.stage = "final" /\ w.readBits = u.readBits
          /\ w.sym = u.sym
      BY <3>1 DEF w, Fields
    <3>4. Moved(u, w)
      BY <2>1, <3>2, <3>3 DEF Moved, NotWritten, Got, Sound
    <3>5. AtBytes(w)
      BY <2>1, <3>3 DEF AtBytes, Got, Idle
    <3> QED BY <2>1, <3>4, <3>5, MovesSound DEF Placed
  <2> QED BY <2>2, <2>3 DEF v
<1> QED BY <1>1, <1>2, <1>3, MadeSound

LEMMA BlockFinalSound ==
  ASSUME NEW t, Sound(t), AtBytes(t), NEW i \in Input
  PROVE  StepSound(t, BlockFinal(t, i))
<1> DEFINE r == ReadBit(t, i)
           u == r.t
           w == [u EXCEPT !.bfinal = r.value, !.stage = "type"]
           v == Goes(w)
<1>1. Waits(t, r) /\ Got(t, u)
  BY BitGot
<1>2. BlockFinal(t, i) = Made(r, v)
  BY DEF BlockFinal, On, Made
<1> HIDE DEF r, v, w
<1>3. ASSUME r.rc = "got" PROVE StepSound(t, v)
  <2>1. Got(t, u)
    BY <1>1, <1>3
  <2>2. StepSound(t, Goes(w))
    <3>1. DOMAIN u = Fields
      BY <2>1 DEF Got, Sound, Shaped
    <3>2. Shaped(w)
      BY <3>1 DEF w, Shaped
    <3>3. /\ w.bitTag = u.bitTag /\ w.bitCount = u.bitCount /\ w.lengths = u.lengths
          /\ w.window = u.window /\ w.windowPos = u.windowPos /\ w.count = u.count
          /\ w.expected = u.expected /\ w.stage = "type" /\ w.readBits = u.readBits
          /\ w.sym = u.sym
      BY <3>1 DEF w, Fields
    <3>4. Moved(u, w)
      BY <2>1, <3>2, <3>3 DEF Moved, NotWritten, Got, Sound
    <3>5. AtType(w)
      BY <2>1, <3>3 DEF AtType, Got, Idle, Bits, BitsFit
    <3> QED BY <2>1, <3>4, <3>5, MovesSound DEF Placed
  <2> QED BY <2>2 DEF v
<1> QED BY <1>1, <1>2, <1>3, MadeSound

LEMMA BlockTypeSound ==
  ASSUME NEW t, Sound(t), AtType(t), NEW i \in Input
  PROVE  StepSound(t, BlockType(t, i))
<1> DEFINE r == ReadBits(t, i, 2, 0)
           u == r.t
           w == [u EXCEPT !.bitCount = 0, !.header = <<>>, !.storedLen = 0, !.stage = "storedLen"]
           x == [ResetCodeReaders(u) EXCEPT !.ltree = FixedLiterals, !.tree = FixedDistances,
                                         !.blockStage = "symbol", !.stage = "blockData"]
           y == [ResetCodeReaders(u) EXCEPT !.dynamicStage = "hlit", !.stage = "dynamicTrees"]
           v == StartBlock(u, r.value)
<1>1. BitsGot(t, r, 2, 0)
  BY BitsAreGot DEF AtType
<1>2. BlockType(t, i) = Made(r, v)
  BY DEF BlockType, On, Made
<1> HIDE DEF r, v, w, x, y
<1>3. u.stage = t.stage
  BY <1>1 DEF BitsGot, Others, Fields
<1>4. Waits(t, r)
  <2>1. r.rc \in {"more", "input"} => AtType(u)
    BY <1>1, <1>3 DEF AtType, BitsGot
  <2> QED BY <1>1, <2>1 DEF Waits, BitsGot, Bounded, Placed
<1>5. ASSUME r.rc = "got" PROVE StepSound(t, v)
  <2>1. Got(t, u) /\ r.value \in 0..3
    BY <1>1, <1>5, Powers DEF BitsGot
  <2>2. StepSound(t, Goes(w))
    <3>1. DOMAIN u = Fields
      BY <2>1 DEF Got, Sound, Shaped
    <3>2. Shaped(w)
      BY <3>1 DEF w, Shaped
    <3>3. /\ w.bitTag = u.bitTag /\ w.lengths = u.lengths /\ w.window = u.window
          /\ w.windowPos = u.windowPos /\ w.count = u.count /\ w.expected = u.expected
          /\ w.bitCount = 0 /\ w.stage = "storedLen" /\ w.readBits = u.readBits /\ w.sym = u.sym
      BY <3>1 DEF w, Fields
    <3>4. w.header = <<>>
      BY <3>1, Zenon DEF w, Fields
    <3>5. Moved(u, w)
      BY <2>1, <3>2, <3>3 DEF Moved, NotWritten, Got, Sound
    <3>6. AtStoredLen(w)
      <4>1. <<>> \in Seq(0..255) /\ Len(<<>>) = 0
        BY EmptySeq
      <4> QED BY <2>1, <3>3, <3>4, <4>1 DEF AtStoredLen, Got, Idle
    <3> QED BY <2>1, <3>5, <3>6, MovesSound DEF Placed
  <2>3. StepSound(t, Goes(x))
    <3>1. DOMAIN u = Fields
      BY <2>1 DEF Got, Sound, Shaped
    <3>2. Shaped(x)
      BY <3>1 DEF x, Shaped, ResetCodeReaders
    <3>3. /\ x.bitTag = u.bitTag /\ x.bitCount = u.bitCount /\ x.lengths = u.lengths
          /\ x.window = u.window /\ x.windowPos = u.windowPos /\ x.count = u.count
          /\ x.expected = u.expected /\ x.ltree = FixedLiterals /\ x.tree = FixedDistances
          /\ x.blockStage = "symbol" /\ x.stage = "blockData" /\ x.readBits = ReadBitsIdle
          /\ x.sym = SymIdle
      BY <3>1 DEF x, Fields, ResetCodeReaders
    <3>4. Moved(u, x)
      BY <2>1, <3>2, <3>3 DEF Moved, NotWritten, Got, Sound
    <3>5. AtSymbol(x)
      BY <2>1, <3>3, FixedTrees, BuiltCode DEF AtSymbol, AtBlock, Code
    <3> QED BY <2>1, <3>4, <3>5, MovesSound DEF Placed, AtData
  <2>4. StepSound(t, Goes(y))
    <3>1. DOMAIN u = Fields
      BY <2>1 DEF Got, Sound, Shaped
    <3>2. Shaped(y)
      BY <3>1 DEF y, Shaped, ResetCodeReaders
    <3>3. /\ y.bitTag = u.bitTag /\ y.bitCount = u.bitCount /\ y.lengths = u.lengths
          /\ y.window = u.window /\ y.windowPos = u.windowPos /\ y.count = u.count
          /\ y.expected = u.expected /\ y.dynamicStage = "hlit" /\ y.stage = "dynamicTrees"
          /\ y.readBits = ReadBitsIdle /\ y.sym = SymIdle
      BY <3>1 DEF y, Fields, ResetCodeReaders
    <3>4. Moved(u, y)
      BY <2>1, <3>2, <3>3 DEF Moved, NotWritten, Got, Sound
    <3>5. AtHlit(y)
      BY <2>1, <3>3 DEF AtHlit, AtTable, Bits, BitsFit
    <3> QED BY <2>1, <3>4, <3>5, MovesSound DEF Placed, AtTables
  <2>5. StepSound(t, Fails(u))
    BY FailsSound
  <2> QED BY <2>1, <2>2, <2>3, <2>4, <2>5 DEF v, StartBlock, w, x, y
<1> QED BY <1>2, <1>4, <1>5, MadeSound

LEMMA HlitSound ==
  ASSUME NEW t, Sound(t), AtHlit(t), NEW i \in Input
  PROVE  StepSound(t, Hlit(t, i))
<1> DEFINE r == ReadBits(t, i, 5, 257)
           u == r.t
           w == [u EXCEPT !.hlit = r.value, !.dynamicStage = "hdist"]
           v == Goes(w)
<1>1. BitsGot(t, r, 5, 257)
  BY BitsAreGot DEF AtHlit
<1>2. Hlit(t, i) = Made(r, v)
  BY DEF Hlit, On, Made
<1> HIDE DEF r, v, w
<1>3. /\ u.stage = t.stage /\ u.dynamicStage = t.dynamicStage
  BY <1>1 DEF BitsGot, Others, Fields
<1>4. Waits(t, r)
  <2>1. r.rc \in {"more", "input"} => AtHlit(u)
    BY <1>1, <1>3 DEF AtHlit, BitsGot, AtTable
  <2> QED BY <1>1, <2>1 DEF Waits, BitsGot, Bounded, Placed, AtTables
<1>5. ASSUME r.rc = "got" PROVE StepSound(t, v)
  <2>1. Got(t, u) /\ r.value \in 257..288
    BY <1>1, <1>5, Powers DEF BitsGot
  <2>2. StepSound(t, Goes(w))
    <3>1. DOMAIN u = Fields
      BY <2>1 DEF Got, Sound, Shaped
    <3>2. Shaped(w)
      BY <3>1 DEF w, Shaped
    <3>3. /\ w.bitTag = u.bitTag /\ w.bitCount = u.bitCount /\ w.lengths = u.lengths
          /\ w.window = u.window /\ w.windowPos = u.windowPos /\ w.count = u.count
          /\ w.expected = u.expected /\ w.stage = u.stage /\ w.readBits = u.readBits
          /\ w.sym = u.sym /\ w.dynamicStage = "hdist" /\ w.hlit = r.value
      BY <3>1 DEF w, Fields
    <3>4. Moved(u, w)
      BY <2>1, <3>2, <3>3 DEF Moved, NotWritten, Got, Sound
    <3>5. AtHdist(w)
      BY <2>1, <3>3, <1>3 DEF AtHdist, AtTable, Bits, BitsFit, Got, Idle, AtHlit
    <3> QED BY <2>1, <3>4, <3>5, MovesSound DEF Placed, AtTables
  <2> QED BY <2>1, <2>2 DEF v
<1> QED BY <1>2, <1>4, <1>5, MadeSound

LEMMA HdistSound ==
  ASSUME NEW t, Sound(t), AtHdist(t), NEW i \in Input
  PROVE  StepSound(t, Hdist(t, i))
<1> DEFINE r == ReadBits(t, i, 5, 1)
           u == r.t
           w == [u EXCEPT !.hdist = r.value, !.dynamicStage = "hclen"]
           v == Goes(w)
<1>1. BitsGot(t, r, 5, 1)
  BY BitsAreGot DEF AtHdist
<1>2. Hdist(t, i) = Made(r, v)
  BY DEF Hdist, On, Made
<1> HIDE DEF r, v, w
<1>3. /\ u.stage = t.stage /\ u.dynamicStage = t.dynamicStage /\ u.hlit = t.hlit
  BY <1>1 DEF BitsGot, Others, Fields
<1>4. Waits(t, r)
  <2>1. r.rc \in {"more", "input"} => AtHdist(u)
    BY <1>1, <1>3 DEF AtHdist, BitsGot, AtTable
  <2> QED BY <1>1, <2>1 DEF Waits, BitsGot, Bounded, Placed, AtTables
<1>5. ASSUME r.rc = "got" PROVE StepSound(t, v)
  <2>1. Got(t, u) /\ r.value \in 1..32
    BY <1>1, <1>5, Powers DEF BitsGot
  <2>2. StepSound(t, Goes(w))
    <3>1. DOMAIN u = Fields
      BY <2>1 DEF Got, Sound, Shaped
    <3>2. Shaped(w)
      BY <3>1 DEF w, Shaped
    <3>3. /\ w.bitTag = u.bitTag /\ w.bitCount = u.bitCount /\ w.lengths = u.lengths
          /\ w.window = u.window /\ w.windowPos = u.windowPos /\ w.count = u.count
          /\ w.expected = u.expected /\ w.stage = u.stage /\ w.readBits = u.readBits
          /\ w.sym = u.sym /\ w.hlit = u.hlit /\ w.dynamicStage = "hclen" /\ w.hdist = r.value
      BY <3>1 DEF w, Fields
    <3>4. Moved(u, w)
      BY <2>1, <3>2, <3>3 DEF Moved, NotWritten, Got, Sound
    <3>5. AtHclen(w)
      BY <2>1, <3>3, <1>3 DEF AtHclen, AtTable, Bits, BitsFit, Got, Idle, AtHdist
    <3> QED BY <2>1, <3>4, <3>5, MovesSound DEF Placed, AtTables
  <2> QED BY <2>1, <2>2 DEF v
<1> QED BY <1>2, <1>4, <1>5, MadeSound

LEMMA HclenSound ==
  ASSUME NEW t, Sound(t), AtHclen(t), NEW i \in Input
  PROVE  StepSound(t, Hclen(t, i))
<1> DEFINE r == ReadBits(t, i, 4, 4)
           u == r.t
           q == [k \in DOMAIN u.lengths |-> IF k < 19 THEN 0 ELSE u.lengths[k]]
           w == [u EXCEPT !.hclen = r.value, !.dynI = 0, !.dynamicStage = "readClen", !.lengths = q]
           v == IF u.hlit > 286 THEN Fails(u) ELSE Goes(w)
<1>1. BitsGot(t, r, 4, 4)
  BY BitsAreGot DEF AtHclen
<1>2. Hclen(t, i) = Made(r, v)
  BY DEF Hclen, On, Made
<1> HIDE DEF r, v, q, w
<1>3. /\ u.stage = t.stage /\ u.dynamicStage = t.dynamicStage /\ u.hlit = t.hlit
      /\ u.hdist = t.hdist
  BY <1>1 DEF BitsGot, Others, Fields
<1>4. Waits(t, r)
  <2>1. r.rc \in {"more", "input"} => AtHclen(u)
    BY <1>1, <1>3 DEF AtHclen, BitsGot, AtTable
  <2> QED BY <1>1, <2>1 DEF Waits, BitsGot, Bounded, Placed, AtTables
<1>5. ASSUME r.rc = "got" PROVE StepSound(t, v)
  <2>1. Got(t, u) /\ r.value \in 4..19
    BY <1>1, <1>5, Powers DEF BitsGot
  <2>2. StepSound(t, Fails(u))
    BY FailsSound
  <2>3. ASSUME ~(u.hlit > 286) PROVE StepSound(t, Goes(w))
    <3>1. DOMAIN u = Fields
      BY <2>1 DEF Got, Sound, Shaped
    <3>2. Shaped(w)
      BY <3>1 DEF w, Shaped
    <3>3. /\ w.bitTag = u.bitTag /\ w.bitCount = u.bitCount /\ w.window = u.window
          /\ w.windowPos = u.windowPos /\ w.count = u.count /\ w.expected = u.expected
          /\ w.stage = u.stage /\ w.readBits = u.readBits /\ w.sym = u.sym /\ w.hlit = u.hlit
          /\ w.hdist = u.hdist /\ w.dynamicStage = "readClen" /\ w.hclen = r.value /\ w.dynI = 0
          /\ w.lengths = q
      BY <3>1 DEF w, Fields
    <3>4. Moved(u, w)
      <4>1. u.lengths \in Table
        BY <2>1 DEF Got, Sound
      <4>2. q \in Table
        BY <4>1, ClearedLengths DEF q
      <4> QED BY <2>1, <3>2, <3>3, <4>2 DEF Moved, NotWritten, Got, Sound
    <3>5. AtReadClen(w)
      BY <2>1, <3>3, <1>3, <2>3 DEF AtReadClen, AtTable, Bits, BitsFit, Got, Idle, AtHclen, Counts
    <3> QED BY <2>1, <3>4, <3>5, MovesSound DEF Placed, AtTables
  <2> QED BY <2>1, <2>2, <2>3 DEF v
<1> QED BY <1>2, <1>4, <1>5, MadeSound

LEMMA ReadClenReadsSound ==
  ASSUME NEW t, Sound(t), AtReadClen(t), t.dynI < t.hclen, NEW i \in Input
  PROVE  StepSound(t, ReadClen(t, i))
<1> DEFINE r == ReadBits(t, i, 3, 0)
           u == r.t
           q == Edited(u.lengths, ClcIdx[u.dynI + 1], r.value)
           w == [u EXCEPT !.lengths[ClcIdx[u.dynI + 1]] = r.value, !.dynI = @ + 1]
           v == Goes(w)
<1>1. BitsGot(t, r, 3, 0)
  BY BitsAreGot DEF AtReadClen
<1>2. ReadClen(t, i) = Made(r, v)
  BY DEF ReadClen, On, Made
<1> HIDE DEF r, v, q, w
<1>3. /\ u.stage = t.stage /\ u.dynamicStage = t.dynamicStage /\ u.hlit = t.hlit
      /\ u.hdist = t.hdist /\ u.hclen = t.hclen /\ u.dynI = t.dynI
  BY <1>1 DEF BitsGot, Others, Fields
<1>4. Waits(t, r)
  <2>1. r.rc \in {"more", "input"} => AtReadClen(u)
    BY <1>1, <1>3 DEF AtReadClen, BitsGot, AtTable, Counts
  <2> QED BY <1>1, <2>1 DEF Waits, BitsGot, Bounded, Placed, AtTables
<1>5. ASSUME r.rc = "got" PROVE StepSound(t, v)
  <2>1. Got(t, u) /\ r.value \in 0..7
    BY <1>1, <1>5, Powers DEF BitsGot
  <2>2. StepSound(t, Goes(w))
    <3>1. DOMAIN u = Fields
      BY <2>1 DEF Got, Sound, Shaped
    <3>2. Shaped(w)
      BY <3>1 DEF w, Shaped
    <3>3. /\ w.bitTag = u.bitTag /\ w.bitCount = u.bitCount /\ w.window = u.window
          /\ w.windowPos = u.windowPos /\ w.count = u.count /\ w.expected = u.expected
          /\ w.stage = u.stage /\ w.dynamicStage = u.dynamicStage /\ w.readBits = u.readBits
          /\ w.sym = u.sym /\ w.hlit = u.hlit /\ w.hdist = u.hdist /\ w.hclen = u.hclen
          /\ w.lengths = q /\ w.dynI = u.dynI + 1
      BY <3>1 DEF w, Fields, q, Edited
    <3>4. Moved(u, w)
      <4>1. u.lengths \in Table
        BY <2>1 DEF Got, Sound
      <4>2. r.value \in 0..15
        BY <2>1
      <4>3. q \in Table
        BY <4>1, <4>2, EditedLengths DEF q
      <4> QED BY <2>1, <3>2, <3>3, <4>3 DEF Moved, NotWritten, Got, Sound
    <3>5. AtReadClen(w)
      BY <2>1, <3>3, <1>3 DEF AtReadClen, AtTable, Bits, BitsFit, Got, Idle, Counts
    <3> QED BY <2>1, <3>4, <3>5, MovesSound DEF Placed, AtTables
  <2> QED BY <2>1, <2>2 DEF v
<1> QED BY <1>2, <1>4, <1>5, MadeSound

LEMMA ReadClenBuildsSound ==
  ASSUME NEW t, Sound(t), AtReadClen(t), ~(t.dynI < t.hclen), NEW i \in Input
  PROVE  StepSound(t, ReadClen(t, i))
<1> DEFINE u == ResetCodeReaders(t)
           l == [k \in 0..18 |-> t.lengths[k]]
           w == [u EXCEPT !.tree = BuildTree(l), !.dynNum = 0, !.dynamicStage = "readLengths"]
<1>1. ReadClen(t, i) = Leaving(Goes(w), i)
  BY DEF ReadClen
<1>2. Got(t, u)
  BY ResetGot
<1> HIDE DEF u, l, w
<1>3. /\ u.stage = t.stage /\ u.hlit = t.hlit /\ u.hdist = t.hdist
  BY <1>2 DEF Got, Others, Fields
<1>4. Built(BuildTree(l), 19)
  <2>1. t.lengths \in [0..319 -> 0..15]
    BY DEF Sound, Table
  <2> DEFINE n == 19
  <2>2. n \in Nat /\ l \in [0..n - 1 -> 0..15]
    BY <2>1 DEF l
  <2> HIDE DEF n
  <2>3. Built(BuildTree(l), n)
    BY <2>2, BuiltIs
  <2> QED BY <2>3 DEF n
<1>5. StepSound(t, Goes(w))
  <2>1. DOMAIN u = Fields
    BY <1>2 DEF Got, Sound, Shaped
  <2>2. Shaped(w)
    BY <2>1 DEF w, Shaped
  <2>3. /\ w.bitTag = u.bitTag /\ w.bitCount = u.bitCount /\ w.lengths = u.lengths
        /\ w.window = u.window /\ w.windowPos = u.windowPos /\ w.count = u.count
        /\ w.expected = u.expected /\ w.stage = u.stage /\ w.readBits = u.readBits
        /\ w.sym = u.sym /\ w.hlit = u.hlit /\ w.hdist = u.hdist /\ w.tree = BuildTree(l)
        /\ w.dynNum = 0 /\ w.dynamicStage = "readLengths"
    BY <2>1 DEF w, Fields
  <2>4. Moved(u, w)
    BY <1>2, <2>2, <2>3 DEF Moved, NotWritten, Got, Sound
  <2>5. AtReadLengths(w)
    BY <1>2, <2>3, <1>3, <1>4, BuiltCode DEF AtReadLengths, AtTable, Code, Counts, AtReadClen, Got, Idle
  <2> QED BY <1>2, <2>4, <2>5, MovesSound DEF Placed, AtTables
<1> QED BY <1>1, <1>5, LeavingSound

LEMMA ReadClenSound ==
  ASSUME NEW t, Sound(t), AtReadClen(t), NEW i \in Input
  PROVE  StepSound(t, ReadClen(t, i))
BY ReadClenReadsSound, ReadClenBuildsSound

LEMMA ReadLengthsReadsSound ==
  ASSUME NEW t, Sound(t), AtReadLengths(t), t.dynNum < t.hlit + t.hdist, NEW i \in Input
  PROVE  StepSound(t, ReadLengths(t, i))
<1> DEFINE r == DecodeSymbol(t, i, t.tree)
           u == r.t
           q == Edited(u.lengths, u.dynNum, r.value)
           w == [u EXCEPT !.lengths[u.dynNum] = r.value, !.dynNum = @ + 1]
           v == LengthSymbol(u, r.value)
<1>1. SymbolGot(t, r, t.tree, 19)
  BY SymbolIsGot DEF AtReadLengths
<1>2. ReadLengths(t, i) = Made(r, v)
  BY DEF ReadLengths, On, Made
<1> HIDE DEF r, v, q, w
<1>3. /\ u.stage = t.stage /\ u.dynamicStage = t.dynamicStage /\ u.hlit = t.hlit
      /\ u.hdist = t.hdist /\ u.dynNum = t.dynNum /\ u.tree = t.tree
  BY <1>1 DEF SymbolGot, Others, Fields
<1>4. Waits(t, r)
  <2>1. r.rc \in {"more", "input"} => AtReadLengths(u)
    BY <1>1, <1>3 DEF AtReadLengths, SymbolGot, AtTable, Counts
  <2> QED BY <1>1, <2>1 DEF Waits, SymbolGot, Bounded, Placed, AtTables
<1>5. ASSUME r.rc = "got" PROVE StepSound(t, v)
  <2>1. Got(t, u) /\ r.value \in 0..18
    BY <1>1, <1>5 DEF SymbolGot
  <2>2. ASSUME r.value < 16 PROVE StepSound(t, Goes(w))
    <3>1. DOMAIN u = Fields
      BY <2>1 DEF Got, Sound, Shaped
    <3>2. Shaped(w)
      BY <3>1 DEF w, Shaped
    <3>3. /\ w.bitTag = u.bitTag /\ w.bitCount = u.bitCount /\ w.window = u.window
          /\ w.windowPos = u.windowPos /\ w.count = u.count /\ w.expected = u.expected
          /\ w.stage = u.stage /\ w.dynamicStage = u.dynamicStage /\ w.readBits = u.readBits
          /\ w.sym = u.sym /\ w.hlit = u.hlit /\ w.hdist = u.hdist /\ w.tree = u.tree
          /\ w.lengths = q /\ w.dynNum = u.dynNum + 1
      BY <3>1 DEF w, Fields, q, Edited
    <3>4. Moved(u, w)
      <4>1. u.lengths \in Table
        BY <2>1 DEF Got, Sound
      <4>2. r.value \in 0..15
        BY <2>1, <2>2
      <4>3. q \in Table
        BY <4>1, <4>2, EditedLengths DEF q
      <4> QED BY <2>1, <3>2, <3>3, <4>3 DEF Moved, NotWritten, Got, Sound
    <3>5. AtReadLengths(w)
      BY <2>1, <3>3, <1>3, InCodeBuilt, BuiltCode, <2>2 DEF AtReadLengths, AtTable, Code, Got, Idle, Counts
    <3> QED BY <2>1, <3>4, <3>5, MovesSound DEF Placed, AtTables
  <2>3. ASSUME NEW fill \in 0..15, NEW bits \in {2, 3, 7}, NEW base \in {3, 11}
        PROVE  StepSound(t, Repeat(u, fill, bits, base))
    <3> DEFINE x == [u EXCEPT !.fill = fill, !.repeatBits = bits, !.repeatBase = base,
                              !.dynamicStage = "repeatBits"]
    <3> HIDE DEF x
    <3>1. DOMAIN u = Fields
      BY <2>1 DEF Got, Sound, Shaped
    <3>2. Shaped(x)
      BY <3>1 DEF x, Shaped
    <3>3. /\ x.bitTag = u.bitTag /\ x.bitCount = u.bitCount /\ x.lengths = u.lengths
          /\ x.window = u.window /\ x.windowPos = u.windowPos /\ x.count = u.count
          /\ x.expected = u.expected /\ x.stage = u.stage /\ x.readBits = u.readBits
          /\ x.sym = u.sym /\ x.hlit = u.hlit /\ x.hdist = u.hdist /\ x.dynNum = u.dynNum
          /\ x.tree = u.tree /\ x.fill = fill /\ x.repeatBits = bits /\ x.repeatBase = base
          /\ x.dynamicStage = "repeatBits"
      BY <3>1 DEF x, Fields
    <3>4. Moved(u, x)
      BY <2>1, <3>2, <3>3 DEF Moved, NotWritten, Got, Sound
    <3>5. AtRepeatBits(x)
    BY <2>1, <3>3, <1>3, <2>3, InCodeBuilt DEF AtRepeatBits, AtTable, Bits, BitsFit, Code, Got, Idle,
         Counts, AtReadLengths
    <3>6. StepSound(t, Goes(x))
      BY <2>1, <3>4, <3>5, MovesSound DEF Placed, AtTables
    <3> QED BY <3>6 DEF x, Repeat
  <2>4. u.dynNum # 0 => u.lengths[u.dynNum - 1] \in 0..15
    <3>1. u.lengths \in [0..319 -> 0..15]
      BY <2>1 DEF Got, Sound, Table
    <3>2. u.dynNum # 0 => u.dynNum - 1 \in 0..319
      BY <1>3 DEF AtReadLengths, Counts
    <3> QED BY <3>1, <3>2
  <2>5. u.dynNum # 0 => StepSound(t, Repeat(u, u.lengths[u.dynNum - 1], 2, 3))
    BY <2>3, <2>4
  <2>6. StepSound(t, Repeat(u, 0, 3, 3)) /\ StepSound(t, Repeat(u, 0, 7, 11))
    BY <2>3
  <2>7. StepSound(t, Fails(u))
    BY FailsSound
  <2> QED BY <2>1, <2>2, <2>5, <2>6, <2>7 DEF v, LengthSymbol, w
<1> QED BY <1>2, <1>4, <1>5, MadeSound

LEMMA ReadLengthsBuildsSound ==
  ASSUME NEW t, Sound(t), AtReadLengths(t), ~(t.dynNum < t.hlit + t.hdist), NEW i \in Input
  PROVE  StepSound(t, ReadLengths(t, i))
<1> DEFINE u == ResetCodeReaders(t)
           l == [k \in 0..(t.hlit - 1) |-> t.lengths[k]]
           d == [k \in 0..(t.hdist - 1) |-> t.lengths[t.hlit + k]]
           w == [u EXCEPT !.ltree = BuildTree(l), !.tree = BuildTree(d),
                       !.dynamicStage = "hlit", !.blockStage = "symbol", !.stage = "blockData"]
<1>1. ReadLengths(t, i) = Leaving(IF t.lengths[256] = 0 THEN Fails(t) ELSE Goes(w), i)
  BY DEF ReadLengths, BuildTrees
<1>2. Got(t, u)
  BY ResetGot
<1> HIDE DEF u, l, d, w
<1>4. Built(BuildTree(l), 288) /\ Built(BuildTree(d), 32)
  <2> DEFINE n == t.hlit
             m == t.hdist
  <2>1. t.lengths \in [0..319 -> 0..15]
    BY DEF Sound, Table
  <2>2. n \in Nat /\ n <= 286 /\ m \in Nat /\ m <= 32
    BY DEF AtReadLengths, Counts
  <2>3. l = [k \in 0..n - 1 |-> t.lengths[k]] /\ d = [k \in 0..m - 1 |-> t.lengths[n + k]]
    BY DEF l, d
  <2> HIDE DEF n, m
  <2>4. l \in [0..n - 1 -> 0..15] /\ d \in [0..m - 1 -> 0..15]
    <3>1. \A k \in 0..n - 1: k \in 0..319
      BY <2>2
    <3>2. \A k \in 0..m - 1: n + k \in 0..319
      BY <2>2
    <3>3. \A k \in 0..319: t.lengths[k] \in 0..15
      BY <2>1
    <3>4. \A k \in 0..n - 1: t.lengths[k] \in 0..15
      BY <3>1, <3>3
    <3>5. \A k \in 0..m - 1: t.lengths[n + k] \in 0..15
      BY <3>2, <3>3
    <3> QED BY <2>3, <3>4, <3>5
  <2> DEFINE p == 288
             q == 32
  <2>5. p \in Nat /\ n <= p /\ q \in Nat /\ m <= q
    BY <2>2
  <2> HIDE DEF p, q
  <2>6. Built(BuildTree(l), p) /\ Built(BuildTree(d), q)
    BY <2>2, <2>4, <2>5, BuiltIs
  <2> QED BY <2>6 DEF p, q
<1>5. StepSound(t, Goes(w))
  <2>1. DOMAIN u = Fields
    BY <1>2 DEF Got, Sound, Shaped
  <2>2. Shaped(w)
    BY <2>1 DEF w, Shaped
  <2>3. /\ w.bitTag = u.bitTag /\ w.bitCount = u.bitCount /\ w.lengths = u.lengths
        /\ w.window = u.window /\ w.windowPos = u.windowPos /\ w.count = u.count
        /\ w.expected = u.expected /\ w.readBits = u.readBits /\ w.sym = u.sym
        /\ w.ltree = BuildTree(l) /\ w.tree = BuildTree(d) /\ w.blockStage = "symbol"
        /\ w.stage = "blockData"
    BY <2>1 DEF w, Fields
  <2>4. Moved(u, w)
    BY <1>2, <2>2, <2>3 DEF Moved, NotWritten, Got, Sound
  <2>5. AtSymbol(w)
    BY <1>2, <2>3, <1>4, BuiltCode DEF AtSymbol, AtBlock, Code, Got, Idle
  <2> QED BY <1>2, <2>4, <2>5, MovesSound DEF Placed, AtData
<1>6. StepSound(t, Fails(t))
  BY FailsSound
<1>7. StepSound(t, IF t.lengths[256] = 0 THEN Fails(t) ELSE Goes(w))
  BY <1>5, <1>6
<1> QED BY <1>1, <1>7, LeavingSound

LEMMA ReadLengthsSound ==
  ASSUME NEW t, Sound(t), AtReadLengths(t), NEW i \in Input
  PROVE  StepSound(t, ReadLengths(t, i))
BY ReadLengthsReadsSound, ReadLengthsBuildsSound

LEMMA RepeatBitsSound ==
  ASSUME NEW t, Sound(t), AtRepeatBits(t), NEW i \in Input
  PROVE  StepSound(t, RepeatBits(t, i))
<1> DEFINE r == ReadBits(t, i, t.repeatBits, t.repeatBase)
           u == r.t
           q == Repeated(u.lengths, u.dynNum..(u.dynNum + r.value - 1), u.fill)
           w == [u EXCEPT !.lengths = [k \in DOMAIN @ |-> IF k \in u.dynNum..(u.dynNum + r.value - 1)
                                                  THEN u.fill ELSE @[k]],
                       !.dynNum = @ + r.value, !.dynamicStage = "readLengths"]
           v == RepeatLengths(u, r.value)
<1>1. BitsGot(t, r, t.repeatBits, t.repeatBase)
  BY BitsAreGot DEF AtRepeatBits
<1>2. RepeatBits(t, i) = Made(r, v)
  BY DEF RepeatBits, On, Made
<1> HIDE DEF r, v, q, w
<1>3. /\ u.stage = t.stage /\ u.dynamicStage = t.dynamicStage /\ u.hlit = t.hlit
      /\ u.hdist = t.hdist /\ u.dynNum = t.dynNum /\ u.tree = t.tree /\ u.fill = t.fill
      /\ u.repeatBits = t.repeatBits /\ u.repeatBase = t.repeatBase
  BY <1>1 DEF BitsGot, Others, Fields
<1>4. Waits(t, r)
  <2>1. r.rc \in {"more", "input"} => AtRepeatBits(u)
    BY <1>1, <1>3 DEF AtRepeatBits, BitsGot, AtTable, Counts
  <2> QED BY <1>1, <2>1 DEF Waits, BitsGot, Bounded, Placed, AtTables
<1>5. ASSUME r.rc = "got" PROVE StepSound(t, v)
  <2>1. Got(t, u) /\ r.value \in Nat
    BY <1>1, <1>5 DEF BitsGot, AtRepeatBits
  <2>2. ASSUME ~(u.dynNum + r.value > u.hlit + u.hdist) PROVE StepSound(t, Goes(w))
    <3>1. DOMAIN u = Fields
      BY <2>1 DEF Got, Sound, Shaped
    <3>2. Shaped(w)
      BY <3>1 DEF w, Shaped
    <3>3. /\ w.bitTag = u.bitTag /\ w.bitCount = u.bitCount /\ w.window = u.window
          /\ w.windowPos = u.windowPos /\ w.count = u.count /\ w.expected = u.expected
          /\ w.stage = u.stage /\ w.readBits = u.readBits /\ w.sym = u.sym /\ w.hlit = u.hlit
          /\ w.hdist = u.hdist /\ w.tree = u.tree /\ w.dynamicStage = "readLengths"
          /\ w.lengths = q /\ w.dynNum = u.dynNum + r.value
      BY <3>1 DEF w, Fields, q, Repeated
    <3>4. Moved(u, w)
      <4>1. u.lengths \in Table
        BY <2>1 DEF Got, Sound
      <4>2. u.fill \in 0..15
        BY <1>3 DEF AtRepeatBits
      <4>3. q \in Table
        BY <4>1, <4>2, RepeatedLengths DEF q
      <4> QED BY <2>1, <3>2, <3>3, <4>3 DEF Moved, NotWritten, Got, Sound
    <3>5. AtReadLengths(w)
    BY <2>1, <3>3, <1>3, BuiltCode, <2>2 DEF AtReadLengths, AtTable, Bits, Code, Got, Idle, Counts,
         AtRepeatBits
    <3> QED BY <2>1, <3>4, <3>5, MovesSound DEF Placed, AtTables
  <2>3. StepSound(t, Fails(u))
    BY FailsSound
  <2> QED BY <2>1, <2>2, <2>3 DEF v, RepeatLengths, w
<1> QED BY <1>2, <1>4, <1>5, MadeSound

LEMMA StoredLenSound ==
  ASSUME NEW t, Sound(t), AtStoredLen(t), NEW i \in Input
  PROVE  StepSound(t, StoredLen(t, i))
<1> DEFINE r == ReadByte(t, i)
           u == r.t
           h == Append(u.header, r.value)
           w == [u EXCEPT !.header = h]
           x == [u EXCEPT !.header = <<>>, !.storedLen = h[1] + 256 * h[2], !.stage = "storedData"]
           v == IF Len(h) < 4 THEN Goes(w)
                ELSE IF h[1] + h[3] # 255 \/ h[2] + h[4] # 255 THEN Fails(u) ELSE Goes(x)
<1>1. Waits(t, r) /\ Got(t, u) /\ u = t /\ (r.rc = "got" => r.value \in 0..255)
  BY ByteGot DEF AtStoredLen, Bounded, Placed
<1>2. StoredLen(t, i) = Made(r, v)
  BY DEF StoredLen, On, Made
<1> HIDE DEF r, v, h, w, x
<1>3. ASSUME r.rc = "got" PROVE StepSound(t, v)
  <2>1. Got(t, u) /\ r.value \in 0..255 /\ u = t
    BY <1>1, <1>3
  <2>2. h \in Seq(0..255) /\ Len(h) \in 0..4
    <3>1. u.header \in Seq(0..255) /\ Len(u.header) < 4
      BY <2>1 DEF AtStoredLen
    <3>2. h \in Seq(0..255) /\ Len(h) = Len(u.header) + 1
      BY <2>1, <3>1, AppendProperties DEF h
    <3>3. Len(u.header) \in Nat
      BY <3>1, LenProperties
    <3> QED BY <3>1, <3>2, <3>3
  <2>3. ASSUME Len(h) < 4 PROVE StepSound(t, Goes(w))
    <3>1. DOMAIN u = Fields
      BY <2>1 DEF Got, Sound, Shaped
    <3>2. Shaped(w)
      BY <3>1 DEF w, Shaped
    <3>3. /\ w.bitTag = u.bitTag /\ w.bitCount = u.bitCount /\ w.lengths = u.lengths
          /\ w.window = u.window /\ w.windowPos = u.windowPos /\ w.count = u.count
          /\ w.expected = u.expected /\ w.stage = u.stage /\ w.readBits = u.readBits
          /\ w.sym = u.sym /\ w.header = h
      BY <3>1 DEF w, Fields
    <3>4. Moved(u, w)
      BY <2>1, <3>2, <3>3 DEF Moved, NotWritten, Got, Sound
    <3>5. AtStoredLen(w)
      BY <2>1, <3>3, <2>2, <2>3 DEF AtStoredLen, Got, Idle
    <3> QED BY <2>1, <3>4, <3>5, MovesSound DEF Placed
  <2>4. ASSUME ~(Len(h) < 4) PROVE StepSound(t, Goes(x))
    <3>1. DOMAIN u = Fields
      BY <2>1 DEF Got, Sound, Shaped
    <3>2. Shaped(x)
      BY <3>1 DEF x, Shaped
    <3>3. /\ x.bitTag = u.bitTag /\ x.bitCount = u.bitCount /\ x.lengths = u.lengths
          /\ x.window = u.window /\ x.windowPos = u.windowPos /\ x.count = u.count
          /\ x.expected = u.expected /\ x.stage = "storedData"
          /\ x.storedLen = h[1] + 256 * h[2] /\ x.readBits = u.readBits /\ x.sym = u.sym
      BY <3>1 DEF x, Fields
    <3>4. Moved(u, x)
      BY <2>1, <3>2, <3>3 DEF Moved, NotWritten, Got, Sound
    <3>5. AtStoredData(x)
      <4>1. 1 \in 1..Len(h) /\ 2 \in 1..Len(h)
        BY <2>2, <2>4
      <4>2. h[1] \in 0..255 /\ h[2] \in 0..255
        BY <2>2, <4>1, ElementOfSeq
      <4>3. \A a, b \in 0..255: a + 256 * b \in Words
        BY WordFacts
      <4>4. h[1] + 256 * h[2] \in Words
        BY <4>2, <4>3
      <4> QED BY <2>1, <3>3, <4>4 DEF AtStoredData, Got, Idle
    <3> QED BY <2>1, <3>4, <3>5, MovesSound DEF Placed
  <2>5. StepSound(t, Fails(u))
    BY FailsSound
  <2> QED BY <2>2, <2>3, <2>4, <2>5 DEF v
<1> QED BY <1>1, <1>2, <1>3, MadeSound

LEMMA StoredDataReadsSound ==
  ASSUME NEW t, Sound(t), AtStoredData(t), t.storedLen # 0, NEW i \in Input
  PROVE  StepSound(t, StoredData(t, i))
<1> DEFINE r == ReadByte(t, i)
           u == r.t
           w == [EndOfBlock(u) EXCEPT !.storedLen = @ - 1]
           x == [u EXCEPT !.storedLen = @ - 1]
           v == Puts([IF u.storedLen = 1 THEN EndOfBlock(u) ELSE u EXCEPT !.storedLen = @ - 1], r.value)
<1>1. Waits(t, r) /\ Got(t, u) /\ u = t /\ (r.rc = "got" => r.value \in 0..255)
  BY ByteGot DEF AtStoredData, Bounded, Placed
<1>2. StoredData(t, i) = Made(r, v)
  BY DEF StoredData, On, Made
<1> HIDE DEF r, v, w, x
<1>3. ASSUME r.rc = "got" PROVE StepSound(t, v)
  <2>1. Got(t, u) /\ r.value \in 0..255 /\ u = t
    BY <1>1, <1>3
  <2>2. ASSUME u.storedLen = 1 PROVE StepSound(t, Puts(w, r.value))
    <3>1. DOMAIN u = Fields
      BY <2>1 DEF Got, Sound, Shaped
    <3>2. Shaped(w)
      BY <3>1 DEF w, Shaped, EndOfBlock
    <3>3. /\ w.bitTag = u.bitTag /\ w.bitCount = u.bitCount /\ w.lengths = u.lengths
          /\ w.window = u.window /\ w.windowPos = u.windowPos /\ w.count = u.count
          /\ w.expected = u.expected /\ w.stage = IF u.bfinal = 1 THEN "trailer" ELSE "final"
          /\ w.readBits = u.readBits /\ w.sym = u.sym
      BY <3>1 DEF w, Fields, EndOfBlock
    <3>4. Moved(u, w)
      BY <2>1, <3>2, <3>3 DEF Moved, NotWritten, Got, Sound
    <3>5. AtBytes(w)
      BY <2>1, <3>3, <2>2 DEF AtBytes, Got, Idle
    <3> QED BY <2>1, <3>4, <3>5, PutsMoves
  <2>3. ASSUME u.storedLen # 1 PROVE StepSound(t, Puts(x, r.value))
    <3>1. DOMAIN u = Fields
      BY <2>1 DEF Got, Sound, Shaped
    <3>2. Shaped(x)
      BY <3>1 DEF x, Shaped
    <3>3. /\ x.bitTag = u.bitTag /\ x.bitCount = u.bitCount /\ x.lengths = u.lengths
          /\ x.window = u.window /\ x.windowPos = u.windowPos /\ x.count = u.count
          /\ x.expected = u.expected /\ x.storedLen = u.storedLen - 1 /\ x.stage = u.stage
          /\ x.readBits = u.readBits /\ x.sym = u.sym
      BY <3>1 DEF x, Fields
    <3>4. Moved(u, x)
      BY <2>1, <3>2, <3>3 DEF Moved, NotWritten, Got, Sound
    <3>5. AtStoredData(x)
      <4>1. \A k \in Words: k \notin {0, 1} => k - 1 \in Words
        BY WordFacts
      <4>2. u.storedLen \in Words /\ u.storedLen \notin {0, 1} /\ u.stage = "storedData"
        BY <2>1, <2>3 DEF AtStoredData
      <4> QED BY <2>1, <3>3, <4>1, <4>2 DEF AtStoredData, Got, Idle
    <3> QED BY <2>1, <3>4, <3>5, PutsMoves
  <2> QED BY <2>2, <2>3 DEF v, w, x
<1> QED BY <1>1, <1>2, <1>3, MadeSound

LEMMA StoredDataEndsSound ==
  ASSUME NEW t, Sound(t), AtStoredData(t), t.storedLen = 0, NEW i \in Input
  PROVE  StepSound(t, StoredData(t, i))
<1> DEFINE u == t
           w == EndOfBlock(u)
<1>1. StoredData(t, i) = Leaving(Goes(w), i)
  BY DEF StoredData
<1>2. Got(t, u)
  BY DEF AtStoredData, Got
<1> HIDE DEF w
<1>3. StepSound(t, Goes(w))
  <2>1. DOMAIN u = Fields
    BY <1>2 DEF Got, Sound, Shaped
  <2>2. Shaped(w)
    BY <2>1 DEF w, Shaped, EndOfBlock
  <2>3. /\ w.bitTag = u.bitTag /\ w.bitCount = u.bitCount /\ w.lengths = u.lengths
        /\ w.window = u.window /\ w.windowPos = u.windowPos /\ w.count = u.count
        /\ w.expected = u.expected /\ w.stage = IF u.bfinal = 1 THEN "trailer" ELSE "final"
        /\ w.readBits = u.readBits /\ w.sym = u.sym
    BY <2>1 DEF w, Fields, EndOfBlock
  <2>4. Moved(u, w)
    BY <1>2, <2>2, <2>3 DEF Moved, NotWritten, Got, Sound
  <2>5. AtBytes(w)
    BY <1>2, <2>3 DEF AtBytes, Got, Idle
  <2> QED BY <1>2, <2>4, <2>5, MovesSound DEF Placed
<1> QED BY <1>1, <1>3, LeavingSound

LEMMA StoredDataSound ==
  ASSUME NEW t, Sound(t), AtStoredData(t), NEW i \in Input
  PROVE  StepSound(t, StoredData(t, i))
BY StoredDataReadsSound, StoredDataEndsSound

LEMMA SymbolSound ==
  ASSUME NEW t, Sound(t), AtSymbol(t), NEW i \in Input
  PROVE  StepSound(t, Symbol(t, i))
<1> DEFINE r == DecodeSymbol(t, i, t.ltree)
           u == r.t
           w == EndOfBlock(u)
           x == [u EXCEPT !.lengthSym = r.value - 257, !.blockStage = "lenExtra"]
           v == BlockSymbol(u, r.value)
<1>1. SymbolGot(t, r, t.ltree, 288)
  BY SymbolIsGot DEF AtSymbol
<1>2. Symbol(t, i) = Made(r, v)
  BY DEF Symbol, On, Made
<1> HIDE DEF r, v, w, x
<1>3. /\ u.stage = t.stage /\ u.blockStage = t.blockStage /\ u.ltree = t.ltree /\ u.tree = t.tree
  BY <1>1 DEF SymbolGot, Others, Fields
<1>4. Waits(t, r)
  <2>1. r.rc \in {"more", "input"} => AtSymbol(u)
    BY <1>1, <1>3 DEF AtSymbol, SymbolGot, AtBlock
  <2> QED BY <1>1, <2>1 DEF Waits, SymbolGot, Bounded, Placed, AtData
<1>5. ASSUME r.rc = "got" PROVE StepSound(t, v)
  <2>1. Got(t, u) /\ r.value \in 0..287
    BY <1>1, <1>5 DEF SymbolGot
  <2>2. AtSymbol(u)
    BY <1>3, <2>1, InCodeBuilt, BuiltCode DEF AtSymbol, AtBlock, Code, Got, Idle
  <2>3. r.value < 256 => StepSound(t, Puts(u, r.value))
    <3>1. Sound(u) /\ NotWritten(t, u)
      BY <2>1, GotNotWritten DEF Got
    <3> QED BY <2>1, <2>2, <3>1, PutsSound
  <2>4. StepSound(t, Goes(w))
    <3>1. DOMAIN u = Fields
      BY <2>1 DEF Got, Sound, Shaped
    <3>2. Shaped(w)
      BY <3>1 DEF w, Shaped, EndOfBlock
    <3>3. /\ w.bitTag = u.bitTag /\ w.bitCount = u.bitCount /\ w.lengths = u.lengths
          /\ w.window = u.window /\ w.windowPos = u.windowPos /\ w.count = u.count
          /\ w.expected = u.expected /\ w.readBits = u.readBits /\ w.sym = u.sym
          /\ w.stage = IF u.bfinal = 1 THEN "trailer" ELSE "final"
      BY <3>1 DEF w, Fields, EndOfBlock
    <3>4. Moved(u, w)
      BY <2>1, <3>2, <3>3 DEF Moved, NotWritten, Got, Sound
    <3>5. AtBytes(w)
      BY <2>1, <3>3 DEF AtBytes, Got, Idle
    <3> QED BY <2>1, <3>4, <3>5, MovesSound DEF Placed
  <2>5. StepSound(t, Fails(u))
    BY FailsSound
  <2>6. ASSUME r.value \in 257..285 PROVE StepSound(t, Goes(x))
    <3>1. DOMAIN u = Fields
      BY <2>1 DEF Got, Sound, Shaped
    <3>2. Shaped(x)
      BY <3>1 DEF x, Shaped
    <3>3. /\ x.bitTag = u.bitTag /\ x.bitCount = u.bitCount /\ x.lengths = u.lengths
          /\ x.window = u.window /\ x.windowPos = u.windowPos /\ x.count = u.count
          /\ x.expected = u.expected /\ x.stage = u.stage /\ x.readBits = u.readBits
          /\ x.sym = u.sym /\ x.ltree = u.ltree /\ x.tree = u.tree /\ x.blockStage = "lenExtra"
          /\ x.lengthSym = r.value - 257
      BY <3>1 DEF x, Fields
    <3>4. Moved(u, x)
      BY <2>1, <3>2, <3>3 DEF Moved, NotWritten, Got, Sound
    <3>5. AtLenExtra(x)
    BY <2>1, <3>3, <1>3, InCodeBuilt, <2>6 DEF AtLenExtra, AtBlock, Bits, BitsFit, Got, Idle, AtSymbol, Code
    <3> QED BY <2>1, <3>4, <3>5, MovesSound DEF Placed, AtData
  <2> QED BY <2>1, <2>3, <2>4, <2>5, <2>6 DEF v, BlockSymbol, w, x
<1> QED BY <1>2, <1>4, <1>5, MadeSound

LEMMA LenExtraSound ==
  ASSUME NEW t, Sound(t), AtLenExtra(t), NEW i \in Input
  PROVE  StepSound(t, LenExtra(t, i))
<1> DEFINE num == LengthBits[t.lengthSym + 1]
           base == LengthBase[t.lengthSym + 1]
           r == ReadBits(t, i, num, base)
           u == r.t
           w == [u EXCEPT !.matchLen = r.value, !.blockStage = "distSymbol"]
           v == Goes(w)
<1>0. num \in 0..13 /\ base \in Nat \ {0}
  <2>1. t.lengthSym + 1 \in 1..29
    BY DEF AtLenExtra
  <2> QED BY <2>1, TableFacts
<1>1. BitsGot(t, r, num, base)
  <2>1. Bits(t, num, base)
    BY DEF AtLenExtra
  <2> HIDE DEF num, base
  <2> QED BY <1>0, <2>1, BitsAreGot
<1>2. LenExtra(t, i) = Made(r, v)
  BY DEF LenExtra, On, Made
<1> HIDE DEF r, v, num, base, w
<1>3. /\ u.stage = t.stage /\ u.blockStage = t.blockStage /\ u.lengthSym = t.lengthSym
      /\ u.ltree = t.ltree /\ u.tree = t.tree
  BY <1>1 DEF BitsGot, Others, Fields
<1>4. Waits(t, r)
  <2>1. r.rc \in {"more", "input"} => AtLenExtra(u)
    BY <1>1, <1>3 DEF AtLenExtra, BitsGot, AtBlock, num, base
  <2> QED BY <1>1, <2>1 DEF Waits, BitsGot, Bounded, Placed, AtData
<1>5. ASSUME r.rc = "got" PROVE StepSound(t, v)
  <2>1. Got(t, u) /\ r.value \in Nat \ {0}
    BY <1>0, <1>1, <1>5 DEF BitsGot
  <2>2. StepSound(t, Goes(w))
    <3>1. DOMAIN u = Fields
      BY <2>1 DEF Got, Sound, Shaped
    <3>2. Shaped(w)
      BY <3>1 DEF w, Shaped
    <3>3. /\ w.bitTag = u.bitTag /\ w.bitCount = u.bitCount /\ w.lengths = u.lengths
          /\ w.window = u.window /\ w.windowPos = u.windowPos /\ w.count = u.count
          /\ w.expected = u.expected /\ w.stage = u.stage /\ w.readBits = u.readBits
          /\ w.sym = u.sym /\ w.ltree = u.ltree /\ w.tree = u.tree /\ w.matchLen = r.value
          /\ w.blockStage = "distSymbol"
      BY <3>1 DEF w, Fields
    <3>4. Moved(u, w)
      BY <2>1, <3>2, <3>3 DEF Moved, NotWritten, Got, Sound
    <3>5. AtDistSymbol(w)
      BY <2>1, <3>3, <1>3, BuiltCode DEF AtDistSymbol, AtBlock, Code, Got, Idle, AtLenExtra
    <3> QED BY <2>1, <3>4, <3>5, MovesSound DEF Placed, AtData
  <2> QED BY <2>1, <2>2 DEF v
<1> QED BY <1>2, <1>4, <1>5, MadeSound

LEMMA DistSymbolSound ==
  ASSUME NEW t, Sound(t), AtDistSymbol(t), NEW i \in Input
  PROVE  StepSound(t, DistSymbol(t, i))
<1> DEFINE r == DecodeSymbol(t, i, t.tree)
           u == r.t
           w == [u EXCEPT !.distSym = r.value, !.blockStage = "distExtra"]
           v == IF r.value >= 30 THEN Fails(u) ELSE Goes(w)
<1>1. SymbolGot(t, r, t.tree, 32)
  BY SymbolIsGot DEF AtDistSymbol
<1>2. DistSymbol(t, i) = Made(r, v)
  BY DEF DistSymbol, On, Made
<1> HIDE DEF r, v, w
<1>3. /\ u.stage = t.stage /\ u.blockStage = t.blockStage /\ u.matchLen = t.matchLen
      /\ u.ltree = t.ltree /\ u.tree = t.tree
  BY <1>1 DEF SymbolGot, Others, Fields
<1>4. Waits(t, r)
  <2>1. r.rc \in {"more", "input"} => AtDistSymbol(u)
    BY <1>1, <1>3 DEF AtDistSymbol, SymbolGot, AtBlock
  <2> QED BY <1>1, <2>1 DEF Waits, SymbolGot, Bounded, Placed, AtData
<1>5. ASSUME r.rc = "got" PROVE StepSound(t, v)
  <2>1. Got(t, u) /\ r.value \in 0..31
    BY <1>1, <1>5 DEF SymbolGot
  <2>2. StepSound(t, Fails(u))
    BY FailsSound
  <2>3. ASSUME ~(r.value >= 30) PROVE StepSound(t, Goes(w))
    <3>1. DOMAIN u = Fields
      BY <2>1 DEF Got, Sound, Shaped
    <3>2. Shaped(w)
      BY <3>1 DEF w, Shaped
    <3>3. /\ w.bitTag = u.bitTag /\ w.bitCount = u.bitCount /\ w.lengths = u.lengths
          /\ w.window = u.window /\ w.windowPos = u.windowPos /\ w.count = u.count
          /\ w.expected = u.expected /\ w.stage = u.stage /\ w.readBits = u.readBits
          /\ w.sym = u.sym /\ w.ltree = u.ltree /\ w.tree = u.tree /\ w.matchLen = u.matchLen
          /\ w.distSym = r.value /\ w.blockStage = "distExtra"
      BY <3>1 DEF w, Fields
    <3>4. Moved(u, w)
      BY <2>1, <3>2, <3>3 DEF Moved, NotWritten, Got, Sound
    <3>5. AtDistExtra(w)
    BY <2>1, <3>3, <1>3, InCodeBuilt, <2>3 DEF AtDistExtra, AtBlock, Bits, BitsFit, Code, Got, Idle,
         AtDistSymbol
    <3> QED BY <2>1, <3>4, <3>5, MovesSound DEF Placed, AtData
  <2> QED BY <2>1, <2>2, <2>3 DEF v
<1> QED BY <1>2, <1>4, <1>5, MadeSound

LEMMA DistExtraSound ==
  ASSUME NEW t, Sound(t), AtDistExtra(t), NEW i \in Input
  PROVE  StepSound(t, DistExtra(t, i))
<1> DEFINE num == DistBits[t.distSym + 1]
           base == DistBase[t.distSym + 1]
           r == ReadBits(t, i, num, base)
           u == r.t
           w == [u EXCEPT !.matchOffset = r.value, !.blockStage = "matchCopy"]
           v == Distance(u, r.value)
<1>0. num \in 0..13 /\ base \in Nat \ {0}
  <2>1. t.distSym + 1 \in 1..30
    BY DEF AtDistExtra
  <2> QED BY <2>1, TableFacts
<1>1. BitsGot(t, r, num, base)
  <2>1. Bits(t, num, base)
    BY DEF AtDistExtra
  <2> HIDE DEF num, base
  <2> QED BY <1>0, <2>1, BitsAreGot
<1>2. DistExtra(t, i) = Made(r, v)
  BY DEF DistExtra, On, Made
<1> HIDE DEF r, v, num, base, w
<1>3. /\ u.stage = t.stage /\ u.blockStage = t.blockStage /\ u.distSym = t.distSym
      /\ u.matchLen = t.matchLen /\ u.count = t.count /\ u.ltree = t.ltree /\ u.tree = t.tree
  BY <1>1 DEF BitsGot, Others, Fields
<1>4. Waits(t, r)
  <2>1. r.rc \in {"more", "input"} => AtDistExtra(u)
    BY <1>1, <1>3 DEF AtDistExtra, BitsGot, AtBlock, num, base
  <2> QED BY <1>1, <2>1 DEF Waits, BitsGot, Bounded, Placed, AtData
<1>5. ASSUME r.rc = "got" PROVE StepSound(t, v)
  <2>1. Got(t, u) /\ r.value \in Nat \ {0}
    BY <1>0, <1>1, <1>5 DEF BitsGot
  <2>2. StepSound(t, Fails(u))
    BY FailsSound
  <2>3. ASSUME ~(r.value > WindowSize \/ r.value > u.count) PROVE StepSound(t, Goes(w))
    <3>1. DOMAIN u = Fields
      BY <2>1 DEF Got, Sound, Shaped
    <3>2. Shaped(w)
      BY <3>1 DEF w, Shaped
    <3>3. /\ w.bitTag = u.bitTag /\ w.bitCount = u.bitCount /\ w.lengths = u.lengths
          /\ w.window = u.window /\ w.windowPos = u.windowPos /\ w.count = u.count
          /\ w.expected = u.expected /\ w.stage = u.stage /\ w.readBits = u.readBits
          /\ w.sym = u.sym /\ w.ltree = u.ltree /\ w.tree = u.tree /\ w.matchLen = u.matchLen
          /\ w.matchOffset = r.value /\ w.blockStage = "matchCopy"
      BY <3>1 DEF w, Fields
    <3>4. Moved(u, w)
      BY <2>1, <3>2, <3>3 DEF Moved, NotWritten, Got, Sound
    <3>5. AtMatchCopy(w)
      <4>1. u.count \in Nat
        BY <2>1 DEF Got, Sound
      <4>2. r.value \in 1..WindowSize /\ r.value <= u.count
        BY <2>1, <2>3, <4>1, WindowFacts
      <4> QED BY <1>3, <2>1, <3>3, <4>2 DEF AtMatchCopy, AtBlock, Got, Idle, AtDistExtra
    <3> QED BY <2>1, <3>4, <3>5, MovesSound DEF Placed, AtData
  <2> QED BY <2>1, <2>2, <2>3 DEF v, Distance, w
<1> QED BY <1>2, <1>4, <1>5, MadeSound

LEMMA SourceInWindow ==
  ASSUME NEW t, Sound(t), AtMatchCopy(t)
  PROVE  Source(t) \in 0..WindowSize - 1 /\ t.window[Source(t)] \in 0..255
<1> DEFINE p == t.windowPos + WindowSize - t.matchOffset
<1>1. t.windowPos \in Nat /\ t.matchOffset \in Nat /\ t.matchOffset <= WindowSize
  BY WindowFacts DEF Sound, AtMatchCopy
<1>2. p \in Nat
  BY <1>1, WindowFacts
<1>3. Source(t) = p % WindowSize
  BY DEF Source
<1> HIDE DEF p
<1>4. p % WindowSize \in 0..WindowSize - 1
  BY <1>2, WindowFacts
<1> QED BY <1>3, <1>4 DEF Sound

LEMMA MatchCopySound ==
  ASSUME NEW t, Sound(t), AtMatchCopy(t), NEW i \in Input
  PROVE  StepSound(t, MatchCopy(t, i))
<1> DEFINE u == t
           w == [u EXCEPT !.matchLen = @ - 1, !.blockStage = IF u.matchLen = 1 THEN "symbol" ELSE @]
           byte == t.window[Source(t)]
<1>1. MatchCopy(t, i) = Leaving(Puts(w, byte), i)
  BY DEF MatchCopy
<1>2. Got(t, u)
  BY DEF AtMatchCopy, Got
<1>3. byte \in 0..255
  BY SourceInWindow
<1> HIDE DEF w, byte
<1>4. StepSound(t, Puts(w, byte))
  <2>1. DOMAIN u = Fields
    BY <1>2 DEF Got, Sound, Shaped
  <2>2. Shaped(w)
    BY <2>1 DEF w, Shaped
  <2>3. /\ w.bitTag = u.bitTag /\ w.bitCount = u.bitCount /\ w.lengths = u.lengths
        /\ w.window = u.window /\ w.windowPos = u.windowPos /\ w.count = u.count
        /\ w.expected = u.expected
        /\ w.blockStage = IF u.matchLen = 1 THEN "symbol" ELSE u.blockStage
        /\ w.matchLen = u.matchLen - 1 /\ w.stage = u.stage /\ w.readBits = u.readBits
        /\ w.sym = u.sym /\ w.ltree = u.ltree /\ w.tree = u.tree
        /\ w.matchOffset = u.matchOffset
    BY <2>1 DEF w, Fields
  <2>4. Moved(u, w)
    BY <1>2, <2>2, <2>3 DEF Moved, NotWritten, Got, Sound
  <2>5. AtSymbol(w) \/ AtMatchCopy(w)
    <3>1. CASE u.matchLen = 1
      BY <2>3, <3>1, BuiltCode DEF AtMatchCopy, AtSymbol, AtBlock, Code, Idle
    <3>2. CASE u.matchLen # 1
      BY <2>3, <3>2 DEF AtMatchCopy, AtBlock, Idle
    <3> QED BY <3>1, <3>2
  <2> QED BY <1>2, <1>3, <2>4, <2>5, PutsMoves
<1> QED BY <1>1, <1>4, LeavingSound

LEMMA TrailerSound ==
  ASSUME NEW t, Sound(t), AtBytes(t), t.stage = "trailer", NEW i \in Input
  PROVE  StepSound(t, Trailer(t, i))
<1> DEFINE r == ReadByte(t, i)
           u == r.t
           q == Append(u.trailer, r.value)
           w == [u EXCEPT !.trailer = q]
           x == [u EXCEPT !.stage = "done"]
           v == IF Len(q) < 4 THEN Goes(w) ELSE IF Complete(u, q, r.left) THEN Goes(x) ELSE Fails(u)
<1>1. Waits(t, r) /\ Got(t, u) /\ u = t /\ (r.rc = "got" => r.value \in 0..255)
  BY ByteGot DEF AtBytes, Bounded, Placed
<1>2. Trailer(t, i) = Made(r, v)
  BY DEF Trailer, On, Made
<1> HIDE DEF r, v, q, w, x
<1>3. ASSUME r.rc = "got" PROVE StepSound(t, v)
  <2>1. Got(t, u) /\ r.value \in 0..255 /\ u = t
    BY <1>1, <1>3
  <2>2. StepSound(t, Goes(w))
    <3>1. DOMAIN u = Fields
      BY <2>1 DEF Got, Sound, Shaped
    <3>2. Shaped(w)
      BY <3>1 DEF w, Shaped
    <3>3. /\ w.bitTag = u.bitTag /\ w.bitCount = u.bitCount /\ w.lengths = u.lengths
          /\ w.window = u.window /\ w.windowPos = u.windowPos /\ w.count = u.count
          /\ w.expected = u.expected /\ w.stage = u.stage /\ w.readBits = u.readBits
          /\ w.sym = u.sym
      BY <3>1 DEF w, Fields
    <3>4. Moved(u, w)
      BY <2>1, <3>2, <3>3 DEF Moved, NotWritten, Got, Sound
    <3>5. AtBytes(w)
      BY <2>1, <3>3 DEF AtBytes, Got, Idle
    <3> QED BY <2>1, <3>4, <3>5, MovesSound DEF Placed
  <2>3. StepSound(t, Goes(x))
    <3>1. DOMAIN u = Fields
      BY <2>1 DEF Got, Sound, Shaped
    <3>2. Shaped(x)
      BY <3>1 DEF x, Shaped
    <3>3. /\ x.bitTag = u.bitTag /\ x.bitCount = u.bitCount /\ x.lengths = u.lengths
          /\ x.window = u.window /\ x.windowPos = u.windowPos /\ x.count = u.count
          /\ x.expected = u.expected /\ x.stage = "done"
      BY <3>1 DEF x, Fields
    <3>4. Moved(u, x)
      BY <2>1, <3>2, <3>3 DEF Moved, NotWritten, Got, Sound
    <3>5. Placed(x)
      BY <3>3 DEF Placed
    <3> QED BY <2>1, <3>4, <3>5, MovesSound
  <2>4. StepSound(t, Fails(u))
    BY FailsSound
  <2> QED BY <2>2, <2>3, <2>4 DEF v
<1> QED BY <1>1, <1>2, <1>3, MadeSound

(* Whatever the input, a step from a place the decoder can be at leads to one. *)
LEMMA StepIsSound ==
  ASSUME NEW t, Bounded(t), t.stage # "done", NEW i \in Input
  PROVE  StepSound(t, Step(t, i))
<1>1. Sound(t) /\ Placed(t)
  BY DEF Bounded
<1>2. CASE AtBytes(t)
  BY <1>1, <1>2, CmfSound, FlgSound, BlockFinalSound, TrailerSound DEF AtBytes, Step
<1>3. CASE AtType(t)
  BY <1>1, <1>3, BlockTypeSound DEF AtType, Step
<1>4. CASE AtTables(t)
  <2>1. Step(t, i) = Tables(t, i)
    BY <1>4 DEF AtTables, AtHlit, AtHdist, AtHclen, AtReadClen, AtReadLengths, AtRepeatBits, AtTable, Step
  <2>2. CASE AtHlit(t)
    BY <1>1, <2>1, <2>2, HlitSound DEF AtHlit, AtTable, Tables
  <2>3. CASE AtHdist(t)
    BY <1>1, <2>1, <2>3, HdistSound DEF AtHdist, AtTable, Tables
  <2>4. CASE AtHclen(t)
    BY <1>1, <2>1, <2>4, HclenSound DEF AtHclen, AtTable, Tables
  <2>5. CASE AtReadClen(t)
    BY <1>1, <2>1, <2>5, ReadClenSound DEF AtReadClen, AtTable, Tables
  <2>6. CASE AtReadLengths(t)
    BY <1>1, <2>1, <2>6, ReadLengthsSound DEF AtReadLengths, AtTable, Tables
  <2>7. CASE AtRepeatBits(t)
    BY <1>1, <2>1, <2>7, RepeatBitsSound DEF AtRepeatBits, AtTable, Tables
  <2> QED BY <1>4, <2>2, <2>3, <2>4, <2>5, <2>6, <2>7 DEF AtTables
<1>5. CASE AtStoredLen(t)
  BY <1>1, <1>5, StoredLenSound DEF AtStoredLen, Step
<1>6. CASE AtStoredData(t)
  BY <1>1, <1>6, StoredDataSound DEF AtStoredData, Step
<1>7. CASE AtData(t)
  <2>1. Step(t, i) = BlockData(t, i)
    BY <1>7 DEF AtData, AtSymbol, AtLenExtra, AtDistSymbol, AtDistExtra, AtMatchCopy, AtBlock, Step
  <2>2. CASE AtSymbol(t)
    BY <1>1, <2>1, <2>2, SymbolSound DEF AtSymbol, AtBlock, BlockData
  <2>3. CASE AtLenExtra(t)
    BY <1>1, <2>1, <2>3, LenExtraSound DEF AtLenExtra, AtBlock, BlockData
  <2>4. CASE AtDistSymbol(t)
    BY <1>1, <2>1, <2>4, DistSymbolSound DEF AtDistSymbol, AtBlock, BlockData
  <2>5. CASE AtDistExtra(t)
    BY <1>1, <2>1, <2>5, DistExtraSound DEF AtDistExtra, AtBlock, BlockData
  <2>6. CASE AtMatchCopy(t)
    BY <1>1, <2>1, <2>6, MatchCopySound DEF AtMatchCopy, AtBlock, BlockData
  <2> QED BY <1>7, <2>2, <2>3, <2>4, <2>5, <2>6 DEF AtData
<1> QED BY <1>1, <1>2, <1>3, <1>4, <1>5, <1>6, <1>7 DEF Placed

-----------------------------------------------------------------------------
(***************************************************************************)
(* The window holds the end of the image.                                  *)
(***************************************************************************)
Back(t, k) == (t.windowPos + WindowSize - k) % WindowSize
Mirrors(t, image) ==
  \A k \in 1..Len(image): k <= WindowSize => t.window[Back(t, k)] = image[Len(image) - k + 1]

Holds(t, image) == image \in Input /\ Bounded(t) /\ t.count = Len(image) /\ Mirrors(t, image)

LEMMA ModOnce ==
  ASSUME NEW w \in Nat \ {0}, NEW n \in Nat, n < 2 * w
  PROVE  n % w = IF n < w THEN n ELSE n - w
<1>1. n % w \in 0..w - 1 /\ n = w * (n \div w) + (n % w) /\ n \div w \in Nat
  OBVIOUS
<1> DEFINE q == n \div w
           m == n % w
<1>2. q \in Nat /\ m \in 0..w - 1 /\ n = w * q + m
  BY <1>1
<1> HIDE DEF q, m
<1>3. q \in {0, 1}
  <2>1. CASE q >= 2
    <3>1. w * q >= w * 2
      BY <1>2, <2>1
    <3> QED BY <1>2, <3>1
  <2> QED BY <1>2, <2>1
<1>4. m = IF n < w THEN n ELSE n - w
  BY <1>2, <1>3
<1> QED BY <1>4 DEF m

LEMMA BackIs ==
  ASSUME NEW t, Sound(t), NEW k \in 1..WindowSize
  PROVE  /\ Back(t, k) = IF k <= t.windowPos THEN t.windowPos - k ELSE t.windowPos + WindowSize - k
         /\ Back(t, k) \in 0..WindowSize - 1
<1> DEFINE p == t.windowPos
           n == p + WindowSize - k
<1>1. p \in 0..WindowSize - 1 /\ WindowSize \in Nat \ {0}
  BY WindowFacts DEF Sound
<1>2. n \in Nat /\ n < 2 * WindowSize
  BY <1>1
<1>3. Back(t, k) = n % WindowSize
  BY DEF Back
<1> HIDE DEF p
<1>4. n % WindowSize = IF n < WindowSize THEN n ELSE n - WindowSize
  <2> HIDE DEF n
  <2> QED BY <1>1, <1>2, ModOnce
<1>5. n % WindowSize = IF k <= p THEN p - k ELSE p + WindowSize - k
  BY <1>1, <1>4
<1>6. n % WindowSize \in 0..WindowSize - 1
  BY <1>1, <1>5
<1> QED BY <1>3, <1>5, <1>6 DEF p

(* A byte is written over the oldest one; the others are one further back. *)
LEMMA WrittenMirrors ==
  ASSUME NEW t, Sound(t), NEW image \in Input, Mirrors(t, image), NEW u, Sound(u), NEW byte,
         Written(t, u, byte)
  PROVE  Mirrors(u, Append(image, byte))
<1> DEFINE p == t.windowPos
           more == Append(image, byte)
<1>1. /\ Len(image) \in Nat /\ Len(more) = Len(image) + 1 /\ more[Len(image) + 1] = byte
      /\ \A i \in 1..Len(image): more[i] = image[i]
  BY LenProperties, AppendProperties DEF Input, Written
<1>2. /\ p \in 0..WindowSize - 1 /\ WindowSize \in Nat \ {0} /\ DOMAIN t.window = 0..WindowSize - 1
  BY WindowFacts DEF Sound
<1>3. /\ u.window[p] = byte /\ \A j \in 0..WindowSize - 1: j # p => u.window[j] = t.window[j]
  BY <1>2 DEF Written
<1>4. u.windowPos = IF p + 1 < WindowSize THEN p + 1 ELSE 0
  <2> DEFINE n == p + 1
  <2>1. n \in Nat /\ n < 2 * WindowSize /\ n <= WindowSize
    BY <1>2
  <2>2. u.windowPos = n % WindowSize
    BY DEF Written
  <2> HIDE DEF n
  <2>3. n % WindowSize = IF n < WindowSize THEN n ELSE n - WindowSize
    BY <1>2, <2>1, ModOnce
  <2>4. u.windowPos = IF n < WindowSize THEN n ELSE 0
    BY <1>2, <2>1, <2>2, <2>3
  <2> QED BY <2>4 DEF n
<1> HIDE DEF more
<1>5. ASSUME NEW k \in 1..Len(more), k <= WindowSize
      PROVE  u.window[Back(u, k)] = more[Len(more) - k + 1]
  <2>1. Back(u, k) = IF k <= u.windowPos THEN u.windowPos - k ELSE u.windowPos + WindowSize - k
    BY <1>1, <1>5, BackIs
  <2> DEFINE b == Back(u, k)
  <2> HIDE DEF p
  <2>2. CASE k = 1
    <3>1. Back(u, k) = p
      BY <1>2, <1>4, <2>1, <2>2
    <3>2. Len(more) - k + 1 = Len(image) + 1
      BY <1>1, <2>2
    <3> QED BY <1>1, <1>3, <3>1, <3>2
  <2>3. CASE k # 1
    <3> DEFINE j == k - 1
    <3>1. j \in 1..Len(image) /\ j \in 1..WindowSize /\ j < WindowSize
      BY <1>1, <1>2, <1>5, <2>3
    <3>2. Back(t, j) = IF j <= p THEN p - j ELSE p + WindowSize - j
      BY <3>1, BackIs DEF p
    <3>3. Back(t, j) \in 0..WindowSize - 1
      BY <3>1, BackIs
    <3>4. Back(u, k) = Back(t, j) /\ Back(u, k) # p
      <4> DEFINE w == WindowSize
                 q == u.windowPos
      <4>1. /\ p \in Nat /\ p < w /\ w \in Nat /\ j \in Nat /\ 1 <= j /\ j < w /\ k = j + 1
            /\ q = IF p + 1 < w THEN p + 1 ELSE 0
        BY <1>2, <1>4, <3>1
      <4>2. Back(u, k) = IF k <= q THEN q - k ELSE q + w - k
        BY <2>1
      <4>3. Back(t, j) = IF j <= p THEN p - j ELSE p + w - j
        BY <3>2
      <4> HIDE DEF w, q, j
      <4>4. CASE p + 1 < w
        <5>1. q = p + 1
          BY <4>1, <4>4
        <5>2. Back(u, k) = IF j <= p THEN p - j ELSE p + w - j
          BY <4>1, <4>2, <5>1
        <5> QED BY <4>1, <4>3, <5>2
      <4>5. CASE ~(p + 1 < w)
        <5>1. q = 0 /\ w = p + 1
          BY <4>1, <4>5
        <5>2. Back(u, k) = p - j /\ Back(t, j) = p - j
          BY <4>1, <4>2, <4>3, <5>1
        <5> QED BY <4>1, <5>2
      <4> QED BY <4>4, <4>5
    <3>5. t.window[Back(t, j)] = image[Len(image) - j + 1]
      BY <1>2, <3>1 DEF Mirrors
    <3>6. Len(more) - k + 1 = Len(image) - j + 1 /\ Len(image) - j + 1 \in 1..Len(image)
      BY <1>1, <3>1
    <3> QED BY <1>1, <1>3, <3>3, <3>4, <3>5, <3>6
  <2> QED BY <2>2, <2>3
<1> QED BY <1>5 DEF Mirrors, more

LEMMA SameMirrors ==
  ASSUME NEW t, NEW u, NotWritten(t, u), NEW image, Mirrors(t, image)
  PROVE  Mirrors(u, image)
BY DEF NotWritten, Mirrors, Back

LEMMA FreshHolds ==
  ASSUME NEW limit \in Nat
  PROVE  Holds(Fresh(limit), <<>>)
<1> DEFINE t == Fresh(limit)
           l == [i \in 0..319 |-> 0]
           w == [i \in 0..WindowSize - 1 |-> 0]
<1>1. Shaped(t)
  BY DEF Fresh, Shaped, Fields
<1>2. /\ t.stage = "cmf" /\ t.readBits = ReadBitsIdle /\ t.sym = SymIdle
      /\ t.bitTag = 0 /\ t.bitCount = 0 /\ t.windowPos = 0 /\ t.expected = limit /\ t.count = 0
  BY DEF Fresh
<1>3. t.lengths = l /\ t.window = w
  BY DEF Fresh
<1> HIDE DEF t
<1>4. l \in Table /\ w \in [0..WindowSize - 1 -> 0..255]
  BY DEF Table
<1> HIDE DEF l, w
<1>5. Sound(t)
  BY <1>1, <1>2, <1>3, <1>4, WindowFacts DEF Sound
<1>6. Bounded(t)
  BY <1>2, <1>5 DEF Bounded, Placed, AtBytes, Idle
<1>7. <<>> \in Input /\ Len(<<>>) = 0
  BY EmptySeq DEF Input
<1>8. Holds(t, <<>>)
  BY <1>2, <1>6, <1>7 DEF Holds, Mirrors
<1> QED BY <1>8 DEF t

LEMMA StepHolds ==
  ASSUME NEW t, NEW image, Holds(t, image), t.stage # "done", NEW i \in Input
  PROVE  /\ Step(t, i).how \in {"goes", "starves"} => Holds(Step(t, i).t, image)
         /\ Step(t, i).how = "puts" => /\ Step(t, i).byte \in 0..255
                                       /\ Holds(Step(t, i).t, Append(image, Step(t, i).byte))
<1> DEFINE o == Step(t, i)
<1>1. StepSound(t, o)
  BY StepIsSound DEF Holds
<1>2. Sound(t) /\ image \in Input /\ t.count = Len(image) /\ Mirrors(t, image) /\ Len(image) \in Nat
  BY LenProperties DEF Holds, Bounded, Input
<1> HIDE DEF o
<1>3. CASE o.how \in {"goes", "starves"}
  <2>1. Bounded(o.t) /\ NotWritten(t, o.t)
    BY <1>1, <1>3 DEF StepSound
  <2>2. Mirrors(o.t, image) /\ o.t.count = Len(image)
    BY <1>2, <2>1, SameMirrors DEF NotWritten
  <2> QED BY <1>2, <1>3, <2>1, <2>2 DEF Holds, o
<1>4. CASE o.how = "puts"
  <2>1. Bounded(o.t) /\ Written(t, o.t, o.byte)
    BY <1>1, <1>4 DEF StepSound
  <2>2. Mirrors(o.t, Append(image, o.byte))
    BY <1>2, <2>1, WrittenMirrors DEF Bounded
  <2>3. o.byte \in 0..255 /\ o.t.count = Len(image) + 1
    BY <1>2, <2>1 DEF Written
  <2>4. Append(image, o.byte) \in Input /\ Len(Append(image, o.byte)) = Len(image) + 1
    BY <1>2, <2>3, AppendProperties DEF Input
  <2>5. Holds(o.t, Append(image, o.byte))
    BY <2>1, <2>2, <2>3, <2>4 DEF Holds
  <2> QED BY <1>4, <2>3, <2>5 DEF o
<1> QED BY <1>3, <1>4 DEF o

-----------------------------------------------------------------------------
(***************************************************************************)
(* The bounds of the decoder hold at all times.                            *)
(***************************************************************************)
Image == emitted \o output
BInv == /\ emitted \in Input /\ output \in Input
        /\ ~z.failed => Holds(s, Image)

LEMMA ImageGrows ==
  ASSUME NEW a \in Input, NEW b \in Input
  PROVE  a \o b \in Input /\ <<>> \in Input /\ (a \o b) \o <<>> = a \o b
BY EmptySeq, ConcatProperties, ConcatEmptySeq DEF Input

LEMMA ByteGrows ==
  ASSUME NEW a \in Input, NEW b \in Input, NEW byte \in 0..255
  PROVE  Append(b, byte) \in Input /\ a \o Append(b, byte) = Append(a \o b, byte)
<1>1. <<byte>> \in Input /\ Append(b, byte) = b \o <<byte>> /\ Append(a \o b, byte) = (a \o b) \o <<byte>>
  BY ImageGrows, AppendIsConcat DEF Input
<1>2. (a \o b) \o <<byte>> = a \o (b \o <<byte>>)
  BY <1>1, ConcatAssociative DEF Input
<1> QED BY <1>1, <1>2, AppendProperties DEF Input

LEMMA DecodeHolds ==
  ASSUME BInv, input \in Input, ~z.failed, Decode
  PROVE  BInv'
<1> DEFINE o == Step(s, input)
<1>1. /\ s' = o.t
      /\ \/ o.how = "goes" /\ UNCHANGED <<z, output, emitted>>
         \/ o.how = "puts" /\ output' = Append(output, o.byte) /\ UNCHANGED <<z, emitted>>
         \/ o.how = "starves" /\ Returns(z.done)
         \/ o.how = "fails" /\ Broken
  BY DEF Decode
<1>2. /\ o.how \in {"goes", "starves"} => Holds(o.t, Image)
      /\ o.how = "puts" => o.byte \in 0..255 /\ Holds(o.t, Append(Image, o.byte))
  BY StepHolds DEF BInv, Decode
<1> HIDE DEF o
<1>3. emitted \in Input /\ output \in Input
  BY DEF BInv
<1>4. CASE o.how = "goes"
  BY <1>1, <1>2, <1>3, <1>4 DEF BInv, Image
<1>5. CASE o.how = "puts"
  <2>1. output' = Append(output, o.byte) /\ emitted' = emitted /\ z' = z
    BY <1>1, <1>5
  <2>2. output' \in Input /\ Image' = Append(Image, o.byte)
    <3>1. o.byte \in 0..255
      BY <1>2, <1>5
    <3> QED BY <1>3, <2>1, <3>1, ByteGrows DEF Image
  <2> QED BY <1>1, <1>2, <1>3, <1>5, <2>1, <2>2 DEF BInv
<1>6. CASE o.how = "starves"
  <2>1. emitted' = emitted \o output /\ output' = <<>>
    BY <1>1, <1>6 DEF Returns
  <2>2. Image' = Image /\ emitted' \in Input /\ output' \in Input
    BY <1>3, <2>1, ImageGrows DEF Image
  <2> QED BY <1>1, <1>2, <1>6, <2>2 DEF BInv
<1>7. CASE o.how = "fails"
  <2>1. z'.failed /\ emitted' = emitted /\ output' = <<>>
    BY <1>1, <1>7 DEF Broken
  <2> QED BY <1>3, <2>1, ImageGrows DEF BInv
<1> QED BY <1>1, <1>4, <1>5, <1>6, <1>7

LEMMA NextHolds ==
  ASSUME BInv, input \in Input, z.failed => pc = "idle", [Next]_vars
  PROVE  BInv'
<1>1. emitted \in Input /\ output \in Input
  BY DEF BInv
<1>2. CASE Decode
  BY <1>2, DecodeHolds DEF Decode
<1>3. CASE Emit \/ Finish
  <2>1. ~z.failed /\ s' = s /\ emitted' = emitted \o output /\ output' = <<>>
    BY <1>3 DEF Emit, Finish, Returns
  <2>2. Image' = Image /\ emitted' \in Input /\ output' \in Input
    BY <1>1, <2>1, ImageGrows DEF Image
  <2> QED BY <2>1, <2>2 DEF BInv
<1>4. CASE Reset
  <2>1. /\ which' \in DOMAIN Streams /\ s' = Fresh(Streams[which'].limit)
        /\ output' = <<>> /\ emitted' = <<>>
    BY <1>4 DEF Reset
  <2>2. Streams[which'].limit \in Nat
    BY <2>1, InflateAssumption
  <2>3. Holds(s', <<>>)
    BY <2>1, <2>2, FreshHolds
  <2>4. <<>> \in Input /\ Image' = <<>>
    BY <1>1, <2>1, ImageGrows, ConcatEmptySeq DEF Image, Input
  <2> QED BY <2>1, <2>3, <2>4 DEF BInv
<1>5. ASSUME NEW size \in Sizes, Feed(size) PROVE BInv'
  <2>1. UNCHANGED <<output, emitted>> /\ (z'.failed \/ UNCHANGED <<s, z>>)
    BY <1>5 DEF Feed
  <2> QED BY <1>1, <2>1 DEF BInv, Image
<1>6. CASE UNCHANGED vars
  BY <1>6 DEF vars, BInv, Image
<1> QED BY <1>2, <1>3, <1>4, <1>5, <1>6 DEF Next, Poll

LEMMA InitHolds == ASSUME Init PROVE BInv
<1>1. /\ which \in DOMAIN Streams /\ s = Fresh(Streams[which].limit) /\ output = <<>> /\ emitted = <<>>
  BY DEF Init
<1>2. Holds(s, <<>>)
  BY <1>1, FreshHolds, InflateAssumption
<1>3. <<>> \in Input /\ Image = <<>>
  BY <1>1, ImageGrows, EmptySeq, ConcatEmptySeq DEF Image, Input
<1> QED BY <1>1, <1>2, <1>3 DEF BInv

LEMMA TablesInBounds ==
  ASSUME NEW t, Bounded(t), t.stage = "dynamicTrees"
  PROVE  /\ t.dynamicStage = "readClen" => t.dynI <= t.hclen /\ t.hclen <= Len(ClcIdx)
         /\ t.dynamicStage = "readLengths" => Finds(t.tree, t.sym, 19)
         /\ t.dynamicStage \in {"readLengths", "repeatBits"} =>
              t.dynNum <= t.hlit + t.hdist /\ \A i \in 0..t.hlit + t.hdist - 1: t.lengths[i] \in 0..15
<1>1. AtTables(t)
  BY DEF Bounded, Placed, AtBytes, AtType, AtStoredLen, AtStoredData, AtData, AtSymbol, AtLenExtra,
         AtDistSymbol, AtDistExtra, AtMatchCopy, AtBlock
<1>2. ASSUME t.dynamicStage = "readClen" PROVE t.dynI <= t.hclen /\ t.hclen <= Len(ClcIdx)
  <2>1. AtReadClen(t)
    BY <1>1, <1>2 DEF AtTables, AtHlit, AtHdist, AtHclen, AtReadLengths, AtRepeatBits, AtTable
  <2>2. t.hclen \in 4..19 /\ t.dynI \in 0..t.hclen
    BY <2>1 DEF AtReadClen
  <2> QED BY <2>2, TableFacts
<1>3. ASSUME t.dynamicStage = "readLengths" PROVE AtReadLengths(t)
  BY <1>1, <1>3 DEF AtTables, AtHlit, AtHdist, AtHclen, AtReadClen, AtRepeatBits, AtTable
<1>4. ASSUME t.dynamicStage = "repeatBits" PROVE AtRepeatBits(t)
  BY <1>1, <1>4 DEF AtTables, AtHlit, AtHdist, AtHclen, AtReadClen, AtReadLengths, AtTable
<1>5. ASSUME AtReadLengths(t) PROVE Finds(t.tree, t.sym, 19)
  <2>1. InCode(t.tree, t.sym, 19)
    BY <1>5 DEF AtReadLengths, Code
  <2> QED BY <2>1, InCodeFinds
<1>6. ASSUME AtReadLengths(t) \/ AtRepeatBits(t)
      PROVE  t.dynNum <= t.hlit + t.hdist /\ \A i \in 0..t.hlit + t.hdist - 1: t.lengths[i] \in 0..15
  <2>1. t.hlit \in 257..286 /\ t.hdist \in 1..32 /\ t.dynNum \in 0..t.hlit + t.hdist
    BY <1>6 DEF AtReadLengths, AtRepeatBits, Counts
  <2>2. t.lengths \in [0..319 -> 0..15]
    BY DEF Bounded, Sound, Table
  <2>3. \A i \in 0..319: t.lengths[i] \in 0..15
    BY <2>2
  <2>4. ASSUME NEW i \in 0..t.hlit + t.hdist - 1 PROVE t.lengths[i] \in 0..15
    <3>1. i \in 0..319
      BY <2>1
    <3> QED BY <2>3, <3>1
  <2>5. t.dynNum <= t.hlit + t.hdist
    BY <2>1
  <2> QED BY <2>4, <2>5
<1> QED BY <1>2, <1>3, <1>4, <1>5, <1>6

LEMMA DataInBounds ==
  ASSUME NEW t, NEW image, Holds(t, image), t.stage = "blockData"
  PROVE  /\ t.blockStage = "symbol" => Finds(t.ltree, t.sym, 288)
         /\ t.blockStage = "lenExtra" => t.lengthSym + 1 \in DOMAIN LengthBits
         /\ t.blockStage = "distSymbol" => Finds(t.tree, t.sym, 32)
         /\ t.blockStage = "distExtra" => t.distSym + 1 \in DOMAIN DistBits
         /\ t.blockStage = "matchCopy" =>
              /\ t.matchLen > 0 /\ t.matchOffset \in 1..Len(image)
              /\ t.window[Source(t)] = image[Len(image) - t.matchOffset + 1]
<1>1. AtData(t)
  BY DEF Holds, Bounded, Placed, AtBytes, AtType, AtStoredLen, AtStoredData, AtTables, AtHlit, AtHdist,
         AtHclen, AtReadClen, AtReadLengths, AtRepeatBits, AtTable
<1>2. ASSUME t.blockStage = "symbol" PROVE Finds(t.ltree, t.sym, 288)
  <2>1. AtSymbol(t)
    BY <1>1, <1>2 DEF AtData, AtLenExtra, AtDistSymbol, AtDistExtra, AtMatchCopy, AtBlock
  <2>2. InCode(t.ltree, t.sym, 288)
    BY <2>1 DEF AtSymbol, Code
  <2> QED BY <2>2, InCodeFinds
<1>3. ASSUME t.blockStage = "lenExtra" PROVE t.lengthSym + 1 \in DOMAIN LengthBits
  <2>1. AtLenExtra(t)
    BY <1>1, <1>3 DEF AtData, AtSymbol, AtDistSymbol, AtDistExtra, AtMatchCopy, AtBlock
  <2>2. t.lengthSym + 1 \in 1..29
    BY <2>1 DEF AtLenExtra
  <2> QED BY <2>2, TableFacts
<1>4. ASSUME t.blockStage = "distSymbol" PROVE Finds(t.tree, t.sym, 32)
  <2>1. AtDistSymbol(t)
    BY <1>1, <1>4 DEF AtData, AtSymbol, AtLenExtra, AtDistExtra, AtMatchCopy, AtBlock
  <2>2. InCode(t.tree, t.sym, 32)
    BY <2>1 DEF AtDistSymbol, Code
  <2> QED BY <2>2, InCodeFinds
<1>5. ASSUME t.blockStage = "distExtra" PROVE t.distSym + 1 \in DOMAIN DistBits
  <2>1. AtDistExtra(t)
    BY <1>1, <1>5 DEF AtData, AtSymbol, AtLenExtra, AtDistSymbol, AtMatchCopy, AtBlock
  <2>2. t.distSym + 1 \in 1..30
    BY <2>1 DEF AtDistExtra
  <2> QED BY <2>2, TableFacts
<1>6. ASSUME t.blockStage = "matchCopy"
      PROVE  /\ t.matchLen > 0 /\ t.matchOffset \in 1..Len(image)
             /\ t.window[Source(t)] = image[Len(image) - t.matchOffset + 1]
  <2>1. AtMatchCopy(t)
    BY <1>1, <1>6 DEF AtData, AtSymbol, AtLenExtra, AtDistSymbol, AtDistExtra, AtBlock
  <2>2. t.matchLen > 0 /\ t.matchOffset \in 1..WindowSize /\ t.matchOffset <= t.count
    BY <2>1 DEF AtMatchCopy
  <2>3. t.matchOffset \in 1..Len(image) /\ t.matchOffset <= WindowSize
    BY <2>2, LenProperties, WindowFacts DEF Holds, Input
  <2>4. Source(t) = Back(t, t.matchOffset)
    BY DEF Source, Back
  <2> QED BY <2>2, <2>3, <2>4 DEF Holds, Mirrors
<1> QED BY <1>2, <1>3, <1>4, <1>5, <1>6

LEMMA HoldsInBounds == ASSUME BInv PROVE InBounds
<1> SUFFICES ASSUME ~z.failed
             PROVE  InBounds
  BY DEF InBounds
<1>1. Holds(s, Image)
  BY DEF BInv
<1>2. Bounded(s) /\ Sound(s) /\ s.count = Len(Image)
  BY <1>1 DEF Holds, Bounded
<1>3. s.windowPos \in DOMAIN s.window /\ s.count <= s.expected
  <2>1. DOMAIN s.window = 0..WindowSize - 1 /\ s.windowPos \in 0..WindowSize - 1
    BY <1>2 DEF Sound
  <2>2. s.expected \in Nat /\ s.count \in 0..s.expected
    BY <1>2 DEF Sound
  <2> QED BY <2>1, <2>2
<1>4. s.stage = "storedData" => s.storedLen \in Words
  BY <1>2 DEF Bounded, Placed, AtBytes, AtType, AtStoredLen, AtStoredData, AtData, AtSymbol, AtLenExtra,
         AtDistSymbol, AtDistExtra, AtMatchCopy, AtBlock, AtTables, AtHlit, AtHdist, AtHclen, AtReadClen,
         AtReadLengths, AtRepeatBits, AtTable
<1> QED BY <1>1, <1>2, <1>3, <1>4, TablesInBounds, DataInBounds DEF InBounds, Image, Words

(* Whatever bytes arrive, in whatever parts, zlib stream or not: the tables of
   the decoder are read and written only where they have been filled, the trees
   fit their storage, and a copy is of what the image had that many bytes ago,
   also across the end of the window (od_zlib_stream.c:188-204, 300-303,
   338-437, 471-537). *)
THEOREM InBoundsAlways == Spec => []InBounds
<1>1. Init => BInv
  BY InitHolds
<1>2. IInv /\ BInv /\ [Next]_vars => BInv'
  <2>1. IInv => input \in Input /\ (z.failed => pc = "idle")
    BY DEF IInv, TypeOK
  <2> QED BY <2>1, NextHolds
<1>3. BInv => InBounds
  BY HoldsInBounds
<1> QED BY <1>1, <1>2, <1>3, Invariant, PTL DEF Spec
=============================================================================

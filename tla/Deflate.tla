------------------------------ MODULE Deflate ------------------------------
(***************************************************************************)
(* What a zlib stream means, by RFC 1950 and RFC 1951: the reference that  *)
(* Inflate is compared with.  A stream is written down as the tokens it is *)
(* made of; Stream gives its bytes, what it stands for, and how many of    *)
(* the bytes each byte of output, the end and the first error need.        *)
(* Nothing here is translated from the decoder.                            *)
(*                                                                         *)
(*   <<"byte", b>>          a byte of its own, <<"data", b>> one of output *)
(*   <<"bits", n, v>>       n bits                                         *)
(*   <<"block", f, type>>   begins a block, the final one if f = 1         *)
(*   <<"stored", n>>        the length of a stored block                   *)
(*   <<"tables", l, h, d, runs>>  of a dynamic block, with lengths l of    *)
(*                          the code for runs, h literals and d distances  *)
(*   <<"sym", v>>           a literal, 256 for the end of the block, or a  *)
(*                          length; <<"dist", v>> a distance               *)
(*   <<"copy", n, d>>       a copy of n bytes from d bytes back            *)
(***************************************************************************)
EXTENDS Integers, FiniteSets, SequencesExt

(* Folds as recursive functions; Total is f(1) + ... + f(n), by halves. *)
Total(n, f(_)) ==
  LET sum[r \in Int \X Int] ==
        LET m == (r[1] + r[2]) \div 2
        IN  IF r[1] > r[2] THEN 0 ELSE IF r[1] = r[2] THEN f(m) ELSE sum[<<r[1], m>>] + sum[<<m + 1, r[2]>>]
  IN  sum[<<1, n>>]
Fold(Op(_, _), start, seq) ==
  LET acc[i \in Nat] == IF i = 0 THEN start ELSE Op(acc[i - 1], seq[i]) IN acc[Len(seq)]
Concat(seqs) == Fold(LAMBDA a, b: a \o b, <<>>, seqs)

(* n bits of v, the lowest first; a Huffman code has the highest first. *)
Bits(n, v) == [i \in 1..n |-> (v \div 2^(i - 1)) % 2]
Bytes(bits) ==
  LET bit(i) == IF i <= Len(bits) THEN bits[i] ELSE 0
  IN  [k \in 1..((Len(bits) + 7) \div 8) |-> Total(8, LAMBDA i: bit(8 * k - 8 + i) * 2^(i - 1))]

(* The canonical code of symbol v, when symbol t has a code of lengths[t] bits. *)
Code(lengths, v) ==
  LET n == lengths[v]
      before(l) == {t \in DOMAIN lengths : lengths[t] = l /\ (l < n \/ t < v)}
      code == Total(n, LAMBDA l: Cardinality(before(l)) * 2^(n - l))
  IN  [i \in 1..n |-> (code \div 2^(n - i)) % 2]

(***************************************************************************)
(* Copies.                                                                 *)
(***************************************************************************)
CopyExtra(l) == IF l < 8 \/ l = 28 THEN 0 ELSE (l - 4) \div 4
CopyBase(l) == IF l = 28 THEN 258 ELSE 3 + Total(l, LAMBDA k: 2^CopyExtra(k - 1))
DistanceExtra(d) == IF d < 2 THEN 0 ELSE (d - 2) \div 2
DistanceBase(d) == 1 + Total(d, LAMBDA k: 2^DistanceExtra(k - 1))

CopyBits(code, length, distance) ==
  LET l == Max({x \in 0..28 : CopyBase(x) <= length})
      d == Max({x \in 0..29 : DistanceBase(x) <= distance})
  IN  Code(code.lit, 257 + l) \o Bits(CopyExtra(l), length - CopyBase(l))
        \o Code(code.dist, d) \o Bits(DistanceExtra(d), distance - DistanceBase(d))

(***************************************************************************)
(* Codes: the lengths of the literals and lengths, and of the distances.   *)
(***************************************************************************)
FixedCode == [lit |-> [v \in 0..287 |-> IF v < 144 THEN 8 ELSE IF v < 256 THEN 9
                                        ELSE IF v < 280 THEN 7 ELSE 8],
              dist |-> [v \in 0..31 |-> 5]]

(* A run is a length, or <<16, n>>, <<17, n>> or <<18, n>>, n times the length
   before it or 0. *)
Extra(r) == CASE r[1] = 16 -> Bits(2, r[2] - 3) [] r[1] = 17 -> Bits(3, r[2] - 3)
              [] r[1] = 18 -> Bits(7, r[2] - 11) [] OTHER -> <<>>
Expand(runs) ==
  Fold(LAMBDA a, r: a \o CASE r[1] = 16 -> [i \in 1..r[2] |-> a[Len(a)]]
                          [] r[1] > 16 -> [i \in 1..r[2] |-> 0] [] OTHER -> <<r[1]>>,
       <<>>, runs)
DynamicCode(h, runs) ==
  LET all == Expand(runs)
      length(i) == IF i <= Len(all) THEN all[i] ELSE 0
  IN  [lit |-> [v \in 0..(h - 1) |-> length(v + 1)], dist |-> [v \in 0..31 |-> length(h + v + 1)]]

Order == <<16, 17, 18, 0, 8, 7, 9, 6, 10, 5, 11, 4, 12, 3, 13, 2, 14, 1, 15>>
TableBits(l, h, d, runs) ==
  LET lengths == [v \in 0..18 |-> l[v + 1]]
  IN  Bits(5, h - 257) \o Bits(5, d - 1) \o Bits(4, 15)
        \o Concat([i \in 1..19 |-> Bits(3, lengths[Order[i]])])
        \o Concat([i \in 1..Len(runs) |-> Code(lengths, runs[i][1]) \o Extra(runs[i])])

(***************************************************************************)
(* Streams.                                                                *)
(***************************************************************************)
TokenBits(code, t) ==
  CASE t[1] \in {"byte", "data"} -> Bits(8, t[2])
    [] t[1] = "bits" -> Bits(t[2], t[3])
    [] t[1] = "block" -> Bits(1, t[2]) \o Bits(2, t[3])
    [] t[1] = "stored" -> Bits(16, t[2]) \o Bits(16, 65535 - t[2])
    [] t[1] = "tables" -> TableBits(t[2], t[3], t[4], t[5])
    [] t[1] = "sym" -> Code(code.lit, t[2])
    [] t[1] = "dist" -> Code(code.dist, t[2])
    [] t[1] = "copy" -> CopyBits(code, t[2], t[3])

CodeAfter(code, t) == CASE t[1] = "block" -> FixedCode [] t[1] = "tables" -> DynamicCode(t[3], t[5])
                        [] OTHER -> code

Produces(out, t) ==
  CASE t[1] = "data" \/ (t[1] = "sym" /\ t[2] < 256) -> <<t[2]>>
    [] t[1] = "copy" /\ t[3] <= Len(out) -> [i \in 1..t[2] |-> out[Len(out) - t[3] + 1 + ((i - 1) % t[3])]]
    [] OTHER -> <<>>

Extend(a, code, bits, more, wrong) ==
  LET need == (Len(bits) + 7) \div 8
  IN  [a EXCEPT !.bits = bits, !.code = code, !.out = @ \o more,
                !.needs = @ \o [i \in 1..Len(more) |-> need],
                !.bad = IF @ = 0 /\ (wrong \/ Len(a.out) + Len(more) > a.limit) THEN need ELSE @]
Add(a, t) ==
  LET fill == IF t[1] \in {"byte", "data", "stored"} THEN (8 - (Len(a.bits) % 8)) % 8 ELSE 0
  IN  Extend(a, CodeAfter(a.code, t), a.bits \o Bits(fill, 0) \o TokenBits(a.code, t),
             Produces(a.out, t), t[1] = "copy" /\ t[3] > Len(a.out))

Halves(s1, s2) == <<s2 \div 256, s2 % 256, s1 \div 256, s1 % 256>>
Checksum(data) ==
  LET n == Len(data)
  IN  Halves((1 + Total(n, LAMBDA i: data[i])) % 65521,
             (n + Total(n, LAMBDA i: (n + 1 - i) * data[i])) % 65521)

(* The stream d.tokens for an image of d.limit bytes.  If d.wrong the last
   token is an error; d.off is added to the checksum, and d.trailing follows. *)
Ends(d, data, sum, bytes) ==
  [bytes |-> bytes \o [i \in 1..4 |-> IF i = 4 THEN (sum[4] + d.off) % 256 ELSE sum[i]] \o d.trailing,
   limit |-> d.limit, out |-> data.out, needs |-> data.needs, size |-> Len(bytes) + 4,
   bad |-> IF data.bad > 0 THEN data.bad ELSE IF d.wrong THEN Len(bytes)
           ELSE IF d.off # 0 \/ Len(data.out) # d.limit THEN Len(bytes) + 4 ELSE Len(bytes) + 5]
Closed(d, data) == Ends(d, data, Checksum(data.out), Bytes(data.bits))
Stream(d) == Closed(d, Fold(Add, [bits |-> <<>>, out |-> <<>>, needs |-> <<>>, bad |-> 0, limit |-> d.limit,
                                  code |-> FixedCode], d.tokens))
=============================================================================

------------------------------ MODULE Inflate ------------------------------
(***************************************************************************)
(* The decompressor adapter apps/opendisplay/src/inflate.c around the zlib *)
(* decoder, see ZlibStream.  A compressed image arrives in DATA commands   *)
(* that cut it anywhere; each is decoded as far as it goes, through a      *)
(* buffer of 16 bytes, and the decoder goes on with the next.  WholeStream *)
(* is what that must amount to.                                            *)
(***************************************************************************)
EXTENDS ZlibStream

CONSTANTS Sent,     \* the streams a client may send, and what they mean, see Deflate
          Sizes,    \* of the parts they are cut into
          Capacity  \* of the buffer of od_inflate_feed, 16

Streams == Sent

ASSUME InflateAssumption ==
  /\ Sizes \subseteq Nat /\ Capacity \in Nat \ {0}
  /\ \A i \in DOMAIN Streams: /\ Streams[i].bytes \in Seq(0..255)
                              /\ Streams[i].limit \in Nat /\ Streams[i].bad \in Nat

VARIABLES
  s,       \* od_zlib_stream_state_t
  input,   \* its input, of which input_remaining bytes are left
  z,       \* struct od_inflate
  pc,      \* "idle" between two calls of od_inflate_feed, else "poll"
  output,  \* od_inflate_feed: output[0..produced)
  emitted, \* history: what was handed to emit
  which,   \* the stream being sent, and
  fed      \* how many of its bytes the decoder has been given

vars == <<s, input, z, pc, output, emitted, which, fed>>

-----------------------------------------------------------------------------
(***************************************************************************)
(* od_inflate_feed: the loop around od_zlib_stream_poll.                   *)
(***************************************************************************)
(* mutant of Returns: output that does not fill the buffer is not handed on *)
ReturnsEarly(done) == /\ z' = [done |-> done, failed |-> FALSE] /\ pc' = "idle"
                      /\ output' = <<>> /\ UNCHANGED emitted

(* OD_ZLIB_STATUS_NEEDS_INPUT or OD_ZLIB_STATUS_DONE *)
Returns(done) == /\ z' = [done |-> done, failed |-> FALSE] /\ pc' = "idle"
                 /\ emitted' = emitted \o output /\ output' = <<>>

(* OD_ZLIB_STATUS_ERROR: the output of this poll is lost.  Input that is left
   is never looked at again, as od_inflate_feed comes back at once. *)
Broken == /\ z' = [done |-> FALSE, failed |-> TRUE] /\ pc' = "idle" /\ input' = <<>>
          /\ output' = <<>> /\ UNCHANGED emitted

(* A step of od_zlib_stream_poll, which has room for a byte. *)
Decode ==
  /\ pc = "poll" /\ Len(output) < Capacity /\ s.stage # "done"
  /\ LET r == Step(s, input)
     IN  /\ s' = r.t
         /\ \/ r.how = "goes" /\ input' = r.left /\ UNCHANGED <<z, pc, output, emitted>>
            \/ r.how = "puts" /\ input' = r.left /\ output' = Append(output, r.byte)
                              /\ UNCHANGED <<z, pc, emitted>>
            \/ r.how = "starves" /\ input' = r.left /\ Returns(z.done)
            \/ r.how = "fails" /\ Broken
  /\ UNCHANGED <<which, fed>>

(* OD_ZLIB_STATUS_OUTPUT_READY with a full buffer *)
Emit == /\ pc = "poll" /\ Len(output) = Capacity
        /\ emitted' = emitted \o output /\ output' = <<>>
        /\ UNCHANGED <<s, input, z, pc, which, fed>>

(* OD_ZLIB_STATUS_DONE *)
Finish == /\ pc = "poll" /\ Len(output) < Capacity /\ s.stage = "done"
          /\ Returns(TRUE)
          /\ UNCHANGED <<s, input, which, fed>>

(* od_inflate_feed with the next n bytes or what is left of them;
   od_zlib_stream_push refuses them after the end or when others are left. *)
Feed(size) ==
  LET bytes == Streams[which].bytes
      left == Len(bytes) - fed
      n == IF size < left THEN size ELSE left
  IN  /\ pc = "idle" /\ ~z.failed
      /\ fed' = fed + n
      /\ IF input # <<>> \/ (s.stage = "done" /\ n > 0)
         THEN /\ s' = [s EXCEPT !.stage = "error"] /\ z' = [done |-> FALSE, failed |-> TRUE]
              /\ UNCHANGED <<input, pc>>
         ELSE /\ input' = SubSeq(bytes, fed + 1, fed + n) /\ pc' = "poll"
              /\ UNCHANGED <<s, z>>
      /\ UNCHANGED <<output, emitted, which>>

(* od_inflate_init for the next transfer, wherever the last one was left *)
Reset ==
  /\ pc = "idle"
  /\ which' \in DOMAIN Streams /\ s' = Fresh(Streams[which'].limit) /\ input' = <<>>
  /\ z' = [done |-> FALSE, failed |-> FALSE] /\ output' = <<>> /\ emitted' = <<>> /\ fed' = 0
  /\ UNCHANGED pc

Poll == Decode \/ Emit \/ Finish

Init == /\ which \in DOMAIN Streams /\ s = Fresh(Streams[which].limit) /\ input = <<>>
        /\ z = [done |-> FALSE, failed |-> FALSE] /\ pc = "idle"
        /\ output = <<>> /\ emitted = <<>> /\ fed = 0

Next == Poll \/ Reset \/ \E size \in Sizes: Feed(size)

(* od_inflate_feed does not wait for anything. *)
Spec == Init /\ [][Next]_vars /\ WF_vars(Poll)
-----------------------------------------------------------------------------
Meaning == Streams[which]
(* The output that the bytes received stand for. *)
Known == {i \in DOMAIN Meaning.out : Meaning.needs[i] <= fed}

(* Whatever the parts a stream is cut into, and whatever was decoded or broken
   off before it, the bytes handed on after each part are exactly those that
   the bytes received so far stand for (od_zlib_stream.c:236-325). *)
Faithful == pc = "idle" /\ ~z.failed => emitted = [i \in Known |-> Meaning.out[i]]

(* A stream is taken for complete when all of it has arrived and nothing after
   it, and for wrong as soon as the bytes received show it, wherever they are
   cut: a header, table, code, distance, size or checksum that is not right,
   or bytes after the end in the same part or a later one. *)
Verdict == pc = "idle" => /\ z.failed <=> fed >= Meaning.bad
                          /\ z.done <=> fed = Meaning.size /\ fed < Meaning.bad

(* Whatever the next bit, a code that ends with it is one of a symbol that
   build_tree has put into trans, and the tree fits its storage. *)
Finds(tree, sym, size) ==
  /\ Len(tree.trans) <= size /\ sym.len \in 0..15
  /\ sym.len < 15 =>
       \A bit \in {0, 1}:
         LET cur == 2 * sym.cur + bit - tree.table[sym.len + 1]
         IN  cur < 0 => sym.sum + tree.table[sym.len + 1] + cur + 1 \in DOMAIN tree.trans

(* The tables of the decoder are read and written only where they have been
   filled, also by a stream that is wrong, and a copy is of what this image has
   had that many bytes ago, also across the end of the window: the errors of
   od_zlib_stream.c:188-204 and 300-303 and a distance that leads back before
   the image cannot happen (od_zlib_stream.c:338-437, 471-537). *)
InBounds ==
  LET image == emitted \o output
  IN  ~z.failed =>
        /\ s.windowPos \in DOMAIN s.window /\ s.count = Len(image) /\ s.count <= s.expected
        /\ s.stage = "dynamicTrees" =>
             /\ s.dynamicStage = "readClen" => s.dynI <= s.hclen /\ s.hclen <= Len(ClcIdx)
             /\ s.dynamicStage = "readLengths" => Finds(s.tree, s.sym, 19)
             /\ s.dynamicStage \in {"readLengths", "repeatBits"} =>
                  s.dynNum <= s.hlit + s.hdist /\ \A i \in 0..s.hlit + s.hdist - 1: s.lengths[i] \in 0..15
        /\ s.stage = "storedData" => s.storedLen \in 0..2^16 - 1
        /\ s.stage = "blockData" =>
             /\ s.blockStage = "symbol" => Finds(s.ltree, s.sym, 288)
             /\ s.blockStage = "lenExtra" => s.lengthSym + 1 \in DOMAIN LengthBits
             /\ s.blockStage = "distSymbol" => Finds(s.tree, s.sym, 32)
             /\ s.blockStage = "distExtra" => s.distSym + 1 \in DOMAIN DistBits
             /\ s.blockStage = "matchCopy" =>
                  /\ s.matchLen > 0 /\ s.matchOffset \in 1..Len(image)
                  /\ s.window[Source(s)] = image[Len(image) - s.matchOffset + 1]

(* The decoder as WholeStream sees it: bytes not given to it are only ahead,
   and a reader that has not read anything yet has not begun. *)
Unread(t) == [t EXCEPT !.readBits = IF @.pos = 0 THEN ReadBitsIdle ELSE @,
                       !.sym = IF @.len = 0 THEN SymIdle ELSE @]
Decoder == IF z.failed THEN [Fresh(0) EXCEPT !.stage = "error"] ELSE Unread(s)
Ahead == input \o SubSeq(Meaning.bytes, fed + 1, Len(Meaning.bytes))
Decoded == IF z.failed THEN <<>> ELSE emitted \o output

Whole == INSTANCE WholeStream WITH
           Sent <- Streams, Decode <- Step, Begin <- Fresh,
           state <- Decoder, ahead <- Ahead, written <- Decoded

(* The parts do not matter: decoding them one after the other, whatever their
   sizes and wherever the decoder has to stop in between, is decoding the whole
   stream byte by byte (od_zlib_stream.c:228-306, inflate.c:9-37). *)
WholeSpec == Whole!Spec

(* od_inflate_feed comes back to the display task: it neither waits for input
   it was not given nor goes round without any. *)
ComesBack == pc = "poll" ~> pc = "idle"
=============================================================================

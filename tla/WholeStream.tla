---------------------------- MODULE WholeStream ----------------------------
(***************************************************************************)
(* What decoding a stream in parts must amount to: the bytes are there     *)
(* from the beginning, the decoder takes one whenever it can do nothing    *)
(* without, and there are neither parts nor buffers.  What the decoder     *)
(* does with a byte is a parameter.                                        *)
(***************************************************************************)
EXTENDS Integers, Sequences

CONSTANTS Sent,         \* as in Inflate
          Decode(_, _), \* Step of ZlibStream
          Begin(_)      \* Fresh of ZlibStream

Streams == Sent

VARIABLES
  state,   \* the decoder's
  ahead,   \* bytes it has not taken
  written, \* what it has put out, forgotten with the first error
  which    \* the stream

vars == <<state, ahead, written, which>>

Broken == [Begin(0) EXCEPT !.stage = "error"]

Open == state.stage \notin {"done", "error"}
Hungry == Open /\ Decode(state, <<>>).how = "starves"
Decoding == Open /\ (Hungry => ahead # <<>>)

(* The byte it takes, if any, and those after it. *)
Taken == IF Hungry THEN <<Head(ahead)>> ELSE <<>>
Rest == IF Hungry THEN Tail(ahead) ELSE ahead

(* With an error all is over, whatever else has arrived by then. *)
Breaks(least) == /\ state' = Broken /\ written' = <<>>
                 /\ \E n \in least..Len(Rest): ahead' = SubSeq(Rest, n + 1, Len(Rest))

Decodes ==
  /\ Decoding
  /\ LET r == Decode(state, Taken)
     IN  \/ r.how = "goes" /\ state' = r.t /\ ahead' = Rest /\ written' = written
         \/ r.how = "puts" /\ state' = r.t /\ ahead' = Rest /\ written' = Append(written, r.byte)
         \/ r.how = "fails" /\ Breaks(0)
  /\ UNCHANGED which

(* Bytes after the end: found when they arrive, or together with the end. *)
Refuses ==
  /\ \/ state.stage = "done"
     \/ Decoding /\ Decode(state, Taken).t.stage = "done"
  /\ Breaks(1)
  /\ UNCHANGED which

Start == /\ which' \in DOMAIN Streams
         /\ state' = Begin(Streams[which'].limit) /\ ahead' = Streams[which'].bytes /\ written' = <<>>

Init == /\ which \in DOMAIN Streams
        /\ state = Begin(Streams[which].limit) /\ ahead = Streams[which].bytes /\ written = <<>>

Next == Decodes \/ Refuses \/ Start

Spec == Init /\ [][Next]_vars
-----------------------------------------------------------------------------
Meaning == Streams[which]
Received == Len(Meaning.bytes) - Len(ahead)
Known == {i \in DOMAIN Meaning.out : Meaning.needs[i] <= Received}

(* The decoder is right about every stream that it gets byte by byte: whenever
   it needs another byte or has come to the end, its output is what the bytes
   before stand for, it is at the end if and only if the stream is, and it
   stops at the byte that shows an error and not before. *)
Right == IF state.stage = "error" THEN Received >= Meaning.bad
         ELSE state.stage = "done" \/ Hungry =>
                /\ written = [i \in Known |-> Meaning.out[i]]
                /\ Received < Meaning.bad
                /\ state.stage = "done" <=> Received = Meaning.size
=============================================================================

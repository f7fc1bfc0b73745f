----------------------------- MODULE PipeWindow -----------------------------
(***************************************************************************)
(* The PIPE transfer of apps/opendisplay/src/protocol.c: START (0x80)      *)
(* negotiates a window of one or two frames, DATA (0x81) carries numbered  *)
(* chunks of the image, the device answers with selective acknowledgements *)
(* and END (0x82), or the last DATA of a raw frame, refreshes the panel.   *)
(*                                                                         *)
(* The device executes one command at a time, so a command is one action.  *)
(* It comes from the two command slots of main.c, "inbox": a write without *)
(* response that finds them taken is lost.  A response the host cannot     *)
(* deliver is a send that fails.  The client is external: it keeps to the  *)
(* negotiated window and may resend whatever is not acknowledged.          *)
(*                                                                         *)
(* A chunk is its index in the image; its sequence number is that index    *)
(* modulo Modulus.  A raw or partial image is as long as its chunks; a     *)
(* compressed one has a last chunk (the checksum) that yields no output.   *)
(***************************************************************************)
EXTENDS Integers, Sequences, FiniteSets, FiniteSetsExt

CONSTANTS Modulus,     \* 256
          Recent,      \* 32, the frames the mask can name
          MaxWindow,   \* 2
          InboxSize,   \* the two command slots
          Chunks,      \* DATA frames of an image
          Kinds,       \* some of "raw", "compressed", "partial"
          Windows,     \* windows and acknowledgement intervals a client asks for
          MaxStarts,   \* bound: transfers
          MaxOutbox,   \* bound: responses on their way before the device goes on
          Faults,      \* whether the panel, the decompressor and sends may fail
          Lossy        \* whether a client writes without response and resends: a set of answers

(* There is one buffer for an early frame, so a window is at most two. *)
ASSUME PipeAssumption ==
  /\ Modulus \in Nat /\ Modulus % 2 = 0 /\ Recent \in 1..Modulus \div 2
  /\ MaxWindow \in 1..2 /\ MaxWindow <= Recent /\ 2 * MaxWindow < Modulus
  /\ InboxSize \in Nat \ {0}
  /\ Chunks \in Nat \ {0, 1} /\ MaxStarts \in Nat
  /\ MaxOutbox \in Nat \ {0}
  /\ Kinds \subseteq {"raw", "compressed", "partial"} /\ Windows \subseteq Nat \ {0}
  /\ Faults \in BOOLEAN /\ Lossy \subseteq BOOLEAN

VARIABLES
  s,         \* struct od_session
  refreshes, \* panel refreshes since START
  inbox,     \* commands accepted and not yet executed
  outbox,    \* responses on their way
  client,    \* the client's state: phase, lossy, acked, sent, window, kind
  starts,    \* STARTs the client has sent
  excuse     \* history: something that justifies refusing frames of this transfer

vars == <<s, refreshes, inbox, outbox, client, starts, excuse>>

SeqOf(i) == i % Modulus
Frames == 0..Chunks - 1

(* (int8_t)(a - b) *)
Delta(a, b) == LET d == (a - b) % Modulus
               IN  IF 2 * d < Modulus THEN d ELSE d - Modulus

NoPending == [used |-> FALSE, seq |-> 0, chunk |-> 0]

(* s->written when n chunks have gone through stream(). *)
Total(kind) == IF kind = "compressed" THEN Chunks - 1 ELSE Chunks
Output(kind, n) == IF n < Total(kind) THEN n ELSE Total(kind)

-----------------------------------------------------------------------------
(***************************************************************************)
(* Session updates.                                                        *)
(***************************************************************************)
Aborted(t) == [t EXCEPT !.active = FALSE, !.written = 0, !.pending = NoPending]

(* stream() and ++s->next *)
Consumed(t, chunk) ==
  [t EXCEPT !.panel = Append(@, chunk),
            !.written = Output(t.kind, Len(t.panel) + 1),
            !.next = (@ + 1) % Modulus]

(* What the panel and the decompressor refuse: anything past the end. *)
Fits(t) == Len(t.panel) < Chunks

Drain(t) == t.pending.used /\ t.pending.seq = t.next
(* mutant of Drained: the buffer is not released *)
DrainedKeeps(t) == IF Drain(t) THEN Consumed(t, t.pending.chunk) ELSE t
Drained(t) == IF Drain(t) THEN Consumed([t EXCEPT !.pending = NoPending], t.pending.chunk) ELSE t

(* mutant of Recorded: the shift loses the old highest *)
RecordedShiftOnly(t, seq) ==
  LET d == Delta(seq, t.highest)
  IN  CASE ~t.seen -> [t EXCEPT !.highest = seq, !.mask = {}, !.seen = TRUE]
        [] t.seen /\ d > 0 ->
             [t EXCEPT !.highest = seq, !.mask = {k + d : k \in @} \cap 0..Recent - 1]
        [] t.seen /\ d < 0 /\ d >= -Recent -> [t EXCEPT !.mask = @ \cup {-d - 1}]
        [] OTHER -> t

(* mutant of Recorded: the bit of the old highest is always the lowest *)
RecordedLowest(t, seq) ==
  LET d == Delta(seq, t.highest)
  IN  CASE ~t.seen -> [t EXCEPT !.highest = seq, !.mask = {}, !.seen = TRUE]
        [] t.seen /\ d > 0 ->
             [t EXCEPT !.highest = seq,
                       !.mask = ({k + d : k \in @} \cup {0}) \cap 0..Recent - 1]
        [] t.seen /\ d < 0 /\ d >= -Recent -> [t EXCEPT !.mask = @ \cup {-d - 1}]
        [] OTHER -> t

(* highest and mask: bit k of the mask stands for frame highest - 1 - k. *)
Recorded(t, seq) ==
  LET d == Delta(seq, t.highest)
  IN  CASE ~t.seen -> [t EXCEPT !.highest = seq, !.mask = {}, !.seen = TRUE]
        [] t.seen /\ d > 0 ->
             [t EXCEPT !.highest = seq,
                       !.mask = ({k + d : k \in @} \cup {d - 1}) \cap 0..Recent - 1]
        [] t.seen /\ d < 0 /\ d >= -Recent -> [t EXCEPT !.mask = @ \cup {-d - 1}]
        [] OTHER -> t

Sack(t, error) == [op |-> "sack", error |-> error, highest |-> t.highest, mask |-> t.mask]

Reply(op) == [op |-> op]

(***************************************************************************)
(* Outcomes of a command.  Each fixes s, outbox, refreshes and excuse.     *)
(***************************************************************************)
Quiet(t) == s' = t /\ UNCHANGED <<refreshes, outbox, excuse>>

(* goto fail: the error SACK, delivered or not, and the transfer is over. *)
Fail(t, fault) ==
  /\ s' = [Aborted(t) EXCEPT !.failed = TRUE, !.sinceAck = 0]
  /\ \/ outbox' = Append(outbox, Sack(t, TRUE))
     \/ Faults /\ UNCHANGED outbox
  /\ excuse' = (excuse \/ fault)
  /\ UNCHANGED refreshes

(* A send that fails ends the transfer. *)
SendFails(t) == /\ Faults
                /\ s' = Aborted(t)
                /\ excuse' = TRUE
                /\ UNCHANGED <<outbox, refreshes>>

(* finish, after "replies" were sent *)
Finish(t, replies) ==
  \/ \E result \in IF Faults THEN {"refreshed", "timeout"} ELSE {"refreshed"}:
       /\ s' = [t EXCEPT !.active = FALSE, !.written = 0]
       /\ refreshes' = refreshes + 1
       /\ \/ outbox' = outbox \o replies \o <<Reply("end"), Reply(result)>>
          \/ Faults /\ outbox' = outbox \o replies \o <<Reply("end")>>
       /\ excuse' = TRUE
  \/ /\ Faults
     /\ s' = Aborted(t)
     /\ outbox' = outbox \o replies
     /\ excuse' = TRUE
     /\ UNCHANGED refreshes

SackDue(t) == t.sinceAck >= t.ackEvery \/ t.written = Total(t.kind)
AutoFinish(t) == t.kind = "raw" /\ t.written = Total(t.kind) /\ ~t.pending.used

-----------------------------------------------------------------------------
(***************************************************************************)
(* Commands.                                                               *)
(***************************************************************************)
(* The next command; the display task waits until responses have left. *)
Execute(op) == /\ inbox # <<>> /\ Head(inbox).op = op
             /\ Len(outbox) < MaxOutbox
             /\ inbox' = Tail(inbox)
             /\ UNCHANGED <<client, starts>>

Fresh(kind, window, ackEvery) ==
  [active |-> TRUE, failed |-> FALSE, seen |-> FALSE, next |-> 0, highest |-> 0, mask |-> {},
   window |-> window, ackEvery |-> ackEvery, sinceAck |-> 0, pending |-> NoPending,
   written |-> 0, kind |-> kind, panel |-> <<>>]

Smaller(a, b) == Min({a, b})

(* mutant of AckEvery: not limited to the negotiated window *)
AckEveryAsked(m) == Smaller(m.ackEvery, MaxWindow)
AckEvery(m) == Smaller(m.ackEvery, Smaller(m.window, MaxWindow))

Start ==
  /\ Execute("start")
  /\ LET m == Head(inbox)
         t == Fresh(m.kind, Smaller(m.window, MaxWindow), AckEvery(m))
     IN  \/ /\ s' = t
            /\ outbox' = Append(outbox, [op |-> "started", window |-> t.window])
            /\ excuse' = FALSE
         \/ /\ Faults \* epd_begin failed
            /\ s' = [Aborted(t) EXCEPT !.failed = TRUE]
            /\ outbox' \in {Append(outbox, Reply("startError")), outbox}
            /\ excuse' = TRUE
         \/ /\ Faults \* the reply was not delivered
            /\ s' = Aborted(t)
            /\ excuse' = TRUE
            /\ UNCHANGED outbox
  /\ refreshes' = 0

Chunk == Head(inbox).chunk
Ahead == Delta(SeqOf(Chunk), s.next)

DataIgnored == /\ Execute("data") /\ s.failed
               /\ Quiet(s)

Stale == s.active /\ s.seen /\ Ahead < 0 /\ Ahead >= -Recent
(* mutant of InWindow: off by one *)
InWindowShort == s.active /\ Ahead \in {0} \cup 0..s.window - 2
InWindow == s.active /\ Ahead \in 0..s.window - 1

(* What the pending buffer already holds, the frame must repeat. *)
Early == [used |-> TRUE, seq |-> SeqOf(Chunk), chunk |-> Chunk]
Clash == Ahead > 0 /\ s.pending.used /\ s.pending # Early

DataRefused == /\ Execute("data") /\ ~s.failed
               /\ ~Stale /\ (InWindow => Clash)
               /\ Fail(s, FALSE)

(* A repetition is only acknowledged again. *)
DataStale == /\ Execute("data") /\ ~s.failed /\ Stale
             /\ \/ /\ s' = [s EXCEPT !.sinceAck = 0]
                   /\ outbox' = Append(outbox, Sack(s, FALSE))
                   /\ UNCHANGED <<refreshes, excuse>>
                \/ SendFails([s EXCEPT !.sinceAck = 0])

(* mutant of Taken: an early frame is not put aside *)
TakenAtOnce == Consumed(s, Chunk)

(* The expected frame goes to the panel, an early one to the buffer. *)
Taken == IF Ahead = 0 THEN Consumed(s, Chunk) ELSE [s EXCEPT !.pending = Early]
Noted == Recorded(Taken, SeqOf(Chunk))

Acceptable == Execute("data") /\ ~s.failed /\ InWindow /\ ~Clash

DataStreamFails ==
  /\ Acceptable
  /\ \/ Ahead = 0 /\ (Faults \/ ~Fits(s)) /\ Fail(s, Faults)
     \/ (Ahead = 0 => Fits(s)) /\ Drain(Noted) /\ (Faults \/ ~Fits(Noted)) /\ Fail(Noted, Faults)

DataAccepted ==
  /\ Acceptable
  /\ Ahead = 0 => Fits(s)
  /\ Drain(Noted) => Fits(Noted)
  /\ LET t == [Drained(Noted) EXCEPT !.sinceAck = @ + 1]
         acked == [t EXCEPT !.sinceAck = 0]
     IN  \/ ~SackDue(t) /\ Quiet(t)
         \/ SackDue(t) /\ SendFails(acked)
         \/ /\ SackDue(t) /\ ~AutoFinish(t)
            /\ s' = acked
            /\ outbox' = Append(outbox, Sack(t, FALSE))
            /\ UNCHANGED <<refreshes, excuse>>
         \/ SackDue(t) /\ AutoFinish(t) /\ Finish(acked, <<Sack(t, FALSE)>>)

(* The image has arrived and the stream is at its end. *)
Complete == /\ s.active /\ s.written = Total(s.kind)
            /\ s.kind = "compressed" => Len(s.panel) = Chunks
            /\ ~s.pending.used

End ==
  /\ Execute("end")
  /\ LET tail == IF s.active /\ s.seen THEN <<Sack(s, FALSE)>> ELSE <<>>
         t == IF s.active /\ s.seen THEN [s EXCEPT !.sinceAck = 0] ELSE s
     IN  \/ tail # <<>> /\ SendFails(t)
         \/ Complete /\ Finish(t, tail)
         \/ /\ ~Complete
            /\ s' = Aborted(t)
            /\ \/ outbox' = outbox \o tail \o <<Reply("endError")>>
               \/ Faults /\ outbox' = outbox \o tail
            /\ excuse' = TRUE
            /\ UNCHANGED refreshes

Device == Start \/ DataIgnored \/ DataRefused \/ DataStale \/ DataStreamFails
          \/ DataAccepted \/ End

-----------------------------------------------------------------------------
(***************************************************************************)
(* The client.                                                             *)
(***************************************************************************)
DeviceUnchanged == UNCHANGED <<s, refreshes, excuse>>

Room == Len(inbox) < InboxSize

SendStart ==
  /\ client.phase \in {"idle", "done", "failed"} /\ starts < MaxStarts /\ Room
  /\ starts' = starts + 1
  /\ \E kind \in Kinds, window, ackEvery \in Windows, lossy \in Lossy:
       /\ inbox' = Append(inbox, [op |-> "start", kind |-> kind, window |-> window,
                                  ackEvery |-> ackEvery])
       /\ client' = [phase |-> "starting", lossy |-> lossy, kind |-> kind, acked |-> {},
                      sent |-> 0, window |-> 0]
  /\ DeviceUnchanged /\ UNCHANGED outbox

Base == Min((Frames \ client.acked) \cup {Chunks})

(* The next frame of the window, or, if writes may be lost, one again. *)
MaySend(i) == /\ client.phase = "sending"
              /\ i \in Base..Base + client.window - 1
              /\ i \notin client.acked
              /\ i = client.sent \/ (client.lossy /\ i < client.sent)

SendData(i) ==
  /\ MaySend(i)
  /\ \/ Room /\ inbox' = Append(inbox, [op |-> "data", chunk |-> i])
     \/ ~Room /\ client.lossy /\ UNCHANGED inbox
  /\ client' = [client EXCEPT !.sent = IF i = @ THEN i + 1 ELSE @]
  /\ DeviceUnchanged /\ UNCHANGED <<outbox, starts>>

SendEnd ==
  /\ client.phase = "sending" /\ client.kind # "raw" /\ Room
  /\ Faults \/ client.acked = Frames
  /\ inbox' = Append(inbox, [op |-> "end"])
  /\ client' = [client EXCEPT !.phase = "ending"]
  /\ DeviceUnchanged /\ UNCHANGED <<outbox, starts>>

(* The frame a sequence number means: the nearest to what is outstanding. *)
Named(seq) == LET i == Base + Delta(seq, SeqOf(Base)) IN i
AckedBy(m) == ({Named(m.highest)} \cup {Named(m.highest) - 1 - k : k \in m.mask}) \cap Frames

Heard(m) ==
  CASE client.phase = "starting" /\ m.op = "started" ->
         [client EXCEPT !.phase = "sending", !.window = m.window]
    [] client.phase = "starting" /\ m.op = "startError" -> [client EXCEPT !.phase = "failed"]
    [] client.phase \in {"sending", "ending"} /\ m.op = "sack" ->
         IF m.error THEN [client EXCEPT !.phase = "failed"]
         ELSE [client EXCEPT !.acked = @ \cup AckedBy(m)]
    [] client.phase \in {"sending", "ending"} /\ m.op = "refreshed" -> [client EXCEPT !.phase = "done"]
    [] client.phase \in {"sending", "ending"} /\ m.op \in {"timeout", "endError"} ->
         [client EXCEPT !.phase = "failed"]
    [] OTHER -> client

Receive ==
  /\ outbox # <<>>
  /\ client' = Heard(Head(outbox))
  /\ outbox' = Tail(outbox)
  /\ DeviceUnchanged /\ UNCHANGED <<inbox, starts>>

(* An answer does not come: the client drops the connection, and what was
   under way goes with it (reset_link and abort_work of main.c, see Link). *)
GiveUp ==
  /\ Faults /\ client.phase \in {"starting", "sending", "ending"}
  /\ client' = [client EXCEPT !.phase = "failed"]
  /\ inbox' = <<>> /\ outbox' = <<>>
  /\ s' = Aborted(s) /\ excuse' = TRUE
  /\ UNCHANGED <<refreshes, starts>>

Init ==
  /\ s = [Fresh("raw", 1, 1) EXCEPT !.active = FALSE]
  /\ refreshes = 0 /\ inbox = <<>> /\ outbox = <<>>
  /\ client = [phase |-> "idle", lossy |-> FALSE, kind |-> "raw", acked |-> {}, sent |-> 0, window |-> 0]
  /\ starts = 0 /\ excuse = FALSE

Client == SendStart \/ (\E i \in Frames: SendData(i)) \/ SendEnd \/ Receive \/ GiveUp

Next == Device \/ Client
Spec == Init /\ [][Next]_vars

(* The display task works, and a client that waits for an acknowledgement
   goes on sending what is missing until it finds room. *)
FairSpec == /\ Spec
            /\ WF_vars(Device) /\ WF_vars(Receive) /\ WF_vars(SendEnd)
            /\ SF_vars(Room /\ \E i \in Frames: SendData(i))
-----------------------------------------------------------------------------
(***************************************************************************)
(* Properties.                                                             *)
(***************************************************************************)
Responses == [op : {"startError", "end", "refreshed", "timeout", "endError"}]
               \cup [op : {"started"}, window : 1..MaxWindow]
               \cup [op : {"sack"}, error : BOOLEAN, highest : 0..Modulus - 1,
                     mask : SUBSET (0..Recent - 1)]

(* Types; since_ack never passes the interval that was agreed. *)
TypeOK ==
  /\ s.active \in BOOLEAN /\ s.failed \in BOOLEAN /\ s.seen \in BOOLEAN
  /\ s.next \in 0..Modulus - 1 /\ s.highest \in 0..Modulus - 1
  /\ s.mask \subseteq 0..Recent - 1
  /\ s.window \in 1..MaxWindow /\ s.ackEvery \in 1..s.window
  /\ s.sinceAck \in 0..s.ackEvery
  /\ s.pending \in [used : BOOLEAN, seq : 0..Modulus - 1, chunk : Frames]
  /\ s.written \in 0..Chunks
  /\ s.panel \in Seq(Frames)
  /\ refreshes \in Nat /\ starts \in 0..MaxStarts /\ excuse \in BOOLEAN
  /\ \A k \in DOMAIN outbox: outbox[k] \in Responses
  /\ Len(inbox) <= InboxSize /\ Len(outbox) <= MaxOutbox + 2
  /\ client.acked \subseteq Frames /\ client.sent \in 0..Chunks

(* The panel gets the chunks in order, each once, however frames are lost,
   repeated or overtaken, and also when their numbers come round again
   (protocol.c:117-167). *)
InOrder == s.panel = [k \in 1..Len(s.panel) |-> k - 1]

(* One buffer is enough: an early frame is always the one after the frame the
   device waits for, and its data are of that chunk, not of one a whole
   Modulus away (protocol.c:128-145). *)
PendingIsSuccessor ==
  s.pending.used => /\ s.pending.seq = (s.next + 1) % Modulus
                    /\ s.pending.chunk = Len(s.panel) + 1
                    /\ s.window > 1

Held == {s.panel[k] : k \in DOMAIN s.panel} \cup (IF s.pending.used THEN {s.pending.chunk} ELSE {})

(* The acknowledgement tells the truth: highest and mask name exactly the
   frames the device holds, as far back as the mask reaches (protocol.c:146-159). *)
SackExact ==
  (s.active /\ s.seen) =>
    LET top == Max(Held)
    IN  /\ s.highest = SeqOf(top)
        /\ {top - 1 - k : k \in s.mask} = {i \in Held : i < top /\ i >= top - Recent}

(* What the client has seen acknowledged the device holds, although
   acknowledgements arrive late and their numbers repeat. *)
AckedAreHeld ==
  (client.phase \in {"sending", "ending"} /\ s.active) => client.acked \subseteq Held

(* A client that keeps to the window is never told that it broke the
   protocol: the fatal answer of pipe_data needs a fault, an END, or the end
   of the transfer (docs/protocol-coverage.md:40). *)
NoFalseReject == s.failed => excuse

(* With nothing failing, a transfer that started ends with the new image: no
   acknowledgement is held back while the client waits for it
   (protocol.c:168-177, 394-395). *)
Completes == client.phase = "sending" ~> client.phase = "done"
=============================================================================

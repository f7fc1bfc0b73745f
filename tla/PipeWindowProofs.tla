-------------------------- MODULE PipeWindowProofs --------------------------
(***************************************************************************)
(* Theorems about PipeWindow, for any modulus, any length of the mask and  *)
(* of the image, any number of transfers and of command slots, with or     *)
(* without faults, whatever is lost, repeated or late.                     *)
(***************************************************************************)
EXTENDS PipeWindow, SequenceTheorems, WellFoundedInduction, TLAPS

-----------------------------------------------------------------------------
(* Every non-empty set of natural numbers has a least element. *)
LEMMA NatHasMin ==
  ASSUME NEW S \in SUBSET Nat, S # {}
  PROVE  \E x \in S: \A y \in S: x <= y
<1> DEFINE less == {ss \in Nat \X Nat: ss[1] < ss[2]}
<1>1. IsWellFoundedOn(less, Nat)
  BY NatLessThanWellFounded, Zenon DEF OpToRel
<1>2. PICK x \in S: \A y \in S: ~(<<y, x>> \in less)
  <2> HIDE DEF less
  <2> QED BY <1>1, WFMin
<1>3. \A y \in S: ~(y < x)
  BY <1>2
<1> QED BY <1>3

LEMMA MinIsLeast ==
  ASSUME NEW S \in SUBSET Nat, S # {}
  PROVE  Min(S) \in S /\ \A y \in S: Min(S) <= y
BY NatHasMin DEF Min

(* The remainder: a number is a multiple of M and a rest below M, in only one
   way. *)
LEMMA ModRest ==
  ASSUME NEW M \in Nat \ {0}, NEW a \in Int
  PROVE  a \div M \in Int /\ (a % M) \in 0..M - 1 /\ a = M * (a \div M) + (a % M)
OBVIOUS

LEMMA NextMultiple ==
  ASSUME NEW M \in Nat \ {0}, NEW p \in Int, NEW q \in Int, p < q
  PROVE  M * p + M <= M * q
<1>1. q - p - 1 >= 0
  OBVIOUS
<1>2. M * (q - p - 1) >= 0
  BY <1>1
<1>3. M * (q - p - 1) = M * q - M * p - M
  OBVIOUS
<1> QED BY <1>2, <1>3

LEMMA ModUnique ==
  ASSUME NEW M \in Nat \ {0}, NEW a \in Int, NEW q \in Int, NEW r \in 0..M - 1, a = M * q + r
  PROVE  a % M = r
<1> DEFINE p == a \div M
<1>1. p \in Int /\ (a % M) \in 0..M - 1 /\ a = M * p + (a % M)
  BY ModRest
<1> HIDE DEF p
<1>2. M * q \in Int /\ M * p \in Int
  BY <1>1
<1>3. ~(p < q)
  <2>1. p < q => M * p + M <= M * q
    BY <1>1, NextMultiple
  <2> QED BY <1>1, <1>2, <2>1
<1>4. ~(q < p)
  <2>1. q < p => M * q + M <= M * p
    BY <1>1, NextMultiple
  <2> QED BY <1>1, <1>2, <2>1
<1>5. p = q
  BY <1>1, <1>3, <1>4
<1> QED BY <1>1, <1>2, <1>5

(* A multiple of M changes nothing. *)
LEMMA ModShift ==
  ASSUME NEW M \in Nat \ {0}, NEW a \in Int, NEW k \in Int, NEW b \in Int, b = a + M * k
  PROVE  b % M = a % M
<1> DEFINE p == a \div M
<1>1. p \in Int /\ (a % M) \in 0..M - 1 /\ a = M * p + (a % M)
  BY ModRest
<1> HIDE DEF p
<1>2. M * p \in Int /\ M * k \in Int /\ p + k \in Int /\ M * (p + k) = M * p + M * k
  BY <1>1
<1>3. b = M * (p + k) + (a % M)
  BY <1>1, <1>2
<1> QED BY <1>1, <1>2, <1>3, ModUnique

LEMMA ModSmall ==
  ASSUME NEW M \in Nat \ {0}, NEW r \in 0..M - 1
  PROVE  r % M = r
OBVIOUS

(* Sums and differences of remainders. *)
LEMMA ModAdd ==
  ASSUME NEW M \in Nat \ {0}, NEW a \in Int, NEW b \in Int
  PROVE  ((a % M) + b) % M = (a + b) % M
<1> DEFINE p == a \div M
           c == a % M
<1>1. p \in Int /\ c \in 0..M - 1 /\ a = M * p + c
  BY ModRest
<1> HIDE DEF p, c
<1>2. M * p \in Int /\ c + b \in Int /\ a + b \in Int /\ a + b = (c + b) + M * p
  BY <1>1
<1>3. (a + b) % M = (c + b) % M
  <2>1. \A x, y \in Int: y = x + M * p => y % M = x % M
    BY <1>1, ModShift
  <2> QED BY <1>2, <2>1
<1> QED BY <1>3 DEF c

LEMMA ModSub ==
  ASSUME NEW M \in Nat \ {0}, NEW a \in Int, NEW b \in Int
  PROVE  ((a % M) - (b % M)) % M = (a - b) % M
<1> DEFINE p == b \div M
           c == b % M
           d == a % M
<1>1. p \in Int /\ c \in 0..M - 1 /\ b = M * p + c /\ d \in 0..M - 1
  BY ModRest
<1>2. (d + (-c)) % M = (a + (-c)) % M
  <2>1. -c \in Int
    BY <1>1
  <2> QED BY <2>1, ModAdd
<1> HIDE DEF p, c, d
<1>3. M * p \in Int /\ a - c \in Int /\ a - b \in Int /\ a - c = (a - b) + M * p
  BY <1>1
<1>4. (a - c) % M = (a - b) % M
  <2>1. \A x, y \in Int: y = x + M * p => y % M = x % M
    BY <1>1, ModShift
  <2> QED BY <1>3, <2>1
<1>5. d - c = d + (-c) /\ a - c = a + (-c)
  BY <1>1
<1>6. (d - c) % M = (a - b) % M
  BY <1>2, <1>4, <1>5
<1> QED BY <1>6 DEF c, d

Window == 1..MaxWindow
SessionType ==
  [active : BOOLEAN, failed : BOOLEAN, seen : BOOLEAN, next : 0..Modulus - 1,
   highest : 0..Modulus - 1, mask : SUBSET (0..Recent - 1), window : Window,
   ackEvery : Window, sinceAck : Nat,
   pending : [used : BOOLEAN, seq : 0..Modulus - 1, chunk : Frames],
   written : 0..Chunks, kind : {"raw", "compressed", "partial"}, panel : Seq(Frames)]
Requests == [op : {"start"}, kind : Kinds, window : Windows, ackEvery : Windows]
              \cup [op : {"data"}, chunk : Frames] \cup [op : {"end"}]
ClientType ==
  [phase : {"idle", "starting", "sending", "ending", "done", "failed"}, lossy : BOOLEAN,
   kind : {"raw", "compressed", "partial"}, acked : SUBSET Frames, sent : 0..Chunks,
   window : 0..MaxWindow]

Types == /\ s \in SessionType /\ client \in ClientType
         /\ inbox \in Seq(Requests) /\ outbox \in Seq(Responses)
         /\ refreshes \in Nat /\ starts \in Nat /\ excuse \in BOOLEAN

(* The mask when n frames are in the panel, and perhaps one in the buffer;
   the highest frame and the frames held are then these. *)
MaskOf(n, early) == {k \in 0..Recent - 1 : IF early THEN 1 <= k /\ k <= n ELSE k + 2 <= n}
TopOf(n, early) == IF early THEN n + 1 ELSE n - 1
Holds(n, early, i) == i \in 0..n - 1 \/ (early /\ i = n + 1)

Size(t) == Len(t.panel)

(* A session whose panel is in order, whose buffer holds the successor and
   whose acknowledgement is true. *)
InSequence(t) == /\ \A k \in 1..Size(t): t.panel[k] = k - 1
                 /\ Size(t) <= Chunks /\ t.next = SeqOf(Size(t))
Buffered(t) == t.pending.used => /\ t.pending.seq = SeqOf(Size(t) + 1)
                                 /\ t.pending.chunk = Size(t) + 1 /\ t.window = 2
Truthful(t) == t.active =>
  /\ ~t.failed /\ (t.seen <=> Size(t) > 0 \/ t.pending.used)
  /\ t.seen => /\ t.highest = SeqOf(TopOf(Size(t), t.pending.used))
               /\ t.mask = MaskOf(Size(t), t.pending.used)

(* An acknowledgement is due before the interval is over. *)
Paced(t) == t.ackEvery <= t.window /\ t.sinceAck < t.ackEvery

Good(t) == t \in SessionType /\ InSequence(t) /\ Buffered(t) /\ Truthful(t) /\ Paced(t)

Bounds == Len(inbox) <= InboxSize /\ Len(outbox) <= MaxOutbox + 2 /\ starts <= MaxStarts

(* Which transfer the messages on their way belong to. *)
NoStart == \A q \in 1..Len(inbox): inbox[q].op # "start"
NoStarted == \A p \in 1..Len(outbox): outbox[p].op \notin {"started", "startError"}
(* Its START has not been executed, or has been just now. *)
StartWaits == /\ ~s.active /\ NoStarted
              /\ inbox # <<>> /\ inbox[Len(inbox)].op = "start"
              /\ \A q \in 1..Len(inbox) - 1: inbox[q].op # "start"
StartDone == /\ inbox = <<>>
             /\ \A p \in 1..Len(outbox) - 1: outbox[p].op \notin {"started", "startError"}
             /\ IF s.active
                THEN /\ ~s.seen /\ s.panel = <<>> /\ ~s.pending.used
                     /\ outbox # <<>> /\ outbox[Len(outbox)] = [op |-> "started", window |-> s.window]
                ELSE excuse /\ \A p \in 1..Len(outbox): outbox[p].op # "started"
PhaseInv ==
  /\ client.phase \in {"idle", "done", "failed"} => ~s.active /\ NoStart /\ NoStarted
  /\ client.phase = "starting" => client.sent = 0 /\ client.acked = {} /\ (StartWaits \/ StartDone)
  /\ client.phase \in {"sending", "ending"} => NoStart /\ NoStarted

(* Frames arrive only for a transfer that runs, or that has a reason to be over. *)
ExcuseInv == /\ s.failed => excuse
             /\ \/ s.active \/ excuse
                \/ /\ client.phase \in {"idle", "starting"}
                   /\ \A q \in 1..Len(inbox): inbox[q].op # "data"

Running == s.active /\ client.phase \in {"sending", "ending"}

(* What is acknowledged is held, what is held was sent, and what was sent is
   within the window. *)
ClientInv == Running =>
  /\ client.window = s.window
  /\ client.acked \subseteq Held /\ Held \subseteq 0..client.sent - 1
  /\ client.sent <= Base + client.window

(* A frame on its way is within a window of every frame before it, and not
   beyond the window the device expects. *)
InboxInv == Running => \A q \in 1..Len(inbox): inbox[q].op = "data" =>
  /\ inbox[q].chunk < client.sent /\ inbox[q].chunk < Size(s) + s.window
  /\ \A h \in Held: h < inbox[q].chunk + s.window
  /\ \A o \in 1..q - 1: inbox[o].op = "data" => inbox[o].chunk < inbox[q].chunk + s.window

(* An acknowledgement on its way is true; later ones say more. *)
Says(p) == Named(outbox[p].highest)
OutboxInv == Running => \A p \in 1..Len(outbox):
  /\ outbox[p].op = "sack" /\ ~outbox[p].error
  /\ Says(p) \in Held /\ \A k \in outbox[p].mask: Says(p) - 1 - k \in Held
  /\ \A a \in client.acked: a <= Says(p)
  /\ \A o \in 1..p - 1: Says(o) <= Says(p)

IInv == Types /\ Bounds /\ Good(s) /\ PhaseInv /\ ExcuseInv /\ ClientInv /\ InboxInv /\ OutboxInv
-----------------------------------------------------------------------------
LEMMA PipeFacts ==
  /\ Modulus \in Nat \ {0, 1} /\ Recent \in Nat \ {0} /\ MaxWindow \in 1..2
  /\ 2 * Recent <= Modulus /\ MaxWindow <= Recent /\ 2 * MaxWindow < Modulus
  /\ Chunks \in Nat \ {0, 1} /\ Frames = 0..Chunks - 1 /\ InboxSize \in Nat \ {0}
  /\ MaxOutbox \in Nat \ {0} /\ MaxStarts \in Nat
  /\ Kinds \subseteq {"raw", "compressed", "partial"} /\ Windows \subseteq Nat \ {0}
  /\ Faults \in BOOLEAN /\ Lossy \subseteq BOOLEAN
<1>1. Modulus \in Nat \ {0, 1}
  BY PipeAssumption
<1>2. 2 * (Modulus \div 2) <= Modulus
  BY <1>1
<1>3. Recent \in Nat \ {0} /\ 2 * Recent <= Modulus
  BY PipeAssumption, <1>1, <1>2
<1> QED BY PipeAssumption, <1>1, <1>3 DEF Frames

LEMMA SeqType ==
  ASSUME NEW i \in Int
  PROVE  SeqOf(i) \in 0..Modulus - 1
BY PipeFacts, ModRest DEF SeqOf

(* The number of the frame after the one numbered SeqOf(i). *)
LEMMA SeqNext ==
  ASSUME NEW i \in Int
  PROVE  (SeqOf(i) + 1) % Modulus = SeqOf(i + 1)
<1>1. Modulus \in Nat \ {0} /\ 1 \in Int
  BY PipeFacts
<1>2. ((i % Modulus) + 1) % Modulus = (i + 1) % Modulus
  BY <1>1, ModAdd
<1> QED BY <1>2 DEF SeqOf

(* The signed difference of two numbers is that of two frames less than half
   the modulus apart. *)
LEMMA DeltaIs ==
  ASSUME NEW a \in Int, NEW b \in Int, 2 * (a - b) < Modulus, -Modulus <= 2 * (a - b)
  PROVE  Delta(SeqOf(a), SeqOf(b)) = a - b
<1> DEFINE d == a - b
           e == (SeqOf(a) - SeqOf(b)) % Modulus
<1>1. e = d % Modulus
  BY PipeFacts, ModSub DEF SeqOf
<1>2. d \in Int /\ Modulus \in Nat \ {0, 1}
  BY PipeFacts
<1>3. CASE d >= 0
  <2>1. d \in 0..Modulus - 1
    BY <1>2, <1>3
  <2>2. e = d
    BY <1>1, <1>2, <2>1, ModSmall
  <2> QED BY <2>2 DEF Delta
<1>4. CASE d < 0
  <2>1. d + Modulus \in 0..Modulus - 1 /\ d = Modulus * (-1) + (d + Modulus) /\ -1 \in Int
    BY <1>2, <1>4
  <2>2. d % Modulus = d + Modulus
    <3> HIDE DEF d
    <3> QED BY <1>2, <2>1, ModUnique
  <2>3. e = d + Modulus
    BY <1>1, <2>2
  <2>4. ~(2 * (d + Modulus) < Modulus) /\ d + Modulus - Modulus = d
    BY <1>2
  <2>5. Delta(SeqOf(a), SeqOf(b)) = IF 2 * e < Modulus THEN e ELSE e - Modulus
    BY DEF Delta
  <2> HIDE DEF e, d
  <2>6. Delta(SeqOf(a), SeqOf(b)) = d
    BY <1>2, <2>3, <2>4, <2>5
  <2> QED BY <2>6 DEF d
<1> QED BY <1>2, <1>3, <1>4

LEMMA DeltaType ==
  ASSUME NEW x \in 0..Modulus - 1, NEW y \in 0..Modulus - 1
  PROVE  Delta(x, y) \in Int /\ (y + Delta(x, y)) % Modulus = x
<1> DEFINE d == (x - y) % Modulus
<1>1. Modulus \in Nat \ {0} /\ x \in Int /\ y \in Int /\ x - y \in Int /\ -y \in Int
  BY PipeFacts
<1>2. d \in 0..Modulus - 1
  BY <1>1, ModRest
<1>3. (d + y) % Modulus = x
  <2>1. (d + y) % Modulus = ((x - y) + y) % Modulus
    BY <1>1, ModAdd
  <2>2. (x - y) + y = x
    BY <1>1
  <2> QED BY <1>1, <2>1, <2>2, ModSmall
<1> HIDE DEF d
<1>4. y + d = d + y /\ d + y \in Int /\ y + (d - Modulus) \in Int
      /\ y + (d - Modulus) = (d + y) + Modulus * (-1) /\ -1 \in Int
  BY <1>1, <1>2
<1>5. (y + (d - Modulus)) % Modulus = (d + y) % Modulus
  <2>1. \A a, b \in Int: b = a + Modulus * (-1) => b % Modulus = a % Modulus
    BY <1>1, <1>4, ModShift
  <2> QED BY <1>4, <2>1
<1>6. Delta(x, y) = IF 2 * d < Modulus THEN d ELSE d - Modulus
  BY DEF Delta, d
<1> QED BY <1>1, <1>2, <1>3, <1>4, <1>5, <1>6

-----------------------------------------------------------------------------
(***************************************************************************)
(* The session.                                                            *)
(***************************************************************************)
LEMMA GoodFacts ==
  ASSUME NEW t, Good(t)
  PROVE  /\ t \in SessionType /\ Size(t) \in 0..Chunks /\ t.pending.used \in BOOLEAN
         /\ t.window \in Window /\ t.ackEvery \in Window /\ t.sinceAck \in Nat
         /\ t.pending \in [used : BOOLEAN, seq : 0..Modulus - 1, chunk : Frames]
         /\ t.pending.used => Size(t) + 1 \in Frames
<1>1. t \in SessionType
  BY DEF Good
<1>2. t.panel \in Seq(Frames) /\ t.window \in Window /\ t.ackEvery \in Window
      /\ t.sinceAck \in Nat
      /\ t.pending \in [used : BOOLEAN, seq : 0..Modulus - 1, chunk : Frames]
  BY <1>1 DEF SessionType
<1>3. Size(t) \in Nat /\ Size(t) <= Chunks
  BY <1>2 DEF Good, InSequence, Size
<1>4. t.pending.used \in BOOLEAN /\ t.pending.chunk \in Frames
  BY <1>2
<1>5. t.pending.used => t.pending.chunk = Size(t) + 1
  BY DEF Good, Buffered
<1> QED BY <1>1, <1>2, <1>3, <1>4, <1>5, PipeFacts

(* A frame goes to the panel. *)
LEMMA ConsumedGood ==
  ASSUME NEW t, t \in SessionType, InSequence(t), Size(t) \in Frames
  PROVE  /\ Consumed(t, Size(t)) \in SessionType /\ InSequence(Consumed(t, Size(t)))
         /\ Size(Consumed(t, Size(t))) = Size(t) + 1
         /\ \A f \in {"active", "failed", "seen", "highest", "mask", "window", "ackEvery",
                      "sinceAck", "pending", "kind"}: Consumed(t, Size(t))[f] = t[f]
<1> DEFINE n == Size(t)
           u == Consumed(t, n)
           panel == Append(t.panel, n)
<1>1. t.panel \in Seq(Frames) /\ n \in Frames /\ n = Len(t.panel) /\ n \in Nat /\ n < Chunks
  BY PipeFacts DEF SessionType, Size
<1>2. panel \in Seq(Frames) /\ Len(panel) = n + 1 /\ panel[n + 1] = n
      /\ \A k \in 1..n: panel[k] = t.panel[k]
  BY <1>1
<1>3. (t.next + 1) % Modulus \in 0..Modulus - 1 /\ (t.next + 1) % Modulus = SeqOf(n + 1)
  <2>1. t.next = SeqOf(n)
    BY DEF InSequence
  <2>2. n + 1 \in Int
    BY <1>1
  <2> QED BY <1>1, <2>1, <2>2, SeqNext, SeqType
<1>4. Output(t.kind, n + 1) \in 0..Chunks
  BY <1>1, PipeFacts DEF Output, Total
<1>5. u = [t EXCEPT !.panel = panel, !.written = Output(t.kind, n + 1),
                    !.next = (t.next + 1) % Modulus]
  BY <1>1 DEF Consumed
<1> HIDE DEF panel, u
<1>6. u.panel = panel /\ u.next = (t.next + 1) % Modulus /\ u \in SessionType
  <2>1. u.panel = panel /\ u.next = (t.next + 1) % Modulus
    BY <1>5 DEF SessionType
  <2>2. u \in SessionType
    BY <1>2, <1>3, <1>4, <1>5 DEF SessionType
  <2> QED BY <2>1, <2>2
<1>7. \A f \in {"active", "failed", "seen", "highest", "mask", "window", "ackEvery",
                "sinceAck", "pending", "kind"}: u[f] = t[f]
  BY <1>5 DEF SessionType
<1>8. Size(u) = n + 1
  BY <1>2, <1>6 DEF Size
<1>9. InSequence(u)
  <2>1. \A k \in 1..n: t.panel[k] = k - 1
    BY DEF InSequence
  <2>2. \A k \in 1..n + 1: panel[k] = k - 1
    <3> SUFFICES ASSUME NEW k \in 1..n + 1 PROVE panel[k] = k - 1
      OBVIOUS
    <3>1. CASE k = n + 1
      BY <1>1, <1>2, <3>1
    <3>2. CASE k # n + 1
      BY <1>1, <1>2, <2>1, <3>2
    <3> QED BY <3>1, <3>2
  <2>3. Size(u) <= Chunks /\ u.next = SeqOf(Size(u))
    BY <1>1, <1>3, <1>6, <1>8, PipeFacts
  <2>4. \A k \in 1..Size(u): u.panel[k] = k - 1
    BY <1>6, <1>8, <2>2
  <2> QED BY <2>3, <2>4 DEF InSequence
<1> QED BY <1>6, <1>7, <1>8, <1>9 DEF u

(* What Recorded makes of the acknowledgement. *)
LEMMA RecordedIs ==
  ASSUME NEW t, t \in SessionType, NEW seq \in 0..Modulus - 1,
         t.seen => Delta(seq, t.highest) >= -Recent
  PROVE  LET d == Delta(seq, t.highest)
             u == Recorded(t, seq)
         IN  /\ u \in SessionType
             /\ \A f \in {"active", "failed", "next", "window", "ackEvery", "sinceAck",
                          "pending", "written", "kind", "panel"}: u[f] = t[f]
             /\ u.seen
             /\ ~t.seen => u.highest = seq /\ u.mask = {}
             /\ t.seen /\ d > 0 =>
                  /\ u.highest = seq
                  /\ u.mask = ({k + d : k \in t.mask} \cup {d - 1}) \cap 0..Recent - 1
             /\ t.seen /\ d < 0 => u.highest = t.highest /\ u.mask = t.mask \cup {-d - 1}
             /\ t.seen /\ d = 0 => u = t
<1> DEFINE d == Delta(seq, t.highest)
           u == Recorded(t, seq)
<1>1. d \in Int /\ t.highest \in 0..Modulus - 1 /\ t.mask \subseteq 0..Recent - 1
      /\ t.seen \in BOOLEAN /\ Recent \in Nat
  BY PipeFacts, DeltaType DEF SessionType
<1>2. u = CASE ~t.seen -> [t EXCEPT !.highest = seq, !.mask = {}, !.seen = TRUE]
        [] t.seen /\ d > 0 ->
             [t EXCEPT !.highest = seq,
                       !.mask = ({k + d : k \in @} \cup {d - 1}) \cap 0..Recent - 1]
        [] t.seen /\ d < 0 /\ d >= -Recent -> [t EXCEPT !.mask = @ \cup {-d - 1}]
        [] OTHER -> t
  BY DEF Recorded
<1>3. t.seen => d >= -Recent
  OBVIOUS
<1> HIDE DEF d, u
<1>4. CASE ~t.seen
  <2>1. u = [t EXCEPT !.highest = seq, !.mask = {}, !.seen = TRUE]
    BY <1>2, <1>4
  <2>2. u \in SessionType
    BY <2>1 DEF SessionType
  <2> QED BY <1>4, <2>1, <2>2 DEF SessionType, d, u
<1>5. CASE t.seen /\ d > 0
  <2> DEFINE mask == ({k + d : k \in t.mask} \cup {d - 1}) \cap 0..Recent - 1
  <2>1. u = [t EXCEPT !.highest = seq, !.mask = mask]
    BY <1>1, <1>2, <1>5
  <2>2. mask \in SUBSET (0..Recent - 1)
    OBVIOUS
  <2>3. ~(d < 0) /\ d # 0
    BY <1>1, <1>5
  <2> HIDE DEF mask
  <2>4. u \in SessionType /\ u.mask = mask
    BY <2>1, <2>2 DEF SessionType
  <2>5. /\ u.highest = seq /\ u.seen
        /\ \A f \in {"active", "failed", "next", "window", "ackEvery", "sinceAck",
                     "pending", "written", "kind", "panel"}: u[f] = t[f]
    BY <1>5, <2>1 DEF SessionType
  <2> QED BY <1>5, <2>3, <2>4, <2>5 DEF d, u, mask
<1>6. CASE t.seen /\ d < 0
  <2> DEFINE mask == t.mask \cup {-d - 1}
  <2>1. u = [t EXCEPT !.mask = mask]
    BY <1>1, <1>2, <1>3, <1>6
  <2>2. mask \in SUBSET (0..Recent - 1)
    BY <1>1, <1>3, <1>6
  <2>3. ~(d > 0) /\ d # 0
    BY <1>1, <1>6
  <2> HIDE DEF mask
  <2>4. u \in SessionType /\ u.mask = mask
    BY <2>1, <2>2 DEF SessionType
  <2>5. /\ u.highest = t.highest /\ u.seen
        /\ \A f \in {"active", "failed", "next", "window", "ackEvery", "sinceAck",
                     "pending", "written", "kind", "panel"}: u[f] = t[f]
    BY <1>6, <2>1 DEF SessionType
  <2> QED BY <1>6, <2>3, <2>4, <2>5 DEF d, u, mask
<1>7. CASE t.seen /\ d = 0
  <2>1. u = t
    BY <1>2, <1>7
  <2>2. ~(d > 0) /\ ~(d < 0)
    BY <1>7
  <2> QED BY <1>7, <2>1, <2>2 DEF d, u
<1> QED BY <1>1, <1>4, <1>5, <1>6, <1>7

(* The masks of a window: frame n arrives with nothing waiting, with its
   successor waiting, and its successor arrives first. *)
LEMMA Masks ==
  ASSUME NEW n \in Nat
  PROVE  /\ MaskOf(1, FALSE) = {} /\ MaskOf(0, TRUE) = {}
         /\ MaskOf(n + 1, FALSE) = ({k + 1 : k \in MaskOf(n, FALSE)} \cup {1 - 1}) \cap 0..Recent - 1
              \/ n = 0
         /\ MaskOf(n + 2, FALSE) = MaskOf(n, TRUE) \cup {-(-1) - 1}
         /\ MaskOf(n, TRUE) = ({k + 2 : k \in MaskOf(n, FALSE)} \cup {2 - 1}) \cap 0..Recent - 1
              \/ n = 0
<1>1. Recent \in Nat \ {0}
  BY PipeFacts
<1>2. MaskOf(1, FALSE) = {} /\ MaskOf(0, TRUE) = {}
  BY <1>1 DEF MaskOf
<1>3. ASSUME n # 0
      PROVE  MaskOf(n + 1, FALSE) = ({k + 1 : k \in MaskOf(n, FALSE)} \cup {1 - 1}) \cap 0..Recent - 1
  <2> SUFFICES ASSUME NEW j \in Int
               PROVE  (j \in 0..Recent - 1 /\ j + 2 <= n + 1)
                        <=> /\ j \in 0..Recent - 1
                            /\ (\E k \in 0..Recent - 1: k + 2 <= n /\ j = k + 1) \/ j = 0
    BY <1>1 DEF MaskOf
  <2>1. CASE j = 0
    BY <1>1, <1>3, <2>1
  <2>2. CASE j # 0
    <3>1. j \in 0..Recent - 1 => j - 1 \in 0..Recent - 1 /\ j = (j - 1) + 1
      BY <1>1, <2>2
    <3> QED BY <1>1, <2>2, <3>1
  <2> QED BY <2>1, <2>2
<1>4. MaskOf(n + 2, FALSE) = MaskOf(n, TRUE) \cup {-(-1) - 1}
  BY <1>1 DEF MaskOf
<1>5. ASSUME n # 0
      PROVE  MaskOf(n, TRUE) = ({k + 2 : k \in MaskOf(n, FALSE)} \cup {2 - 1}) \cap 0..Recent - 1
  <2> SUFFICES ASSUME NEW j \in Int
               PROVE  (j \in 0..Recent - 1 /\ 1 <= j /\ j <= n)
                        <=> /\ j \in 0..Recent - 1
                            /\ (\E k \in 0..Recent - 1: k + 2 <= n /\ j = k + 2) \/ j = 1
    BY <1>1 DEF MaskOf
  <2>1. CASE j <= 1
    BY <1>1, <1>5, <2>1
  <2>2. CASE j > 1
    <3>1. j \in 0..Recent - 1 => j - 2 \in 0..Recent - 1 /\ j = (j - 2) + 2
      BY <1>1, <2>2
    <3> QED BY <1>1, <2>2, <3>1
  <2> QED BY <2>1, <2>2
<1> QED BY <1>2, <1>3, <1>4, <1>5

(* A frame of the window is taken, noted, and brings the waiting one along. *)
TakenOf(t, c) ==
  IF c = Size(t) THEN Consumed(t, c)
  ELSE [t EXCEPT !.pending = [used |-> TRUE, seq |-> SeqOf(c), chunk |-> c]]

LEMMA Accepted ==
  ASSUME NEW t, Good(t), t.active, NEW c \in Frames,
         c = Size(t) \/ (c = Size(t) + 1 /\ t.window = 2)
  PROVE  LET r == Recorded(TakenOf(t, c), SeqOf(c))
             u == Drained(r)
         IN  /\ r \in SessionType /\ InSequence(r) /\ r.ackEvery = t.ackEvery /\ r.window = t.window
             /\ Drain(r) => Size(r) \in Frames
             /\ u \in SessionType /\ InSequence(u) /\ Buffered(u) /\ Truthful(u)
             /\ u.active /\ u.seen /\ Size(u) >= Size(t)
             /\ u.window = t.window /\ u.ackEvery = t.ackEvery /\ u.sinceAck = t.sinceAck
             /\ \A i \in Int: Holds(Size(u), u.pending.used, i)
                                <=> Holds(Size(t), t.pending.used, i) \/ i = c
<1> DEFINE n == Size(t)
           o == TakenOf(t, c)
           r == Recorded(o, SeqOf(c))
           u == Drained(r)
<1>1. /\ t \in SessionType /\ n \in 0..Chunks /\ n \in Nat /\ t.pending.used \in BOOLEAN
      /\ c \in Nat /\ n + 1 \in Int /\ InSequence(t) /\ Buffered(t) /\ Truthful(t) /\ t.next = SeqOf(n)
      /\ t.seen \in BOOLEAN /\ Frames = 0..Chunks - 1
      /\ t.pending.used => n + 1 \in Frames
  <2>1. /\ t \in SessionType /\ n \in 0..Chunks /\ t.pending.used \in BOOLEAN
        /\ t.pending.used => n + 1 \in Frames
    BY GoodFacts
  <2>2. InSequence(t) /\ Buffered(t) /\ Truthful(t) /\ t.next = SeqOf(n)
    BY DEF Good, InSequence
  <2>3. t.seen \in BOOLEAN
    BY <2>1 DEF SessionType
  <2>4. Frames = 0..Chunks - 1 /\ Chunks \in Nat
    BY PipeFacts
  <2> HIDE DEF n
  <2>5. c \in Nat /\ n \in Nat /\ n + 1 \in Int
    BY <2>1, <2>4
  <2> QED BY <2>1, <2>2, <2>3, <2>4, <2>5
<1>2. /\ ~t.failed /\ (t.seen <=> n > 0 \/ t.pending.used)
      /\ t.seen => /\ t.highest = SeqOf(TopOf(n, t.pending.used))
                   /\ t.mask = MaskOf(n, t.pending.used)
  BY <1>1 DEF Truthful
<1>3. t.pending.used => t.pending.seq = SeqOf(n + 1) /\ t.pending.chunk = n + 1 /\ t.window = 2
  BY <1>1 DEF Buffered
<1>4. t.window \in 1..MaxWindow /\ (t.window = 2 => MaxWindow = 2)
      /\ MaxWindow \in 1..2 /\ Modulus \in Nat /\ Recent \in Nat \ {0} /\ 2 * MaxWindow < Modulus
      /\ MaxWindow <= Recent /\ 2 * Recent <= Modulus
  BY <1>1, PipeFacts DEF SessionType, Window
<1>5. SeqOf(c) \in 0..Modulus - 1
  BY <1>1, SeqType
<1> HIDE DEF n
<1>6. \A a, b \in Int: 2 * (a - b) < Modulus /\ -Modulus <= 2 * (a - b)
                         => Delta(SeqOf(a), SeqOf(b)) = a - b
  BY DeltaIs
<1>7. CASE c = n /\ ~t.pending.used
  <2>0. /\ t.pending.used = FALSE /\ (t.seen <=> n > 0)
        /\ t.seen => t.highest = SeqOf(n - 1) /\ t.mask = MaskOf(n, FALSE)
    <3>1. t.pending.used = FALSE
      BY <1>1, <1>7
    <3>2. TopOf(n, FALSE) = n - 1
      BY DEF TopOf
    <3> QED BY <1>2, <3>1, <3>2
  <2>1. /\ o \in SessionType /\ InSequence(o) /\ Size(o) = n + 1
        /\ \A f \in {"active", "failed", "seen", "highest", "mask", "window", "ackEvery",
                     "sinceAck", "pending", "kind"}: o[f] = t[f]
    <3>1. o = Consumed(t, n) /\ n \in Frames
      BY <1>7 DEF TakenOf, n
    <3> HIDE DEF o
    <3> QED BY <1>1, <3>1, ConsumedGood DEF n
  <2> HIDE DEF o
  <2>2. o.seen => Delta(SeqOf(c), o.highest) = 1
    <3>1. SUFFICES ASSUME t.seen PROVE Delta(SeqOf(c), o.highest) = 1
      BY <2>1
    <3>2. o.highest = SeqOf(n - 1)
      BY <2>0, <2>1, <3>1
    <3>3. n - 1 \in Int /\ c \in Int /\ c - (n - 1) = 1
      BY <1>1, <1>7
    <3> QED BY <1>4, <1>6, <3>2, <3>3
  <2>3. /\ r \in SessionType /\ r.seen /\ r.highest = SeqOf(n)
        /\ \A f \in {"active", "failed", "next", "window", "ackEvery", "sinceAck",
                     "pending", "written", "kind", "panel"}: r[f] = o[f]
        /\ ~o.seen => r.mask = {}
        /\ o.seen => r.mask = ({k + 1 : k \in o.mask} \cup {1 - 1}) \cap 0..Recent - 1
    <3>1. o.seen => Delta(SeqOf(c), o.highest) >= -Recent
      BY <1>4, <2>2
    <3>2. o.seen \in BOOLEAN
      BY <2>1 DEF SessionType
    <3> QED BY <1>5, <1>7, <2>1, <2>2, <3>1, <3>2, RecordedIs
  <2> HIDE DEF r
  <2>4. InSequence(r) /\ Size(r) = n + 1
    BY <2>1, <2>3 DEF InSequence, Size
  <2>5. ~r.pending.used /\ u = r
    BY <1>7, <2>1, <2>3 DEF Drained, Drain
  <2>6. r.mask = MaskOf(n + 1, FALSE)
    <3>1. CASE n = 0
      <4>1. ~o.seen /\ n + 1 = 1
        BY <2>0, <2>1, <3>1
      <4>2. MaskOf(1, FALSE) = {}
        BY <1>1, Masks
      <4> QED BY <2>3, <4>1, <4>2
    <3>2. CASE n # 0
      <4>1. t.seen /\ t.mask = MaskOf(n, FALSE)
        <5>1. n > 0
          BY <1>1, <3>2
        <5> QED BY <2>0, <5>1
      <4>2. o.seen /\ o.mask = MaskOf(n, FALSE)
        BY <2>1, <4>1
      <4> QED BY <1>1, <2>3, <3>2, <4>2, Masks
    <3> QED BY <3>1, <3>2
  <2>7. r.pending.used = FALSE
    BY <2>0, <2>1, <2>3
  <2>8. Truthful(r)
    <3>1. TopOf(n + 1, FALSE) = n /\ n + 1 > 0
      BY <1>1 DEF TopOf
    <3>2. ~r.failed
      BY <1>2, <2>1, <2>3
    <3> QED BY <2>3, <2>4, <2>6, <2>7, <3>1, <3>2 DEF Truthful
  <2>9. \A i \in Int: Holds(n + 1, FALSE, i) <=> Holds(n, FALSE, i) \/ i = c
    BY <1>1, <1>7 DEF Holds
  <2>10. ~Drain(r) /\ Buffered(r)
    BY <2>5 DEF Drain, Buffered
  <2>11. /\ r.active /\ r.window = t.window /\ r.ackEvery = t.ackEvery /\ r.sinceAck = t.sinceAck
         /\ n + 1 >= n
    BY <1>1, <2>1, <2>3
  <2>12. \A i \in Int: Holds(Size(u), u.pending.used, i)
                         <=> Holds(n, t.pending.used, i) \/ i = c
    BY <2>0, <2>4, <2>5, <2>7, <2>9
  <2> QED BY <2>3, <2>4, <2>5, <2>8, <2>10, <2>11, <2>12 DEF u, r, n, o
<1>8. CASE c = n /\ t.pending.used
  <2>0. /\ t.pending.used = TRUE /\ t.seen /\ t.pending.seq = SeqOf(n + 1)
        /\ t.pending.chunk = n + 1
        /\ t.highest = SeqOf(n + 1) /\ t.mask = MaskOf(n, TRUE)
    <3>1. t.pending.used = TRUE
      BY <1>1, <1>8
    <3>2. TopOf(n, TRUE) = n + 1
      BY DEF TopOf
    <3> QED BY <1>2, <1>3, <3>1, <3>2
  <2>1. /\ o \in SessionType /\ InSequence(o) /\ Size(o) = n + 1
        /\ \A f \in {"active", "failed", "seen", "highest", "mask", "window", "ackEvery",
                     "sinceAck", "pending", "kind"}: o[f] = t[f]
    <3>1. o = Consumed(t, n) /\ n \in Frames
      BY <1>8 DEF TakenOf, n
    <3> HIDE DEF o
    <3> QED BY <1>1, <3>1, ConsumedGood DEF n
  <2> HIDE DEF o
  <2>2. Delta(SeqOf(c), o.highest) = -1
    <3>1. o.highest = SeqOf(n + 1)
      BY <2>0, <2>1
    <3>2. c \in Int /\ c - (n + 1) = -1
      BY <1>1, <1>8
    <3> QED BY <1>1, <1>4, <1>6, <3>1, <3>2
  <2>3. /\ r \in SessionType /\ r.seen /\ r.highest = SeqOf(n + 1)
        /\ \A f \in {"active", "failed", "next", "window", "ackEvery", "sinceAck",
                     "pending", "written", "kind", "panel"}: r[f] = o[f]
        /\ r.mask = MaskOf(n, TRUE) \cup {-(-1) - 1}
    <3>1. Delta(SeqOf(c), o.highest) >= -Recent
      BY <1>4, <2>2
    <3>2. o.seen /\ o.highest = SeqOf(n + 1) /\ o.mask = MaskOf(n, TRUE)
      BY <2>0, <2>1
    <3> DEFINE d == Delta(SeqOf(c), o.highest)
    <3>3. d < 0 /\ d = -1
      BY <2>2
    <3>4. /\ r \in SessionType /\ r.seen /\ r.highest = o.highest
          /\ \A f \in {"active", "failed", "next", "window", "ackEvery", "sinceAck",
                       "pending", "written", "kind", "panel"}: r[f] = o[f]
          /\ r.mask = o.mask \cup {-d - 1}
      BY <1>5, <2>1, <3>1, <3>2, <3>3, RecordedIs
    <3> HIDE DEF d, r
    <3> QED BY <3>2, <3>3, <3>4
  <2> HIDE DEF r
  <2>4. InSequence(r) /\ Size(r) = n + 1 /\ r.next = SeqOf(n + 1)
    BY <2>1, <2>3 DEF InSequence, Size
  <2>5. r.pending.used /\ r.pending.seq = SeqOf(n + 1) /\ r.pending.chunk = n + 1
    BY <2>0, <2>1, <2>3
  <2> DEFINE e == [r EXCEPT !.pending = NoPending]
  <2>6. Drain(r) /\ n + 1 \in Frames /\ Size(r) \in Frames /\ u = Consumed(e, n + 1)
    BY <1>1, <1>8, <2>4, <2>5 DEF Drained, Drain
  <2>7. /\ e \in SessionType /\ e.pending = NoPending
        /\ \A f \in {"active", "failed", "seen", "highest", "mask", "next", "window", "ackEvery",
                     "sinceAck", "kind", "panel"}: e[f] = r[f]
    <3>1. NoPending \in [used : BOOLEAN, seq : 0..Modulus - 1, chunk : Frames]
      BY PipeFacts DEF NoPending
    <3> QED BY <2>3, <3>1 DEF SessionType
  <2> HIDE DEF e, u
  <2>8. InSequence(e) /\ Size(e) = n + 1
    BY <2>4, <2>7 DEF InSequence, Size
  <2>9. /\ u \in SessionType /\ InSequence(u) /\ Size(u) = (n + 1) + 1
        /\ \A f \in {"active", "failed", "seen", "highest", "mask", "window", "ackEvery",
                     "sinceAck", "pending", "kind"}: u[f] = e[f]
    BY <2>6, <2>7, <2>8, ConsumedGood
  <2>10. u.pending.used = FALSE /\ Size(u) = n + 2 /\ Buffered(u)
    <3>1. u.pending.used = FALSE
      BY <2>7, <2>9 DEF NoPending
    <3> QED BY <1>1, <2>9, <3>1 DEF Buffered
  <2>11. u.seen /\ u.highest = SeqOf(n + 1) /\ u.mask = MaskOf(n + 2, FALSE)
    <3>1. u.seen /\ u.highest = SeqOf(n + 1) /\ u.mask = MaskOf(n, TRUE) \cup {-(-1) - 1}
      BY <2>3, <2>7, <2>9
    <3> QED BY <1>1, <3>1, Masks
  <2>12. Truthful(u)
    <3>1. TopOf(n + 2, FALSE) = n + 1 /\ n + 2 > 0
      BY <1>1 DEF TopOf
    <3>2. ~u.failed
      BY <1>2, <2>1, <2>3, <2>7, <2>9
    <3> QED BY <2>10, <2>11, <3>1, <3>2 DEF Truthful
  <2>13. /\ u.active /\ u.window = t.window /\ u.ackEvery = t.ackEvery /\ u.sinceAck = t.sinceAck
         /\ r.window = t.window /\ r.ackEvery = t.ackEvery /\ n + 2 >= n
    <3>1. /\ r.active /\ r.window = t.window /\ r.ackEvery = t.ackEvery /\ r.sinceAck = t.sinceAck
      BY <2>1, <2>3
    <3> QED BY <1>1, <2>7, <2>9, <3>1
  <2>14. \A i \in Int: Holds(Size(u), u.pending.used, i)
                         <=> Holds(n, t.pending.used, i) \/ i = c
    <3>1. \A i \in Int: Holds(n + 2, FALSE, i) <=> Holds(n, TRUE, i) \/ i = c
      BY <1>1, <1>8 DEF Holds
    <3> QED BY <2>0, <2>10, <3>1
  <2> QED BY <2>3, <2>4, <2>6, <2>9, <2>10, <2>11, <2>12, <2>13, <2>14 DEF u, r, n, o
<1>9. CASE c = n + 1 /\ t.window = 2
  <2> DEFINE early == [used |-> TRUE, seq |-> SeqOf(c), chunk |-> c]
  <2>1. o = [t EXCEPT !.pending = early] /\ c # n
    BY <1>1, <1>9 DEF TakenOf, n
  <2>2. /\ o \in SessionType /\ o.pending = early
        /\ \A f \in {"active", "failed", "seen", "highest", "mask", "next", "window", "ackEvery",
                     "sinceAck", "kind", "panel"}: o[f] = t[f]
    <3>1. early \in [used : BOOLEAN, seq : 0..Modulus - 1, chunk : Frames]
      BY <1>5
    <3> HIDE DEF early, o
    <3> QED BY <1>1, <2>1, <3>1 DEF SessionType
  <2> HIDE DEF o
  <2>3. InSequence(o) /\ Size(o) = n
    BY <1>1, <2>2 DEF InSequence, Size, n
  <2>4. MaxWindow = 2 /\ 4 < Modulus /\ 2 <= Recent
    BY <1>4, <1>9
  <2>5. o.seen => Delta(SeqOf(c), o.highest) = IF t.pending.used THEN 0 ELSE 2
    <3> SUFFICES ASSUME o.seen PROVE Delta(SeqOf(c), o.highest) = IF t.pending.used THEN 0 ELSE 2
      OBVIOUS
    <3>1. CASE t.pending.used = TRUE
      <4>1. o.highest = SeqOf(n + 1) /\ TopOf(n, TRUE) = n + 1
        BY <1>2, <2>2, <3>1 DEF TopOf
      <4>2. c \in Int /\ n + 1 \in Int /\ c - (n + 1) = 0
        BY <1>1, <1>9
      <4> QED BY <1>1, <1>4, <1>6, <2>4, <3>1, <4>1, <4>2
    <3>2. CASE t.pending.used = FALSE
      <4>1. o.highest = SeqOf(n - 1)
        BY <1>2, <2>2, <3>2 DEF TopOf
      <4>2. c \in Int /\ n - 1 \in Int /\ c - (n - 1) = 2
        BY <1>1, <1>9
      <4> QED BY <1>4, <1>6, <2>4, <3>2, <4>1, <4>2
    <3> QED BY <1>1, <3>1, <3>2
  <2>6. /\ r \in SessionType /\ r.seen /\ r.highest = SeqOf(n + 1)
        /\ \A f \in {"active", "failed", "next", "window", "ackEvery", "sinceAck",
                     "pending", "written", "kind", "panel"}: r[f] = o[f]
        /\ r.mask = MaskOf(n, TRUE)
    <3>1. o.seen => Delta(SeqOf(c), o.highest) >= -Recent
      BY <1>1, <1>4, <2>5
    <3>2. /\ r \in SessionType /\ r.seen
          /\ \A f \in {"active", "failed", "next", "window", "ackEvery", "sinceAck",
                       "pending", "written", "kind", "panel"}: r[f] = o[f]
      <4> HIDE DEF r
      <4> QED BY <1>5, <2>2, <3>1, RecordedIs DEF r
    <3>3. CASE ~t.seen
      <4>1. ~o.seen /\ ~(n > 0) /\ n = 0
        BY <1>1, <1>2, <2>2, <3>3
      <4>2. r.highest = SeqOf(c) /\ r.mask = {}
        BY <1>5, <2>2, <3>1, <4>1, RecordedIs
      <4>3. MaskOf(0, TRUE) = {}
        BY <1>1, Masks
      <4> QED BY <1>9, <3>2, <4>1, <4>2, <4>3
    <3>4. CASE t.seen /\ t.pending.used = TRUE
      <4>1. o.seen /\ Delta(SeqOf(c), o.highest) = 0
        BY <2>2, <2>5, <3>4
      <4>2. r = o
        BY <1>5, <2>2, <3>1, <4>1, RecordedIs
      <4>3. o.highest = SeqOf(n + 1) /\ o.mask = MaskOf(n, TRUE)
        <5>1. TopOf(n, TRUE) = n + 1
          BY DEF TopOf
        <5> QED BY <1>2, <2>2, <3>4, <5>1
      <4> HIDE DEF r
      <4> QED BY <3>2, <4>2, <4>3
    <3>5. CASE t.seen /\ t.pending.used = FALSE
      <4>1. o.seen /\ Delta(SeqOf(c), o.highest) = 2 /\ n # 0 /\ o.mask = MaskOf(n, FALSE)
        <5>1. o.seen /\ Delta(SeqOf(c), o.highest) = 2
          BY <2>2, <2>5, <3>5
        <5>2. t.mask = MaskOf(n, FALSE) /\ n > 0
          BY <1>2, <3>5
        <5>3. n # 0
          BY <1>1, <5>2
        <5> QED BY <2>2, <5>1, <5>2, <5>3
      <4>2. r.highest = SeqOf(c)
            /\ r.mask = ({k + 2 : k \in o.mask} \cup {2 - 1}) \cap 0..Recent - 1
        <5> DEFINE d == Delta(SeqOf(c), o.highest)
        <5>1. d > 0 /\ d = 2
          BY <4>1
        <5>2. r.highest = SeqOf(c)
              /\ r.mask = ({k + d : k \in o.mask} \cup {d - 1}) \cap 0..Recent - 1
          BY <1>5, <2>2, <3>1, <4>1, <5>1, RecordedIs
        <5> HIDE DEF d, r
        <5> QED BY <5>1, <5>2
      <4> HIDE DEF r
      <4> QED BY <1>1, <1>9, <3>2, <4>1, <4>2, Masks
    <3> QED BY <1>1, <3>3, <3>4, <3>5
  <2> HIDE DEF r
  <2>7. InSequence(r) /\ Size(r) = n /\ r.next = SeqOf(n)
    BY <2>3, <2>6 DEF InSequence, Size
  <2>8. r.pending.used = TRUE /\ r.pending.seq = SeqOf(n + 1) /\ r.pending.chunk = n + 1
    BY <1>9, <2>2, <2>6
  <2>9. ~Drain(r) /\ u = r
    <3>1. Delta(SeqOf(n + 1), SeqOf(n)) = 1 /\ Delta(SeqOf(n), SeqOf(n)) = 0
      <4>1. n \in Int /\ n + 1 \in Int /\ (n + 1) - n = 1 /\ n - n = 0
        BY <1>1
      <4> QED BY <1>4, <1>6, <2>4, <4>1
    <3>2. r.pending.seq # r.next
      BY <2>7, <2>8, <3>1
    <3> QED BY <3>2 DEF Drain, Drained
  <2>10. /\ r.active /\ ~r.failed /\ r.window = t.window /\ r.ackEvery = t.ackEvery
         /\ r.sinceAck = t.sinceAck
    BY <1>2, <2>2, <2>6
  <2>11. Truthful(r)
    <3>1. TopOf(n, TRUE) = n + 1
      BY DEF TopOf
    <3> QED BY <2>6, <2>7, <2>8, <2>10, <3>1 DEF Truthful
  <2>12. Buffered(r)
    BY <1>9, <2>7, <2>8, <2>10 DEF Buffered
  <2>13. \A i \in Int: Holds(Size(r), r.pending.used, i)
                         <=> Holds(n, t.pending.used, i) \/ i = c
    <3>1. \A i \in Int: /\ Holds(n, TRUE, i) <=> Holds(n, TRUE, i) \/ i = c
                        /\ Holds(n, TRUE, i) <=> Holds(n, FALSE, i) \/ i = c
      BY <1>1, <1>9 DEF Holds
    <3> QED BY <1>1, <2>7, <2>8, <3>1
  <2>14. n >= n
    BY <1>1
  <2> HIDE DEF u
  <2> QED BY <2>6, <2>7, <2>9, <2>10, <2>11, <2>12, <2>13, <2>14 DEF u, r, n, o
<1> QED BY <1>1, <1>7, <1>8, <1>9 DEF n

-----------------------------------------------------------------------------
(***************************************************************************)
(* What is held, what is acknowledged, and what a number means.            *)
(***************************************************************************)
HeldOf(t) == {t.panel[k] : k \in DOMAIN t.panel} \cup (IF t.pending.used THEN {t.pending.chunk} ELSE {})
BaseOf(acked) == Min((Frames \ acked) \cup {Chunks})
NamedOf(base, seq) == base + Delta(seq, SeqOf(base))

LEMMA HeldIs ==
  ASSUME NEW t, Good(t)
  PROVE  /\ HeldOf(t) \subseteq Frames
         /\ \A i \in Int: i \in HeldOf(t) <=> Holds(Size(t), t.pending.used, i)
<1>1. /\ t.panel \in Seq(Frames) /\ DOMAIN t.panel = 1..Size(t) /\ Size(t) \in Nat
      /\ t.pending.used \in BOOLEAN /\ t.pending.chunk \in Frames
  BY DEF Good, SessionType, Size
<1>2. /\ \A k \in 1..Size(t): t.panel[k] = k - 1 /\ t.panel[k] \in Frames
      /\ t.pending.used => t.pending.chunk = Size(t) + 1
  BY <1>1 DEF Good, InSequence, Buffered
<1>3. HeldOf(t) \subseteq Frames
  BY <1>1, <1>2 DEF HeldOf
<1>4. \A i \in Int: (\E k \in 1..Size(t): i = t.panel[k]) <=> i \in 0..Size(t) - 1
  <2> SUFFICES ASSUME NEW i \in Int
               PROVE  (\E k \in 1..Size(t): i = t.panel[k]) <=> i \in 0..Size(t) - 1
    OBVIOUS
  <2>1. i \in 0..Size(t) - 1 => i + 1 \in 1..Size(t) /\ t.panel[i + 1] = i
    BY <1>1, <1>2
  <2> QED BY <1>1, <1>2, <2>1
<1> QED BY <1>1, <1>2, <1>3, <1>4 DEF HeldOf, Holds

LEMMA BaseIs ==
  ASSUME NEW acked \in SUBSET Frames
  PROVE  /\ BaseOf(acked) \in 0..Chunks /\ BaseOf(acked) \notin acked
         /\ \A i \in 0..BaseOf(acked) - 1: i \in acked
<1> DEFINE S == (Frames \ acked) \cup {Chunks}
           b == BaseOf(acked)
<1>1. S \in SUBSET Nat /\ S # {} /\ b = Min(S)
  BY PipeFacts DEF BaseOf
<1>2. b \in S /\ \A y \in S: b <= y
  <2> HIDE DEF S, b
  <2> QED BY <1>1, MinIsLeast
<1>3. Frames = 0..Chunks - 1 /\ Chunks \in Nat
  BY PipeFacts
<1> HIDE DEF b
<1>4. b \in 0..Chunks /\ b \notin acked
  BY <1>2, <1>3
<1>5. \A i \in 0..b - 1: i \in Frames /\ ~(b <= i)
  BY <1>3, <1>4
<1> QED BY <1>2, <1>4, <1>5 DEF b

(* A frame of the window, or the last one before it, is known by its number. *)
LEMMA NamedIs ==
  ASSUME NEW b \in Nat, NEW x \in Int, -1 <= x - b, x - b <= MaxWindow - 1
  PROVE  NamedOf(b, SeqOf(x)) = x
<1>1. MaxWindow \in 1..2 /\ 2 * MaxWindow < Modulus /\ Modulus \in Nat \ {0, 1}
  BY PipeFacts
<1>2. b \in Int /\ 2 * (x - b) < Modulus /\ -Modulus <= 2 * (x - b)
  BY <1>1
<1>3. Delta(SeqOf(x), SeqOf(b)) = x - b
  BY <1>2, DeltaIs
<1> QED BY <1>3 DEF NamedOf

LEMMA NamedType ==
  ASSUME NEW b \in Nat, NEW seq \in 0..Modulus - 1
  PROVE  NamedOf(b, seq) \in Int /\ SeqOf(NamedOf(b, seq)) = seq
<1> DEFINE y == SeqOf(b)
           d == Delta(seq, y)
<1>1. y \in 0..Modulus - 1 /\ y \in Int
  BY SeqType, PipeFacts
<1>2. d \in Int /\ (y + d) % Modulus = seq
  BY <1>1, DeltaType
<1> HIDE DEF d
<1>3. Modulus \in Nat \ {0} /\ b \in Int
  BY PipeFacts
<1>4. ((b % Modulus) + d) % Modulus = (b + d) % Modulus
  BY <1>2, <1>3, ModAdd
<1>5. NamedOf(b, seq) = b + d
  BY DEF NamedOf, d
<1>6. SeqOf(b + d) = seq
  BY <1>2, <1>4 DEF SeqOf
<1> QED BY <1>2, <1>3, <1>5, <1>6

(* Of what an acknowledgement says, nothing is missing and nothing is wrong. *)
LEMMA TopIs ==
  ASSUME NEW n \in Nat, NEW early \in BOOLEAN, n > 0 \/ early
  PROVE  /\ TopOf(n, early) \in Nat /\ Holds(n, early, TopOf(n, early))
         /\ \A i \in Int: Holds(n, early, i) => i <= TopOf(n, early)
         /\ \A k \in MaskOf(n, early): Holds(n, early, TopOf(n, early) - 1 - k)
         /\ \A i \in Int: Holds(n, early, i) /\ i < TopOf(n, early) /\ i >= TopOf(n, early) - Recent
              => TopOf(n, early) - 1 - i \in MaskOf(n, early)
BY PipeFacts DEF TopOf, Holds, MaskOf

LEMMA AckNames ==
  ASSUME NEW t, Good(t), t.active, t.seen, NEW acked \in SUBSET Frames, acked \subseteq HeldOf(t),
         NEW sent \in Nat, HeldOf(t) \subseteq 0..sent - 1, sent <= BaseOf(acked) + t.window
  PROVE  LET top == NamedOf(BaseOf(acked), t.highest)
         IN  /\ top \in HeldOf(t) /\ \A k \in t.mask: top - 1 - k \in HeldOf(t)
             /\ \A i \in HeldOf(t): i <= top
<1> DEFINE n == Size(t)
           b == BaseOf(acked)
           top == TopOf(n, t.pending.used)
<1>1. /\ n \in Nat /\ t.pending.used \in BOOLEAN /\ t.window \in 1..MaxWindow /\ MaxWindow \in 1..2
      /\ Recent \in Nat /\ Frames \subseteq Nat
  BY GoodFacts, PipeFacts DEF Window
<1>2. /\ n > 0 \/ t.pending.used
      /\ t.highest = SeqOf(top) /\ t.mask = MaskOf(n, t.pending.used)
  BY DEF Good, Truthful
<1>3. /\ top \in Nat /\ Holds(n, t.pending.used, top)
      /\ \A i \in Int: Holds(n, t.pending.used, i) => i <= top
      /\ \A k \in MaskOf(n, t.pending.used): Holds(n, t.pending.used, top - 1 - k)
  <2> HIDE DEF n
  <2> QED BY <1>1, <1>2, TopIs
<1>4. HeldOf(t) \subseteq Frames /\ \A i \in Int: i \in HeldOf(t) <=> Holds(n, t.pending.used, i)
  BY HeldIs
<1>5. b \in 0..Chunks /\ b \in Nat /\ \A i \in 0..b - 1: i \in acked
  BY BaseIs, PipeFacts
<1> HIDE DEF b, top, n
<1>6. top \in HeldOf(t) /\ \A i \in HeldOf(t): i <= top
  BY <1>1, <1>3, <1>4
<1>7. \A k \in t.mask: top - 1 - k \in HeldOf(t)
  <2> SUFFICES ASSUME NEW k \in t.mask PROVE top - 1 - k \in HeldOf(t)
    OBVIOUS
  <2>1. k \in 0..Recent - 1
    BY <1>2 DEF MaskOf
  <2>2. top - 1 - k \in Int
    BY <1>1, <1>3, <2>1
  <2> QED BY <1>2, <1>3, <1>4, <2>2
<1>8. top <= b + MaxWindow - 1
  BY <1>1, <1>5, <1>6 DEF b
<1>9. b - 1 <= top
  <2>1. CASE b = 0
    BY <1>3, <2>1
  <2>2. CASE b # 0
    <3>1. b - 1 \in HeldOf(t)
      BY <1>5, <2>2
    <3> QED BY <1>6, <3>1
  <2> QED BY <2>1, <2>2
<1>10. NamedOf(b, t.highest) = top
  <2>1. top \in Int /\ -1 <= top - b /\ top - b <= MaxWindow - 1
    BY <1>1, <1>3, <1>5, <1>8, <1>9
  <2> QED BY <1>2, <1>5, <2>1, NamedIs
<1> QED BY <1>6, <1>7, <1>10 DEF b

-----------------------------------------------------------------------------
(***************************************************************************)
(* Commands.                                                               *)
(***************************************************************************)
LEMMA ActiveRuns ==
  ASSUME IInv, s.active, inbox # <<>>
  PROVE  Running
<1>1. client.phase \in {"idle", "starting", "sending", "ending", "done", "failed"}
  BY DEF IInv, Types, ClientType
<1>2. client.phase \notin {"idle", "done", "failed"}
  BY DEF IInv, PhaseInv
<1>3. client.phase # "starting"
  BY DEF IInv, PhaseInv, StartWaits, StartDone
<1> QED BY <1>1, <1>2, <1>3 DEF Running

LEMMA HeadIs ==
  ASSUME inbox \in Seq(Requests), inbox # <<>>
  PROVE  /\ Head(inbox) = inbox[1] /\ Head(inbox) \in Requests /\ Len(inbox) \in Nat \ {0}
         /\ Tail(inbox) \in Seq(Requests) /\ Len(Tail(inbox)) = Len(inbox) - 1
         /\ \A q \in 1..Len(inbox) - 1: Tail(inbox)[q] = inbox[q + 1]
OBVIOUS

(* A frame that comes while the transfer runs has been received before, or is
   the one the device waits for, or the next one. *)
LEMMA FrameInWindow ==
  ASSUME IInv, s.active, inbox # <<>>, Head(inbox).op = "data"
  PROVE  /\ Running /\ Chunk \in Frames
         /\ \/ Chunk < Size(s) /\ Stale
            \/ /\ Chunk = Size(s) \/ (Chunk = Size(s) + 1 /\ s.window = 2)
               /\ ~Stale /\ InWindow /\ ~Clash /\ (Ahead = 0 <=> Chunk = Size(s))
<1> DEFINE n == Size(s)
           w == s.window
           c == Chunk
<1>1. Running
  BY ActiveRuns
<1>2. Good(s) /\ inbox \in Seq(Requests)
  BY DEF IInv, Types
<1>3. /\ n \in 0..Chunks /\ n \in Nat /\ w \in 1..MaxWindow /\ MaxWindow \in 1..2
      /\ Modulus \in Nat \ {0, 1} /\ 2 * MaxWindow < Modulus /\ Recent \in Nat /\ MaxWindow <= Recent
      /\ s.pending.used \in BOOLEAN
      /\ s.pending \in [used : BOOLEAN, seq : 0..Modulus - 1, chunk : Frames]
  BY <1>2, GoodFacts, PipeFacts DEF Window
<1>4. c \in Frames /\ c \in Nat /\ Len(inbox) \in Nat \ {0} /\ Head(inbox) = inbox[1]
  <2>1. Head(inbox) \in Requests /\ Len(inbox) \in Nat \ {0} /\ Head(inbox) = inbox[1]
    BY <1>2, HeadIs
  <2>2. c \in Frames
    BY <2>1 DEF Requests, Chunk
  <2> QED BY <2>1, <2>2, PipeFacts
<1>5. c < n + w /\ \A h \in Held: h < c + w
  <2>1. 1 \in 1..Len(inbox) /\ inbox[1].op = "data" /\ inbox[1].chunk = c
    BY <1>4 DEF Chunk
  <2> QED BY <1>1, <2>1 DEF IInv, InboxInv
<1>6. n - w <= c
  <2>1. CASE n = 0
    BY <1>3, <1>4, <2>1
  <2>2. CASE n # 0
    <3>1. n - 1 \in Int /\ Holds(n, s.pending.used, n - 1)
      BY <1>3, <2>2 DEF Holds
    <3>2. n - 1 \in Held
      BY <1>2, <3>1, HeldIs DEF Held, HeldOf
    <3>3. n - 1 < c + w
      BY <1>5, <3>2
    <3> QED BY <1>3, <1>4, <3>3
  <2> QED BY <2>1, <2>2
<1>7. Ahead = c - n
  <2>1. s.next = SeqOf(n)
    BY <1>2 DEF Good, InSequence
  <2>2. 2 * (c - n) < Modulus /\ -Modulus <= 2 * (c - n) /\ c \in Int /\ n \in Int
    BY <1>3, <1>4, <1>5, <1>6
  <2>3. Delta(SeqOf(c), SeqOf(n)) = c - n
    BY <2>2, DeltaIs
  <2> QED BY <2>1, <2>3 DEF Ahead
<1>8. CASE c < n
  <2>1. s.seen
    BY <1>2, <1>3, <1>4, <1>8 DEF Good, Truthful
  <2>2. c - n < 0 /\ c - n >= -Recent
    BY <1>3, <1>4, <1>6, <1>8
  <2> QED BY <1>1, <1>4, <1>7, <1>8, <2>1, <2>2 DEF Stale
<1>9. CASE ~(c < n)
  <2>1. c - n \in 0..w - 1 /\ ~(c - n < 0) /\ (c = n \/ (c = n + 1 /\ w = 2)) /\ (c - n = 0 <=> c = n)
        /\ (c - n > 0 => c = n + 1)
    BY <1>3, <1>4, <1>5, <1>9
  <2>2. ~Stale /\ InWindow
    BY <1>7, <2>1 DEF Stale, InWindow
  <2>3. ~Clash
    <3>1. SUFFICES ASSUME c = n + 1, s.pending.used PROVE s.pending = Early
      BY <1>7, <2>1 DEF Clash
    <3>2. s.pending.seq = SeqOf(n + 1) /\ s.pending.chunk = n + 1 /\ s.pending.used = TRUE
      BY <1>2, <1>3, <3>1 DEF Good, Buffered
    <3> QED BY <1>3, <3>1, <3>2 DEF Early
  <2> QED BY <1>1, <1>4, <1>7, <2>1, <2>2, <2>3
<1> QED BY <1>8, <1>9

LEMMA ThreeParts ==
  ASSUME NEW a \in Seq(Responses), NEW b \in Seq(Responses), NEW c \in Seq(Responses)
  PROVE  (a \o b) \o c = a \o (b \o c)
BY ConcatAssociative

(* A command that leaves no transfer running, for a reason, and does not
   answer as a START does. *)
LEMMA StepEnds ==
  ASSUME IInv, inbox # <<>>, Head(inbox).op # "start", inbox' = Tail(inbox),
         Len(outbox) < MaxOutbox, client' = client, starts' = starts,
         Good(s'), ~s'.active, refreshes' \in Nat, excuse' = TRUE,
         NEW replies \in Seq(Responses), Len(replies) <= 3, outbox' = outbox \o replies,
         \A p \in 1..Len(replies): replies[p].op \notin {"started", "startError"}
  PROVE  IInv'
<1>1. /\ inbox \in Seq(Requests) /\ outbox \in Seq(Responses) /\ client \in ClientType
      /\ starts \in Nat /\ Len(inbox) <= InboxSize /\ starts <= MaxStarts
  BY DEF IInv, Types, Bounds
<1>2. /\ inbox' \in Seq(Requests) /\ Len(inbox') = Len(inbox) - 1 /\ Len(inbox) \in Nat \ {0}
      /\ \A q \in 1..Len(inbox'): inbox'[q] = inbox[q + 1] /\ q + 1 \in 1..Len(inbox)
      /\ Head(inbox) = inbox[1]
  BY <1>1, HeadIs
<1>3. /\ outbox' \in Seq(Responses) /\ Len(outbox') = Len(outbox) + Len(replies)
      /\ Len(outbox) \in Nat /\ Len(replies) \in Nat
      /\ \A p \in 1..Len(outbox'): (p \in 1..Len(outbox) /\ outbox'[p] = outbox[p])
           \/ (p - Len(outbox) \in 1..Len(replies) /\ outbox'[p] = replies[p - Len(outbox)])
  BY <1>1
<1>4. NoStart => NoStart'
  BY <1>2 DEF NoStart
<1>5. NoStarted => NoStarted'
  BY <1>3 DEF NoStarted
<1>6. Types' /\ Bounds'
  BY <1>1, <1>2, <1>3, PipeFacts DEF Types, Bounds, Good
<1>7. PhaseInv'
  <2>1. ~s'.active /\ client'.phase = client.phase
    OBVIOUS
  <2>2. client.phase \in {"idle", "done", "failed"} => NoStart' /\ NoStarted'
    BY <1>4, <1>5 DEF IInv, PhaseInv
  <2>3. client.phase \in {"sending", "ending"} => NoStart' /\ NoStarted'
    BY <1>4, <1>5 DEF IInv, PhaseInv
  <2>4. ASSUME client.phase = "starting"
        PROVE  client.sent = 0 /\ client.acked = {} /\ StartWaits'
    <3>1. client.sent = 0 /\ client.acked = {} /\ StartWaits
      BY <2>4 DEF IInv, PhaseInv, StartDone
    <3>2. inbox[Len(inbox)].op = "start" /\ inbox[1].op # "start"
      BY <1>2, <3>1 DEF StartWaits
    <3>3. Len(inbox) # 1 /\ Len(inbox') # 0
      <4>1. Len(inbox) # 1
        BY <3>2
      <4> QED BY <1>2, <4>1
    <3>4. inbox'[Len(inbox')].op = "start"
      BY <1>2, <3>2, <3>3
    <3>5. \A q \in 1..Len(inbox') - 1: inbox'[q].op # "start"
      <4>1. \A q \in 1..Len(inbox) - 1: inbox[q].op # "start"
        BY <3>1 DEF StartWaits
      <4> QED BY <1>2, <4>1
    <3> QED BY <1>2, <1>5, <2>1, <3>1, <3>3, <3>4, <3>5 DEF StartWaits
  <2> QED BY <2>1, <2>2, <2>3, <2>4 DEF PhaseInv
<1>8. ~Running'
  BY DEF Running
<1>9. ExcuseInv' /\ ClientInv' /\ InboxInv' /\ OutboxInv'
  BY <1>8 DEF ExcuseInv, ClientInv, InboxInv, OutboxInv
<1> QED BY <1>6, <1>7, <1>9 DEF IInv

(* A frame that leaves the transfer running. *)
LEMMA StepRuns ==
  ASSUME IInv, Running, inbox # <<>>, Head(inbox).op = "data", inbox' = Tail(inbox),
         Len(outbox) < MaxOutbox, client' = client, starts' = starts,
         Good(s'), s'.active, s'.window = s.window, Size(s') >= Size(s),
         \A i \in Int: i \in Held' <=> i \in Held \/ i = Chunk,
         UNCHANGED <<refreshes, excuse>>,
         outbox' = outbox \/ (s'.seen /\ outbox' = Append(outbox, Sack(s', FALSE)))
  PROVE  IInv'
<1> DEFINE c == Chunk
           w == s.window
           ack == Sack(s', FALSE)
<1>1. /\ inbox \in Seq(Requests) /\ outbox \in Seq(Responses) /\ client \in ClientType
      /\ starts \in Nat /\ Len(inbox) <= InboxSize /\ starts <= MaxStarts
      /\ refreshes \in Nat /\ excuse \in BOOLEAN /\ Good(s)
  BY DEF IInv, Types, Bounds
<1>2. /\ inbox' \in Seq(Requests) /\ Len(inbox') = Len(inbox) - 1 /\ Len(inbox) \in Nat \ {0}
      /\ \A q \in 1..Len(inbox'): inbox'[q] = inbox[q + 1] /\ q + 1 \in 1..Len(inbox)
      /\ inbox[1].op = "data" /\ inbox[1].chunk = c
  BY <1>1, HeadIs DEF Chunk
<1>3. /\ client.acked \in SUBSET Frames /\ client.sent \in 0..Chunks /\ client.sent \in Nat
      /\ w \in 1..MaxWindow /\ MaxWindow \in 1..2 /\ Frames = 0..Chunks - 1
      /\ Size(s) \in Nat /\ Size(s') \in Nat
  <2>1. Size(s) \in 0..Chunks /\ Size(s') \in 0..Chunks /\ w \in Window
    BY <1>1, GoodFacts
  <2> QED BY <1>1, <2>1, PipeFacts DEF ClientType, Window
<1>4. /\ client.window = w /\ client.acked \subseteq Held /\ Held \subseteq 0..client.sent - 1
      /\ client.sent <= Base + client.window
  BY DEF IInv, ClientInv
<1>5. c < client.sent /\ c \in Frames
  <2>1. 1 \in 1..Len(inbox)
    BY <1>2
  <2>2. c < client.sent
    BY <1>2, <2>1 DEF IInv, InboxInv
  <2>3. inbox[1] \in Requests
    BY <1>1, <2>1
  <2>4. c \in Frames
    BY <1>2, <2>3 DEF Requests
  <2> QED BY <2>2, <2>4
<1>6. Held \subseteq Frames /\ Held' \subseteq Frames /\ Held' = HeldOf(s')
      /\ Frames \subseteq Int
  <2>1. HeldOf(s) \subseteq Frames /\ HeldOf(s') \subseteq Frames
    BY <1>1, HeldIs
  <2> QED BY <1>3, <2>1 DEF Held, HeldOf
<1>7. Held \subseteq Held' /\ Held' \subseteq 0..client.sent - 1
      /\ \A h \in Held': h \in Held \/ h = c
  BY <1>3, <1>4, <1>5, <1>6
<1>8. Base' = Base /\ Base = BaseOf(client.acked)
  BY DEF Base, BaseOf, Frames
<1>9. Running'
  BY DEF Running
<1>10. ClientInv'
  BY <1>4, <1>7, <1>8 DEF ClientInv
<1>11. InboxInv'
  <2> SUFFICES ASSUME NEW q \in 1..Len(inbox'), inbox'[q].op = "data"
               PROVE  /\ inbox'[q].chunk < client.sent /\ inbox'[q].chunk < Size(s') + w
                      /\ \A h \in Held': h < inbox'[q].chunk + w
                      /\ \A o \in 1..q - 1: inbox'[o].op = "data" => inbox'[o].chunk < inbox'[q].chunk + w
    BY DEF InboxInv
  <2>1. inbox'[q] = inbox[q + 1] /\ q + 1 \in 1..Len(inbox) /\ q \in Nat \ {0}
    BY <1>2
  <2>2. inbox'[q] \in Requests
    BY <1>2
  <2>3. inbox'[q].chunk \in Frames
    BY <2>2 DEF Requests
  <2>4. /\ inbox'[q].chunk < client.sent /\ inbox'[q].chunk < Size(s) + w
        /\ \A h \in Held: h < inbox'[q].chunk + w
        /\ \A o \in 1..(q + 1) - 1: inbox[o].op = "data" => inbox[o].chunk < inbox'[q].chunk + w
    BY <2>1 DEF IInv, InboxInv
  <2>5. c < inbox'[q].chunk + w
    BY <1>2, <2>1, <2>4
  <2>6. \A o \in 1..q - 1: inbox'[o] = inbox[o + 1] /\ o + 1 \in 1..(q + 1) - 1
    BY <1>2, <2>1
  <2>7. inbox'[q].chunk < Size(s') + w
    <3> DEFINE chunk == inbox'[q].chunk
               n == Size(s)
               m == Size(s')
    <3>1. chunk < n + w /\ m >= n /\ chunk \in Nat /\ n \in Nat /\ m \in Nat /\ w \in Nat
      <4>1. chunk \in Nat
        BY <2>3, PipeFacts
      <4> QED BY <1>3, <2>4, <4>1
    <3> HIDE DEF chunk, n, m, w
    <3>2. chunk < m + w
      BY <3>1
    <3> QED BY <3>2 DEF chunk, m
  <2> QED BY <1>7, <2>4, <2>5, <2>6, <2>7
<1>12. ack \in Responses /\ ack.op = "sack" /\ ack.error = FALSE /\ ack.highest = s'.highest
       /\ ack.mask = s'.mask
  <2>1. s'.highest \in 0..Modulus - 1 /\ s'.mask \in SUBSET (0..Recent - 1)
    BY DEF Good, SessionType
  <2> QED BY <2>1 DEF Sack, Responses
<1>13. s'.seen => /\ NamedOf(Base, s'.highest) \in Held'
                  /\ \A k \in s'.mask: NamedOf(Base, s'.highest) - 1 - k \in Held'
                  /\ \A i \in Held': i <= NamedOf(Base, s'.highest)
  <2>1. client.acked \subseteq HeldOf(s') /\ HeldOf(s') \subseteq 0..client.sent - 1
        /\ client.sent <= BaseOf(client.acked) + s'.window
    BY <1>4, <1>6, <1>7, <1>8
  <2> QED BY <1>3, <1>6, <1>8, <2>1, AckNames
<1>14. \A h: Named(h) = NamedOf(Base, h) /\ Named(h)' = NamedOf(Base, h)
  BY <1>8 DEF Named, NamedOf, Delta, SeqOf
<1>15. \A p \in 1..Len(outbox):
             /\ outbox[p].op = "sack" /\ ~outbox[p].error
             /\ Says(p) \in Held /\ \A k \in outbox[p].mask: Says(p) - 1 - k \in Held
             /\ \A a \in client.acked: a <= Says(p)
             /\ \A o \in 1..p - 1: Says(o) <= Says(p)
  BY DEF IInv, OutboxInv
<1>16. OutboxInv' /\ outbox' \in Seq(Responses) /\ Len(outbox') <= MaxOutbox + 2
       /\ (NoStarted => NoStarted')
  <2> DEFINE n == Len(outbox)
             named(p) == NamedOf(Base, outbox'[p].highest)
  <2>1. n \in Nat /\ n < MaxOutbox /\ MaxOutbox \in Nat
    BY <1>1, PipeFacts
  <2>2. /\ outbox' \in Seq(Responses) /\ Len(outbox') \in Nat /\ Len(outbox') <= n + 1
        /\ \A p \in 1..Len(outbox'):
             \/ p \in 1..n /\ outbox'[p] = outbox[p]
             \/ p = n + 1 /\ s'.seen /\ outbox'[p] = ack
    <3>1. outbox' = outbox \/ (s'.seen /\ outbox' = Append(outbox, ack))
      BY DEF ack
    <3> HIDE DEF ack
    <3>2. CASE outbox' = outbox
      BY <1>1, <2>1, <3>2
    <3>3. CASE s'.seen /\ outbox' = Append(outbox, ack)
      BY <1>1, <1>12, <2>1, <3>3
    <3> QED BY <3>1, <3>2, <3>3
  <2>3. NoStarted => NoStarted'
    BY <1>12, <2>2 DEF NoStarted
  <2>4. \A p \in 1..Len(outbox'): Says(p)' = named(p)
    BY <1>14 DEF Says
  <2>5. \A p \in 1..n: Says(p) = NamedOf(Base, outbox[p].highest)
    BY <1>14 DEF Says
  <2> HIDE DEF ack, n
  <2>6. ASSUME NEW p \in 1..Len(outbox')
        PROVE  /\ outbox'[p].op = "sack" /\ ~outbox'[p].error
               /\ named(p) \in Held' /\ \A k \in outbox'[p].mask: named(p) - 1 - k \in Held'
               /\ \A a \in client.acked: a <= named(p)
               /\ \A o \in 1..p - 1: named(o) <= named(p)
    <3>1. CASE p \in 1..n /\ outbox'[p] = outbox[p]
      <4>1. named(p) = Says(p)
        BY <2>5, <3>1
      <4>2. \A o \in 1..p - 1: o \in 1..n /\ outbox'[o] = outbox[o] /\ named(o) = Says(o)
        <5>1. \A o \in 1..p - 1: o \in 1..n /\ o \in 1..Len(outbox') /\ o # n + 1
          BY <2>1, <2>2, <3>1
        <5>2. \A o \in 1..p - 1: outbox'[o] = outbox[o]
          BY <2>2, <5>1
        <5> QED BY <2>5, <5>1, <5>2
      <4>3. /\ outbox[p].op = "sack" /\ ~outbox[p].error
            /\ Says(p) \in Held /\ \A k \in outbox[p].mask: Says(p) - 1 - k \in Held
            /\ \A a \in client.acked: a <= Says(p)
            /\ \A o \in 1..p - 1: Says(o) <= Says(p)
        <5>1. p \in 1..Len(outbox)
          BY <3>1 DEF n
        <5> QED BY <1>15, <5>1
      <4> HIDE DEF named
      <4> QED BY <1>7, <3>1, <4>1, <4>2, <4>3
    <3>2. CASE p = n + 1 /\ s'.seen /\ outbox'[p] = ack
      <4>1. named(p) = NamedOf(Base, s'.highest)
        BY <1>12, <3>2
      <4>2. \A o \in 1..p - 1: o \in 1..n /\ outbox'[o] = outbox[o] /\ named(o) = Says(o)
        <5>1. \A o \in 1..p - 1: o \in 1..n /\ o \in 1..Len(outbox') /\ o # n + 1
          BY <2>1, <2>2, <3>2
        <5>2. \A o \in 1..p - 1: outbox'[o] = outbox[o]
          BY <2>2, <5>1
        <5> QED BY <2>5, <5>1, <5>2
      <4>3. \A o \in 1..p - 1: Says(o) \in Held'
        BY <1>7, <1>15, <4>2 DEF n
      <4>4. client.acked \subseteq Held'
        BY <1>4, <1>7
      <4> HIDE DEF named
      <4> QED BY <1>12, <1>13, <3>2, <4>1, <4>2, <4>3, <4>4
    <3> QED BY <2>2, <3>1, <3>2
  <2>7. \A p \in 1..Len(outbox'): \A o \in 1..p - 1: o \in 1..Len(outbox')
    BY <2>2
  <2>8. OutboxInv'
    <3> SUFFICES ASSUME NEW p \in 1..Len(outbox')
                 PROVE  /\ outbox'[p].op = "sack" /\ ~outbox'[p].error
                        /\ Says(p)' \in Held' /\ \A k \in outbox'[p].mask: Says(p)' - 1 - k \in Held'
                        /\ \A a \in client.acked: a <= Says(p)'
                        /\ \A o \in 1..p - 1: Says(o)' <= Says(p)'
      BY DEF OutboxInv
    <3>1. Says(p)' = named(p) /\ \A o \in 1..p - 1: Says(o)' = named(o)
      BY <2>4, <2>7
    <3> HIDE DEF named
    <3> QED BY <2>6, <3>1
  <2> QED BY <2>1, <2>2, <2>3, <2>8 DEF n
<1>17. PhaseInv'
  <2>1. client.phase \in {"sending", "ending"} /\ NoStart /\ NoStarted
    BY DEF Running, IInv, PhaseInv
  <2>2. NoStart'
    BY <1>2, <2>1 DEF NoStart
  <2> QED BY <1>16, <2>1, <2>2 DEF PhaseInv
<1>18. ExcuseInv'
  BY DEF ExcuseInv, Good, Truthful
<1>19. Types' /\ Bounds'
  BY <1>1, <1>2, <1>16, PipeFacts DEF Types, Bounds, Good
<1> QED BY <1>10, <1>11, <1>16, <1>17, <1>18, <1>19 DEF IInv

(* Sessions that are over. *)
LEMMA AbortedGood ==
  ASSUME NEW t, t \in SessionType, InSequence(t), Paced(t)
  PROVE  Good(Aborted(t)) /\ ~Aborted(t).active
<1> DEFINE u == Aborted(t)
<1>1. /\ u \in SessionType /\ ~u.active /\ u.pending = NoPending
      /\ u.panel = t.panel /\ u.next = t.next /\ u.window = t.window
      /\ u.ackEvery = t.ackEvery /\ u.sinceAck = t.sinceAck
  <2>1. NoPending \in [used : BOOLEAN, seq : 0..Modulus - 1, chunk : Frames] /\ 0 \in 0..Chunks
    BY PipeFacts DEF NoPending
  <2> QED BY <2>1 DEF Aborted, SessionType
<1> HIDE DEF u
<1>2. InSequence(u) /\ Paced(u) /\ Truthful(u)
  BY <1>1 DEF InSequence, Paced, Size, Truthful
<1>3. Buffered(u)
  BY <1>1 DEF Buffered, NoPending
<1> QED BY <1>1, <1>2, <1>3 DEF Good, u

LEMMA FailedGood ==
  ASSUME NEW t, t \in SessionType, InSequence(t), t.ackEvery <= t.window
  PROVE  LET u == [Aborted(t) EXCEPT !.failed = TRUE, !.sinceAck = 0] IN Good(u) /\ ~u.active
<1> DEFINE a == Aborted(t)
           u == [a EXCEPT !.failed = TRUE, !.sinceAck = 0]
<1>1. /\ a \in SessionType /\ ~a.active /\ a.pending = NoPending
      /\ a.panel = t.panel /\ a.next = t.next /\ a.window = t.window /\ a.ackEvery = t.ackEvery
  <2>1. NoPending \in [used : BOOLEAN, seq : 0..Modulus - 1, chunk : Frames] /\ 0 \in 0..Chunks
    BY PipeFacts DEF NoPending
  <2> QED BY <2>1 DEF Aborted, SessionType
<1> HIDE DEF a
<1>2. /\ u \in SessionType /\ ~u.active /\ u.pending = NoPending /\ u.sinceAck = 0
      /\ u.panel = t.panel /\ u.next = t.next /\ u.window = t.window /\ u.ackEvery = t.ackEvery
  BY <1>1 DEF SessionType
<1> HIDE DEF u
<1>3. u.ackEvery \in 1..MaxWindow /\ MaxWindow \in Nat
  BY <1>2, PipeFacts DEF SessionType, Window
<1>4. InSequence(u) /\ Paced(u) /\ Truthful(u)
  BY <1>2, <1>3 DEF InSequence, Paced, Size, Truthful
<1>5. Buffered(u)
  BY <1>2 DEF Buffered, NoPending
<1> QED BY <1>2, <1>4, <1>5 DEF Good, u, a

LEMMA OverGood ==
  ASSUME NEW t, Good(t)
  PROVE  LET u == [t EXCEPT !.active = FALSE, !.written = 0] IN Good(u) /\ ~u.active
<1> DEFINE u == [t EXCEPT !.active = FALSE, !.written = 0]
<1>1. /\ u \in SessionType /\ ~u.active /\ u.pending = t.pending
      /\ u.panel = t.panel /\ u.next = t.next /\ u.window = t.window
      /\ u.ackEvery = t.ackEvery /\ u.sinceAck = t.sinceAck
  <2>1. t \in SessionType /\ 0 \in 0..Chunks
    BY PipeFacts DEF Good
  <2> QED BY <2>1 DEF SessionType
<1> HIDE DEF u
<1> QED BY <1>1 DEF u, Good, InSequence, Buffered, Truthful, Paced, Size

(* Sending an acknowledgement starts the count again. *)
LEMMA CountedGood ==
  ASSUME NEW t, t \in SessionType, InSequence(t), Buffered(t), Truthful(t), t.ackEvery <= t.window,
         NEW count \in Nat, count < t.ackEvery
  PROVE  LET u == [t EXCEPT !.sinceAck = count]
         IN  /\ Good(u) /\ u.active = t.active /\ u.seen = t.seen /\ u.window = t.window
             /\ u.panel = t.panel /\ u.pending = t.pending /\ Size(u) = Size(t)
             /\ \A error: Sack(u, error) = Sack(t, error)
<1> DEFINE u == [t EXCEPT !.sinceAck = count]
<1>1. /\ u \in SessionType /\ u.pending = t.pending /\ u.active = t.active /\ u.failed = t.failed
      /\ u.panel = t.panel /\ u.next = t.next /\ u.window = t.window /\ u.seen = t.seen
      /\ u.ackEvery = t.ackEvery /\ u.sinceAck = count /\ u.highest = t.highest /\ u.mask = t.mask
  BY DEF SessionType
<1> HIDE DEF u
<1>2. Size(u) = Size(t) /\ InSequence(u) /\ Buffered(u) /\ Truthful(u) /\ Paced(u)
  BY <1>1 DEF InSequence, Buffered, Truthful, Paced, Size
<1>3. \A error: Sack(u, error) = Sack(t, error)
  BY <1>1 DEF Sack
<1> QED BY <1>1, <1>2, <1>3 DEF u, Good

LEMMA SackType ==
  ASSUME NEW t \in SessionType, NEW error \in BOOLEAN
  PROVE  Sack(t, error) \in Responses /\ Sack(t, error).op = "sack"
BY DEF Sack, Responses, SessionType

LEMMA ReplyType ==
  ASSUME NEW op \in {"startError", "end", "refreshed", "timeout", "endError"}
  PROVE  Reply(op) \in Responses /\ Reply(op).op = op
BY DEF Reply, Responses

(* What a failing send, a refusal and the end of a transfer leave behind. *)
LEMMA NoReply ==
  ASSUME IInv, inbox # <<>>, Head(inbox).op # "start", inbox' = Tail(inbox),
         Len(outbox) < MaxOutbox, client' = client, starts' = starts,
         Good(s'), ~s'.active, refreshes' \in Nat, excuse' = TRUE, outbox' = outbox
  PROVE  IInv'
<1>1. outbox \in Seq(Responses)
  BY DEF IInv, Types
<1> DEFINE none == <<>>
<1>2. outbox' = outbox \o none
  BY <1>1, ConcatEmptySeq
<1>3. none \in Seq(Responses) /\ Len(none) = 0 /\ Len(none) <= 3 /\ 1..Len(none) = {}
  OBVIOUS
<1> HIDE DEF none
<1>4. \A p \in 1..Len(none): none[p].op \notin {"started", "startError"}
  BY <1>3
<1> QED BY <1>2, <1>3, <1>4, StepEnds

LEMMA OneReply ==
  ASSUME IInv, inbox # <<>>, Head(inbox).op # "start", inbox' = Tail(inbox),
         Len(outbox) < MaxOutbox, client' = client, starts' = starts,
         Good(s'), ~s'.active, refreshes' \in Nat, excuse' = TRUE,
         NEW m \in Responses, m.op \notin {"started", "startError"}, outbox' = Append(outbox, m)
  PROVE  IInv'
<1>1. outbox \in Seq(Responses)
  BY DEF IInv, Types
<1> DEFINE one == <<m>>
<1>2. outbox' = outbox \o one
  BY <1>1, AppendIsConcat
<1>3. one \in Seq(Responses) /\ Len(one) = 1 /\ Len(one) <= 3 /\ \A p \in 1..1: one[p] = m
  OBVIOUS
<1> HIDE DEF one
<1>4. \A p \in 1..Len(one): one[p].op \notin {"started", "startError"}
  BY <1>3
<1> QED BY <1>2, <1>3, <1>4, StepEnds

LEMMA SendFailsEnds ==
  ASSUME IInv, inbox # <<>>, Head(inbox).op # "start", inbox' = Tail(inbox),
         Len(outbox) < MaxOutbox, client' = client, starts' = starts,
         NEW t, t \in SessionType, InSequence(t), Paced(t), SendFails(t)
  PROVE  IInv'
<1>1. s' = Aborted(t) /\ excuse' = TRUE /\ outbox' = outbox /\ refreshes' = refreshes
  BY DEF SendFails
<1>2. refreshes \in Nat
  BY DEF IInv, Types
<1> QED BY <1>1, <1>2, AbortedGood, NoReply

LEMMA FailEnds ==
  ASSUME IInv, inbox # <<>>, Head(inbox).op # "start", inbox' = Tail(inbox),
         Len(outbox) < MaxOutbox, client' = client, starts' = starts,
         NEW t, t \in SessionType, InSequence(t), t.ackEvery <= t.window,
         NEW fault \in BOOLEAN, excuse \/ fault, Fail(t, fault)
  PROVE  IInv'
<1>1. /\ s' = [Aborted(t) EXCEPT !.failed = TRUE, !.sinceAck = 0] /\ excuse' = TRUE
      /\ refreshes' = refreshes
      /\ outbox' = Append(outbox, Sack(t, TRUE)) \/ outbox' = outbox
  <2>1. excuse \in BOOLEAN
    BY DEF IInv, Types
  <2> QED BY <2>1 DEF Fail
<1>2. refreshes' \in Nat
  BY <1>1 DEF IInv, Types
<1>3. Good(s') /\ ~s'.active
  BY <1>1, FailedGood
<1>4. Sack(t, TRUE) \in Responses /\ Sack(t, TRUE).op \notin {"started", "startError"}
  BY SackType
<1> QED BY <1>1, <1>2, <1>3, <1>4, NoReply, OneReply

LEMMA FinishEnds ==
  ASSUME IInv, inbox # <<>>, Head(inbox).op # "start", inbox' = Tail(inbox),
         Len(outbox) < MaxOutbox, client' = client, starts' = starts,
         NEW t, Good(t), NEW replies \in Seq(Responses), Len(replies) <= 1,
         \A p \in 1..Len(replies): replies[p].op \notin {"started", "startError"},
         Finish(t, replies)
  PROVE  IInv'
<1>1. outbox \in Seq(Responses) /\ refreshes \in Nat
  BY DEF IInv, Types
<1>2. ASSUME NEW more \in Seq(Responses), Len(more) <= 2,
             \A p \in 1..Len(more): more[p].op \notin {"started", "startError"},
             outbox' = outbox \o replies \o more,
             Good(s'), ~s'.active, refreshes' \in Nat, excuse' = TRUE
      PROVE  IInv'
  <2> DEFINE all == replies \o more
  <2>1. /\ all \in Seq(Responses) /\ Len(all) = Len(replies) + Len(more)
        /\ \A p \in 1..Len(replies) + Len(more):
             all[p] = IF p <= Len(replies) THEN replies[p] ELSE more[p - Len(replies)]
    BY <1>2, ConcatProperties
  <2>2. outbox' = outbox \o all
    BY <1>1, <1>2, ThreeParts
  <2> HIDE DEF all
  <2>3. Len(all) <= 3
    BY <1>2, <2>1
  <2>4. \A p \in 1..Len(all): all[p].op \notin {"started", "startError"}
    <3> SUFFICES ASSUME NEW p \in 1..Len(all) PROVE all[p].op \notin {"started", "startError"}
      OBVIOUS
    <3>1. Len(replies) \in Nat /\ Len(more) \in Nat /\ p \in 1..Len(replies) + Len(more)
      BY <1>2, <2>1
    <3>2. CASE p <= Len(replies)
      BY <2>1, <3>1, <3>2
    <3>3. CASE ~(p <= Len(replies))
      <4>1. p - Len(replies) \in 1..Len(more)
        BY <3>1, <3>3
      <4> QED BY <1>2, <2>1, <3>1, <3>3, <4>1
    <3> QED BY <3>2, <3>3
  <2> QED BY <1>2, <2>1, <2>2, <2>3, <2>4, StepEnds
<1>3. CASE \E result \in {"refreshed", "timeout"}:
             /\ s' = [t EXCEPT !.active = FALSE, !.written = 0]
             /\ refreshes' = refreshes + 1
             /\ \/ outbox' = outbox \o replies \o <<Reply("end"), Reply(result)>>
                \/ outbox' = outbox \o replies \o <<Reply("end")>>
             /\ excuse' = TRUE
  <2>1. PICK result \in {"refreshed", "timeout"}:
             /\ s' = [t EXCEPT !.active = FALSE, !.written = 0]
             /\ refreshes' = refreshes + 1
             /\ \/ outbox' = outbox \o replies \o <<Reply("end"), Reply(result)>>
                \/ outbox' = outbox \o replies \o <<Reply("end")>>
             /\ excuse' = TRUE
    BY <1>3
  <2>2. Good(s') /\ ~s'.active /\ refreshes' \in Nat
    <3>1. Good(s') /\ ~s'.active
      BY <2>1, OverGood
    <3> QED BY <1>1, <2>1, <3>1
  <2>3. /\ Reply("end") \in Responses /\ Reply(result) \in Responses
        /\ Reply("end").op \notin {"started", "startError"}
        /\ Reply(result).op \notin {"started", "startError"}
    BY ReplyType
  <2> DEFINE two == <<Reply("end"), Reply(result)>>
             one == <<Reply("end")>>
  <2>4. /\ two \in Seq(Responses) /\ Len(two) <= 2
        /\ \A p \in 1..Len(two): two[p].op \notin {"started", "startError"}
    BY <2>3
  <2>5. /\ one \in Seq(Responses) /\ Len(one) <= 2
        /\ \A p \in 1..Len(one): one[p].op \notin {"started", "startError"}
    BY <2>3
  <2>6. outbox' = outbox \o replies \o two \/ outbox' = outbox \o replies \o one
    BY <2>1
  <2> HIDE DEF two, one
  <2>7. CASE outbox' = outbox \o replies \o two
    BY <1>2, <2>1, <2>2, <2>4, <2>7
  <2>8. CASE outbox' = outbox \o replies \o one
    BY <1>2, <2>1, <2>2, <2>5, <2>8
  <2> QED BY <2>6, <2>7, <2>8
<1>4. CASE s' = Aborted(t) /\ outbox' = outbox \o replies /\ excuse' = TRUE /\ refreshes' = refreshes
  <2>1. Good(s') /\ ~s'.active
    BY <1>4, AbortedGood DEF Good
  <2> QED BY <1>1, <1>4, <2>1, StepEnds
<1> QED BY <1>3, <1>4 DEF Finish

LEMMA DataIgnoredKeeps == ASSUME IInv, DataIgnored PROVE IInv'
<1>1. /\ inbox # <<>> /\ Head(inbox).op = "data" /\ inbox' = Tail(inbox)
      /\ Len(outbox) < MaxOutbox /\ client' = client /\ starts' = starts
      /\ s.failed /\ s' = s /\ refreshes' = refreshes /\ outbox' = outbox /\ excuse' = excuse
  BY DEF DataIgnored, Execute, Quiet
<1>2. Good(s) /\ ~s.active /\ excuse = TRUE /\ refreshes \in Nat
  <2>1. Good(s) /\ excuse \in BOOLEAN /\ refreshes \in Nat /\ excuse
    BY <1>1 DEF IInv, Types, ExcuseInv
  <2>2. ~s.active
    BY <1>1, <2>1 DEF Good, Truthful
  <2> QED BY <2>1, <2>2
<1> QED BY <1>1, <1>2, NoReply

(* A frame comes when no transfer runs only if there is a reason. *)
LEMMA FrameExcused ==
  ASSUME IInv, inbox # <<>>, Head(inbox).op = "data", ~s.active
  PROVE  excuse = TRUE
<1>1. inbox \in Seq(Requests) /\ excuse \in BOOLEAN
  BY DEF IInv, Types
<1>2. 1 \in 1..Len(inbox) /\ inbox[1].op = "data"
  BY <1>1, HeadIs
<1> QED BY <1>1, <1>2 DEF IInv, ExcuseInv

LEMMA DataRefusedKeeps == ASSUME IInv, DataRefused PROVE IInv'
<1>1. /\ inbox # <<>> /\ Head(inbox).op = "data" /\ inbox' = Tail(inbox)
      /\ Len(outbox) < MaxOutbox /\ client' = client /\ starts' = starts
      /\ ~Stale /\ (InWindow => Clash) /\ Fail(s, FALSE)
  BY DEF DataRefused, Execute
<1>2. ~s.active
  BY <1>1, FrameInWindow
<1>3. excuse = TRUE
  BY <1>1, <1>2, FrameExcused
<1>4. s \in SessionType /\ InSequence(s) /\ s.ackEvery <= s.window
  BY DEF IInv, Good, Paced
<1> QED BY <1>1, <1>3, <1>4, FailEnds

LEMMA DataStaleKeeps == ASSUME IInv, DataStale PROVE IInv'
<1> DEFINE t == [s EXCEPT !.sinceAck = 0]
<1>1. /\ inbox # <<>> /\ Head(inbox).op = "data" /\ inbox' = Tail(inbox)
      /\ Len(outbox) < MaxOutbox /\ client' = client /\ starts' = starts /\ Stale
      /\ \/ s' = t /\ outbox' = Append(outbox, Sack(s, FALSE)) /\ UNCHANGED <<refreshes, excuse>>
         \/ SendFails(t)
  BY DEF DataStale, Execute
<1>2. /\ Good(s) /\ s \in SessionType /\ InSequence(s) /\ Buffered(s) /\ Truthful(s)
      /\ s.ackEvery <= s.window /\ 0 < s.ackEvery /\ s.active /\ s.seen
  <2>1. Good(s)
    BY DEF IInv
  <2>2. s.ackEvery \in 1..MaxWindow /\ MaxWindow \in Nat
    BY <2>1, GoodFacts, PipeFacts DEF Window
  <2> QED BY <1>1, <2>1, <2>2 DEF Good, Paced, Stale
<1>3. /\ Good(t) /\ t.active = s.active /\ t.seen = s.seen /\ t.window = s.window
      /\ t.panel = s.panel /\ t.pending = s.pending /\ Size(t) = Size(s)
      /\ Sack(t, FALSE) = Sack(s, FALSE)
  BY <1>2, CountedGood
<1> HIDE DEF t
<1>4. CASE SendFails(t)
  BY <1>1, <1>3, <1>4, SendFailsEnds DEF Good
<1>5. CASE s' = t /\ outbox' = Append(outbox, Sack(s, FALSE)) /\ UNCHANGED <<refreshes, excuse>>
  <2>1. Running /\ Chunk \in Frames /\ Chunk < Size(s)
    BY <1>1, <1>2, FrameInWindow
  <2>2. Size(s) \in Nat /\ Frames \subseteq Nat
    BY <1>2, GoodFacts, PipeFacts
  <2>3. Chunk \in Int /\ Holds(Size(s), s.pending.used, Chunk)
    BY <2>1, <2>2 DEF Holds
  <2>4. Chunk \in Held
    BY <1>2, <2>3, HeldIs DEF Held, HeldOf
  <2>5. Held' = Held
    BY <1>3, <1>5 DEF Held
  <2>6. Good(s') /\ s'.active /\ s'.seen /\ s'.window = s.window /\ Size(s') >= Size(s)
    <3>1. Good(t) /\ t.active /\ t.seen /\ t.window = s.window /\ Size(t) >= Size(s)
      BY <1>2, <1>3, <2>2
    <3> QED BY <1>5, <3>1
  <2>7. outbox' = Append(outbox, Sack(s', FALSE))
    BY <1>3, <1>5
  <2>8. \A i \in Int: i \in Held' <=> i \in Held \/ i = Chunk
    BY <2>4, <2>5
  <2>9. UNCHANGED <<refreshes, excuse>>
    BY <1>5
  <2> QED BY <1>1, <2>1, <2>6, <2>7, <2>8, <2>9, StepRuns
<1> QED BY <1>1, <1>4, <1>5

(* What a frame that is taken makes of the session. *)
LEMMA Acceptance ==
  ASSUME IInv, Acceptable
  PROVE  /\ inbox # <<>> /\ Head(inbox).op = "data" /\ inbox' = Tail(inbox)
         /\ Len(outbox) < MaxOutbox /\ client' = client /\ starts' = starts
         /\ Good(s) /\ Running /\ s.active /\ Chunk \in Frames /\ Fits(s)
         /\ Noted \in SessionType /\ InSequence(Noted) /\ Noted.ackEvery <= Noted.window
         /\ Drain(Noted) => Fits(Noted)
         /\ LET u == Drained(Noted)
            IN  /\ u \in SessionType /\ InSequence(u) /\ Buffered(u) /\ Truthful(u)
                /\ u.active /\ u.seen /\ Size(u) >= Size(s) /\ u.window = s.window
                /\ u.ackEvery = s.ackEvery /\ u.sinceAck = s.sinceAck
                /\ \A i \in Int: i \in HeldOf(u) <=> i \in Held \/ i = Chunk
<1>1. /\ inbox # <<>> /\ Head(inbox).op = "data" /\ inbox' = Tail(inbox)
      /\ Len(outbox) < MaxOutbox /\ client' = client /\ starts' = starts
      /\ ~s.failed /\ InWindow /\ ~Clash /\ s.active
  BY DEF Acceptable, Execute, InWindow
<1>2. Good(s)
  BY DEF IInv
<1>3. Size(s) \in 0..Chunks /\ Frames = 0..Chunks - 1 /\ Chunks \in Nat \ {0, 1}
      /\ Modulus \in Nat \ {0, 1} /\ Recent \in Nat
  BY <1>2, GoodFacts, PipeFacts
<1>4. /\ Running /\ Chunk \in Frames
      /\ Chunk = Size(s) \/ (Chunk = Size(s) + 1 /\ s.window = 2)
      /\ Ahead = 0 <=> Chunk = Size(s)
  <2>1. ~Stale
    <3>1. SUFFICES ASSUME Ahead < 0, Ahead \in 0..s.window - 1 PROVE FALSE
      BY <1>1 DEF Stale, InWindow
    <3> QED BY <3>1
  <2> QED BY <1>1, <2>1, FrameInWindow
<1>5. Fits(s)
  BY <1>3, <1>4 DEF Fits, Size
<1>6. Taken = TakenOf(s, Chunk)
  BY <1>4 DEF Taken, TakenOf, Early
<1> DEFINE u == Drained(Noted)
<1>7. /\ Noted \in SessionType /\ InSequence(Noted) /\ Noted.ackEvery = s.ackEvery
      /\ Noted.window = s.window
      /\ Drain(Noted) => Size(Noted) \in Frames
      /\ u \in SessionType /\ InSequence(u) /\ Buffered(u) /\ Truthful(u)
      /\ u.active /\ u.seen /\ Size(u) >= Size(s)
      /\ u.window = s.window /\ u.ackEvery = s.ackEvery /\ u.sinceAck = s.sinceAck
      /\ \A i \in Int: Holds(Size(u), u.pending.used, i)
                         <=> Holds(Size(s), s.pending.used, i) \/ i = Chunk
  <2>1. Noted = Recorded(TakenOf(s, Chunk), SeqOf(Chunk))
    BY <1>6 DEF Noted
  <2> QED BY <1>1, <1>2, <1>4, <2>1, Accepted
<1> HIDE DEF u
<1>8. Drain(Noted) => Fits(Noted)
  BY <1>3, <1>7 DEF Fits, Size
<1>9. Noted.ackEvery <= Noted.window /\ s.ackEvery <= s.window /\ 0 < s.ackEvery
  BY <1>2, <1>7, GoodFacts, PipeFacts DEF Good, Paced, Window
<1>10. \A i \in Int: i \in Held <=> Holds(Size(s), s.pending.used, i)
  BY <1>2, HeldIs DEF Held, HeldOf
<1>11. \A i \in Int: i \in HeldOf(u) <=> Holds(Size(u), u.pending.used, i)
  <2> DEFINE v == [u EXCEPT !.sinceAck = 0]
  <2>1. Good(v) /\ v.panel = u.panel /\ v.pending = u.pending /\ Size(v) = Size(u)
    BY <1>7, <1>9, CountedGood
  <2> HIDE DEF v
  <2>2. HeldOf(v) = HeldOf(u)
    BY <2>1 DEF HeldOf
  <2>3. \A i \in Int: i \in HeldOf(v) <=> Holds(Size(v), v.pending.used, i)
    BY <2>1, HeldIs
  <2> QED BY <2>1, <2>2, <2>3
<1> QED BY <1>1, <1>2, <1>4, <1>5, <1>7, <1>8, <1>9, <1>10, <1>11 DEF u

LEMMA DataStreamFailsKeeps == ASSUME IInv, DataStreamFails PROVE IInv'
<1>1. Acceptable /\ Faults \in BOOLEAN
  BY PipeFacts DEF DataStreamFails
<1>2. /\ inbox # <<>> /\ Head(inbox).op = "data" /\ inbox' = Tail(inbox)
      /\ Len(outbox) < MaxOutbox /\ client' = client /\ starts' = starts
      /\ Good(s) /\ Fits(s)
      /\ Noted \in SessionType /\ InSequence(Noted) /\ Noted.ackEvery <= Noted.window
      /\ Drain(Noted) => Fits(Noted)
  BY <1>1, Acceptance
<1>3. s \in SessionType /\ InSequence(s) /\ s.ackEvery <= s.window
  BY <1>2 DEF Good, Paced
<1>4. CASE Faults /\ Fail(s, Faults)
  BY <1>1, <1>2, <1>3, <1>4, FailEnds
<1>5. CASE Faults /\ Fail(Noted, Faults)
  BY <1>1, <1>2, <1>5, FailEnds
<1> QED BY <1>2, <1>4, <1>5 DEF DataStreamFails

LEMMA DataAcceptedKeeps == ASSUME IInv, DataAccepted PROVE IInv'
<1> DEFINE u == Drained(Noted)
           t == [u EXCEPT !.sinceAck = @ + 1]
           acked == [t EXCEPT !.sinceAck = 0]
<1>1. Acceptable
  BY DEF DataAccepted
<1>2. \/ ~SackDue(t) /\ Quiet(t)
      \/ SendFails(acked)
      \/ /\ s' = acked /\ outbox' = Append(outbox, Sack(t, FALSE))
         /\ UNCHANGED <<refreshes, excuse>>
      \/ Finish(acked, <<Sack(t, FALSE)>>)
  BY DEF DataAccepted
<1>3. /\ inbox # <<>> /\ Head(inbox).op = "data" /\ inbox' = Tail(inbox)
      /\ Len(outbox) < MaxOutbox /\ client' = client /\ starts' = starts
      /\ Good(s) /\ Running /\ s.active /\ Chunk \in Frames
      /\ u \in SessionType /\ InSequence(u) /\ Buffered(u) /\ Truthful(u)
      /\ u.active /\ u.seen /\ Size(u) >= Size(s) /\ u.window = s.window
      /\ u.ackEvery = s.ackEvery /\ u.sinceAck = s.sinceAck
      /\ \A i \in Int: i \in HeldOf(u) <=> i \in Held \/ i = Chunk
  BY <1>1, Acceptance
<1> HIDE DEF u
<1>4. /\ u.ackEvery <= u.window /\ 0 < u.ackEvery /\ u.ackEvery \in Nat /\ u.sinceAck + 1 \in Nat
      /\ u.sinceAck < u.ackEvery
  <2>1. s.ackEvery \in 1..MaxWindow /\ MaxWindow \in Nat /\ s.sinceAck \in Nat
        /\ s.ackEvery <= s.window /\ s.sinceAck < s.ackEvery
    BY <1>3, GoodFacts, PipeFacts DEF Window, Good, Paced
  <2> QED BY <1>3, <2>1
<1>5. t = [u EXCEPT !.sinceAck = u.sinceAck + 1]
  OBVIOUS
<1>6. acked = [u EXCEPT !.sinceAck = 0] /\ t.sinceAck = u.sinceAck + 1 /\ t.ackEvery = u.ackEvery
      /\ t.highest = u.highest /\ t.mask = u.mask
  <2>1. u \in SessionType
    BY <1>3
  <2> QED BY <2>1, <1>5 DEF SessionType
<1> HIDE DEF t, acked
<1>7. /\ Good(acked) /\ acked.active /\ acked.seen /\ acked.window = s.window
      /\ Size(acked) >= Size(s) /\ HeldOf(acked) = HeldOf(u)
      /\ Sack(acked, FALSE) = Sack(t, FALSE)
  <2>1. /\ Good(acked) /\ acked.active = u.active /\ acked.seen = u.seen /\ acked.window = u.window
        /\ acked.panel = u.panel /\ acked.pending = u.pending /\ Size(acked) = Size(u)
        /\ Sack(acked, FALSE) = Sack(u, FALSE)
    <3> DEFINE v == [u EXCEPT !.sinceAck = 0]
    <3>1. /\ Good(v) /\ v.active = u.active /\ v.seen = u.seen /\ v.window = u.window
          /\ v.panel = u.panel /\ v.pending = u.pending /\ Size(v) = Size(u)
          /\ Sack(v, FALSE) = Sack(u, FALSE)
      <4>1. /\ u \in SessionType /\ InSequence(u) /\ Buffered(u) /\ Truthful(u)
            /\ u.ackEvery <= u.window /\ 0 < u.ackEvery /\ 0 \in Nat
        BY <1>3, <1>4
      <4> QED BY <4>1, CountedGood
    <3>2. acked = v
      BY <1>6
    <3> HIDE DEF v
    <3> QED BY <3>1, <3>2
  <2>2. Sack(u, FALSE) = Sack(t, FALSE)
    BY <1>6 DEF Sack
  <2> QED BY <1>3, <2>1, <2>2 DEF HeldOf
<1>8. CASE ~SackDue(t) /\ Quiet(t)
  <2>1. u.sinceAck + 1 < u.ackEvery
    BY <1>4, <1>6, <1>8 DEF SackDue
  <2>2. /\ Good(t) /\ t.active = u.active /\ t.window = u.window
        /\ t.panel = u.panel /\ t.pending = u.pending /\ Size(t) = Size(u)
    BY <1>3, <1>4, <1>5, <2>1, CountedGood
  <2>3. HeldOf(t) = HeldOf(u)
    BY <2>2 DEF HeldOf
  <2>4. s' = t /\ outbox' = outbox /\ UNCHANGED <<refreshes, excuse>>
    BY <1>8 DEF Quiet
  <2>5. \A i \in Int: i \in Held' <=> i \in Held \/ i = Chunk
    <3>1. Held' = HeldOf(s')
      BY DEF Held, HeldOf
    <3> QED BY <1>3, <2>3, <2>4, <3>1
  <2>6. Good(s') /\ s'.active /\ s'.window = s.window /\ Size(s') >= Size(s)
    BY <1>3, <2>2, <2>4
  <2> QED BY <1>3, <2>4, <2>5, <2>6, StepRuns
<1>9. CASE SendFails(acked)
  BY <1>3, <1>7, <1>9, SendFailsEnds DEF Good
<1>10. CASE s' = acked /\ outbox' = Append(outbox, Sack(t, FALSE)) /\ UNCHANGED <<refreshes, excuse>>
  <2>1. \A i \in Int: i \in Held' <=> i \in Held \/ i = Chunk
    <3>1. Held' = HeldOf(s')
      BY DEF Held, HeldOf
    <3> QED BY <1>3, <1>7, <1>10, <3>1
  <2>2. Good(s') /\ s'.active /\ s'.seen /\ s'.window = s.window /\ Size(s') >= Size(s)
    BY <1>7, <1>10
  <2>3. outbox' = Append(outbox, Sack(s', FALSE)) /\ UNCHANGED <<refreshes, excuse>>
    BY <1>7, <1>10
  <2> QED BY <1>3, <2>1, <2>2, <2>3, StepRuns
<1>11. CASE Finish(acked, <<Sack(t, FALSE)>>)
  <2>1. Sack(t, FALSE) \in Responses /\ Sack(t, FALSE).op = "sack"
    <3>1. acked \in SessionType
      BY <1>7 DEF Good
    <3> QED BY <1>7, <3>1, SackType
  <2> DEFINE replies == <<Sack(t, FALSE)>>
  <2>2. /\ replies \in Seq(Responses) /\ Len(replies) <= 1
        /\ \A p \in 1..Len(replies): replies[p].op \notin {"started", "startError"}
    <3> DEFINE m == Sack(t, FALSE)
    <3>1. m \in Responses /\ m.op \notin {"started", "startError"} /\ replies = <<m>>
      BY <2>1
    <3> HIDE DEF m, replies
    <3> QED BY <3>1
  <2>3. Finish(acked, replies)
    BY <1>11
  <2> HIDE DEF replies
  <2> QED BY <1>3, <1>7, <2>2, <2>3, FinishEnds
<1> QED BY <1>2, <1>8, <1>9, <1>10, <1>11

LEMMA EndKeeps == ASSUME IInv, End PROVE IInv'
<1> DEFINE ack == s.active /\ s.seen
           tail == IF ack THEN <<Sack(s, FALSE)>> ELSE <<>>
           t == IF ack THEN [s EXCEPT !.sinceAck = 0] ELSE s
<1>1. /\ inbox # <<>> /\ Head(inbox).op = "end" /\ inbox' = Tail(inbox)
      /\ Len(outbox) < MaxOutbox /\ client' = client /\ starts' = starts
      /\ \/ SendFails(t)
         \/ Finish(t, tail)
         \/ /\ s' = Aborted(t) /\ excuse' = TRUE /\ refreshes' = refreshes
            /\ \/ outbox' = outbox \o tail \o <<Reply("endError")>>
               \/ outbox' = outbox \o tail
  BY DEF End, Execute
<1>2. /\ Good(s) /\ s \in SessionType /\ InSequence(s) /\ Buffered(s) /\ Truthful(s)
      /\ s.ackEvery <= s.window /\ 0 < s.ackEvery
  <2>1. Good(s)
    BY DEF IInv
  <2>2. s.ackEvery \in 1..MaxWindow /\ MaxWindow \in Nat
    BY <2>1, GoodFacts, PipeFacts DEF Window
  <2> QED BY <2>1, <2>2 DEF Good, Paced
<1>3. Good(t)
  <2> DEFINE v == [s EXCEPT !.sinceAck = 0]
  <2>1. Good(v)
    BY <1>2, CountedGood
  <2> QED BY <1>2, <2>1
<1>4. /\ tail \in Seq(Responses) /\ Len(tail) \in 0..1
      /\ \A p \in 1..Len(tail): tail[p].op \notin {"started", "startError"}
  <2> DEFINE m == Sack(s, FALSE)
  <2>1. m \in Responses /\ m.op \notin {"started", "startError"}
    BY <1>2, SackType
  <2>2. tail = <<m>> \/ tail = <<>>
    OBVIOUS
  <2> HIDE DEF m, tail
  <2>3. CASE tail = <<m>>
    BY <2>1, <2>3
  <2>4. CASE tail = <<>>
    <3>1. tail \in Seq(Responses) /\ Len(tail) = 0 /\ 1..Len(tail) = {}
      BY <2>4
    <3> QED BY <3>1
  <2> QED BY <2>2, <2>3, <2>4
<1> HIDE DEF tail, t
<1>5. CASE SendFails(t)
  BY <1>1, <1>3, <1>5, SendFailsEnds DEF Good
<1>6. CASE Finish(t, tail)
  BY <1>1, <1>3, <1>4, <1>6, FinishEnds
<1>7. CASE /\ s' = Aborted(t) /\ excuse' = TRUE /\ refreshes' = refreshes
           /\ \/ outbox' = outbox \o tail \o <<Reply("endError")>>
              \/ outbox' = outbox \o tail
  <2>1. Good(s') /\ ~s'.active /\ refreshes' \in Nat /\ outbox \in Seq(Responses)
    <3>1. Good(s') /\ ~s'.active
      BY <1>3, <1>7, AbortedGood DEF Good
    <3> QED BY <1>7, <3>1 DEF IInv, Types
  <2>0. /\ inbox # <<>> /\ Head(inbox).op # "start" /\ inbox' = Tail(inbox)
        /\ Len(outbox) < MaxOutbox /\ client' = client /\ starts' = starts /\ excuse' = TRUE
    BY <1>1, <1>7
  <2>2. CASE outbox' = outbox \o tail
    <3>1. /\ tail \in Seq(Responses) /\ Len(tail) <= 3
          /\ \A p \in 1..Len(tail): tail[p].op \notin {"started", "startError"}
      BY <1>4
    <3> QED BY <2>0, <2>1, <2>2, <3>1, StepEnds
  <2>3. CASE outbox' = outbox \o tail \o <<Reply("endError")>>
    <3> DEFINE last == <<Reply("endError")>>
               all == tail \o last
    <3>1. /\ last \in Seq(Responses) /\ Len(last) = 1
          /\ last[1].op \notin {"started", "startError"}
      BY ReplyType
    <3>2. outbox' = outbox \o tail \o last
      BY <2>3
    <3> HIDE DEF last
    <3>3. /\ all \in Seq(Responses) /\ Len(all) = Len(tail) + Len(last)
          /\ \A p \in 1..Len(tail) + Len(last):
               all[p] = IF p <= Len(tail) THEN tail[p] ELSE last[p - Len(tail)]
      BY <1>4, <3>1, ConcatProperties
    <3>4. outbox' = outbox \o all
      BY <1>4, <2>1, <3>1, <3>2, ThreeParts
    <3> HIDE DEF all
    <3>5. Len(all) <= 3
      BY <1>4, <3>1, <3>3
    <3>6. \A p \in 1..Len(all): all[p].op \notin {"started", "startError"}
      <4> SUFFICES ASSUME NEW p \in 1..Len(all) PROVE all[p].op \notin {"started", "startError"}
        OBVIOUS
      <4>1. CASE p <= Len(tail)
        <5>1. p \in 1..Len(tail) /\ all[p] = tail[p]
          BY <1>4, <3>1, <3>3, <4>1
        <5> QED BY <1>4, <5>1
      <4>2. CASE ~(p <= Len(tail))
        <5>1. p - Len(tail) = 1 /\ all[p] = last[p - Len(tail)]
          BY <1>4, <3>1, <3>3, <4>2
        <5> QED BY <3>1, <5>1
      <4> QED BY <4>1, <4>2
    <3> QED BY <2>0, <2>1, <3>3, <3>4, <3>5, <3>6, StepEnds
  <2> QED BY <1>7, <2>2, <2>3
<1> QED BY <1>1, <1>5, <1>6, <1>7

LEMMA StartKeeps == ASSUME IInv, Start PROVE IInv'
<1> DEFINE m == Head(inbox)
           window == Smaller(m.window, MaxWindow)
           every == AckEvery(m)
           t == Fresh(m.kind, window, every)
           started == [op |-> "started", window |-> t.window]
<1>1. /\ inbox # <<>> /\ m.op = "start" /\ inbox' = Tail(inbox)
      /\ Len(outbox) < MaxOutbox /\ client' = client /\ starts' = starts /\ refreshes' = 0
      /\ \/ s' = t /\ outbox' = Append(outbox, started) /\ excuse' = FALSE
         \/ /\ s' = [Aborted(t) EXCEPT !.failed = TRUE] /\ excuse' = TRUE
            /\ outbox' = Append(outbox, Reply("startError")) \/ outbox' = outbox
         \/ s' = Aborted(t) /\ excuse' = TRUE /\ outbox' = outbox
  BY DEF Start, Execute
<1>2. /\ inbox \in Seq(Requests) /\ outbox \in Seq(Responses) /\ client \in ClientType
      /\ starts \in Nat /\ Len(inbox) <= InboxSize /\ starts <= MaxStarts
      /\ m \in Requests /\ Len(inbox) \in Nat \ {0} /\ m = inbox[1] /\ Len(outbox) \in Nat
      /\ inbox' \in Seq(Requests) /\ Len(inbox') = Len(inbox) - 1
  <2>1. inbox \in Seq(Requests) /\ outbox \in Seq(Responses)
    BY DEF IInv, Types
  <2> QED BY <1>1, <2>1, HeadIs DEF IInv, Types, Bounds
<1>3. client.phase = "starting" /\ StartWaits /\ client.sent = 0 /\ client.acked = {}
  <2>1. ~NoStart
    BY <1>1, <1>2 DEF NoStart
  <2>2. client.phase \in {"idle", "starting", "sending", "ending", "done", "failed"}
    BY <1>2 DEF ClientType
  <2>3. client.phase = "starting"
    BY <2>1, <2>2 DEF IInv, PhaseInv
  <2>4. ~StartDone
    BY <1>1 DEF StartDone
  <2> QED BY <2>3, <2>4 DEF IInv, PhaseInv
<1>4. Len(inbox) = 1 /\ inbox' = <<>>
  <2>1. \A q \in 1..Len(inbox) - 1: inbox[q].op # "start"
    BY <1>3 DEF StartWaits
  <2>2. 1 \notin 1..Len(inbox) - 1
    BY <1>1, <1>2, <2>1
  <2>3. Len(inbox) = 1
    BY <1>2, <2>2
  <2> QED BY <1>2, <2>3
<1>5. /\ m.kind \in {"raw", "compressed", "partial"} /\ m.window \in Nat \ {0}
      /\ m.ackEvery \in Nat \ {0}
  BY <1>1, <1>2, PipeFacts DEF Requests
<1>6. \A a, b \in Nat \ {0}: Smaller(a, b) \in Nat \ {0} /\ Smaller(a, b) <= a /\ Smaller(a, b) <= b
  <2> SUFFICES ASSUME NEW a \in Nat \ {0}, NEW b \in Nat \ {0}
               PROVE  Smaller(a, b) \in Nat \ {0} /\ Smaller(a, b) <= a /\ Smaller(a, b) <= b
    OBVIOUS
  <2>1. {a, b} \in SUBSET Nat /\ {a, b} # {}
    OBVIOUS
  <2>2. Min({a, b}) \in {a, b} /\ \A y \in {a, b}: Min({a, b}) <= y
    BY <2>1, MinIsLeast
  <2> QED BY <2>2 DEF Smaller
<1> HIDE DEF m
<1>7. window \in Window /\ every \in Window /\ every <= window /\ 0 < every
  <2> DEFINE w == Smaller(m.window, MaxWindow)
             e == Smaller(m.ackEvery, w)
  <2>1. MaxWindow \in Nat \ {0}
    BY PipeFacts
  <2>2. w \in Nat \ {0} /\ w <= MaxWindow
    BY <1>5, <1>6, <2>1
  <2> HIDE DEF w
  <2>3. e \in Nat \ {0} /\ e <= w
    BY <1>5, <1>6, <2>2
  <2>4. window = w /\ every = e
    BY DEF w, AckEvery
  <2> HIDE DEF e, window, every
  <2> QED BY <2>1, <2>2, <2>3, <2>4 DEF Window
<1> HIDE DEF window, every
<1>8. /\ t \in SessionType /\ t.panel = <<>> /\ ~t.pending.used /\ ~t.seen /\ ~t.failed /\ t.next = 0
      /\ t.window = window /\ t.ackEvery = every /\ t.sinceAck = 0 /\ t.active
  <2>1. NoPending \in [used : BOOLEAN, seq : 0..Modulus - 1, chunk : Frames] /\ ~NoPending.used
    BY PipeFacts DEF NoPending
  <2>2. 0 \in 0..Modulus - 1 /\ 0 \in 0..Chunks /\ <<>> \in Seq(Frames)
    BY PipeFacts
  <2> QED BY <1>5, <1>7, <2>1, <2>2 DEF Fresh, SessionType
<1> HIDE DEF t
<1>9. /\ Size(t) = 0 /\ InSequence(t) /\ Paced(t) /\ Good(t)
  <2>1. Size(t) = 0 /\ 1..0 = {} /\ 0 <= Chunks
    BY <1>8, PipeFacts DEF Size
  <2>2. SeqOf(0) = 0
    <3>1. Modulus \in Nat \ {0} /\ 0 \in 0..Modulus - 1
      BY PipeFacts
    <3> QED BY <3>1, ModSmall DEF SeqOf
  <2>3. InSequence(t)
    BY <1>8, <2>1, <2>2 DEF InSequence
  <2>4. Paced(t)
    BY <1>7, <1>8 DEF Paced
  <2>5. Buffered(t)
    BY <1>8 DEF Buffered
  <2>6. Truthful(t)
    BY <1>8, <2>1 DEF Truthful
  <2> QED BY <1>8, <2>1, <2>3, <2>4, <2>5, <2>6 DEF Good
<1>10. started \in Responses /\ started.op = "started"
  BY <1>7, <1>8 DEF Responses, Window
<1>11. Reply("startError") \in Responses /\ Reply("startError").op = "startError"
  BY ReplyType
<1>12. \A p \in 1..Len(outbox): outbox[p].op \notin {"started", "startError"}
  BY <1>3 DEF StartWaits, NoStarted
<1>13. ASSUME Good(s'), excuse' \in BOOLEAN, outbox' \in Seq(Responses), Len(outbox') <= MaxOutbox + 2,
              StartDone', s'.active \/ excuse', s'.failed => excuse'
       PROVE  IInv'
  <2>1. PhaseInv'
    BY <1>1, <1>3, <1>13 DEF PhaseInv
  <2>2. ~Running'
    BY <1>1, <1>3 DEF Running
  <2>3. Types' /\ Bounds'
    <3>1. Len(inbox') <= InboxSize
      BY <1>4, PipeFacts
    <3> QED BY <1>1, <1>2, <1>13, <3>1 DEF Types, Bounds, Good
  <2>4. ExcuseInv'
    BY <1>13 DEF ExcuseInv
  <2> QED BY <1>13, <2>1, <2>2, <2>3, <2>4 DEF IInv, ClientInv, InboxInv, OutboxInv
<1>14. ASSUME NEW r \in Responses, outbox' = Append(outbox, r)
       PROVE  /\ outbox' \in Seq(Responses) /\ Len(outbox') = Len(outbox) + 1
              /\ Len(outbox') <= MaxOutbox + 2 /\ outbox'[Len(outbox')] = r /\ outbox' # <<>>
              /\ \A p \in 1..Len(outbox') - 1: outbox'[p] = outbox[p] /\ p \in 1..Len(outbox)
  <2>1. /\ outbox' \in Seq(Responses) /\ Len(outbox') = Len(outbox) + 1
        /\ outbox'[Len(outbox) + 1] = r /\ \A p \in 1..Len(outbox): outbox'[p] = outbox[p]
    BY <1>2, <1>14
  <2>2. Len(outbox) + 1 <= MaxOutbox + 2
    BY <1>1, <1>2, PipeFacts
  <2>3. 1..Len(outbox') - 1 = 1..Len(outbox) /\ outbox' # <<>>
    BY <1>2, <2>1
  <2> QED BY <2>1, <2>2, <2>3
<1>15. CASE s' = t /\ outbox' = Append(outbox, started) /\ excuse' = FALSE
  <2>1. /\ outbox' \in Seq(Responses) /\ Len(outbox') <= MaxOutbox + 2
        /\ outbox'[Len(outbox')] = started /\ outbox' # <<>>
        /\ \A p \in 1..Len(outbox') - 1: outbox'[p] = outbox[p] /\ p \in 1..Len(outbox)
    BY <1>10, <1>14, <1>15
  <2>2. StartDone'
    BY <1>1, <1>3, <1>4, <1>8, <1>12, <1>15, <2>1 DEF StartDone
  <2> QED BY <1>8, <1>9, <1>13, <1>15, <2>1, <2>2
<1>16. CASE /\ Good(s') /\ ~s'.active /\ excuse' = TRUE
            /\ outbox' = Append(outbox, Reply("startError")) \/ outbox' = outbox
  <2>1. CASE outbox' = outbox
    <3>1. Len(outbox') <= MaxOutbox + 2
      BY <1>1, <1>2, <2>1, PipeFacts
    <3>2. StartDone'
      BY <1>2, <1>4, <1>12, <1>16, <2>1 DEF StartDone
    <3> QED BY <1>2, <1>13, <1>16, <2>1, <3>1, <3>2
  <2>2. CASE outbox' = Append(outbox, Reply("startError"))
    <3>1. /\ outbox' \in Seq(Responses) /\ Len(outbox') = Len(outbox) + 1 /\ Len(outbox') <= MaxOutbox + 2
          /\ outbox'[Len(outbox')] = Reply("startError")
          /\ \A p \in 1..Len(outbox') - 1: outbox'[p] = outbox[p] /\ p \in 1..Len(outbox)
      BY <1>11, <1>14, <2>2
    <3>2. \A p \in 1..Len(outbox'): outbox'[p].op # "started"
      <4>1. \A p \in 1..Len(outbox'): p = Len(outbox') \/ p \in 1..Len(outbox') - 1
        BY <1>2, <3>1
      <4> QED BY <1>11, <1>12, <3>1, <4>1
    <3>3. StartDone'
      BY <1>4, <1>12, <1>16, <3>1, <3>2 DEF StartDone
    <3> QED BY <1>13, <1>16, <3>1, <3>3
  <2> QED BY <1>16, <2>1, <2>2
<1>17. ASSUME s' = [Aborted(t) EXCEPT !.failed = TRUE]
       PROVE  Good(s') /\ ~s'.active
  <2> DEFINE a == Aborted(t)
  <2>1. Good(a) /\ ~a.active
    BY <1>8, <1>9, AbortedGood
  <2>2. a \in SessionType
    BY <2>1 DEF Good
  <2> HIDE DEF a
  <2>3. /\ s' \in SessionType /\ ~s'.active /\ s'.pending = a.pending
        /\ s'.panel = a.panel /\ s'.next = a.next /\ s'.window = a.window
        /\ s'.ackEvery = a.ackEvery /\ s'.sinceAck = a.sinceAck
    <3>1. s' = [a EXCEPT !.failed = TRUE]
      BY <1>17 DEF a
    <3> QED BY <2>1, <2>2, <3>1 DEF SessionType
  <2> QED BY <2>1, <2>3 DEF Good, InSequence, Buffered, Truthful, Paced, Size
<1>18. ASSUME s' = Aborted(t)
       PROVE  Good(s') /\ ~s'.active
  BY <1>8, <1>9, <1>18, AbortedGood
<1> QED BY <1>1, <1>15, <1>16, <1>17, <1>18

-----------------------------------------------------------------------------
(***************************************************************************)
(* The client.                                                             *)
(***************************************************************************)
LEMMA InitIs == Init => IInv
<1> SUFFICES ASSUME Init PROVE IInv
  OBVIOUS
<1> DEFINE f == Fresh("raw", 1, 1)
<1>1. /\ s = [f EXCEPT !.active = FALSE]
      /\ refreshes = 0 /\ inbox = <<>> /\ outbox = <<>> /\ starts = 0 /\ excuse = FALSE
      /\ client = [phase |-> "idle", lossy |-> FALSE, kind |-> "raw", acked |-> {}, sent |-> 0,
                   window |-> 0]
  BY DEF Init
<1>2. /\ f \in SessionType /\ f.panel = <<>> /\ ~f.pending.used /\ ~f.failed /\ f.next = 0
      /\ f.window = 1 /\ f.ackEvery = 1 /\ f.sinceAck = 0
  <2>1. NoPending \in [used : BOOLEAN, seq : 0..Modulus - 1, chunk : Frames] /\ ~NoPending.used
    BY PipeFacts DEF NoPending
  <2>2. 0 \in 0..Modulus - 1 /\ 0 \in 0..Chunks /\ <<>> \in Seq(Frames) /\ 1 \in Window
    BY PipeFacts DEF Window
  <2> QED BY <2>1, <2>2 DEF Fresh, SessionType
<1> HIDE DEF f
<1>3. /\ s \in SessionType /\ s.panel = <<>> /\ ~s.pending.used /\ ~s.failed /\ s.next = 0
      /\ s.window = 1 /\ s.ackEvery = 1 /\ s.sinceAck = 0 /\ ~s.active
  BY <1>1, <1>2 DEF SessionType
<1>4. Good(s)
  <2>1. Size(s) = 0 /\ 1..0 = {} /\ 0 <= Chunks
    BY <1>3, PipeFacts DEF Size
  <2>2. SeqOf(0) = 0
    <3>1. Modulus \in Nat \ {0} /\ 0 \in 0..Modulus - 1
      BY PipeFacts
    <3> QED BY <3>1, ModSmall DEF SeqOf
  <2>3. InSequence(s)
    BY <1>3, <2>1, <2>2 DEF InSequence
  <2>4. Paced(s) /\ Buffered(s) /\ Truthful(s)
    BY <1>3 DEF Paced, Buffered, Truthful
  <2> QED BY <1>3, <2>3, <2>4 DEF Good
<1>5. /\ Len(inbox) = 0 /\ Len(outbox) = 0 /\ 1..Len(inbox) = {} /\ 1..Len(outbox) = {}
      /\ inbox \in Seq(Requests) /\ outbox \in Seq(Responses)
  BY <1>1
<1>6. client \in ClientType /\ client.phase = "idle"
  BY <1>1, PipeFacts DEF ClientType
<1>7. Types /\ Bounds
  <2>1. refreshes \in Nat /\ starts \in Nat /\ excuse \in BOOLEAN
    BY <1>1
  <2>2. Len(inbox) <= InboxSize /\ Len(outbox) <= MaxOutbox + 2 /\ starts <= MaxStarts
    BY <1>1, <1>5, PipeFacts
  <2> QED BY <1>3, <1>5, <1>6, <2>1, <2>2 DEF Types, Bounds
<1>8. PhaseInv
  BY <1>3, <1>5, <1>6 DEF PhaseInv, NoStart, NoStarted
<1>9. ExcuseInv
  BY <1>3, <1>5, <1>6 DEF ExcuseInv
<1>10. ~Running
  BY <1>3 DEF Running
<1> QED BY <1>4, <1>7, <1>8, <1>9, <1>10 DEF IInv, ClientInv, InboxInv, OutboxInv

(* What a new command makes of the queue. *)
LEMMA Queued ==
  ASSUME inbox \in Seq(Requests), NEW m \in Requests, inbox' = Append(inbox, m)
  PROVE  /\ inbox' \in Seq(Requests) /\ Len(inbox') = Len(inbox) + 1 /\ Len(inbox) \in Nat
         /\ inbox'[Len(inbox')] = m /\ inbox' # <<>>
         /\ \A q \in 1..Len(inbox') - 1: q \in 1..Len(inbox) /\ inbox'[q] = inbox[q]
         /\ \A q \in 1..Len(inbox'): q = Len(inbox') \/ q \in 1..Len(inbox') - 1
<1>1. /\ inbox' \in Seq(Requests) /\ Len(inbox') = Len(inbox) + 1 /\ Len(inbox) \in Nat
      /\ inbox'[Len(inbox) + 1] = m /\ \A q \in 1..Len(inbox): inbox'[q] = inbox[q]
  OBVIOUS
<1>2. 1..Len(inbox') - 1 = 1..Len(inbox) /\ inbox' # <<>>
  BY <1>1
<1> QED BY <1>1, <1>2

LEMMA SendStartKeeps == ASSUME IInv, SendStart PROVE IInv'
<1>1. PICK kind \in Kinds, window \in Windows, ackEvery \in Windows, lossy \in Lossy:
       /\ inbox' = Append(inbox, [op |-> "start", kind |-> kind, window |-> window,
                                  ackEvery |-> ackEvery])
       /\ client' = [phase |-> "starting", lossy |-> lossy, kind |-> kind, acked |-> {},
                      sent |-> 0, window |-> 0]
  BY DEF SendStart
<1>2. /\ client.phase \in {"idle", "done", "failed"} /\ starts < MaxStarts /\ Len(inbox) < InboxSize
      /\ starts' = starts + 1 /\ s' = s /\ refreshes' = refreshes /\ excuse' = excuse
      /\ outbox' = outbox
  BY DEF SendStart, Room, DeviceUnchanged
<1>3. /\ inbox \in Seq(Requests) /\ outbox \in Seq(Responses) /\ starts \in Nat /\ refreshes \in Nat
      /\ excuse \in BOOLEAN /\ Good(s) /\ Len(outbox) <= MaxOutbox + 2 /\ ~s.active
      /\ NoStart /\ NoStarted
  BY <1>2 DEF IInv, Types, Bounds, PhaseInv
<1> DEFINE m == [op |-> "start", kind |-> kind, window |-> window, ackEvery |-> ackEvery]
<1>4. m \in Requests /\ m.op = "start"
  BY <1>1 DEF Requests
<1>5. client' \in ClientType /\ client'.phase = "starting" /\ client'.acked = {} /\ client'.sent = 0
  <2>1. lossy \in BOOLEAN /\ kind \in {"raw", "compressed", "partial"}
    BY PipeFacts
  <2>2. 0 \in 0..Chunks /\ 0 \in 0..MaxWindow
    BY PipeFacts
  <2> QED BY <1>1, <2>1, <2>2 DEF ClientType
<1>6. /\ inbox' \in Seq(Requests) /\ Len(inbox') = Len(inbox) + 1 /\ Len(inbox) \in Nat
      /\ inbox'[Len(inbox')] = m /\ inbox' # <<>>
      /\ \A q \in 1..Len(inbox') - 1: q \in 1..Len(inbox) /\ inbox'[q] = inbox[q]
      /\ \A q \in 1..Len(inbox'): q = Len(inbox') \/ q \in 1..Len(inbox') - 1
  <2>1. inbox' = Append(inbox, m)
    BY <1>1
  <2> HIDE DEF m
  <2> QED BY <1>3, <1>4, <2>1, Queued
<1> HIDE DEF m
<1>7. PhaseInv'
  <2>1. NoStarted'
    BY <1>2, <1>3 DEF NoStarted
  <2>2. \A q \in 1..Len(inbox') - 1: inbox'[q].op # "start"
    BY <1>3, <1>6 DEF NoStart
  <2>3. StartWaits'
    BY <1>2, <1>3, <1>4, <1>6, <2>1, <2>2 DEF StartWaits
  <2> QED BY <1>5, <2>3 DEF PhaseInv
<1>8. ExcuseInv'
  <2>1. s.failed => excuse
    BY DEF IInv, ExcuseInv
  <2>2. CASE excuse
    BY <1>2, <2>1, <2>2 DEF ExcuseInv
  <2>3. CASE ~excuse
    <3>1. \A q \in 1..Len(inbox): inbox[q].op # "data"
      BY <1>3, <2>3 DEF IInv, ExcuseInv
    <3>2. \A q \in 1..Len(inbox'): inbox'[q].op # "data"
      BY <1>4, <1>6, <3>1
    <3> QED BY <1>2, <1>5, <2>1, <3>2 DEF ExcuseInv
  <2> QED BY <2>2, <2>3
<1>9. ~Running'
  BY <1>5 DEF Running
<1>10. Types' /\ Bounds'
  <2>1. starts' \in Nat /\ starts' <= MaxStarts /\ Len(inbox') <= InboxSize
    BY <1>2, <1>3, <1>6, PipeFacts
  <2> QED BY <1>2, <1>3, <1>5, <1>6, <2>1 DEF Types, Bounds, Good
<1> QED BY <1>2, <1>3, <1>7, <1>8, <1>9, <1>10 DEF IInv, ClientInv, InboxInv, OutboxInv

LEMMA SendEndKeeps == ASSUME IInv, SendEnd PROVE IInv'
<1> DEFINE m == [op |-> "end"]
<1>1. /\ client.phase = "sending" /\ Len(inbox) < InboxSize /\ inbox' = Append(inbox, m)
      /\ client' = [client EXCEPT !.phase = "ending"]
      /\ s' = s /\ refreshes' = refreshes /\ excuse' = excuse /\ outbox' = outbox /\ starts' = starts
  BY DEF SendEnd, Room, DeviceUnchanged
<1>2. /\ inbox \in Seq(Requests) /\ outbox \in Seq(Responses) /\ starts \in Nat /\ refreshes \in Nat
      /\ excuse \in BOOLEAN /\ Good(s) /\ Len(outbox) <= MaxOutbox + 2 /\ starts <= MaxStarts
      /\ NoStart /\ NoStarted /\ client \in ClientType
  BY <1>1 DEF IInv, Types, Bounds, PhaseInv
<1>3. m \in Requests /\ m.op = "end"
  BY DEF Requests
<1> HIDE DEF m
<1>4. /\ client' \in ClientType /\ client'.phase = "ending" /\ client'.acked = client.acked
      /\ client'.sent = client.sent /\ client'.window = client.window
  BY <1>1, <1>2 DEF ClientType
<1>5. /\ inbox' \in Seq(Requests) /\ Len(inbox') = Len(inbox) + 1 /\ Len(inbox) \in Nat
      /\ inbox'[Len(inbox')] = m
      /\ \A q \in 1..Len(inbox') - 1: q \in 1..Len(inbox) /\ inbox'[q] = inbox[q]
      /\ \A q \in 1..Len(inbox'): q = Len(inbox') \/ q \in 1..Len(inbox') - 1
  BY <1>1, <1>2, <1>3, Queued
<1>6. \A q \in 1..Len(inbox'): inbox'[q] = m \/ (q \in 1..Len(inbox) /\ inbox'[q] = inbox[q])
  BY <1>5
<1>7. PhaseInv'
  <2>1. NoStart' /\ NoStarted'
    BY <1>1, <1>2, <1>3, <1>6 DEF NoStart, NoStarted
  <2> QED BY <1>4, <2>1 DEF PhaseInv
<1>8. ExcuseInv'
  BY <1>1 DEF IInv, ExcuseInv
<1>9. Types' /\ Bounds'
  <2>1. Len(inbox') <= InboxSize
    BY <1>1, <1>5, PipeFacts
  <2> QED BY <1>1, <1>2, <1>4, <1>5, <2>1 DEF Types, Bounds, Good
<1>10. /\ Running' => Running
       /\ Held' = Held /\ Base' = Base /\ \A p: Says(p)' = Says(p)
  <2>1. Held' = Held /\ Base' = Base
    BY <1>1, <1>4 DEF Held, Base, Frames
  <2>2. \A p: Says(p)' = Says(p)
    BY <1>1, <2>1 DEF Says, Named, Delta, SeqOf
  <2> QED BY <1>1, <2>1, <2>2 DEF Running
<1>11. ClientInv'
  BY <1>1, <1>4, <1>10 DEF IInv, ClientInv
<1>12. OutboxInv'
  BY <1>1, <1>4, <1>10 DEF IInv, OutboxInv
<1>13. InboxInv'
  <2> SUFFICES ASSUME Running', NEW q \in 1..Len(inbox'), inbox'[q].op = "data"
               PROVE  /\ inbox'[q].chunk < client'.sent /\ inbox'[q].chunk < Size(s') + s'.window
                      /\ \A h \in Held': h < inbox'[q].chunk + s'.window
                      /\ \A o \in 1..q - 1: inbox'[o].op = "data"
                           => inbox'[o].chunk < inbox'[q].chunk + s'.window
    BY DEF InboxInv
  <2>1. q \in 1..Len(inbox) /\ inbox'[q] = inbox[q] /\ inbox[q].op = "data"
    BY <1>3, <1>6
  <2>2. \A o \in 1..q - 1: inbox'[o] = inbox[o]
    BY <1>5, <2>1
  <2>3. /\ inbox[q].chunk < client.sent /\ inbox[q].chunk < Size(s) + s.window
        /\ \A h \in Held: h < inbox[q].chunk + s.window
        /\ \A o \in 1..q - 1: inbox[o].op = "data" => inbox[o].chunk < inbox[q].chunk + s.window
    BY <1>10, <2>1 DEF IInv, InboxInv
  <2> QED BY <1>1, <1>4, <1>10, <2>1, <2>2, <2>3
<1> QED BY <1>1, <1>2, <1>7, <1>8, <1>9, <1>11, <1>12, <1>13 DEF IInv

LEMMA GiveUpKeeps == ASSUME IInv, GiveUp PROVE IInv'
<1>1. /\ client' = [client EXCEPT !.phase = "failed"] /\ inbox' = <<>> /\ outbox' = <<>>
      /\ s' = Aborted(s) /\ excuse' = TRUE /\ refreshes' = refreshes /\ starts' = starts
  BY DEF GiveUp
<1>2. /\ Good(s) /\ client \in ClientType /\ starts \in Nat /\ refreshes \in Nat
      /\ starts <= MaxStarts
  BY DEF IInv, Types, Bounds
<1>3. Good(s') /\ ~s'.active
  BY <1>1, <1>2, AbortedGood DEF Good
<1>4. client' \in ClientType /\ client'.phase = "failed"
  BY <1>1, <1>2 DEF ClientType
<1>5. /\ Len(inbox') = 0 /\ Len(outbox') = 0 /\ 1..Len(inbox') = {} /\ 1..Len(outbox') = {}
      /\ inbox' \in Seq(Requests) /\ outbox' \in Seq(Responses)
  BY <1>1
<1>6. Types' /\ Bounds'
  BY <1>1, <1>2, <1>3, <1>4, <1>5, PipeFacts DEF Types, Bounds, Good
<1>7. PhaseInv' /\ ExcuseInv'
  BY <1>1, <1>3, <1>4, <1>5 DEF PhaseInv, NoStart, NoStarted, ExcuseInv
<1>8. ~Running'
  BY <1>3 DEF Running
<1> QED BY <1>3, <1>6, <1>7, <1>8 DEF IInv, ClientInv, InboxInv, OutboxInv

(* The device waits for no frame that has been acknowledged. *)
LEMMA BaseWithin ==
  ASSUME Good(s), client \in ClientType, client.acked \subseteq Held
  PROVE  Base \in 0..Chunks /\ Base <= Size(s) /\ Base = BaseOf(client.acked)
<1>1. client.acked \in SUBSET Frames /\ Base = BaseOf(client.acked)
  BY DEF ClientType, Base, BaseOf
<1>2. Base \in 0..Chunks /\ \A i \in 0..Base - 1: i \in client.acked
  BY <1>1, BaseIs
<1>3. Size(s) \in 0..Chunks /\ s.pending.used \in BOOLEAN /\ Chunks \in Nat
  BY GoodFacts, PipeFacts
<1>4. \A i \in Int: i \in Held <=> Holds(Size(s), s.pending.used, i)
  BY HeldIs DEF Held, HeldOf
<1>5. Size(s) \notin Held
  <2>1. ~Holds(Size(s), s.pending.used, Size(s)) /\ Size(s) \in Int
    BY <1>3 DEF Holds
  <2> QED BY <1>4, <2>1
<1>6. Size(s) \notin 0..Base - 1
  BY <1>2, <1>5
<1> QED BY <1>1, <1>2, <1>3, <1>6

LEMMA SendDataKeeps == ASSUME IInv, NEW i \in Frames, SendData(i) PROVE IInv'
<1> DEFINE m == [op |-> "data", chunk |-> i]
<1>1. /\ client.phase = "sending" /\ i \in Base..Base + client.window - 1
      /\ i = client.sent \/ i < client.sent
      /\ \/ Len(inbox) < InboxSize /\ inbox' = Append(inbox, m)
         \/ inbox' = inbox
      /\ client' = [client EXCEPT !.sent = IF i = client.sent THEN i + 1 ELSE client.sent]
      /\ s' = s /\ refreshes' = refreshes /\ excuse' = excuse /\ outbox' = outbox /\ starts' = starts
  BY DEF SendData, MaySend, Room, DeviceUnchanged
<1>2. /\ inbox \in Seq(Requests) /\ outbox \in Seq(Responses) /\ starts \in Nat /\ refreshes \in Nat
      /\ excuse \in BOOLEAN /\ Good(s) /\ Len(outbox) <= MaxOutbox + 2 /\ starts <= MaxStarts
      /\ NoStart /\ NoStarted /\ client \in ClientType /\ Len(inbox) <= InboxSize
  BY <1>1 DEF IInv, Types, Bounds, PhaseInv
<1>3. m \in Requests /\ m.op = "data" /\ m.chunk = i
  BY DEF Requests
<1> HIDE DEF m
<1>4. /\ client.sent \in 0..Chunks /\ client.sent \in Nat /\ i \in Nat /\ i + 1 \in 0..Chunks
      /\ Chunks \in Nat /\ Frames \subseteq Nat
  BY <1>2, PipeFacts DEF ClientType
<1>5. /\ client' \in ClientType /\ client'.phase = "sending" /\ client'.acked = client.acked
      /\ client'.window = client.window
      /\ client'.sent = IF i = client.sent THEN i + 1 ELSE client.sent
  BY <1>1, <1>2, <1>4 DEF ClientType
<1>6. /\ client'.sent \in Nat /\ client.sent <= client'.sent /\ i < client'.sent
      /\ client'.sent = client.sent \/ client'.sent = i + 1
  BY <1>1, <1>4, <1>5
<1>7. /\ inbox' \in Seq(Requests) /\ Len(inbox') <= InboxSize /\ Len(inbox') \in Nat
      /\ \A q \in 1..Len(inbox'):
           \/ inbox'[q] = m /\ \A o \in 1..q - 1: o \in 1..Len(inbox) /\ inbox'[o] = inbox[o]
           \/ /\ q \in 1..Len(inbox) /\ inbox'[q] = inbox[q]
              /\ \A o \in 1..q - 1: inbox'[o] = inbox[o]
  <2>1. CASE inbox' = inbox
    BY <1>2, <2>1
  <2>2. CASE Len(inbox) < InboxSize /\ inbox' = Append(inbox, m)
    <3>1. /\ inbox' \in Seq(Requests) /\ Len(inbox') = Len(inbox) + 1 /\ Len(inbox) \in Nat
          /\ inbox'[Len(inbox')] = m
          /\ \A q \in 1..Len(inbox') - 1: q \in 1..Len(inbox) /\ inbox'[q] = inbox[q]
          /\ \A q \in 1..Len(inbox'): q = Len(inbox') \/ q \in 1..Len(inbox') - 1
      BY <1>2, <1>3, <2>2, Queued
    <3>2. \A q \in 1..Len(inbox'): \A o \in 1..q - 1: o \in 1..Len(inbox') - 1
      BY <3>1
    <3>3. Len(inbox') <= InboxSize
      BY <2>2, <3>1, PipeFacts
    <3>4. \A q \in 1..Len(inbox'): \A o \in 1..q - 1: o \in 1..Len(inbox) /\ inbox'[o] = inbox[o]
      BY <3>1, <3>2
    <3>5. \A q \in 1..Len(inbox'): inbox'[q] = m \/ (q \in 1..Len(inbox) /\ inbox'[q] = inbox[q])
      BY <3>1
    <3> QED BY <3>1, <3>3, <3>4, <3>5
  <2> QED BY <1>1, <2>1, <2>2
<1>8. PhaseInv'
  <2>1. NoStart'
    BY <1>2, <1>3, <1>7 DEF NoStart
  <2>2. NoStarted'
    BY <1>1, <1>2 DEF NoStarted
  <2> QED BY <1>5, <2>1, <2>2 DEF PhaseInv
<1>9. ExcuseInv'
  BY <1>1 DEF IInv, ExcuseInv
<1>10. Types' /\ Bounds'
  BY <1>1, <1>2, <1>5, <1>7 DEF Types, Bounds, Good
<1>11. /\ Running' => Running
       /\ Held' = Held /\ Base' = Base /\ \A p: Says(p)' = Says(p)
  <2>1. Held' = Held /\ Base' = Base
    BY <1>1, <1>5 DEF Held, Base, Frames
  <2>2. \A p: Says(p)' = Says(p)
    BY <1>1, <2>1 DEF Says, Named, Delta, SeqOf
  <2> QED BY <1>1, <2>1, <2>2 DEF Running
<1>12. OutboxInv'
  BY <1>1, <1>5, <1>11 DEF IInv, OutboxInv
<1>13. ASSUME Running
       PROVE  /\ client.window = s.window /\ s.window \in 1..2 /\ Size(s) \in Nat
              /\ client.acked \subseteq Held /\ Held \subseteq 0..client.sent - 1
              /\ client.sent <= Base + s.window /\ Base \in Nat /\ Base <= Size(s)
              /\ i < Size(s) + s.window /\ i + 1 <= Base + s.window /\ Base <= i
              /\ \A x \in Nat: x < client.sent => x < i + s.window
  <2>1. /\ client.window = s.window /\ client.acked \subseteq Held /\ Held \subseteq 0..client.sent - 1
        /\ client.sent <= Base + s.window
    BY <1>13 DEF IInv, ClientInv
  <2>2. Base \in 0..Chunks /\ Base \in Nat /\ Base <= Size(s)
    <3>1. Base \in 0..Chunks /\ Base <= Size(s)
      BY <1>2, <2>1, BaseWithin
    <3> QED BY <1>4, <3>1
  <2>3. s.window \in 1..2 /\ Size(s) \in Nat
    BY <1>2, GoodFacts, PipeFacts DEF Window
  <2>4. i \in Base..Base + s.window - 1
    BY <1>1, <2>1
  <2> HIDE DEF Base
  <2>5. i < Size(s) + s.window /\ i + 1 <= Base + s.window /\ Base <= i
    BY <1>4, <2>2, <2>3, <2>4
  <2>6. \A x \in Nat: x < client.sent => x < i + s.window
    BY <1>4, <2>1, <2>2, <2>3, <2>5
  <2> QED BY <2>1, <2>2, <2>3, <2>5, <2>6
<1>14. ClientInv'
  <2> SUFFICES ASSUME Running'
               PROVE  /\ client'.window = s'.window
                      /\ client'.acked \subseteq Held' /\ Held' \subseteq 0..client'.sent - 1
                      /\ client'.sent <= Base' + client'.window
    BY DEF ClientInv
  <2>1. Running
    BY <1>11
  <2>2. Held \subseteq 0..client'.sent - 1
    BY <1>4, <1>6, <1>13, <2>1
  <2>3. client'.sent <= Base + s.window
    BY <1>6, <1>13, <2>1
  <2> QED BY <1>1, <1>5, <1>11, <1>13, <2>1, <2>2, <2>3
<1>15. InboxInv'
  <2> SUFFICES ASSUME Running', NEW q \in 1..Len(inbox'), inbox'[q].op = "data"
               PROVE  /\ inbox'[q].chunk < client'.sent /\ inbox'[q].chunk < Size(s) + s.window
                      /\ \A h \in Held: h < inbox'[q].chunk + s.window
                      /\ \A o \in 1..q - 1: inbox'[o].op = "data"
                           => inbox'[o].chunk < inbox'[q].chunk + s.window
    BY <1>1, <1>11 DEF InboxInv
  <2>1. Running
    BY <1>11
  <2>2. \A o \in 1..Len(inbox): inbox[o].op = "data" =>
          /\ inbox[o].chunk \in Nat /\ inbox[o].chunk < client.sent
          /\ inbox[o].chunk < Size(s) + s.window
          /\ \A h \in Held: h < inbox[o].chunk + s.window
          /\ \A e \in 1..o - 1: inbox[e].op = "data" => inbox[e].chunk < inbox[o].chunk + s.window
    <3> SUFFICES ASSUME NEW o \in 1..Len(inbox), inbox[o].op = "data"
                 PROVE  inbox[o].chunk \in Nat
      BY <2>1 DEF IInv, InboxInv
    <3>1. inbox[o] \in Requests
      BY <1>2
    <3> QED BY <1>4, <3>1 DEF Requests
  <2>3. CASE inbox'[q] = m /\ \A o \in 1..q - 1: o \in 1..Len(inbox) /\ inbox'[o] = inbox[o]
    <3>1. inbox'[q].chunk = i
      BY <1>3, <2>3
    <3>2. \A h \in Held: h \in Nat /\ h < client.sent
      BY <1>4, <1>13, <2>1
    <3>3. \A h \in Held: h < i + s.window
      BY <1>13, <2>1, <3>2
    <3>4. \A o \in 1..q - 1: inbox'[o].op = "data" => inbox'[o].chunk < i + s.window
      BY <1>13, <2>1, <2>2, <2>3
    <3> QED BY <1>6, <1>13, <2>1, <3>1, <3>3, <3>4
  <2>4. CASE /\ q \in 1..Len(inbox) /\ inbox'[q] = inbox[q]
             /\ \A o \in 1..q - 1: inbox'[o] = inbox[o]
    <3>1. inbox[q].op = "data" /\ inbox[q].chunk \in Nat /\ inbox[q].chunk < client.sent
      BY <2>2, <2>4
    <3>2. inbox[q].chunk < client'.sent
      BY <1>4, <1>6, <3>1
    <3> QED BY <2>2, <2>4, <3>1, <3>2
  <2> QED BY <1>7, <2>3, <2>4
<1> QED BY <1>1, <1>2, <1>8, <1>9, <1>10, <1>12, <1>14, <1>15 DEF IInv

LEMMA Delivered ==
  ASSUME IInv, Receive
  PROVE  /\ outbox' \in Seq(Responses) /\ Len(outbox') = Len(outbox) - 1 /\ Len(outbox) \in Nat \ {0}
         /\ \A p \in 1..Len(outbox'): p + 1 \in 1..Len(outbox) /\ outbox'[p] = outbox[p + 1]
         /\ Head(outbox) = outbox[1] /\ Head(outbox) \in Responses
         /\ client' = Heard(Head(outbox)) /\ s' = s /\ refreshes' = refreshes /\ excuse' = excuse
         /\ inbox' = inbox /\ starts' = starts
         /\ (NoStarted => NoStarted') /\ (NoStart => NoStart')
         /\ (client' \in ClientType => Types' /\ Bounds')
<1>1. /\ outbox # <<>> /\ outbox' = Tail(outbox) /\ client' = Heard(Head(outbox))
      /\ s' = s /\ refreshes' = refreshes /\ excuse' = excuse /\ inbox' = inbox /\ starts' = starts
  BY DEF Receive, DeviceUnchanged
<1>2. outbox \in Seq(Responses)
  BY DEF IInv, Types
<1>3. /\ outbox' \in Seq(Responses) /\ Len(outbox') = Len(outbox) - 1 /\ Len(outbox) \in Nat \ {0}
      /\ \A p \in 1..Len(outbox'): p + 1 \in 1..Len(outbox) /\ outbox'[p] = outbox[p + 1]
      /\ Head(outbox) = outbox[1] /\ Head(outbox) \in Responses
  BY <1>1, <1>2
<1>4. (NoStarted => NoStarted') /\ (NoStart => NoStart')
  BY <1>1, <1>3 DEF NoStarted, NoStart
<1>5. client' \in ClientType => Types' /\ Bounds'
  <2>1. Len(outbox') <= MaxOutbox + 2
    BY <1>3, PipeFacts DEF IInv, Bounds
  <2> QED BY <1>1, <1>3, <2>1 DEF IInv, Types, Bounds
<1> QED BY <1>1, <1>3, <1>4, <1>5

(* The answer to START. *)
LEMMA HearStarted ==
  ASSUME IInv, Receive, client.phase = "starting", Head(outbox).op \in {"started", "startError"}
  PROVE  IInv'
<1> DEFINE m == Head(outbox)
<1>1. /\ outbox' \in Seq(Responses) /\ Len(outbox') = Len(outbox) - 1 /\ Len(outbox) \in Nat \ {0}
      /\ \A p \in 1..Len(outbox'): p + 1 \in 1..Len(outbox) /\ outbox'[p] = outbox[p + 1]
      /\ m = outbox[1] /\ m \in Responses
      /\ client' = Heard(m) /\ s' = s /\ excuse' = excuse
      /\ inbox' = inbox
      /\ (client' \in ClientType => Types' /\ Bounds')
  BY Delivered
<1>2. /\ Good(s) /\ client \in ClientType /\ client.sent = 0 /\ client.acked = {}
  BY DEF IInv, Types, PhaseInv
<1>3. StartDone
  <2>1. ~NoStarted
    <3>1. 1 \in 1..Len(outbox)
      BY <1>1
    <3> QED BY <1>1, <3>1 DEF NoStarted
  <2> QED BY <2>1 DEF IInv, PhaseInv, StartWaits
<1>4. NoStart'
  <2>1. inbox' = <<>> /\ 1..Len(inbox') = {}
    BY <1>1, <1>3 DEF StartDone
  <2> QED BY <2>1 DEF NoStart
<1>5. 1..Len(inbox) = {} /\ 1..Len(outbox') = {}
  <2>1. inbox = <<>>
    BY <1>3 DEF StartDone
  <2>2. Len(outbox) = 1
    <3>1. \A p \in 1..Len(outbox) - 1: outbox[p].op \notin {"started", "startError"}
      BY <1>3 DEF StartDone
    <3>2. 1 \notin 1..Len(outbox) - 1
      BY <1>1, <3>1
    <3> QED BY <1>1, <3>2
  <2> QED BY <1>1, <2>1, <2>2
<1>6. NoStarted'
  BY <1>5 DEF NoStarted
<1>7. CASE m.op = "started"
  <2>1. s.active /\ ~s.seen /\ s.panel = <<>> /\ ~s.pending.used
        /\ outbox[Len(outbox)] = [op |-> "started", window |-> s.window]
    <3>1. s.active
      <4>1. 1 \in 1..Len(outbox)
        BY <1>1
      <4> QED BY <1>1, <1>3, <1>7, <4>1 DEF StartDone
    <3> QED BY <1>3, <3>1 DEF StartDone
  <2>2. Len(outbox) = 1
    BY <1>1, <1>5
  <2>3. m.window = s.window
    BY <1>1, <2>1, <2>2
  <2>4. client' = [client EXCEPT !.phase = "sending", !.window = s.window]
    BY <1>1, <1>7, <2>3 DEF Heard
  <2>5. s.window \in 0..MaxWindow
    BY <1>2, GoodFacts, PipeFacts DEF Window
  <2>6. /\ client' \in ClientType /\ client'.phase = "sending" /\ client'.window = s.window
        /\ client'.acked = {} /\ client'.sent = 0
    BY <1>2, <2>4, <2>5 DEF ClientType
  <2>7. PhaseInv'
    BY <1>4, <1>6, <2>6 DEF PhaseInv
  <2>8. ExcuseInv'
    BY <1>1, <2>1 DEF IInv, ExcuseInv
  <2>9. Held' = {} /\ s'.window \in Nat
    <3>1. DOMAIN s.panel = {}
      BY <2>1
    <3> QED BY <1>1, <2>1, <2>5, <3>1, PipeFacts DEF Held
  <2>10. Base' \in Nat
    <3>1. {} \in SUBSET Frames
      OBVIOUS
    <3>2. Base' = BaseOf({})
      BY <2>6 DEF Base, BaseOf, Frames
    <3>3. BaseOf({}) \in 0..Chunks
      BY <3>1, BaseIs
    <3> QED BY <3>2, <3>3, PipeFacts
  <2>11. ClientInv'
    <3>1. client'.sent <= Base' + client'.window
      BY <1>1, <2>6, <2>9, <2>10
    <3> QED BY <1>1, <2>6, <2>9, <3>1 DEF ClientInv
  <2>12. InboxInv' /\ OutboxInv'
    BY <1>1, <1>5 DEF InboxInv, OutboxInv
  <2> QED BY <1>1, <1>2, <2>6, <2>7, <2>8, <2>11, <2>12 DEF IInv
<1>8. CASE m.op = "startError"
  <2>1. ~s.active /\ excuse
    <3>1. Len(outbox) = 1
      BY <1>1, <1>5
    <3>2. ~s.active
      BY <1>1, <1>3, <1>8, <3>1 DEF StartDone
    <3> QED BY <1>3, <3>2 DEF StartDone
  <2>2. client' = [client EXCEPT !.phase = "failed"]
    BY <1>1, <1>8 DEF Heard
  <2>3. client' \in ClientType /\ client'.phase = "failed"
    BY <1>2, <2>2 DEF ClientType
  <2>4. PhaseInv' /\ ExcuseInv'
    BY <1>1, <1>4, <1>6, <2>1, <2>3 DEF PhaseInv, ExcuseInv
  <2>5. ~Running'
    BY <1>1, <2>1 DEF Running
  <2> QED BY <1>1, <1>2, <2>3, <2>4, <2>5 DEF IInv, ClientInv, InboxInv, OutboxInv
<1> QED BY <1>7, <1>8

(* A message that is no news, or that comes when no transfer runs. *)
LEMMA HearIdle ==
  ASSUME IInv, Receive, ~Running,
         ~(client.phase = "starting" /\ Head(outbox).op \in {"started", "startError"})
  PROVE  IInv'
<1> DEFINE m == Head(outbox)
<1>1. /\ outbox' \in Seq(Responses) /\ Len(outbox') = Len(outbox) - 1 /\ Len(outbox) \in Nat \ {0}
      /\ \A p \in 1..Len(outbox'): p + 1 \in 1..Len(outbox) /\ outbox'[p] = outbox[p + 1]
      /\ m = outbox[1] /\ m \in Responses
      /\ client' = Heard(m) /\ s' = s /\ excuse' = excuse
      /\ inbox' = inbox
      /\ (NoStarted => NoStarted') /\ (NoStart => NoStart')
      /\ (client' \in ClientType => Types' /\ Bounds')
  BY Delivered
<1>2. Good(s) /\ client \in ClientType
  BY DEF IInv, Types
<1>3. CASE client' = client
  <2>1. ~Running'
    BY <1>1, <1>3 DEF Running
  <2>2. ExcuseInv'
    BY <1>1, <1>3 DEF IInv, ExcuseInv
  <2>3. PhaseInv'
    <3>1. ASSUME client.phase = "starting"
          PROVE  client.sent = 0 /\ client.acked = {} /\ (StartWaits' \/ StartDone')
      <4>1. client.sent = 0 /\ client.acked = {} /\ (StartWaits \/ StartDone)
        BY <3>1 DEF IInv, PhaseInv
      <4>2. CASE StartWaits
        BY <1>1, <4>1, <4>2 DEF StartWaits
      <4>3. CASE StartDone
        <5>1. \A p \in 1..Len(outbox') - 1: outbox'[p].op \notin {"started", "startError"}
          <6>1. \A p \in 1..Len(outbox') - 1: /\ p + 1 \in 1..Len(outbox) - 1
                                              /\ outbox'[p] = outbox[p + 1]
            BY <1>1
          <6> QED BY <4>3, <6>1 DEF StartDone
        <5>2. CASE s.active
          <6>1. outbox[Len(outbox)] = [op |-> "started", window |-> s.window]
            BY <4>3, <5>2 DEF StartDone
          <6>2. Len(outbox) # 1
            BY <1>1, <3>1, <6>1
          <6>3. Len(outbox') \in 1..Len(outbox') /\ Len(outbox') + 1 = Len(outbox)
            BY <1>1, <6>2
          <6>4. outbox'[Len(outbox')] = outbox[Len(outbox)] /\ outbox' # <<>>
            BY <1>1, <6>3
          <6> QED BY <1>1, <4>1, <4>3, <5>1, <5>2, <6>1, <6>4 DEF StartDone
        <5>3. CASE ~s.active
          <6>1. excuse /\ \A p \in 1..Len(outbox): outbox[p].op # "started"
            BY <4>3, <5>3 DEF StartDone
          <6>2. excuse' /\ \A p \in 1..Len(outbox'): outbox'[p].op # "started"
            BY <1>1, <6>1
          <6>3. ~s'.active /\ inbox' = <<>>
            BY <1>1, <4>3, <5>3 DEF StartDone
          <6> QED BY <4>1, <5>1, <6>2, <6>3 DEF StartDone
        <5> QED BY <5>2, <5>3
      <4> QED BY <4>1, <4>2, <4>3
    <3>2. client.phase \in {"idle", "done", "failed"} => ~s'.active /\ NoStart' /\ NoStarted'
      BY <1>1 DEF IInv, PhaseInv
    <3>3. client.phase \in {"sending", "ending"} => NoStart' /\ NoStarted'
      BY <1>1 DEF IInv, PhaseInv
    <3> QED BY <1>3, <3>1, <3>2, <3>3 DEF PhaseInv
  <2> QED BY <1>1, <1>2, <1>3, <2>1, <2>2, <2>3 DEF IInv, ClientInv, InboxInv, OutboxInv
<1>4. CASE client' # client
  <2>1. client.phase \in {"sending", "ending"}
    BY <1>1, <1>4 DEF Heard
  <2>2. /\ client' \in ClientType
        /\ client'.phase \in {"sending", "ending", "done", "failed"}
    <3>1. AckedBy(m) \subseteq Frames
      BY DEF AckedBy
    <3>2. \/ client' = [client EXCEPT !.phase = "failed"]
          \/ client' = [client EXCEPT !.phase = "done"]
          \/ client' = [client EXCEPT !.acked = client.acked \cup AckedBy(m)]
      BY <1>1, <1>4, <2>1 DEF Heard
    <3> HIDE DEF m
    <3> QED BY <1>2, <2>1, <3>1, <3>2 DEF ClientType
  <2>3. ~s.active /\ NoStart /\ NoStarted
    BY <2>1 DEF Running, IInv, PhaseInv
  <2>4. excuse
    BY <2>1, <2>3 DEF IInv, ExcuseInv
  <2>5. PhaseInv' /\ ExcuseInv' /\ ~Running'
    BY <1>1, <2>2, <2>3, <2>4 DEF PhaseInv, ExcuseInv, Running
  <2> QED BY <1>1, <1>2, <2>2, <2>5 DEF IInv, ClientInv, InboxInv, OutboxInv
<1> QED BY <1>3, <1>4

(* An acknowledgement, while the transfer runs. *)
LEMMA HearSack ==
  ASSUME IInv, Receive, Running
  PROVE  IInv'
<1> DEFINE m == Head(outbox)
           w == s.window
           acked == client.acked \cup AckedBy(m)
           b == BaseOf(client.acked)
           c == BaseOf(acked)
<1>1. /\ outbox' \in Seq(Responses) /\ Len(outbox') = Len(outbox) - 1 /\ Len(outbox) \in Nat \ {0}
      /\ \A p \in 1..Len(outbox'): p + 1 \in 1..Len(outbox) /\ outbox'[p] = outbox[p + 1]
      /\ m = outbox[1] /\ m \in Responses
      /\ client' = Heard(m) /\ s' = s /\ excuse' = excuse
      /\ inbox' = inbox
      /\ (NoStarted => NoStarted') /\ (NoStart => NoStart')
      /\ (client' \in ClientType => Types' /\ Bounds')
  BY Delivered
<1>2. /\ Good(s) /\ client \in ClientType /\ outbox \in Seq(Responses)
      /\ s.active /\ client.phase \in {"sending", "ending"}
  BY DEF IInv, Types, Running
<1>3. \A p \in 1..Len(outbox):
        /\ outbox[p].op = "sack" /\ ~outbox[p].error
        /\ Says(p) \in Held /\ \A k \in outbox[p].mask: Says(p) - 1 - k \in Held
        /\ \A a \in client.acked: a <= Says(p)
        /\ \A o \in 1..p - 1: Says(o) <= Says(p)
  BY DEF IInv, OutboxInv
<1>4. /\ client.window = w /\ client.acked \subseteq Held /\ Held \subseteq 0..client.sent - 1
      /\ client.sent <= Base + client.window
  BY DEF IInv, ClientInv
<1>5. /\ client.acked \in SUBSET Frames /\ client.sent \in Nat
      /\ w \in 1..MaxWindow /\ MaxWindow \in 1..2 /\ Base = b /\ Held \subseteq Frames
      /\ Frames = 0..Chunks - 1 /\ Chunks \in Nat /\ Recent \in Nat /\ Held \subseteq Nat
  <2>1. w \in 1..MaxWindow /\ MaxWindow \in 1..2
    BY <1>2, GoodFacts, PipeFacts DEF Window
  <2>2. Held \subseteq Frames
    BY <1>2, HeldIs DEF Held, HeldOf
  <2> QED BY <1>2, <2>1, <2>2, PipeFacts DEF ClientType, Base, BaseOf
<1>6. m.op = "sack" /\ ~m.error
  <2>1. 1 \in 1..Len(outbox)
    BY <1>1
  <2> QED BY <1>1, <1>3, <2>1
<1>7. /\ acked \subseteq Held /\ AckedBy(m) \subseteq Frames
      /\ \A a \in AckedBy(m): a <= Says(1)
  <2>1. 1 \in 1..Len(outbox)
    BY <1>1
  <2>2. Named(m.highest) = Says(1)
    BY <1>1 DEF Says
  <2>3. Says(1) \in Held /\ \A k \in m.mask: Says(1) - 1 - k \in Held
    BY <1>1, <1>3, <2>1
  <2>4. m.mask \subseteq 0..Recent - 1
    BY <1>1, <1>6 DEF Responses
  <2> DEFINE x == Says(1)
  <2>5. AckedBy(m) = ({x} \cup {x - 1 - k : k \in m.mask}) \cap Frames
    BY <2>2 DEF AckedBy
  <2>6. x \in Held /\ \A k \in m.mask: x - 1 - k \in Held
    BY <2>3
  <2> HIDE DEF m, x
  <2>7. x \in Nat /\ x <= x /\ \A k \in m.mask: x - 1 - k <= x
    BY <1>5, <2>4, <2>6
  <2>8. AckedBy(m) \subseteq Held /\ \A a \in AckedBy(m): a <= x
    BY <2>5, <2>6, <2>7
  <2> QED BY <1>4, <2>5, <2>8 DEF x
<1>8. client' = [client EXCEPT !.acked = acked]
  BY <1>1, <1>2, <1>6 DEF Heard
<1> HIDE DEF m
<1>9. acked \in SUBSET Frames
  BY <1>5, <1>7
<1> HIDE DEF acked
<1>10. /\ client' \in ClientType /\ client'.phase = client.phase /\ client'.acked = acked
       /\ client'.sent = client.sent /\ client'.window = client.window
  BY <1>2, <1>8, <1>9 DEF ClientType
<1>11. /\ b \in Nat /\ c \in Nat /\ b <= c /\ Base' = c
       /\ \A i \in 0..c - 1: i \in acked
  <2>1. /\ b \in 0..Chunks /\ \A i \in 0..b - 1: i \in client.acked
    BY <1>5, BaseIs
  <2>2. /\ c \in 0..Chunks /\ c \notin acked /\ \A i \in 0..c - 1: i \in acked
    BY <1>9, BaseIs
  <2>3. Base' = c
    BY <1>10 DEF Base, BaseOf, Frames
  <2> HIDE DEF b, c
  <2>4. c \notin 0..b - 1
    BY <2>1, <2>2 DEF acked
  <2> QED BY <1>5, <2>1, <2>2, <2>3, <2>4
<1> HIDE DEF b, c
<1>12. Held' = Held /\ (Running' <=> Running)
  BY <1>1, <1>10 DEF Held, Running
<1>13. PhaseInv' /\ ExcuseInv'
  <2>1. NoStart' /\ NoStarted'
    BY <1>1, <1>2 DEF IInv, PhaseInv
  <2>2. ExcuseInv'
    BY <1>1, <1>2 DEF IInv, ExcuseInv
  <2> QED BY <1>2, <1>10, <2>1, <2>2 DEF PhaseInv
<1>14. ClientInv'
  <2>1. client.sent <= c + w
    BY <1>4, <1>5, <1>11
  <2> QED BY <1>1, <1>4, <1>7, <1>10, <1>11, <1>12, <2>1 DEF ClientInv
<1>15. InboxInv'
  <2>1. Size(s') = Size(s) /\ s'.window = s.window
    BY <1>1
  <2> QED BY <1>1, <1>10, <1>12, <2>1 DEF IInv, InboxInv
<1>16. ASSUME NEW p \in 1..Len(outbox')
       PROVE  Says(p)' = Says(p + 1) /\ \A a \in acked: a <= Says(p + 1)
  <2> DEFINE x == Says(p + 1)
             h == outbox[p + 1].highest
  <2>1. p + 1 \in 1..Len(outbox) /\ outbox'[p] = outbox[p + 1] /\ p \in Nat
    BY <1>1
  <2>2. outbox[p + 1] \in Responses /\ outbox[p + 1].op = "sack"
    BY <1>2, <1>3, <2>1
  <2>3. h \in 0..Modulus - 1
    BY <2>2 DEF Responses
  <2>4. x = NamedOf(b, h)
    BY <1>5 DEF Says, Named, NamedOf
  <2>5. x \in Held /\ (\A a \in client.acked: a <= x) /\ Says(1) <= x
    <3>1. CASE p = 0
      BY <1>3, <2>1, <3>1
    <3>2. CASE p # 0
      <4>1. 1 \in 1..(p + 1) - 1
        BY <2>1, <3>2
      <4> QED BY <1>3, <2>1, <4>1
    <3> QED BY <3>1, <3>2
  <2>6. \A a \in acked: a <= x
    <3> SUFFICES ASSUME NEW a \in AckedBy(m) PROVE a <= x
      BY <2>5 DEF acked
    <3>1. a <= Says(1) /\ a \in Nat
      BY <1>5, <1>7
    <3>2. Says(1) \in Nat /\ x \in Nat
      <4>1. 1 \in 1..Len(outbox)
        BY <1>1
      <4> QED BY <1>3, <1>5, <2>5, <4>1
    <3> HIDE DEF x
    <3> QED BY <2>5, <3>1, <3>2
  <2>7. SeqOf(x) = h
    <3> HIDE DEF x, h
    <3> QED BY <1>11, <2>3, <2>4, NamedType
  <2> HIDE DEF x
  <2>8. x \in Nat /\ x < client.sent /\ client.sent <= c + w
    BY <1>4, <1>5, <1>11, <2>5
  <2>9. c - 1 <= x
    <3>1. CASE c = 0
      BY <2>8, <3>1
    <3>2. CASE c # 0
      <4>1. c - 1 \in acked
        BY <1>11, <3>2
      <4> QED BY <2>6, <4>1
    <3> QED BY <3>1, <3>2
  <2>10. NamedOf(c, SeqOf(x)) = x
    <3>1. x \in Int /\ -1 <= x - c /\ x - c <= MaxWindow - 1
      BY <1>5, <1>11, <2>8, <2>9
    <3> QED BY <1>11, <3>1, NamedIs
  <2>11. Says(p)' = NamedOf(c, h)
    <3>1. outbox'[p].highest = h /\ Base' = c
      BY <1>11, <2>1
    <3> HIDE DEF h
    <3> QED BY <3>1 DEF Says, Named, NamedOf, Delta, SeqOf
  <2> QED BY <2>6, <2>7, <2>10, <2>11 DEF x
<1>17. OutboxInv'
  <2> SUFFICES ASSUME NEW p \in 1..Len(outbox')
               PROVE  /\ outbox'[p].op = "sack" /\ ~outbox'[p].error
                      /\ Says(p)' \in Held' /\ \A k \in outbox'[p].mask: Says(p)' - 1 - k \in Held'
                      /\ \A a \in client'.acked: a <= Says(p)'
                      /\ \A o \in 1..p - 1: Says(o)' <= Says(p)'
    BY DEF OutboxInv
  <2>1. p + 1 \in 1..Len(outbox) /\ outbox'[p] = outbox[p + 1] /\ p \in Nat
    BY <1>1
  <2>2. Says(p)' = Says(p + 1) /\ \A a \in acked: a <= Says(p + 1)
    BY <1>16
  <2>3. \A o \in 1..p - 1: o + 1 \in 1..(p + 1) - 1 /\ o \in 1..Len(outbox')
    BY <1>1, <2>1
  <2>4. \A o \in 1..p - 1: Says(o)' = Says(o + 1)
    BY <1>16, <2>3
  <2>5. \A o \in 1..p - 1: Says(o + 1) <= Says(p + 1)
    BY <1>3, <2>1, <2>3
  <2> QED BY <1>3, <1>10, <1>12, <2>1, <2>2, <2>4, <2>5
<1> QED BY <1>1, <1>2, <1>10, <1>13, <1>14, <1>15, <1>17 DEF IInv

-----------------------------------------------------------------------------
LEMMA ReceiveKeeps == ASSUME IInv, Receive PROVE IInv'
BY HearStarted, HearIdle, HearSack DEF Running

LEMMA StutterKeeps == ASSUME IInv, UNCHANGED vars PROVE IInv'
<1>1. /\ s' = s /\ refreshes' = refreshes /\ inbox' = inbox /\ outbox' = outbox
      /\ client' = client /\ starts' = starts /\ excuse' = excuse
  BY DEF vars
<1>2. Types' /\ Bounds' /\ Good(s') /\ PhaseInv' /\ ExcuseInv'
  BY <1>1 DEF IInv, Types, Bounds, PhaseInv, NoStart, NoStarted, StartWaits, StartDone, ExcuseInv
<1>3. Held' = Held /\ Base' = Base /\ (Running' <=> Running)
  BY <1>1 DEF Held, Base, Running, Frames
<1>4. \A p: Says(p)' = Says(p)
  BY <1>1, <1>3 DEF Says, Named, Delta, SeqOf
<1>5. ClientInv' /\ InboxInv'
  BY <1>1, <1>3 DEF IInv, ClientInv, InboxInv, Size
<1>6. OutboxInv'
  BY <1>1, <1>3, <1>4 DEF IInv, OutboxInv
<1> QED BY <1>2, <1>5, <1>6 DEF IInv

LEMMA NextKeeps == ASSUME IInv, [Next]_vars PROVE IInv'
<1>1. CASE Device
  BY <1>1, StartKeeps, DataIgnoredKeeps, DataRefusedKeeps, DataStaleKeeps,
     DataStreamFailsKeeps, DataAcceptedKeeps, EndKeeps DEF Device
<1>2. CASE Client
  BY <1>2, SendStartKeeps, SendDataKeeps, SendEndKeeps, ReceiveKeeps, GiveUpKeeps DEF Client
<1>3. CASE UNCHANGED vars
  BY <1>3, StutterKeeps
<1> QED BY <1>1, <1>2, <1>3 DEF Next

(* The invariant of the transfer: the panel holds a prefix of the image and
   the buffer at most its successor, what is acknowledged is held and what is
   held was sent, and every frame and answer on its way is within a window of
   what either side expects (protocol.c:88-193, 372-396). *)
THEOREM PipeInvariant == Spec => []IInv
<1>1. IInv /\ [Next]_vars => IInv'
  BY NextKeeps
<1> QED BY <1>1, InitIs, PTL DEF Spec

(* Types, and since_ack never passes the interval that was agreed. *)
THEOREM PipeTypes == Spec => []TypeOK
<1>1. IInv => TypeOK
  <2> SUFFICES ASSUME IInv PROVE TypeOK
    OBVIOUS
  <2>1. /\ s \in SessionType /\ Good(s) /\ refreshes \in Nat /\ starts \in Nat /\ excuse \in BOOLEAN
        /\ outbox \in Seq(Responses) /\ client \in ClientType
        /\ Len(inbox) <= InboxSize /\ Len(outbox) <= MaxOutbox + 2 /\ starts <= MaxStarts
    BY DEF IInv, Types, Bounds
  <2>2. /\ s.active \in BOOLEAN /\ s.failed \in BOOLEAN /\ s.seen \in BOOLEAN
        /\ s.next \in 0..Modulus - 1 /\ s.highest \in 0..Modulus - 1
        /\ s.mask \subseteq 0..Recent - 1 /\ s.window \in 1..MaxWindow /\ s.ackEvery \in 1..MaxWindow
        /\ s.sinceAck \in Nat /\ s.pending \in [used : BOOLEAN, seq : 0..Modulus - 1, chunk : Frames]
        /\ s.written \in 0..Chunks /\ s.panel \in Seq(Frames)
    BY <2>1 DEF SessionType, Window
  <2>3. MaxWindow \in Nat /\ MaxStarts \in Nat
    BY PipeFacts
  <2>4. s.ackEvery \in 1..s.window /\ s.sinceAck \in 0..s.ackEvery /\ starts \in 0..MaxStarts
    BY <2>1, <2>2, <2>3 DEF Good, Paced
  <2>5. client.acked \subseteq Frames /\ client.sent \in 0..Chunks
    BY <2>1 DEF ClientType
  <2>6. \A k \in DOMAIN outbox: outbox[k] \in Responses
    BY <2>1
  <2> QED BY <2>1, <2>2, <2>4, <2>5, <2>6 DEF TypeOK
<1> QED BY <1>1, PipeInvariant, PTL

(* The panel gets the chunks in order, each once, whatever is lost, repeated
   or overtaken, for an image of any length (protocol.c:117-167). *)
THEOREM PanelInOrder == Spec => []InOrder
<1>1. IInv => InOrder
  <2> SUFFICES ASSUME IInv PROVE InOrder
    OBVIOUS
  <2>1. s.panel \in Seq(Frames) /\ \A k \in 1..Len(s.panel): s.panel[k] = k - 1
    BY DEF IInv, Good, SessionType, InSequence, Size
  <2>2. s.panel = [k \in 1..Len(s.panel) |-> s.panel[k]]
    BY <2>1
  <2> QED BY <2>1, <2>2 DEF InOrder
<1> QED BY <1>1, PipeInvariant, PTL

(* One buffer is enough: what it holds is the chunk after the one the device
   waits for, never one a whole modulus away (protocol.c:128-145). *)
THEOREM OneBufferIsEnough == Spec => []PendingIsSuccessor
<1>1. IInv => PendingIsSuccessor
  <2> SUFFICES ASSUME IInv, s.pending.used
               PROVE  /\ s.pending.seq = (s.next + 1) % Modulus
                      /\ s.pending.chunk = Len(s.panel) + 1 /\ s.window > 1
    BY DEF PendingIsSuccessor
  <2>1. /\ s.pending.seq = SeqOf(Size(s) + 1) /\ s.pending.chunk = Size(s) + 1 /\ s.window = 2
        /\ s.next = SeqOf(Size(s))
    BY DEF IInv, Good, Buffered, InSequence
  <2>2. (SeqOf(Size(s)) + 1) % Modulus = SeqOf(Size(s) + 1)
    <3>1. Size(s) \in Int
      BY GoodFacts DEF IInv
    <3> QED BY <3>1, SeqNext
  <2> QED BY <2>1, <2>2 DEF Size
<1> QED BY <1>1, PipeInvariant, PTL

(* The acknowledgement names exactly the frames the device holds, as far back
   as the mask reaches (protocol.c:146-159). *)
THEOREM AckIsExact == Spec => []SackExact
<1>1. IInv => SackExact
  <2> SUFFICES ASSUME IInv, s.active, s.seen
               PROVE  /\ s.highest = SeqOf(Max(Held))
                      /\ {Max(Held) - 1 - k : k \in s.mask}
                           = {i \in Held : i < Max(Held) /\ i >= Max(Held) - Recent}
    BY DEF SackExact
  <2> DEFINE n == Size(s)
             early == s.pending.used
             top == TopOf(n, early)
  <2>1. /\ Good(s) /\ n \in Nat /\ early \in BOOLEAN /\ Frames \subseteq Nat /\ Recent \in Nat
        /\ n > 0 \/ early
        /\ s.highest = SeqOf(top) /\ s.mask = MaskOf(n, early)
    <3>1. Good(s)
      BY DEF IInv
    <3>2. n \in Nat /\ early \in BOOLEAN
      BY <3>1, GoodFacts, PipeFacts
    <3> QED BY <3>1, <3>2, PipeFacts DEF Good, Truthful
  <2>2. Held \subseteq Nat /\ \A i \in Int: i \in Held <=> Holds(n, early, i)
    BY <2>1, HeldIs DEF Held, HeldOf
  <2> HIDE DEF n, early
  <2>3. /\ top \in Nat /\ Holds(n, early, top)
        /\ \A i \in Int: Holds(n, early, i) => i <= top
        /\ \A k \in MaskOf(n, early): Holds(n, early, top - 1 - k)
        /\ \A i \in Int: Holds(n, early, i) /\ i < top /\ i >= top - Recent
             => top - 1 - i \in MaskOf(n, early)
    BY <2>1, TopIs
  <2> HIDE DEF top
  <2>4. Max(Held) = top
    <3>1. top \in Held /\ \A i \in Held: top >= i
      BY <2>2, <2>3
    <3> DEFINE largest == Max(Held)
    <3>2. largest \in Held /\ \A i \in Held: largest >= i
      BY <3>1 DEF Max
    <3> HIDE DEF largest
    <3>3. largest = top
      BY <2>2, <3>1, <3>2
    <3> QED BY <3>3 DEF largest
  <2>5. \A k \in s.mask: k \in 0..Recent - 1
    BY <2>1 DEF MaskOf
  <2>6. \A k \in s.mask: /\ top - 1 - k \in Held /\ top - 1 - k < top /\ top - 1 - k >= top - Recent
    <3> SUFFICES ASSUME NEW k \in s.mask
                 PROVE  top - 1 - k \in Held /\ top - 1 - k < top /\ top - 1 - k >= top - Recent
      OBVIOUS
    <3>1. k \in 0..Recent - 1 /\ top - 1 - k \in Int /\ Holds(n, early, top - 1 - k)
      BY <2>1, <2>3, <2>5
    <3> QED BY <2>1, <2>2, <2>3, <3>1
  <2>7. \A i \in Held: i < top /\ i >= top - Recent
                         => top - 1 - i \in s.mask /\ i = top - 1 - (top - 1 - i)
    BY <2>1, <2>2, <2>3
  <2>8. {top - 1 - k : k \in s.mask} = {i \in Held : i < top /\ i >= top - Recent}
    BY <2>6, <2>7
  <2> QED BY <2>1, <2>4, <2>8
<1> QED BY <1>1, PipeInvariant, PTL

(* What the client has seen acknowledged the device holds, however late the
   answers and however short the numbers. *)
THEOREM AcknowledgedIsHeld == Spec => []AckedAreHeld
<1>1. IInv => AckedAreHeld
  BY DEF IInv, ClientInv, Running, AckedAreHeld
<1> QED BY <1>1, PipeInvariant, PTL

(* A client that keeps to the window is not refused (protocol.c:118-135;
   docs/protocol-coverage.md:40). *)
THEOREM WindowIsAccepted == Spec => []NoFalseReject
<1>1. IInv => NoFalseReject
  BY DEF IInv, ExcuseInv, NoFalseReject
<1> QED BY <1>1, PipeInvariant, PTL
=============================================================================

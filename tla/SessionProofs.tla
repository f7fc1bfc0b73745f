---------------------------- MODULE SessionProofs ----------------------------
(***************************************************************************)
(* Theorems about Session, for any images, any even number of parts, any   *)
(* waiting times within the limit of the sanity check, and with or without *)
(* faults.  A command is a set of results, so most lemmas say what holds   *)
(* of every result of one of the functions a command is made of.           *)
(***************************************************************************)
EXTENDS Session, FiniteSetTheorems, TLAPS

-----------------------------------------------------------------------------
(* Every non-empty set of natural numbers has a least element. *)
LEMMA NatHasMin ==
  ASSUME NEW S \in SUBSET Nat, S # {}
  PROVE  \E x \in S: \A y \in S: x <= y
<1> DEFINE less == {ss \in Nat \X Nat: ss[1] < ss[2]}
<1>1. IsWellFoundedOn(less, Nat)
  BY NatLessThanWellFounded, Zenon DEF OpToRel
<1>2. PICK x \in S: \A y \in S: ~(<<y, x>> \in less)
  <2> HIDE DEF less
  <2> QED BY <1>1, WFMin
<1>3. \A y \in S: ~(y < x)
  BY <1>2
<1> QED BY <1>3

(* Induction over the natural numbers, for a set. *)
LEMMA NatInductionSet ==
  ASSUME NEW S, 0 \in S, \A n \in Nat: n \in S => n + 1 \in S
  PROVE  Nat \subseteq S
<1> SUFFICES ASSUME Nat \ S # {} PROVE FALSE
  OBVIOUS
<1>1. PICK x \in Nat \ S: \A y \in Nat \ S: x <= y
  BY NatHasMin
<1>2. x # 0 /\ x - 1 \in Nat /\ x - 1 \in S
  BY <1>1
<1> QED BY <1>2

Half == Parts \div 2
Glasses == Image \cup {Unknown, Garbage}
Tags == Image \cup {Nothing}

SessionType ==
  [active : BOOLEAN, pipe : BOOLEAN, compressed : BOOLEAN, partial : BOOLEAN,
   failed : BOOLEAN, seen : BOOLEAN, pending : BOOLEAN, written : 0..Parts, complete : BOOLEAN,
   etagValid : BOOLEAN, etag : Tags, newEtagValid : BOOLEAN, newEtag : Tags,
   base : Tags, target : Tags]
Planes == [bits : {"white", "sent", "inverted"}, parts : 0..Parts]
PanelType ==
  [asleep : BOOLEAN, power : {"asleep", "on", "stuck"}, size : {0, Half}, offset : 0..Parts,
   waveform : {"full", "partial"}, plane : {"old", "new"}, old : Planes, new : Planes]
Results == [s : SessionType, panel : PanelType, glass : Glasses, refreshes : 0..1,
            quiet : Nat, silence : Nat]

(* The planes after the first w parts of a full or of a partial image. *)
HoldsFull(p, w) ==
  /\ p.offset = w /\ p.size = 0 /\ p.waveform = "full" /\ p.plane = "new"
  /\ p.old = Filled("white", Parts)
  /\ p.new = Filled(IF w = 0 THEN "white" ELSE "sent", w)
HoldsWindow(p, w) ==
  /\ p.offset = w /\ p.size = Half /\ p.waveform = "partial"
  /\ w <= Half => p.plane = "old" /\ p.old = Filled(IF w = 0 THEN "white" ELSE "inverted", w)
  /\ w > Half => /\ p.plane = "new" /\ p.old = Filled("inverted", Half)
                 /\ p.new = Filled("inverted", w - Half)
Holds(p, partial, w) == IF partial THEN HoldsWindow(p, w) ELSE HoldsFull(p, w)

(* The driver knows whether the panel sleeps; it is on during a transfer. *)
Asleep(r) == r.panel.asleep <=> r.panel.power = "asleep"
Powered(r) == r.s.active <=> r.panel.power = "on"

(* The ETag is that of the image shown. *)
Tagged(r) == (r.s.etagValid => r.glass = r.s.etag) /\ r.glass # Garbage

(* A transfer writes its own image over the one its base names. *)
Running(r) ==
  r.s.active => /\ r.refreshes = 0 /\ r.s.target \in Image
                /\ r.s.newEtagValid => r.s.newEtag = r.s.target
                /\ r.s.partial => r.s.base = r.glass
                /\ Holds(r.panel, r.s.partial, r.s.written)

Good(r) == r \in Results /\ Asleep(r) /\ Powered(r) /\ Tagged(r) /\ Running(r)

(* The longest time without a check-in. *)
Limit == 3 * ReadyTime + NotifyTime

IInv == Good(Now) /\ silence \in Nat /\ silence <= Limit

(* Nothing but the times differs. *)
Alike(q, r) == /\ q \in Results /\ q.s = r.s /\ q.panel = r.panel /\ q.glass = r.glass
               /\ q.refreshes = r.refreshes
(* Neither the glass nor the count of refreshes differs. *)
Shows(q, r) == q.glass = r.glass /\ q.refreshes = r.refreshes
-----------------------------------------------------------------------------
LEMMA HalfType == Half \in Nat /\ Parts = 2 * Half /\ Half > 0 /\ Half < Parts /\ Parts \in Nat
BY PanelAssumption DEF PanelAssumption, Half

LEMMA Times == ReadyTime \in Nat /\ NotifyTime \in Nat /\ Limit \in Nat
BY PanelAssumption, SessionAssumption DEF PanelAssumption, SessionAssumption, Limit

LEMMA TakesTime ==
  ASSUME NEW r \in Results, NEW t \in Nat
  PROVE  /\ Alike(Takes(r, t), r)
         /\ Takes(r, t).quiet = r.quiet + t
         /\ Takes(r, t).silence = IF r.quiet + t > r.silence THEN r.quiet + t ELSE r.silence
<1>1. r.quiet \in Nat /\ r.silence \in Nat
  BY DEF Results
<1> DEFINE newQuiet == r.quiet + t
           newSilence == IF newQuiet > r.silence THEN newQuiet ELSE r.silence
<1>2. newQuiet \in Nat /\ newSilence \in Nat
  BY <1>1
<1>3. Takes(r, t) = [r EXCEPT !.quiet = newQuiet, !.silence = newSilence]
  BY DEF Takes, Results
<1> HIDE DEF newQuiet, newSilence
<1>4. Alike(Takes(r, t), r) /\ Takes(r, t).quiet = newQuiet /\ Takes(r, t).silence = newSilence
  BY <1>2, <1>3 DEF Alike, Results
<1> QED BY <1>4 DEF newQuiet, newSilence

LEMMA Waits ==
  ASSUME NEW r \in Results
  PROVE  Alike(Told(r), r) /\ Alike(Untold(r), r) /\ Alike(Ready(r), r)
<1>1. Alike(Takes(r, NotifyTime), r) /\ Alike(Takes(r, ReadyTime), r)
  BY Times, TakesTime
<1>2. Alike(Told(r), r)
  BY <1>1 DEF Told, Alike, Results
<1> QED BY <1>1, <1>2 DEF Untold, Ready

LEMMA AlikeGood ==
  ASSUME NEW r, Good(r), NEW q, Alike(q, r)
  PROVE  Good(q)
BY DEF Good, Alike, Asleep, Powered, Tagged, Running

LEMMA OffKeeps ==
  ASSUME NEW r \in Results, Asleep(r), NEW q \in EpdOff(r)
  PROVE  /\ q \in Results /\ q.s = r.s /\ Shows(q, r)
         /\ Asleep(q) /\ q.panel.power # "on"
<1>1. CASE r.panel.asleep
  BY <1>1 DEF EpdOff, Shows, Asleep
<1>2. CASE ~r.panel.asleep
  <2> DEFINE w == Ready(r)
  <2>1. Alike(w, r)
    BY Waits
  <2>2. w \in Results /\ w.panel \in PanelType
    BY <2>1 DEF Alike, Results
  <2>3. q \in {[w EXCEPT !.panel.asleep = TRUE, !.panel.power = "asleep"],
               [w EXCEPT !.panel.power = "stuck"]}
    BY <1>2 DEF EpdOff, May
  <2> HIDE DEF w
  <2>4. CASE q = [w EXCEPT !.panel.asleep = TRUE, !.panel.power = "asleep"]
    BY <2>1, <2>2, <2>4 DEF Results, PanelType, Shows, Asleep, Alike
  <2>5. CASE q = [w EXCEPT !.panel.power = "stuck"]
    BY <1>2, <2>1, <2>2, <2>5 DEF Results, PanelType, Shows, Asleep, Alike
  <2> QED BY <2>3, <2>4, <2>5
<1> QED BY <1>1, <1>2

-----------------------------------------------------------------------------
(***************************************************************************)
(* What the functions of the session lead to.                              *)
(***************************************************************************)
(* A result whose session is replaced. *)
LEMMA WithType ==
  ASSUME NEW r \in Results, NEW t \in SessionType
  PROVE  /\ With(r, t) \in Results /\ With(r, t).s = t /\ Shows(With(r, t), r)
         /\ With(r, t).panel = r.panel
BY DEF With, Results, Shows

LEMMA AbortStops ==
  ASSUME NEW r, Good(r), NEW a \in Abort(r)
  PROVE  /\ Good(a) /\ Shows(a, r)
         /\ ~a.s.active /\ ~a.s.pending /\ a.s.written = 0
<1> DEFINE t == [r.s EXCEPT !.active = FALSE, !.written = 0, !.pending = FALSE]
           u == [t EXCEPT !.etagValid = FALSE]
<1>1. r \in Results /\ r.s \in SessionType
  BY DEF Good, Results
<1>0. 0 \in 0..Parts
  BY HalfType
<1>2. t \in SessionType /\ ~t.active /\ t.written = 0 /\ ~t.pending
      /\ t.etagValid = r.s.etagValid /\ t.etag = r.s.etag
  BY <1>0, <1>1 DEF SessionType
<1>3. u \in SessionType /\ ~u.active /\ u.written = 0 /\ ~u.pending /\ ~u.etagValid
  <2> HIDE DEF t
  <2> QED BY <1>2 DEF SessionType
<1> HIDE DEF t, u
<1>4. CASE r.s.active
  <2>1. a \in EpdOff(With(r, u))
    BY <1>4 DEF Abort, t, u
  <2>2. With(r, u) \in Results /\ With(r, u).s = u /\ Shows(With(r, u), r) /\ Asleep(With(r, u))
    BY <1>1, <1>3, WithType DEF Good, Asleep
  <2>3. a \in Results /\ a.s = u /\ Shows(a, With(r, u)) /\ Asleep(a) /\ a.panel.power # "on"
    BY <2>1, <2>2, OffKeeps
  <2> QED BY <1>3, <2>2, <2>3 DEF Good, Powered, Tagged, Running, Shows
<1>5. CASE ~r.s.active
  <2>1. a = With(r, t)
    BY <1>5 DEF Abort, t
  <2>2. a \in Results /\ a.s = t /\ Shows(a, r) /\ a.panel = r.panel
    BY <1>1, <1>2, <2>1, WithType
  <2> QED BY <1>2, <1>5, <2>2 DEF Good, Powered, Asleep, Tagged, Running, Shows
<1> QED BY <1>4, <1>5

LEMMA ReplyKeeps ==
  ASSUME NEW r, Good(r), NEW q \in Reply(r)
  PROVE  Good(q) /\ Shows(q, r)
<1>1. Alike(Told(r), r) /\ Alike(Untold(r), r)
  BY Waits DEF Good
<1>2. Good(Told(r)) /\ Good(Untold(r)) /\ Shows(Told(r), r) /\ Shows(Untold(r), r)
  BY <1>1, AlikeGood DEF Alike, Shows
<1>3. q = Told(r) \/ q \in Abort(Untold(r))
  BY DEF Reply, May
<1> QED BY <1>2, <1>3, AbortStops DEF Shows

(* The states of the panel while n parts are written exist. *)
LEMMA WritesExist ==
  ASSUME NEW p
  PROVE  \A n \in Nat: \E f: f = [k \in 0..n |-> IF k = 0 THEN p ELSE WritePart(f[k - 1])]
<1> DEFINE S == {n \in Nat : \E f: f = [k \in 0..n |-> IF k = 0 THEN p ELSE WritePart(f[k - 1])]}
<1>1. 0 \in S
  <2> DEFINE f == [k \in 0..0 |-> p]
  <2>1. f = [k \in 0..0 |-> IF k = 0 THEN p ELSE WritePart(f[k - 1])]
    OBVIOUS
  <2> QED BY <2>1
<1>2. ASSUME NEW n \in Nat, n \in S PROVE n + 1 \in S
  <2>1. PICK f: f = [k \in 0..n |-> IF k = 0 THEN p ELSE WritePart(f[k - 1])]
    BY <1>2
  <2> DEFINE g == [k \in 0..n + 1 |-> IF k <= n THEN f[k] ELSE WritePart(f[n])]
  <2>2. \A k \in 0..n: g[k] = f[k] /\ f[k] = IF k = 0 THEN p ELSE WritePart(f[k - 1])
    <3>1. \A k \in 0..n: g[k] = f[k]
      OBVIOUS
    <3>2. \A k \in 0..n: f[k] = IF k = 0 THEN p ELSE WritePart(f[k - 1])
      <4> HIDE DEF g
      <4> QED BY <2>1
    <3> QED BY <3>1, <3>2
  <2>3. g[n + 1] = WritePart(g[n])
    OBVIOUS
  <2>4. g = [k \in 0..n + 1 |-> g[k]]
    OBVIOUS
  <2> HIDE DEF g
  <2>5. \A k \in 0..n + 1: g[k] = IF k = 0 THEN p ELSE WritePart(g[k - 1])
    <3> TAKE k \in 0..n + 1
    <3>1. CASE k = n + 1
      BY <2>3, <3>1
    <3>2. CASE k \in 1..n
      <4>1. k \in 0..n /\ k - 1 \in 0..n
        BY <3>2
      <4> QED BY <2>2, <3>2, <4>1
    <3>3. CASE k = 0
      BY <2>2, <3>3
    <3> QED BY <3>1, <3>2, <3>3
  <2>6. g = [k \in 0..n + 1 |-> IF k = 0 THEN p ELSE WritePart(g[k - 1])]
    BY <2>4, <2>5
  <2> QED BY <2>6
<1> HIDE DEF S
<1>3. Nat \subseteq S
  BY <1>1, <1>2, NatInductionSet
<1> QED BY <1>3 DEF S

LEMMA WritesInSteps ==
  ASSUME NEW p, NEW n \in Nat
  PROVE  \E f: /\ f[0] = p /\ \A k \in 1..n: f[k] = WritePart(f[k - 1])
               /\ EpdWrite(p, n) = f[n]
<1> DEFINE P(f) == f = [k \in 0..n |-> IF k = 0 THEN p ELSE WritePart(f[k - 1])]
           after == CHOOSE f: P(f)
<1>1. EpdWrite(p, n) = after[n]
  BY DEF EpdWrite
<1>2. \E f: P(f)
  BY WritesExist
<1>3. P(after)
  <2> HIDE DEF P
  <2> QED BY <1>2
<1> HIDE DEF after
<1>4. after[0] = p /\ \A k \in 1..n: after[k] = WritePart(after[k - 1])
  BY <1>3
<1> QED BY <1>1, <1>4

LEMMA PartWritten ==
  ASSUME NEW p \in PanelType, NEW partial \in BOOLEAN, NEW w \in 0..Parts - 1, Holds(p, partial, w)
  PROVE  /\ WritePart(p) \in PanelType /\ Holds(WritePart(p), partial, w + 1)
         /\ WritePart(p).power = p.power /\ WritePart(p).asleep = p.asleep
<1> DEFINE sent == Filled("sent", w + 1)
           old == Filled("inverted", w + 1)
           new == Filled("inverted", w + 1 - Half)
<1>0. w \in Int /\ w + 1 \in 0..Parts /\ sent \in Planes /\ old \in Planes /\ p.offset = w
      /\ (w >= Half => new \in Planes)
  BY HalfType DEF Planes, Filled, Holds, HoldsFull, HoldsWindow
<1>1. CASE ~partial
  <2>1. p.size = 0 /\ p.plane = "new" /\ p.new.parts = w
    BY <1>1 DEF Holds, HoldsFull, Filled
  <2>2. WritePart(p) = [p EXCEPT !.plane = "new", !.offset = w + 1, !.new = sent]
    BY <1>0, <2>1 DEF WritePart, PanelType
  <2> HIDE DEF sent
  <2> DEFINE q == WritePart(p)
  <2>3. /\ q \in PanelType /\ q.power = p.power /\ q.asleep = p.asleep /\ q.size = p.size
        /\ q.waveform = p.waveform /\ q.offset = w + 1 /\ q.plane = "new" /\ q.new = sent
        /\ q.old = p.old
    BY <1>0, <1>1, <2>2 DEF PanelType
  <2> HIDE DEF q
  <2>4. Holds(q, partial, w + 1)
    BY <1>0, <1>1, <2>3, HalfType DEF Holds, HoldsFull, sent
  <2> QED BY <2>3, <2>4 DEF q
<1>2. CASE partial /\ w < Half
  <2>1. p.size = Half /\ p.size # 0 /\ p.size # p.offset /\ p.plane = "old" /\ p.old.parts = w
    BY <1>0, <1>2, HalfType DEF Holds, HoldsWindow, Filled
  <2>2. WritePart(p) = [p EXCEPT !.plane = "old", !.offset = w + 1, !.old = old]
    BY <1>0, <2>1 DEF WritePart, PanelType
  <2> HIDE DEF old
  <2> DEFINE q == WritePart(p)
  <2>3. /\ q \in PanelType /\ q.power = p.power /\ q.asleep = p.asleep /\ q.size = p.size
        /\ q.waveform = p.waveform /\ q.offset = w + 1 /\ q.plane = "old" /\ q.old = old
        /\ q.new = p.new
    BY <1>0, <1>2, <2>2 DEF PanelType
  <2> HIDE DEF q
  <2>4. Holds(q, partial, w + 1)
    BY <1>0, <1>2, <2>3, HalfType DEF Holds, HoldsWindow, old
  <2> QED BY <2>3, <2>4 DEF q
<1>3. CASE partial /\ w = Half
  <2>1. p.size = Half /\ p.size # 0 /\ p.offset = p.size /\ 0 + 1 = w + 1 - Half
    BY <1>0, <1>3, HalfType DEF Holds, HoldsWindow, Filled
  <2>2. WritePart(p) = [p EXCEPT !.plane = "new", !.offset = w + 1, !.new = new]
    BY <1>0, <2>1 DEF WritePart, PanelType
  <2> HIDE DEF new
  <2> DEFINE q == WritePart(p)
  <2>3. /\ q \in PanelType /\ q.power = p.power /\ q.asleep = p.asleep /\ q.size = p.size
        /\ q.waveform = p.waveform /\ q.offset = w + 1 /\ q.plane = "new" /\ q.new = new
        /\ q.old = p.old
    <3>1. new \in Planes
      BY <1>0, <1>3, HalfType
    <3> QED BY <1>0, <1>3, <2>2, <3>1 DEF PanelType
  <2> HIDE DEF q
  <2>4. Holds(q, partial, w + 1)
    BY <1>0, <1>3, <2>3, HalfType DEF Holds, HoldsWindow, new
  <2> QED BY <2>3, <2>4 DEF q
<1>4. CASE partial /\ w > Half
  <2>1. p.size = Half /\ p.size # 0 /\ p.size # p.offset /\ p.plane = "new"
        /\ p.new.parts + 1 = w + 1 - Half
    BY <1>0, <1>4, HalfType DEF Holds, HoldsWindow, Filled
  <2>2. WritePart(p) = [p EXCEPT !.plane = "new", !.offset = w + 1, !.new = new]
    BY <1>0, <2>1 DEF WritePart, PanelType
  <2> HIDE DEF new
  <2> DEFINE q == WritePart(p)
  <2>3. /\ q \in PanelType /\ q.power = p.power /\ q.asleep = p.asleep /\ q.size = p.size
        /\ q.waveform = p.waveform /\ q.offset = w + 1 /\ q.plane = "new" /\ q.new = new
        /\ q.old = p.old
    <3>1. new \in Planes
      BY <1>0, <1>4, HalfType
    <3> QED BY <1>0, <1>4, <2>2, <3>1 DEF PanelType
  <2> HIDE DEF q
  <2>4. Holds(q, partial, w + 1)
    BY <1>0, <1>4, <2>3, HalfType DEF Holds, HoldsWindow, new
  <2> QED BY <2>3, <2>4 DEF q
<1> QED BY <1>0, <1>1, <1>2, <1>3, <1>4, HalfType

LEMMA EpdWriteHolds ==
  ASSUME NEW p \in PanelType, NEW partial \in BOOLEAN, NEW w \in 0..Parts, Holds(p, partial, w),
         NEW n \in Nat, w + n <= Parts
  PROVE  /\ EpdWrite(p, n) \in PanelType /\ Holds(EpdWrite(p, n), partial, w + n)
         /\ EpdWrite(p, n).power = p.power /\ EpdWrite(p, n).asleep = p.asleep
<1>1. PICK f: /\ f[0] = p /\ \A k \in 1..n: f[k] = WritePart(f[k - 1])
              /\ EpdWrite(p, n) = f[n]
  BY WritesInSteps
<1> DEFINE Fine(k) == /\ f[k] \in PanelType /\ Holds(f[k], partial, w + k)
                      /\ f[k].power = p.power /\ f[k].asleep = p.asleep
           S == {k \in Nat : k <= n => Fine(k)}
<1>2. 0 \in S
  BY <1>1
<1>3. ASSUME NEW k \in Nat, k \in S PROVE k + 1 \in S
  <2> SUFFICES ASSUME k + 1 <= n PROVE Fine(k + 1)
    OBVIOUS
  <2>1. f[k] \in PanelType /\ Holds(f[k], partial, w + k) /\ w + k \in 0..Parts - 1
        /\ f[k].power = p.power /\ f[k].asleep = p.asleep
    BY <1>3, HalfType
  <2>2. k + 1 \in 1..n /\ (k + 1) - 1 = k
    OBVIOUS
  <2>3. f[k + 1] = WritePart(f[k])
    BY <1>1, <2>2
  <2>4. w + k + 1 = w + (k + 1)
    OBVIOUS
  <2>5. /\ WritePart(f[k]) \in PanelType /\ Holds(WritePart(f[k]), partial, w + k + 1)
        /\ WritePart(f[k]).power = f[k].power /\ WritePart(f[k]).asleep = f[k].asleep
    BY <2>1, PartWritten
  <2> QED BY <2>1, <2>3, <2>4, <2>5
<1> HIDE DEF S
<1>4. Nat \subseteq S
  BY <1>2, <1>3, NatInductionSet
<1>5. n \in S
  BY <1>4
<1> QED BY <1>1, <1>5 DEF S

(* All parts of a transfer make an image. *)
LEMMA WholeImage ==
  ASSUME NEW p, NEW partial, Holds(p, partial, Parts)
  PROVE  Whole(p) /\ (p.waveform = "full" \/ partial)
<1>1. CASE partial
  <2>1. p.waveform = "partial" /\ p.old = Filled("inverted", Half) /\ Parts - Half = Half
        /\ p.new = Filled("inverted", Parts - Half)
    BY <1>1, HalfType DEF Holds, HoldsWindow
  <2> QED BY <1>1, <2>1 DEF Whole, Half
<1>2. CASE ~partial
  <2>1. p.waveform = "full" /\ p.old = Filled("white", Parts) /\ p.new = Filled("sent", Parts)
    BY <1>2, HalfType DEF Holds, HoldsFull
  <2> QED BY <2>1 DEF Whole
<1> QED BY <1>1, <1>2

LEMMA BeginStarts ==
  ASSUME NEW r, Good(r), ~r.s.active, r.s.written = 0,
         NEW compressed \in BOOLEAN, NEW partial \in BOOLEAN, NEW base \in Tags, NEW target \in Image,
         partial => base = r.glass,
         NEW b \in Begin(r, compressed, partial, base, target)
  PROVE  /\ Good(b) /\ b.glass = r.glass /\ b.refreshes = 0
         /\ b.s.active => b.s.target = target
<1> DEFINE t == Started(r.s, compressed, partial, base, target)
           d == [r EXCEPT !.s = t, !.refreshes = 0]
           w == Ready(d)
           yes == [EpdBegun(d, partial) EXCEPT !.s.active = TRUE]
           no == EpdNotBegun(d, partial)
<1>1. r \in Results /\ r.s \in SessionType /\ target \in Tags /\ r.panel \in PanelType
  BY DEF Good, Results, Tags
<1>2. /\ t \in SessionType /\ ~t.active /\ t.written = 0 /\ ~t.newEtagValid /\ t.base = base
      /\ t.target = target /\ t.partial = partial
      /\ t.etagValid = r.s.etagValid /\ t.etag = r.s.etag
  <2>1. t \in SessionType
    <3> DEFINE a == [r.s EXCEPT !.compressed = compressed, !.partial = partial,
                                !.failed = FALSE, !.newEtagValid = FALSE]
               whole == [a EXCEPT !.complete = FALSE, !.base = base, !.target = target]
    <3>1. a \in SessionType
      BY <1>1 DEF SessionType
    <3>2. t = whole
      BY <1>1 DEF Started, SessionType
    <3> HIDE DEF a, t
    <3>3. whole \in SessionType
      BY <1>1, <3>1 DEF SessionType
    <3> QED BY <3>2, <3>3
  <2>2. /\ t.active = r.s.active /\ t.written = r.s.written /\ t.newEtagValid = FALSE
        /\ t.base = base /\ t.target = target /\ t.partial = partial
        /\ t.etagValid = r.s.etagValid /\ t.etag = r.s.etag
    BY <1>1 DEF Started, SessionType
  <2> HIDE DEF t
  <2> QED BY <2>1, <2>2
<1>3. d \in Results /\ d.s = t /\ d.panel = r.panel /\ d.glass = r.glass /\ d.refreshes = 0
  <2> HIDE DEF t
  <2>1. t \in SessionType /\ 0 \in 0..1
    BY <1>2
  <2> QED BY <1>1, <2>1 DEF Results
<1>4. b = yes \/ b \in EpdOff(no)
  BY DEF Begin, BeginFails, May
<1> HIDE DEF t, d
<1>5. w \in Results /\ w.s = t /\ w.panel = r.panel /\ w.glass = r.glass /\ w.refreshes = 0
  BY <1>3, Waits DEF Alike
<1> DEFINE begun == IF partial THEN WindowPanel(r.panel) ELSE FullPanel(r.panel)
           not == IF partial THEN WindowTimedOut(r.panel) ELSE FullPanel(r.panel)
<1>6. begun \in PanelType /\ Holds(begun, partial, 0) /\ begun.power = "on" /\ ~begun.asleep
  <2>1. Filled("white", 0) \in Planes /\ Filled("white", Parts) \in Planes /\ 0 \in 0..Parts
        /\ 0 <= Half /\ ~(0 > Half) /\ Half \in {0, Half}
    BY HalfType DEF Filled, Planes
  <2>2. CASE partial
    BY <1>1, <2>1, <2>2 DEF WindowPanel, PanelType, Holds, HoldsWindow, Half
  <2>3. CASE ~partial
    BY <1>1, <2>1, <2>3 DEF FullPanel, PanelType, Holds, HoldsFull
  <2> QED BY <2>2, <2>3
<1>7. not \in PanelType /\ not.power = "on" /\ ~not.asleep
  <2>1. Filled("white", 0) \in Planes /\ Filled("white", Parts) \in Planes /\ 0 \in 0..Parts
    BY HalfType DEF Filled, Planes
  <2>2. CASE partial
    BY <1>1, <2>2 DEF WindowTimedOut, PanelType
  <2>3. CASE ~partial
    BY <1>1, <2>1, <2>3 DEF FullPanel, PanelType
  <2> QED BY <2>2, <2>3
<1>8. CASE b = yes
  <2>1. yes = [[w EXCEPT !.panel = begun] EXCEPT !.s.active = TRUE]
    BY <1>5 DEF EpdBegun
  <2> HIDE DEF w, begun
  <2>2. yes \in Results /\ yes.panel = begun /\ yes.glass = r.glass /\ yes.refreshes = 0
        /\ yes.s = [t EXCEPT !.active = TRUE]
    <3>1. [t EXCEPT !.active = TRUE] \in SessionType
      BY <1>2 DEF SessionType
    <3>2. begun \in PanelType
      BY <1>6
    <3>3. yes = [w EXCEPT !.panel = begun, !.s = [t EXCEPT !.active = TRUE]]
      BY <1>5, <2>1 DEF Results
    <3> HIDE DEF yes
    <3> QED BY <1>5, <3>1, <3>2, <3>3 DEF Results
  <2> HIDE DEF yes
  <2>3. /\ yes.s.active /\ yes.s.written = 0 /\ ~yes.s.newEtagValid /\ yes.s.base = base
        /\ yes.s.target = target /\ yes.s.partial = partial
        /\ yes.s.etagValid = r.s.etagValid /\ yes.s.etag = r.s.etag
    BY <1>2, <2>2 DEF SessionType
  <2>4. Good(yes)
    BY <1>6, <2>2, <2>3 DEF Good, Asleep, Powered, Tagged, Running
  <2> QED BY <1>8, <2>2, <2>3, <2>4
<1>9. CASE b \in EpdOff(no)
  <2>1. no = [w EXCEPT !.panel = not]
    BY <1>5 DEF EpdNotBegun
  <2> HIDE DEF w, not
  <2>2. no \in Results /\ no.panel = not /\ no.glass = r.glass /\ no.refreshes = 0 /\ no.s = t
        /\ Asleep(no)
    BY <1>5, <1>7, <2>1 DEF Results, Asleep
  <2> HIDE DEF no
  <2>3. b \in Results /\ b.s = t /\ Shows(b, no) /\ Asleep(b) /\ b.panel.power # "on"
    BY <1>9, <2>2, OffKeeps
  <2> QED BY <1>2, <2>2, <2>3 DEF Good, Powered, Tagged, Running, Shows
<1> QED BY <1>4, <1>8, <1>9

LEMMA StreamKeeps ==
  ASSUME NEW r, Good(r), r.s.active, NEW n \in Nat, NEW q \in Stream(r, n)
  PROVE  /\ Good(q) /\ Shows(q, r) /\ q.s.active /\ q.s.written = r.s.written + n
         /\ q.s.target = r.s.target /\ q.s.pending = r.s.pending
         /\ q.s.compressed = r.s.compressed /\ q.s.partial = r.s.partial
<1>1. r \in Results /\ r.s \in SessionType /\ r.panel \in PanelType
  BY DEF Good, Results
<1> DEFINE now == r.s.written + n
           p == EpdWrite(r.panel, n)
<1>2. now \in 0..Parts /\ r.s.written \in 0..Parts /\ now <= Parts
  <2>1. r.s.written \in 0..Parts
    BY <1>1 DEF SessionType
  <2>2. ~(now > Parts)
    BY DEF Stream
  <2> QED BY <2>1, <2>2, HalfType
<1>3. PICK done \in BOOLEAN:
        q = [r EXCEPT !.s.written = now, !.s.complete = done, !.panel = p]
  BY DEF Stream
<1>4. Holds(r.panel, r.s.partial, r.s.written) /\ r.s.partial \in BOOLEAN
  BY <1>1 DEF Good, Running, SessionType
<1>5. p \in PanelType /\ Holds(p, r.s.partial, now) /\ p.power = r.panel.power
      /\ p.asleep = r.panel.asleep
  BY <1>1, <1>2, <1>4, EpdWriteHolds
<1> DEFINE t == [r.s EXCEPT !.written = now, !.complete = done]
<1> HIDE DEF now, p
<1>6. /\ t \in SessionType /\ t.written = now /\ t.active = r.s.active /\ t.target = r.s.target
      /\ t.pending = r.s.pending /\ t.compressed = r.s.compressed /\ t.partial = r.s.partial
      /\ t.base = r.s.base /\ t.newEtag = r.s.newEtag /\ t.newEtagValid = r.s.newEtagValid
      /\ t.etag = r.s.etag /\ t.etagValid = r.s.etagValid
  BY <1>1, <1>2 DEF SessionType
<1>7. q = [r EXCEPT !.s = t, !.panel = p]
  BY <1>1, <1>3 DEF Results
<1> HIDE DEF t
<1>8. /\ q \in Results /\ q.s = t /\ q.panel = p /\ q.glass = r.glass /\ q.refreshes = r.refreshes
  BY <1>1, <1>5, <1>6, <1>7 DEF Results
<1>9. Good(q)
  BY <1>5, <1>6, <1>8 DEF Good, Asleep, Powered, Tagged, Running
<1> QED BY <1>6, <1>8, <1>9 DEF Shows, now

LEMMA GlassTypes ==
  Image \subseteq Glasses /\ Unknown \in Glasses /\ Unknown # Garbage /\ Garbage \notin Image
<1>1. {Nothing, Unknown, Garbage} \cap Image = {}
  BY SessionAssumption DEF SessionAssumption
<1>2. Unknown # Garbage
  <2> SUFFICES ASSUME Unknown = Garbage PROVE FALSE
    OBVIOUS
  <2>1. {Nothing, Unknown, Garbage} = {Nothing, Unknown}
    OBVIOUS
  <2>2. Cardinality({Nothing, Unknown}) <= 2
    <3>1. IsFiniteSet({}) /\ Cardinality({}) = 0
      BY FS_EmptySet
    <3>2. IsFiniteSet({Unknown}) /\ Cardinality({Unknown}) = 1
      BY FS_Singleton
    <3>3. IsFiniteSet({Unknown} \cup {Nothing})
          /\ Cardinality({Unknown} \cup {Nothing})
               = IF Nothing \in {Unknown} THEN Cardinality({Unknown}) ELSE Cardinality({Unknown}) + 1
      BY <3>2, FS_AddElement
    <3>4. {Unknown} \cup {Nothing} = {Nothing, Unknown}
      OBVIOUS
    <3> QED BY <3>2, <3>3, <3>4
  <2>3. Cardinality({Nothing, Unknown, Garbage}) = 3
    BY SessionAssumption DEF SessionAssumption
  <2>4. Cardinality({Nothing, Unknown}) = 3
    BY <2>1, <2>3
  <2> QED BY <2>2, <2>4
<1> QED BY <1>1, <1>2 DEF Glasses

LEMMA RefreshDraws ==
  ASSUME NEW r, Good(r), r.s.active, r.s.written = Parts, NEW d \in Refreshed(r)
  PROVE  /\ d \in Results /\ Asleep(d) /\ Tagged(d) /\ ~d.s.active /\ d.refreshes = 1
         /\ d.s.pending = r.s.pending
<1> DEFINE t == [r.s EXCEPT !.active = FALSE, !.written = 0, !.etagValid = FALSE]
           u == [t EXCEPT !.etagValid = TRUE, !.etag = t.newEtag]
           drawn == Whole(r.panel) /\ (r.panel.waveform = "full" \/ r.glass = t.base)
           w == Ready(r)
<1>0. 0 \in 0..Parts /\ 1 \in 0..1 /\ r.refreshes = 0 /\ r.refreshes + 1 = 1
  BY HalfType DEF Good, Running
<1>1. r \in Results /\ r.s \in SessionType /\ r.s.target \in Image
  BY DEF Good, Running, Results
<1>2. t \in SessionType /\ ~t.active /\ ~t.etagValid /\ t.newEtag = r.s.newEtag
      /\ t.newEtagValid = r.s.newEtagValid /\ t.target = r.s.target /\ t.base = r.s.base
      /\ t.pending = r.s.pending
  BY <1>0, <1>1 DEF SessionType
<1>3. drawn
  BY <1>2, WholeImage DEF Good, Running
<1>4. Alike(w, r)
  BY <1>1, Waits
<1> DEFINE q == [w EXCEPT !.refreshes = @ + 1]
           renewed == IF t.newEtagValid THEN u ELSE t
<1>5. \/ d = [q EXCEPT !.s = renewed, !.glass = t.target]
      \/ d = [q EXCEPT !.s = t, !.glass = Unknown]
  BY <1>3 DEF Refreshed, May
<1> HIDE DEF t, w, drawn
<1>6. u \in SessionType /\ ~u.active /\ u.etag = t.newEtag /\ u.pending = t.pending /\ u.etagValid
  BY <1>2 DEF SessionType
<1> HIDE DEF u
<1>7. q \in Results /\ q.panel = r.panel /\ q.refreshes = 1
  BY <1>0, <1>1, <1>4 DEF Results, Alike
<1> HIDE DEF q
<1>8. Image \subseteq Glasses /\ Unknown \in Glasses /\ Unknown # Garbage /\ Garbage \notin Image
  BY GlassTypes
<1>9. CASE d = [q EXCEPT !.s = renewed, !.glass = t.target]
  <2>1. renewed \in SessionType /\ ~renewed.active /\ renewed.pending = r.s.pending
        /\ (renewed.etagValid => renewed.etag = t.target)
    BY <1>2, <1>6 DEF Good, Running
  <2>2. d \in Results /\ d.s = renewed /\ d.glass = t.target /\ d.panel = r.panel /\ d.refreshes = 1
    <3> HIDE DEF renewed
    <3>1. t.target \in Glasses
      BY <1>1, <1>2, <1>8
    <3> QED BY <1>7, <1>9, <2>1, <3>1 DEF Results
  <2> HIDE DEF renewed
  <2> QED BY <1>1, <1>2, <1>8, <2>1, <2>2 DEF Good, Asleep, Tagged
<1>10. CASE d = [q EXCEPT !.s = t, !.glass = Unknown]
  <2>1. d \in Results /\ d.s = t /\ d.glass = Unknown /\ d.panel = r.panel /\ d.refreshes = 1
    BY <1>2, <1>7, <1>8, <1>10 DEF Results
  <2> QED BY <1>1, <1>2, <1>8, <2>1 DEF Good, Asleep, Tagged
<1> QED BY <1>5, <1>9, <1>10

LEMMA FinishEnds ==
  ASSUME NEW r, Good(r), r.s.active, r.s.written = Parts, NEW q \in Finish(r)
  PROVE  /\ Good(q)
         /\ Shows(q, r) \/ (q.refreshes = 1 /\ r.refreshes = 0 /\ q.s.pending = r.s.pending)
<1>1. Alike(Told(r), r) /\ Alike(Untold(r), r)
  BY Waits DEF Good
<1>2. Good(Told(r)) /\ Good(Untold(r))
  BY <1>1, AlikeGood
<1>3. CASE q \in Abort(Untold(r))
  <2>1. Good(q) /\ Shows(q, Untold(r))
    BY <1>2, <1>3, AbortStops
  <2> QED BY <1>1, <2>1 DEF Shows, Alike
<1>4. ASSUME NEW e \in Refreshed(Told(r)), NEW d \in EpdOff(e), q = Told(d) \/ q = Untold(d)
      PROVE  Good(q) /\ q.refreshes = 1 /\ r.refreshes = 0 /\ q.s.pending = r.s.pending
  <2>1. Told(r).s.active /\ Told(r).s.written = Parts /\ Told(r).s.pending = r.s.pending
    BY <1>1 DEF Alike
  <2>2. e \in Results /\ Asleep(e) /\ Tagged(e) /\ ~e.s.active /\ e.refreshes = 1
        /\ e.s.pending = r.s.pending
    BY <1>2, <2>1, RefreshDraws
  <2>3. d \in Results /\ d.s = e.s /\ Shows(d, e) /\ Asleep(d) /\ d.panel.power # "on"
    BY <2>2, OffKeeps
  <2>4. Good(d)
    BY <2>2, <2>3 DEF Good, Powered, Tagged, Running, Shows
  <2>5. Alike(q, d)
    BY <1>4, <2>3, Waits
  <2>6. Good(q)
    BY <2>4, <2>5, AlikeGood
  <2> QED BY <2>2, <2>3, <2>5, <2>6 DEF Alike, Shows, Good, Running
<1>5. \/ q \in Abort(Untold(r))
      \/ \E e \in Refreshed(Told(r)): \E d \in EpdOff(e): q = Told(d) \/ q = Untold(d)
  <2> DEFINE D == UNION {EpdOff(e) : e \in Refreshed(Told(r))}
  <2>1. \A d \in D: \E e \in Refreshed(Told(r)): d \in EpdOff(e)
    OBVIOUS
  <2>2. q \in UNION {{Told(d)} \cup May({Untold(d)}) : d \in D} \/ q \in May(Abort(Untold(r)))
    BY DEF Finish
  <2> HIDE DEF D
  <2>3. CASE q \in UNION {{Told(d)} \cup May({Untold(d)}) : d \in D}
    <3>1. PICK d \in D: q \in {Told(d)} \cup May({Untold(d)})
      BY <2>3
    <3>2. q = Told(d) \/ q = Untold(d)
      BY <3>1 DEF May
    <3> QED BY <2>1, <3>2
  <2> QED BY <2>2, <2>3 DEF May
<1> QED BY <1>3, <1>4, <1>5

-----------------------------------------------------------------------------
(***************************************************************************)
(* Time.  What a result may still wait, with the wait it owes if it has to *)
(* switch the panel off, stays within the limit.                           *)
(***************************************************************************)
Owing(r) == IF r.s.active THEN ReadyTime ELSE 0
Room(r, b) == r.quiet + Owing(r) + b <= Limit /\ r.silence <= Limit

LEMMA TakesRoom ==
  ASSUME NEW r \in Results, NEW b \in Nat, NEW t \in Nat, Room(r, t + b)
  PROVE  Room(Takes(r, t), b) /\ Takes(r, t).silence <= Limit
<1> DEFINE q == Takes(r, t)
<1>1. q.s = r.s /\ q.quiet = r.quiet + t
      /\ q.silence = IF r.quiet + t > r.silence THEN r.quiet + t ELSE r.silence
  BY TakesTime DEF Alike
<1>2. r.quiet \in Nat /\ r.silence \in Nat /\ Owing(r) \in Nat /\ Owing(q) = Owing(r)
  BY <1>1, Times DEF Results, Owing
<1> HIDE DEF q
<1>3. r.quiet + Owing(r) + (t + b) <= Limit /\ r.silence <= Limit
  BY DEF Room
<1>4. q.quiet + Owing(q) + b <= Limit /\ q.silence <= Limit
  BY <1>1, <1>2, <1>3, Times
<1> QED BY <1>4 DEF q, Room

LEMMA ToldRoom ==
  ASSUME NEW r \in Results, Room(r, NotifyTime)
  PROVE  Room(Told(r), 2 * ReadyTime + NotifyTime) /\ Room(Told(r), 0) /\ Room(Untold(r), 0)
<1>1. Room(r, NotifyTime + 0)
  BY Times
<1>2. Room(Takes(r, NotifyTime), 0) /\ Takes(r, NotifyTime).silence <= Limit
  BY <1>1, Times, TakesRoom
<1>3. Told(r).quiet = 0 /\ Told(r).silence = Takes(r, NotifyTime).silence
  <2>1. Takes(r, NotifyTime) \in Results
    BY Times, TakesTime DEF Alike
  <2> QED BY <2>1 DEF Told, Results
<1>4. Owing(Told(r)) \in {ReadyTime, 0}
  BY DEF Owing
<1> QED BY <1>2, <1>3, <1>4, Times DEF Room, Untold, Limit

LEMMA OffRoom ==
  ASSUME NEW r \in Results, ~r.s.active, NEW b \in Nat, Room(r, ReadyTime + b), NEW q \in EpdOff(r)
  PROVE  Room(q, b)
<1>1. r.quiet \in Nat
  BY DEF Results
<1>2. CASE r.panel.asleep
  BY <1>1, <1>2, Times DEF EpdOff, Room, Owing
<1>3. CASE ~r.panel.asleep
  <2> DEFINE w == Ready(r)
  <2>1. Room(w, b) /\ w \in Results /\ w.s = r.s
    BY Times, TakesRoom, Waits DEF Ready, Alike
  <2>2. q \in {[w EXCEPT !.panel.asleep = TRUE, !.panel.power = "asleep"],
               [w EXCEPT !.panel.power = "stuck"]}
    BY <1>3 DEF EpdOff, May
  <2> HIDE DEF w
  <2>3. q.s = w.s /\ q.quiet = w.quiet /\ q.silence = w.silence
    BY <2>1, <2>2 DEF Results
  <2> QED BY <2>1, <2>3 DEF Room, Owing
<1> QED BY <1>2, <1>3

LEMMA AbortRoom ==
  ASSUME NEW r, Good(r), NEW b \in Nat, Room(r, b), NEW a \in Abort(r)
  PROVE  Room(a, b)
<1> DEFINE t == [r.s EXCEPT !.active = FALSE, !.written = 0, !.pending = FALSE]
           u == [t EXCEPT !.etagValid = FALSE]
<1>1. r \in Results /\ r.s \in SessionType /\ r.quiet \in Nat /\ 0 \in 0..Parts
  BY HalfType DEF Good, Results
<1>2. t \in SessionType /\ ~t.active
  BY <1>1 DEF SessionType
<1>3. u \in SessionType /\ ~u.active
  <2> HIDE DEF t
  <2> QED BY <1>2 DEF SessionType
<1> HIDE DEF t, u
<1>4. CASE r.s.active
  <2> DEFINE w == With(r, u)
  <2>1. a \in EpdOff(w)
    BY <1>4 DEF Abort, t, u
  <2>2. w \in Results /\ w.s = u
    BY <1>1, <1>3, WithType
  <2>3. w.quiet = r.quiet /\ w.silence = r.silence
    BY <1>1 DEF With, Results
  <2> HIDE DEF w
  <2>4. Room(w, ReadyTime + b)
    BY <1>1, <1>3, <1>4, <2>2, <2>3, Times DEF Room, Owing
  <2> QED BY <1>3, <2>1, <2>2, <2>4, OffRoom
<1>5. CASE ~r.s.active
  <2>1. a = With(r, t)
    BY <1>5 DEF Abort, t
  <2>2. a.s = t /\ a.quiet = r.quiet /\ a.silence = r.silence
    BY <1>1, <2>1 DEF With, Results
  <2> QED BY <1>2, <1>5, <2>2 DEF Room, Owing
<1> QED BY <1>4, <1>5

LEMMA ReplyRoom ==
  ASSUME NEW r, Good(r), Room(r, NotifyTime), NEW q \in Reply(r)
  PROVE  Room(q, 0)
<1>1. r \in Results /\ Good(Untold(r)) /\ Room(Told(r), 0) /\ Room(Untold(r), 0)
  BY ToldRoom, Waits, AlikeGood DEF Good
<1>2. q = Told(r) \/ q \in Abort(Untold(r))
  BY DEF Reply, May
<1> QED BY <1>1, <1>2, AbortRoom

LEMMA BeginRoom ==
  ASSUME NEW r, Good(r), ~r.s.active, NEW c \in Nat, Room(r, 2 * ReadyTime + c),
         NEW compressed \in BOOLEAN, NEW partial \in BOOLEAN, NEW base \in Tags, NEW target \in Image,
         NEW b \in Begin(r, compressed, partial, base, target)
  PROVE  Room(b, c)
<1> DEFINE t == Started(r.s, compressed, partial, base, target)
           d == [r EXCEPT !.s = t, !.refreshes = 0]
           w == Ready(d)
           yes == [EpdBegun(d, partial) EXCEPT !.s.active = TRUE]
           no == EpdNotBegun(d, partial)
<1>1. r \in Results /\ r.s \in SessionType /\ target \in Tags /\ r.panel \in PanelType
      /\ r.quiet \in Nat
  BY DEF Good, Results, Tags
<1>2. t \in SessionType /\ ~t.active
  <2>1. t \in SessionType
    <3> DEFINE a == [r.s EXCEPT !.compressed = compressed, !.partial = partial,
                                !.failed = FALSE, !.newEtagValid = FALSE]
               whole == [a EXCEPT !.complete = FALSE, !.base = base, !.target = target]
    <3>1. a \in SessionType
      BY <1>1 DEF SessionType
    <3>2. t = whole
      BY <1>1 DEF Started, SessionType
    <3> HIDE DEF a, t
    <3>3. whole \in SessionType
      BY <1>1, <3>1 DEF SessionType
    <3> QED BY <3>2, <3>3
  <2>2. t.active = r.s.active
    BY <1>1 DEF Started, SessionType
  <2> HIDE DEF t
  <2> QED BY <2>1, <2>2
<1>3. d \in Results /\ d.s = t /\ d.quiet = r.quiet /\ d.silence = r.silence
  <2> HIDE DEF t
  <2>1. t \in SessionType /\ 0 \in 0..1
    BY <1>2
  <2> QED BY <1>1, <2>1 DEF Results
<1>4. b = yes \/ b \in EpdOff(no)
  BY DEF Begin, BeginFails, May
<1> HIDE DEF t, d
<1>5. Room(d, ReadyTime + (ReadyTime + c)) /\ ReadyTime + c \in Nat
  BY <1>1, <1>2, <1>3, Times DEF Room, Owing
<1>6. w \in Results /\ w.s = t /\ Room(w, ReadyTime + c)
  BY <1>3, <1>5, Times, TakesRoom, Waits DEF Ready, Alike
<1> HIDE DEF w
<1>7. CASE b = yes
  <2> DEFINE v == EpdBegun(d, partial)
  <2>1. v.s = t /\ v.quiet = w.quiet /\ v.silence = w.silence
        /\ v = [w EXCEPT !.panel = IF partial THEN WindowPanel(@) ELSE FullPanel(@)]
    BY <1>6 DEF EpdBegun, w, Results
  <2>2. yes = [w EXCEPT !.panel = v.panel, !.s = [t EXCEPT !.active = TRUE]]
    BY <1>6, <2>1 DEF Results
  <2> HIDE DEF yes, v
  <2>3. yes.s = [t EXCEPT !.active = TRUE] /\ yes.quiet = w.quiet /\ yes.silence = w.silence
    BY <1>6, <2>2 DEF Results
  <2>4. yes.s.active
    BY <1>2, <2>3 DEF SessionType
  <2>5. w.quiet \in Nat
    BY <1>6 DEF Results
  <2> QED BY <1>2, <1>6, <1>7, <2>3, <2>4, <2>5, Times DEF Room, Owing
<1>8. CASE b \in EpdOff(no)
  <2>1. no = [w EXCEPT !.panel = IF partial THEN WindowTimedOut(@) ELSE FullPanel(@)]
    BY DEF EpdNotBegun, w
  <2>2. (IF partial THEN WindowTimedOut(w.panel) ELSE FullPanel(w.panel)) \in PanelType
    <3>1. w.panel \in PanelType /\ 0 \in 0..Parts /\ Filled("white", 0) \in Planes
          /\ Filled("white", Parts) \in Planes
      BY <1>6, HalfType DEF Results, Filled, Planes
    <3>2. CASE partial
      BY <3>1, <3>2 DEF WindowTimedOut, PanelType
    <3>3. CASE ~partial
      BY <3>1, <3>3 DEF FullPanel, PanelType
    <3> QED BY <3>2, <3>3
  <2> HIDE DEF no
  <2>3. no \in Results /\ no.s = t /\ no.quiet = w.quiet /\ no.silence = w.silence
    BY <1>6, <2>1, <2>2 DEF Results
  <2>4. Room(no, ReadyTime + c)
    BY <1>6, <2>3 DEF Room, Owing
  <2> QED BY <1>2, <1>8, <2>3, <2>4, OffRoom
<1> QED BY <1>4, <1>7, <1>8

LEMMA StreamRoom ==
  ASSUME NEW r, Good(r), r.s.active, NEW n \in Nat, NEW b \in Nat, Room(r, b), NEW q \in Stream(r, n)
  PROVE  Room(q, b)
<1>1. q.s.active
  BY StreamKeeps
<1>2. r \in Results /\ r.s.active
  BY DEF Good
<1>3. PICK done \in BOOLEAN:
        q = [r EXCEPT !.s.written = r.s.written + n, !.s.complete = done, !.panel = EpdWrite(@, n)]
  BY DEF Stream
<1>4. q.quiet = r.quiet /\ q.silence = r.silence
  BY <1>2, <1>3 DEF Results
<1> QED BY <1>1, <1>2, <1>4 DEF Room, Owing

LEMMA FinishRoom ==
  ASSUME NEW r, Good(r), r.s.active, r.s.written = Parts, Room(r, NotifyTime), NEW q \in Finish(r)
  PROVE  Room(q, 0)
<1> DEFINE told == Told(r)
           w == Ready(told)
<1>1. r \in Results /\ Good(Untold(r)) /\ Room(told, 2 * ReadyTime + NotifyTime) /\ Room(Untold(r), 0)
      /\ told \in Results /\ Good(told) /\ told.s = r.s
  BY ToldRoom, Waits, AlikeGood DEF Good, Alike
<1>2. Room(told, ReadyTime + (ReadyTime + NotifyTime)) /\ ReadyTime + NotifyTime \in Nat
  BY <1>1, Times DEF Room
<1>3. Room(w, ReadyTime + NotifyTime) /\ w \in Results /\ w.s = r.s
  <2> HIDE DEF told
  <2> QED BY <1>1, <1>2, Times, TakesRoom, Waits DEF Ready, Alike
<1> HIDE DEF told, w
<1>4. ASSUME NEW e \in Refreshed(told), NEW d \in EpdOff(e)
      PROVE  Room(Told(d), 0) /\ Room(Untold(d), 0)
  <2>1. e \in Results /\ Asleep(e) /\ ~e.s.active
    BY <1>1, RefreshDraws
  <2>2. e.quiet = w.quiet /\ e.silence = w.silence
    BY <1>3 DEF Refreshed, May, Results, w
  <2>3. w.quiet \in Nat
    BY <1>3 DEF Results
  <2>4. Room(e, ReadyTime + NotifyTime)
    BY <1>3, <2>1, <2>2, <2>3, Times DEF Room, Owing
  <2>5. d \in Results /\ Room(d, NotifyTime)
    BY <2>1, <2>4, OffKeeps, OffRoom, Times
  <2> QED BY <2>5, ToldRoom
<1>5. \/ q \in Abort(Untold(r))
      \/ \E e \in Refreshed(told): \E d \in EpdOff(e): q = Told(d) \/ q = Untold(d)
  <2> DEFINE D == UNION {EpdOff(e) : e \in Refreshed(told)}
  <2>1. \A d \in D: \E e \in Refreshed(told): d \in EpdOff(e)
    OBVIOUS
  <2>2. q \in UNION {{Told(d)} \cup May({Untold(d)}) : d \in D} \/ q \in May(Abort(Untold(r)))
    BY DEF Finish, told
  <2> HIDE DEF D
  <2>3. CASE q \in UNION {{Told(d)} \cup May({Untold(d)}) : d \in D}
    <3>1. PICK d \in D: q \in {Told(d)} \cup May({Untold(d)})
      BY <2>3
    <3>2. q = Told(d) \/ q = Untold(d)
      BY <3>1 DEF May
    <3> QED BY <2>1, <3>2
  <2> QED BY <2>2, <2>3 DEF May
<1> QED BY <1>1, <1>4, <1>5, AbortRoom

-----------------------------------------------------------------------------
(***************************************************************************)
(* Commands: each of their results is a state the invariant allows, within *)
(* the time, and the panel was refreshed only if that was due.             *)
(***************************************************************************)
(* No refresh, on the way to a result. *)
Kept(r) == Good(r) /\ r.glass = glass /\ r.refreshes \in {refreshes, 0}

Due == /\ s.active /\ refreshes = 0
       /\ s.written = Parts \/ (s.pipe /\ ~s.compressed /\ ~s.partial)
       /\ s.compressed => s.complete

Fine(q) == /\ Good(q) /\ Room(q, 0)
           /\ Kept(q) \/ (Due /\ q.refreshes = 1 /\ ~q.s.pending)

(* What RefreshWhole says of a step. *)
RefreshStep ==
  /\ refreshes' > refreshes =>
       /\ s.active /\ refreshes = 0 /\ ~s'.pending
       /\ s.written = Parts \/ (s.pipe /\ ~s.compressed /\ ~s.partial)
       /\ s.compressed => s.complete
  /\ glass' # glass => refreshes' > refreshes \/ s' = Empty

Spare == 2 * ReadyTime + NotifyTime

LEMMA NowKept ==
  ASSUME IInv
  PROVE  /\ Kept(Now) /\ Room(Now, Spare) /\ Room(Now, NotifyTime) /\ Now \in Results
         /\ Now.s = s /\ s \in SessionType
<1>1. /\ Good(Now) /\ Now \in Results /\ Now.quiet = 0 /\ Now.silence = 0 /\ Now.s = s
      /\ Now.glass = glass /\ Now.refreshes = refreshes
  BY DEF IInv, Good, Now, Result
<1>2. s \in SessionType
  BY <1>1 DEF Results
<1>3. Owing(Now) \in {ReadyTime, 0}
  BY DEF Owing
<1> QED BY <1>1, <1>2, <1>3, Times DEF Kept, Room, Spare, Limit

LEMMA BecomesKeeps ==
  ASSUME IInv, NEW R, Becomes(R), \A q \in R: Fine(q)
  PROVE  IInv' /\ RefreshStep
<1>1. PICK q \in R: /\ s' = q.s /\ panel' = q.panel /\ glass' = q.glass
                    /\ refreshes' = q.refreshes /\ silence' = q.silence
  BY DEF Becomes
<1>2. Fine(q) /\ Good(q) /\ q \in Results
  BY DEF Fine, Good
<1> DEFINE n == [s |-> s', panel |-> panel', glass |-> glass', refreshes |-> refreshes',
                 quiet |-> 0, silence |-> 0]
<1>3. Alike(n, q)
  BY <1>1, <1>2 DEF Alike, Results
<1>4. Good(n)
  BY <1>2, <1>3, AlikeGood
<1>5. Good(Now)'
  BY <1>4 DEF Now, Result, Good, Asleep, Powered, Tagged, Running
<1>6. q.silence \in Nat /\ q.silence <= Limit
  BY <1>2 DEF Fine, Room, Results
<1>7. IInv'
  BY <1>1, <1>5, <1>6 DEF IInv, Limit
<1>8. refreshes \in 0..1 /\ q.refreshes \in 0..1
  BY <1>2 DEF IInv, Good, Results, Now, Result
<1>9. CASE Kept(q)
  <2>1. ~(refreshes' > refreshes) /\ glass' = glass
    BY <1>1, <1>8, <1>9 DEF Kept
  <2> QED BY <1>7, <2>1 DEF RefreshStep
<1>10. CASE Due /\ q.refreshes = 1 /\ ~q.s.pending
  <2>1. refreshes' > refreshes /\ ~s'.pending
    BY <1>1, <1>10 DEF Due
  <2> QED BY <1>7, <1>10, <2>1 DEF Due, RefreshStep
<1> QED BY <1>2, <1>7, <1>9, <1>10 DEF Fine

(* A session that differs in what no invariant is about, or forgets an ETag. *)
LEMMA WithGood ==
  ASSUME NEW r, Good(r), NEW t \in SessionType, t.active = r.s.active,
         t.active => /\ t.written = r.s.written /\ t.partial = r.s.partial
                     /\ t.base = r.s.base /\ t.target = r.s.target
                     /\ t.newEtagValid => t.newEtag = t.target,
         t.etagValid => r.s.etagValid /\ t.etag = r.s.etag
  PROVE  /\ Good(With(r, t)) /\ With(r, t).s = t /\ Shows(With(r, t), r)
         /\ \A b: Room(r, b) => Room(With(r, t), b)
<1> DEFINE q == With(r, t)
<1>1. /\ q \in Results /\ q.s = t /\ Shows(q, r) /\ q.panel = r.panel
  BY WithType DEF Good
<1>2. q.quiet = r.quiet /\ q.silence = r.silence
  BY DEF Good, With, Results
<1> HIDE DEF q
<1>3. Good(q)
  BY <1>1 DEF Good, Asleep, Powered, Tagged, Running, Shows
<1>4. \A b: Room(r, b) => Room(q, b)
  BY <1>1, <1>2 DEF Room, Owing
<1> QED BY <1>1, <1>3, <1>4 DEF q

LEMMA ReplyFine ==
  ASSUME NEW r, Kept(r), Room(r, NotifyTime), NEW q \in Reply(r)
  PROVE  Fine(q)
BY ReplyKeeps, ReplyRoom DEF Kept, Fine, Shows

LEMMA AbortFine ==
  ASSUME NEW r, Kept(r), NEW b \in Nat, Room(r, b), NEW a \in Abort(r)
  PROVE  Kept(a) /\ Room(a, b) /\ ~a.s.active /\ a.s.written = 0 /\ a.s \in SessionType /\ ~a.s.pending
<1>1. Good(r)
  BY DEF Kept
<1>2. Good(a) /\ Shows(a, r) /\ ~a.s.active /\ a.s.written = 0 /\ Room(a, b) /\ ~a.s.pending
  BY <1>1, AbortStops, AbortRoom
<1> QED BY <1>2 DEF Kept, Shows, Good, Results

LEMMA StreamFine ==
  ASSUME NEW r, Kept(r), r.s.active, NEW n \in Nat, NEW b \in Nat, Room(r, b), NEW q \in Stream(r, n)
  PROVE  /\ Kept(q) /\ Room(q, b) /\ q.s.active /\ q.s.written = r.s.written + n
         /\ q.s.target = r.s.target /\ q.s.pending = r.s.pending
         /\ q.s.compressed = r.s.compressed /\ q.s.partial = r.s.partial
         /\ q.s \in SessionType
<1>1. Good(r)
  BY DEF Kept
<1>2. /\ Good(q) /\ Shows(q, r) /\ q.s.active /\ q.s.written = r.s.written + n
      /\ q.s.target = r.s.target /\ q.s.pending = r.s.pending
      /\ q.s.compressed = r.s.compressed /\ q.s.partial = r.s.partial
  BY <1>1, StreamKeeps
<1>3. Room(q, b)
  BY <1>1, StreamRoom
<1> QED BY <1>2, <1>3 DEF Kept, Shows, Good, Results

LEMMA FinishFine ==
  ASSUME NEW r, Kept(r), r.s.active, r.s.written = Parts, ~r.s.pending, Due, Room(r, NotifyTime),
         NEW q \in Finish(r)
  PROVE  Fine(q)
<1>1. Good(r)
  BY DEF Kept
<1>2. /\ Good(q)
      /\ Shows(q, r) \/ (q.refreshes = 1 /\ r.refreshes = 0 /\ q.s.pending = r.s.pending)
  BY <1>1, FinishEnds
<1>3. Room(q, 0)
  BY <1>1, FinishRoom
<1> QED BY <1>2, <1>3 DEF Kept, Shows, Fine

LEMMA FirstFine ==
  ASSUME NEW r, Kept(r), Room(r, NotifyTime), NEW q \in First(r)
  PROVE  Fine(q)
<1>1. CASE ~r.s.active
  BY <1>1, ReplyFine DEF First
<1>2. CASE r.s.active
  <2>1. \/ \E d \in Stream(r, 0) \cup Stream(r, 1): q \in Reply(d)
        \/ \E a \in Abort(r): q \in Reply(a)
    BY <1>2 DEF First
  <2>2. ASSUME NEW d \in Stream(r, 0) \cup Stream(r, 1), q \in Reply(d) PROVE Fine(q)
    <3>1. Kept(d) /\ Room(d, NotifyTime)
      BY <1>2, Times, StreamFine
    <3> QED BY <2>2, <3>1, ReplyFine
  <2>3. ASSUME NEW a \in Abort(r), q \in Reply(a) PROVE Fine(q)
    <3>1. Kept(a) /\ Room(a, NotifyTime)
      BY Times, AbortFine
    <3> QED BY <2>3, <3>1, ReplyFine
  <2> QED BY <2>1, <2>2, <2>3
<1> QED BY <1>1, <1>2

LEMMA BeginFine ==
  ASSUME NEW r, Kept(r), ~r.s.active, r.s.written = 0, Room(r, Spare),
         NEW compressed \in BOOLEAN, NEW partial \in BOOLEAN, NEW base \in Tags, NEW target \in Image,
         partial => base = glass,
         NEW b \in Begin(r, compressed, partial, base, target)
  PROVE  /\ Kept(b) /\ Room(b, NotifyTime) /\ b.s \in SessionType
         /\ b.s.active => b.s.target = target
<1>1. Good(r) /\ r.glass = glass
  BY DEF Kept
<1>2. Good(b) /\ b.glass = glass /\ b.refreshes = 0 /\ (b.s.active => b.s.target = target)
  BY <1>1, BeginStarts
<1>3. Room(b, NotifyTime)
  BY <1>1, Times, BeginRoom DEF Spare
<1> QED BY <1>2, <1>3 DEF Kept, Good, Results

LEMMA SpareType == Spare \in Nat /\ NotifyTime \in Nat /\ Nothing \in Tags /\ Image \subseteq Tags
                   /\ \A r: r \in Results /\ Room(r, Spare) => Room(r, NotifyTime)
<1>1. Spare \in Nat /\ NotifyTime \in Nat /\ Spare >= NotifyTime
  BY Times DEF Spare
<1>2. ASSUME NEW r \in Results, Room(r, Spare) PROVE Room(r, NotifyTime)
  <2>1. r.quiet \in Nat /\ Owing(r) \in Nat
    BY Times DEF Results, Owing
  <2> QED BY <1>1, <1>2, <2>1, Times DEF Room
<1> QED BY <1>1, <1>2 DEF Tags

(* What a START does first: od_abort, and some flags. *)
LEMMA StartAborts ==
  ASSUME IInv, NEW a \in Abort(Now), NEW t \in SessionType, ~t.active, t.written = 0,
         t.etagValid => a.s.etagValid /\ t.etag = a.s.etag
  PROVE  /\ Kept(With(a, t)) /\ With(a, t).s = t
         /\ Room(With(a, t), Spare) /\ Room(With(a, t), NotifyTime)
<1>1. Kept(a) /\ Room(a, Spare) /\ ~a.s.active
  BY NowKept, AbortFine, SpareType
<1>2. Good(a) /\ a.s \in SessionType
  BY <1>1 DEF Kept, Good, Results
<1>3. t.active = a.s.active
  BY <1>1, <1>2 DEF SessionType
<1>4. /\ Good(With(a, t)) /\ With(a, t).s = t /\ Shows(With(a, t), a)
      /\ Room(With(a, t), Spare)
  BY <1>1, <1>2, <1>3, WithGood
<1> QED BY <1>1, <1>4, SpareType DEF Kept, Shows, Good

LEMMA DirectStartSteps == IInv /\ DirectStart => IInv' /\ RefreshStep
<1> SUFFICES ASSUME IInv, DirectStart PROVE IInv' /\ RefreshStep
  OBVIOUS
<1>1. PICK a \in Abort(Now), target \in Image, compressed \in BOOLEAN:
        LET r == With(a, [a.s EXCEPT !.pipe = FALSE, !.failed = FALSE])
        IN  Becomes(Reply(r) \cup UNION {First(b) : b \in Begin(r, compressed, FALSE, Nothing, target)})
  BY Zenon DEF DirectStart
<1> DEFINE t == [a.s EXCEPT !.pipe = FALSE, !.failed = FALSE]
           r == With(a, t)
           R == Reply(r) \cup UNION {First(b) : b \in Begin(r, compressed, FALSE, Nothing, target)}
<1>2. a.s \in SessionType /\ ~a.s.active /\ a.s.written = 0
  BY NowKept, AbortFine, SpareType
<1>3. t \in SessionType /\ ~t.active /\ t.written = 0 /\ t.etagValid = a.s.etagValid /\ t.etag = a.s.etag
  BY <1>2 DEF SessionType
<1> HIDE DEF t
<1>4. Kept(r) /\ r.s = t /\ Room(r, Spare) /\ Room(r, NotifyTime)
  BY <1>3, StartAborts
<1> HIDE DEF r
<1>5. ASSUME NEW q \in R PROVE Fine(q)
  <2>1. CASE q \in Reply(r)
    BY <1>4, <2>1, ReplyFine
  <2>2. ASSUME NEW b \in Begin(r, compressed, FALSE, Nothing, target), q \in First(b) PROVE Fine(q)
    <3>1. Kept(b) /\ Room(b, NotifyTime)
      BY <1>3, <1>4, SpareType, BeginFine
    <3> QED BY <2>2, <3>1, FirstFine
  <2> QED BY <2>1, <2>2
<1>6. Becomes(R)
  BY <1>1 DEF r, t
<1> HIDE DEF R
<1> QED BY <1>5, <1>6, BecomesKeeps

LEMMA PartialStartSteps == IInv /\ PartialStart => IInv' /\ RefreshStep
<1> SUFFICES ASSUME IInv, PartialStart PROVE IInv' /\ RefreshStep
  OBVIOUS
<1> DEFINE named(b, target) == With(b, [b.s EXCEPT !.newEtagValid = TRUE, !.newEtag = target])
           starts(r, compressed, base, target) ==
             IF Geometry(r.s, base) THEN Begin(r, compressed, TRUE, base, target) ELSE {}
           Rs(r, compressed, base, target) ==
             Reply(r) \cup Reply(BadGeometry(r))
               \cup UNION {First(IF b.s.active THEN named(b, target) ELSE b) :
                             b \in starts(r, compressed, base, target)}
<1>1. PICK a \in Abort(Now), base \in Image, target \in Image, compressed \in BOOLEAN:
        Becomes(Rs(With(a, [a.s EXCEPT !.pipe = FALSE]), compressed, base, target))
  BY DEF PartialStart
<1> DEFINE t == [a.s EXCEPT !.pipe = FALSE]
           u == [t EXCEPT !.etagValid = FALSE]
           r == With(a, t)
           R == Rs(r, compressed, base, target)
<1>2. a.s \in SessionType /\ ~a.s.active /\ a.s.written = 0 /\ Good(a)
  BY NowKept, AbortFine, SpareType DEF Kept
<1>3. t \in SessionType /\ ~t.active /\ t.written = 0 /\ t.etagValid = a.s.etagValid /\ t.etag = a.s.etag
  BY <1>2 DEF SessionType
<1> HIDE DEF t
<1>4. u \in SessionType /\ ~u.active /\ u.active = t.active /\ ~u.etagValid
  BY <1>3 DEF SessionType
<1> HIDE DEF u
<1>5. Kept(r) /\ r.s = t /\ Room(r, Spare) /\ Room(r, NotifyTime)
  BY <1>3, StartAborts
<1> HIDE DEF r
<1>6. Kept(BadGeometry(r)) /\ Room(BadGeometry(r), NotifyTime)
  <2>1. BadGeometry(r) = With(r, u)
    BY <1>5 DEF BadGeometry, u
  <2>2. Good(With(r, u)) /\ Shows(With(r, u), r) /\ Room(With(r, u), NotifyTime)
    BY <1>3, <1>4, <1>5, WithGood DEF Kept
  <2> QED BY <1>5, <2>1, <2>2 DEF Kept, Shows
<1>7. ASSUME NEW b \in starts(r, compressed, base, target)
      PROVE  LET d == IF b.s.active THEN named(b, target) ELSE b
             IN  Kept(d) /\ Room(d, NotifyTime)
  <2>1. Geometry(t, base) /\ b \in Begin(r, compressed, TRUE, base, target)
    BY <1>5
  <2>2. base = glass
    BY <1>5, <2>1 DEF Geometry, Kept, Good, Tagged
  <2>3. Kept(b) /\ Room(b, NotifyTime) /\ b.s \in SessionType /\ (b.s.active => b.s.target = target)
    <3>1. base \in Tags /\ TRUE \in BOOLEAN /\ ~r.s.active /\ r.s.written = 0
      BY <1>3, <1>5 DEF Tags
    <3>2. \A p \in BOOLEAN: \A d \in Begin(r, compressed, p, base, target):
            /\ Kept(d) /\ Room(d, NotifyTime) /\ d.s \in SessionType
            /\ d.s.active => d.s.target = target
      BY <1>5, <2>2, <3>1, BeginFine
    <3> QED BY <2>1, <3>2
  <2>4. CASE b.s.active
    <3> DEFINE v == [b.s EXCEPT !.newEtagValid = TRUE, !.newEtag = target]
    <3>1. /\ v \in SessionType /\ v.active /\ v.written = b.s.written /\ v.partial = b.s.partial
          /\ v.base = b.s.base /\ v.target = b.s.target /\ v.newEtag = v.target
          /\ v.etagValid = b.s.etagValid /\ v.etag = b.s.etag
      BY <2>3, <2>4, SpareType DEF SessionType
    <3> HIDE DEF v
    <3>2. Good(With(b, v)) /\ Shows(With(b, v), b) /\ Room(With(b, v), NotifyTime)
      BY <2>3, <2>4, <3>1, WithGood DEF Kept
    <3>3. Kept(With(b, v))
      BY <2>3, <3>2 DEF Kept, Shows
    <3> QED BY <2>4, <3>2, <3>3 DEF v
  <2> QED BY <2>3, <2>4
<1> HIDE DEF starts, named
<1>8. ASSUME NEW q \in R PROVE Fine(q)
  <2>1. CASE q \in Reply(r) \cup Reply(BadGeometry(r))
    BY <1>5, <1>6, <2>1, ReplyFine
  <2>2. ASSUME NEW b \in starts(r, compressed, base, target),
               q \in First(IF b.s.active THEN named(b, target) ELSE b)
        PROVE  Fine(q)
    <3> DEFINE d == IF b.s.active THEN named(b, target) ELSE b
    <3>1. Kept(d) /\ Room(d, NotifyTime) /\ q \in First(d)
      BY <1>7, <2>2
    <3> HIDE DEF d
    <3> QED BY <3>1, FirstFine
  <2> QED BY <2>1, <2>2
<1>9. Becomes(R)
  BY <1>1 DEF r, t
<1> HIDE DEF R
<1> QED BY <1>8, <1>9, BecomesKeeps

(* The flags a PIPE command sets. *)
SameTransfer(t, u) ==
  /\ t.active = u.active /\ t.written = u.written /\ t.partial = u.partial
  /\ t.compressed = u.compressed /\ t.base = u.base /\ t.target = u.target
  /\ t.newEtagValid = u.newEtagValid /\ t.newEtag = u.newEtag
  /\ t.etagValid = u.etagValid /\ t.etag = u.etag

LEMMA Flags ==
  ASSUME NEW u \in SessionType, NEW f \in BOOLEAN
  PROVE  /\ [u EXCEPT !.failed = f] \in SessionType /\ SameTransfer([u EXCEPT !.failed = f], u)
         /\ [u EXCEPT !.seen = f] \in SessionType /\ SameTransfer([u EXCEPT !.seen = f], u)
         /\ [u EXCEPT !.seen = f].pending = u.pending
         /\ [u EXCEPT !.pending = f] \in SessionType /\ SameTransfer([u EXCEPT !.pending = f], u)
         /\ [u EXCEPT !.pending = f].pending = f
BY DEF SessionType, SameTransfer

LEMMA KeptWith ==
  ASSUME NEW r, Kept(r), NEW t \in SessionType, SameTransfer(t, r.s)
  PROVE  /\ Kept(With(r, t)) /\ With(r, t).s = t
         /\ \A b: Room(r, b) => Room(With(r, t), b)
<1>1. Good(r) /\ (t.active => (t.newEtagValid => t.newEtag = t.target))
  BY DEF Kept, Good, Running, SameTransfer
<1>2. /\ Good(With(r, t)) /\ With(r, t).s = t /\ Shows(With(r, t), r)
      /\ \A b: Room(r, b) => Room(With(r, t), b)
  BY <1>1, WithGood DEF SameTransfer
<1> QED BY <1>2 DEF Kept, Shows

LEMMA KeptType ==
  ASSUME NEW r, Kept(r)
  PROVE  r \in Results /\ r.s \in SessionType /\ Good(r)
BY DEF Kept, Good, Results

LEMMA PipeStartSteps == IInv /\ PipeStart => IInv' /\ RefreshStep
<1> SUFFICES ASSUME IInv, PipeStart PROVE IInv' /\ RefreshStep
  OBVIOUS
<1> DEFINE refused(b) == With(b, [b.s EXCEPT !.failed = TRUE])
           starts(r, compressed, partial, base, target) ==
             IF partial => Geometry(r.s, base)
             THEN Begin(r, compressed, partial, IF partial THEN base ELSE Nothing, target) ELSE {}
           Rs(r, compressed, partial, base, target) ==
             Reply(refused(r)) \cup Reply(refused(BadGeometry(r)))
               \cup UNION {Reply(IF b.s.active THEN b ELSE refused(b)) :
                             b \in starts(r, compressed, partial, base, target)}
<1>1. PICK a \in Abort(Now), base \in Image, target \in Image, compressed \in BOOLEAN,
           partial \in BOOLEAN:
        Becomes(Rs(With(a, [a.s EXCEPT !.pipe = TRUE, !.failed = FALSE, !.seen = FALSE]),
                   compressed, partial, base, target))
  BY DEF PipeStart
<1> DEFINE t == [a.s EXCEPT !.pipe = TRUE, !.failed = FALSE, !.seen = FALSE]
           u == [t EXCEPT !.etagValid = FALSE]
           r == With(a, t)
           R == Rs(r, compressed, partial, base, target)
<1>2. a.s \in SessionType /\ ~a.s.active /\ a.s.written = 0 /\ Good(a)
  BY NowKept, AbortFine, SpareType DEF Kept
<1>3. t \in SessionType /\ ~t.active /\ t.written = 0 /\ t.etagValid = a.s.etagValid /\ t.etag = a.s.etag
  BY <1>2 DEF SessionType
<1> HIDE DEF t
<1>4. u \in SessionType /\ ~u.active /\ u.active = t.active /\ ~u.etagValid
  BY <1>3 DEF SessionType
<1> HIDE DEF u
<1>5. Kept(r) /\ r.s = t /\ Room(r, Spare) /\ Room(r, NotifyTime)
  BY <1>3, StartAborts
<1> HIDE DEF r
<1>6. Kept(BadGeometry(r)) /\ Room(BadGeometry(r), NotifyTime)
  <2>1. BadGeometry(r) = With(r, u)
    BY <1>5 DEF BadGeometry, u
  <2>2. Good(With(r, u)) /\ Shows(With(r, u), r) /\ Room(With(r, u), NotifyTime)
    BY <1>3, <1>4, <1>5, WithGood DEF Kept
  <2> QED BY <1>5, <2>1, <2>2 DEF Kept, Shows
<1>7. \A b: Kept(b) /\ Room(b, NotifyTime) => Kept(refused(b)) /\ Room(refused(b), NotifyTime)
  BY KeptType, KeptWith, Flags
<1>8. ASSUME NEW b \in starts(r, compressed, partial, base, target)
      PROVE  Kept(b) /\ Room(b, NotifyTime)
  <2> DEFINE from == IF partial THEN base ELSE Nothing
  <2>1. (partial => Geometry(t, base)) /\ b \in Begin(r, compressed, partial, from, target)
    BY <1>5
  <2>2. partial => from = glass
    BY <1>5, <2>1 DEF Geometry, Kept, Good, Tagged
  <2>3. from \in Tags /\ ~r.s.active /\ r.s.written = 0
    BY <1>3, <1>5 DEF Tags
  <2> HIDE DEF from
  <2> QED BY <1>5, <2>1, <2>2, <2>3, BeginFine
<1> HIDE DEF starts
<1>9. ASSUME NEW q \in R PROVE Fine(q)
  <2>1. CASE q \in Reply(refused(r)) \cup Reply(refused(BadGeometry(r)))
    <3>1. /\ Kept(refused(r)) /\ Room(refused(r), NotifyTime)
          /\ Kept(refused(BadGeometry(r))) /\ Room(refused(BadGeometry(r)), NotifyTime)
      BY <1>5, <1>6, <1>7
    <3> HIDE DEF refused
    <3> QED BY <2>1, <3>1, ReplyFine
  <2>2. ASSUME NEW b \in starts(r, compressed, partial, base, target),
               q \in Reply(IF b.s.active THEN b ELSE refused(b))
        PROVE  Fine(q)
    <3> DEFINE d == IF b.s.active THEN b ELSE refused(b)
    <3>1. Kept(d) /\ Room(d, NotifyTime) /\ q \in Reply(d)
      BY <1>7, <1>8, <2>2
    <3> HIDE DEF d
    <3> QED BY <3>1, ReplyFine
  <2> QED BY <2>1, <2>2
<1>10. Becomes(R)
  BY <1>1 DEF r, t
<1> HIDE DEF R
<1> QED BY <1>9, <1>10, BecomesKeeps

LEMMA DirectDataSteps == IInv /\ DirectData => IInv' /\ RefreshStep
<1> SUFFICES ASSUME IInv, DirectData PROVE IInv' /\ RefreshStep
  OBVIOUS
<1>1. Kept(Now) /\ Room(Now, NotifyTime) /\ Now.s = s
  BY NowKept
<1>2. CASE ~s.active \/ s.pipe
  <2>1. Becomes(Reply(Now))
    BY <1>2 DEF DirectData
  <2> QED BY <1>1, <2>1, ReplyFine, BecomesKeeps
<1>3. CASE ~(~s.active \/ s.pipe)
  <2> DEFINE R(n) == (UNION {Reply(d) : d \in Stream(Now, n)}) \cup UNION {Reply(a) : a \in Abort(Now)}
  <2>1. PICK n \in 0..Parts: Becomes(R(n))
    BY <1>3 DEF DirectData
  <2>2. n \in Nat
    BY HalfType
  <2>3. ASSUME NEW q \in R(n) PROVE Fine(q)
    <3>1. (\E d \in Stream(Now, n): q \in Reply(d)) \/ \E a \in Abort(Now): q \in Reply(a)
      OBVIOUS
    <3>2. ASSUME NEW d \in Stream(Now, n), q \in Reply(d) PROVE Fine(q)
      <4>1. Kept(d) /\ Room(d, NotifyTime)
        BY <1>1, <1>3, <2>2, SpareType, StreamFine
      <4> QED BY <3>2, <4>1, ReplyFine
    <3>3. ASSUME NEW a \in Abort(Now), q \in Reply(a) PROVE Fine(q)
      <4>1. Kept(a) /\ Room(a, NotifyTime)
        BY <1>1, SpareType, AbortFine
      <4> QED BY <3>3, <4>1, ReplyFine
    <3> QED BY <3>1, <3>2, <3>3
  <2> HIDE DEF R
  <2> QED BY <2>1, <2>3, BecomesKeeps
<1> QED BY <1>2, <1>3

LEMMA AckedFine ==
  ASSUME NEW r, Kept(r), r.s.active, Room(r, NotifyTime), AutoFinish(r.s) => Due, NEW q \in Acked(r)
  PROVE  Fine(q)
<1>1. r \in Results /\ Good(r)
  BY KeptType
<1>2. Alike(Told(r), r) /\ Alike(Untold(r), r)
  BY <1>1, Waits
<1>3. Good(Told(r)) /\ Good(Untold(r)) /\ Kept(Told(r)) /\ Kept(Untold(r))
  BY <1>1, <1>2, AlikeGood DEF Kept, Alike
<1>4. Room(Told(r), 0) /\ Room(Told(r), NotifyTime) /\ Room(Untold(r), 0)
  BY <1>1, <1>2, ToldRoom, SpareType DEF Spare, Alike
<1>5. CASE q \in Abort(Untold(r))
  BY <1>3, <1>4, <1>5, AbortFine DEF Fine, Kept
<1>6. CASE AutoFinish(r.s) /\ q \in Finish(Told(r))
  <2>1. Told(r).s.active /\ Told(r).s.written = Parts /\ ~Told(r).s.pending
    BY <1>2, <1>6 DEF Alike, AutoFinish
  <2> QED BY <1>3, <1>4, <1>6, <2>1, FinishFine
<1>7. CASE q = Told(r)
  BY <1>3, <1>4, <1>7 DEF Fine
<1>8. CASE q = r
  <2>1. r.quiet \in Nat /\ Owing(r) \in Nat
    BY <1>1, Times DEF Results, Owing
  <2>2. Room(r, 0)
    BY <2>1, Times DEF Room
  <2> QED BY <1>1, <1>8, <2>2 DEF Fine
<1>9. (AutoFinish(r.s) /\ q \in Finish(Told(r))) \/ q = Told(r) \/ q = r \/ q \in Abort(Untold(r))
  BY DEF Acked, May
<1> QED BY <1>5, <1>6, <1>7, <1>8, <1>9

LEMMA FatalFine ==
  ASSUME IInv, NEW q \in Fatal
  PROVE  Fine(q)
<1>1. Kept(Now) /\ Room(Now, NotifyTime) /\ Now \in Results /\ Good(Now)
  BY NowKept, KeptType
<1>2. Alike(Told(Now), Now) /\ Alike(Untold(Now), Now)
  BY <1>1, Waits
<1>3. Kept(Told(Now)) /\ Kept(Untold(Now))
  BY <1>1, <1>2, AlikeGood DEF Kept, Alike
<1>4. Room(Told(Now), 0) /\ Room(Untold(Now), 0)
  BY <1>1, ToldRoom
<1>5. PICK a \in Abort(Told(Now)) \cup Abort(Untold(Now)): q = With(a, [a.s EXCEPT !.failed = TRUE])
  BY DEF Fatal, May
<1>6. Kept(a) /\ Room(a, 0) /\ a.s \in SessionType
  BY <1>3, <1>4, <1>5, AbortFine
<1>7. Kept(q) /\ Room(q, 0)
  BY <1>5, <1>6, Flags, KeptWith
<1> QED BY <1>7 DEF Fine, Kept

(* The frame of the transfer that runs is taken, early or as expected. *)
LEMMA PipeDataSteps == IInv /\ PipeData => IInv' /\ RefreshStep
<1> SUFFICES ASSUME IInv, PipeData PROVE IInv' /\ RefreshStep
  OBVIOUS
<1>1. Kept(Now) /\ Room(Now, NotifyTime) /\ Now.s = s /\ s \in SessionType
  BY NowKept
<1>2. CASE UNCHANGED vars
  <2>1. IInv'
    BY <1>2 DEF vars, IInv, Good, Now, Result, Asleep, Powered, Tagged, Running, Limit
  <2>2. RefreshStep
    <3>1. refreshes \in 0..1 /\ refreshes' = refreshes /\ glass' = glass
      BY <1>2 DEF IInv, Good, Results, Now, Result, vars
    <3>2. ~(refreshes' > refreshes)
      BY <3>1
    <3> QED BY <3>1, <3>2 DEF RefreshStep
  <2> QED BY <2>1, <2>2
<1>3. CASE Becomes(Fatal)
  BY <1>3, FatalFine, BecomesKeeps
<1>4. CASE ~s.failed /\ s.active /\ s.pipe
  <2> DEFINE seen(t) == [t EXCEPT !.seen = TRUE]
             early == IF s.pending THEN {} ELSE {With(Now, seen([s EXCEPT !.pending = TRUE]))}
             repeated == IF s.seen THEN Reply(Now) ELSE {}
             one == {With(d, seen(d.s)) : d \in Stream(Now, 1) \cup Stream(Now, 0)}
             drained == {With(d, [d.s EXCEPT !.pending = FALSE]) :
                           d \in UNION {Stream(o, 1) \cup Stream(o, 0) : o \in one}}
             expected == IF s.pending THEN drained ELSE one
             R == Fatal \cup repeated \cup UNION {Acked(r) : r \in early \cup expected}
  <2>1. Becomes(R)
    BY <1>4 DEF PipeData
  <2>2. refreshes = 0
    BY <1>4 DEF IInv, Good, Running, Now, Result
  <2> DEFINE Fit(r) == /\ Kept(r) /\ r.s.active /\ Room(r, NotifyTime)
                       /\ r.s.compressed = s.compressed /\ r.s.partial = s.partial
  <2>3. \A r \in early: Fit(r) /\ r.s.pending
    <3>1. [s EXCEPT !.pending = TRUE] \in SessionType /\ SameTransfer([s EXCEPT !.pending = TRUE], s)
          /\ [s EXCEPT !.pending = TRUE].pending
      BY <1>1, Flags
    <3> DEFINE t == [s EXCEPT !.pending = TRUE]
    <3> HIDE DEF t
    <3>2. seen(t) \in SessionType /\ SameTransfer(seen(t), t) /\ seen(t).pending = t.pending
      BY <3>1, Flags DEF t
    <3>3. t \in SessionType /\ SameTransfer(t, s) /\ t.pending
      BY <3>1 DEF t
    <3> HIDE DEF seen
    <3>4. SameTransfer(seen(t), Now.s) /\ SameTransfer(seen(t), s)
      BY <1>1, <3>2, <3>3 DEF SameTransfer
    <3>5. /\ Kept(With(Now, seen(t))) /\ With(Now, seen(t)).s = seen(t)
          /\ Room(With(Now, seen(t)), NotifyTime)
      BY <1>1, <3>2, <3>4, KeptWith
    <3>6. \A r \in early: r = With(Now, seen(t))
      BY DEF t
    <3> HIDE DEF early
    <3> QED BY <1>4, <3>2, <3>3, <3>4, <3>5, <3>6 DEF SameTransfer
  <2>4. ASSUME NEW r \in one PROVE Fit(r)
    <3>1. PICK d \in Stream(Now, 1) \cup Stream(Now, 0): r = With(d, seen(d.s))
      OBVIOUS
    <3>2. Kept(d) /\ Room(d, NotifyTime) /\ d.s.active /\ d.s \in SessionType
          /\ d.s.compressed = s.compressed /\ d.s.partial = s.partial
      BY <1>1, <1>4, <3>1, SpareType, StreamFine
    <3>3. seen(d.s) \in SessionType /\ SameTransfer(seen(d.s), d.s)
      BY <3>2, Flags
    <3> HIDE DEF seen
    <3>4. Kept(r) /\ r.s = seen(d.s) /\ Room(r, NotifyTime)
      BY <3>1, <3>2, <3>3, KeptWith
    <3> QED BY <3>2, <3>3, <3>4 DEF SameTransfer
  <2>5. ASSUME NEW r \in drained PROVE Fit(r)
    <3> HIDE DEF one
    <3>0. PICK d \in UNION {Stream(o, 1) \cup Stream(o, 0) : o \in one}:
            r = With(d, [d.s EXCEPT !.pending = FALSE])
      BY <2>5
    <3>1. PICK o \in one: d \in Stream(o, 1) \cup Stream(o, 0)
      BY <3>0
    <3>2. Kept(d) /\ Room(d, NotifyTime) /\ d.s.active /\ d.s \in SessionType
          /\ d.s.compressed = s.compressed /\ d.s.partial = s.partial
      BY <2>4, <3>1, SpareType, StreamFine
    <3> DEFINE t == [d.s EXCEPT !.pending = FALSE]
    <3>3. t \in SessionType /\ SameTransfer(t, d.s)
      BY <3>2, Flags
    <3> HIDE DEF t
    <3>4. Kept(r) /\ r.s = t /\ Room(r, NotifyTime)
      BY <3>0, <3>2, <3>3, KeptWith DEF t
    <3> QED BY <3>2, <3>3, <3>4 DEF SameTransfer
  <2> HIDE DEF early, one, drained
  <2>6. ASSUME NEW r \in early \cup expected, NEW q \in Acked(r) PROVE Fine(q)
    <3>1. Fit(r) /\ (AutoFinish(r.s) => ~r.s.compressed /\ ~r.s.partial)
      BY <2>3, <2>4, <2>5, <2>6 DEF AutoFinish
    <3>2. AutoFinish(r.s) => Due
      BY <1>4, <2>2, <3>1 DEF Due
    <3> QED BY <3>1, <3>2, AckedFine
  <2>7. ASSUME NEW q \in R PROVE Fine(q)
    <3>1. q \in Fatal \/ q \in Reply(Now) \/ \E r \in early \cup expected: q \in Acked(r)
      BY <2>7
    <3> QED BY <1>1, <2>6, <3>1, FatalFine, ReplyFine
  <2> HIDE DEF R
  <2> QED BY <2>1, <2>7, BecomesKeeps
<1>5. s.failed \in BOOLEAN /\ s.active \in BOOLEAN /\ s.pipe \in BOOLEAN
  BY <1>1 DEF SessionType
<1>6. s.failed => UNCHANGED vars
  BY DEF PipeData
<1>7. ~s.failed /\ (~s.active \/ ~s.pipe) => Becomes(Fatal)
  BY DEF PipeData
<1> QED BY <1>2, <1>3, <1>4, <1>6, <1>7

LEMMA EndSteps == IInv /\ End => IInv' /\ RefreshStep
<1> SUFFICES ASSUME IInv, End PROVE IInv' /\ RefreshStep
  OBVIOUS
<1> DEFINE tail(endPipe) == endPipe /\ s.active /\ s.pipe /\ s.seen
           acked(endPipe) == IF tail(endPipe) THEN Told(Now) ELSE Now
           named(endPipe, etag) ==
             IF etag THEN [acked(endPipe) EXCEPT !.s.newEtagValid = TRUE, !.s.newEtag = s.target]
             ELSE acked(endPipe)
           R(endPipe, etag) ==
             (IF tail(endPipe) THEN May(Abort(Untold(Now))) ELSE {})
               \cup (UNION {Reply(a) : a \in Abort(acked(endPipe))})
               \cup IF MayFinish(Now) /\ endPipe = s.pipe THEN Finish(named(endPipe, etag)) ELSE {}
<1>1. PICK endPipe \in BOOLEAN, etag \in BOOLEAN: Becomes(R(endPipe, etag))
  BY DEF End
<1> DEFINE c == acked(endPipe)
           f == named(endPipe, etag)
<1>2. Kept(Now) /\ Room(Now, NotifyTime) /\ Now.s = s /\ s \in SessionType /\ Now \in Results
      /\ Good(Now)
  BY NowKept, KeptType
<1>3. Alike(Told(Now), Now) /\ Alike(Untold(Now), Now)
  BY <1>2, Waits
<1>4. Kept(Told(Now)) /\ Kept(Untold(Now)) /\ Room(Told(Now), NotifyTime) /\ Room(Untold(Now), 0)
  BY <1>2, <1>3, AlikeGood, ToldRoom, SpareType DEF Kept, Alike, Spare
<1>5. Kept(c) /\ Room(c, NotifyTime) /\ c.s = s
  BY <1>2, <1>3, <1>4 DEF Alike
<1>6. ASSUME MayFinish(Now)
      PROVE  /\ Kept(f) /\ Room(f, NotifyTime) /\ f.s.active /\ f.s.written = Parts
             /\ ~f.s.pending /\ Due
  <2>1. s.active /\ s.written = Parts /\ ~s.pending /\ (s.compressed => s.complete)
    BY <1>2, <1>6 DEF MayFinish
  <2>2. Due
    BY <2>1 DEF Due, IInv, Good, Running, Now, Result
  <2>3. CASE ~etag
    BY <1>5, <2>1, <2>2, <2>3
  <2>4. CASE etag
    <3> DEFINE t == [s EXCEPT !.newEtagValid = TRUE, !.newEtag = s.target]
    <3>1. t \in SessionType /\ t.active /\ t.active = s.active /\ t.written = s.written
          /\ t.partial = s.partial /\ t.base = s.base /\ t.target = s.target /\ t.newEtag = t.target
          /\ t.etagValid = s.etagValid /\ t.etag = s.etag /\ t.pending = s.pending
      BY <1>2, <2>1 DEF SessionType
    <3>2. f = [c EXCEPT !.s.newEtagValid = TRUE, !.s.newEtag = s.target]
      BY <2>4
    <3> HIDE DEF c, f
    <3>3. f = With(c, t) /\ c \in Results
      BY <1>5, <3>2 DEF With, Kept, Good, Results
    <3> HIDE DEF t
    <3>4. /\ Good(With(c, t)) /\ With(c, t).s = t /\ Shows(With(c, t), c)
          /\ Room(With(c, t), NotifyTime)
      BY <1>5, <3>1, WithGood DEF Kept
    <3> QED BY <1>5, <2>1, <2>2, <3>1, <3>3, <3>4 DEF Kept, Shows
  <2> QED BY <2>3, <2>4
<1>7. ASSUME NEW q \in R(endPipe, etag) PROVE Fine(q)
  <2>1. \/ q \in Abort(Untold(Now))
        \/ \E a \in Abort(c): q \in Reply(a)
        \/ MayFinish(Now) /\ q \in Finish(f)
    BY <1>7 DEF May
  <2> HIDE DEF c, f
  <2>2. CASE q \in Abort(Untold(Now))
    BY <1>4, <2>2, AbortFine DEF Fine, Kept
  <2>3. ASSUME NEW a \in Abort(c), q \in Reply(a) PROVE Fine(q)
    BY <1>5, <2>3, SpareType, AbortFine, ReplyFine
  <2>4. CASE MayFinish(Now) /\ q \in Finish(f)
    BY <1>6, <2>4, FinishFine
  <2> QED BY <2>1, <2>2, <2>3, <2>4
<1> HIDE DEF R
<1> QED BY <1>1, <1>7, BecomesKeeps

(* However many notifications a config read sends, each checks in. *)
LEMMA ToldTwice ==
  ASSUME NEW r \in Results, r.quiet = 0, r.silence = 0
  PROVE  Told(Told(r)) = Told(r)
<1> DEFINE q == Told(r)
<1>1. Takes(r, NotifyTime) = [r EXCEPT !.quiet = NotifyTime, !.silence = NotifyTime]
  <2>1. r.quiet + NotifyTime = NotifyTime
        /\ (IF NotifyTime > r.silence THEN NotifyTime ELSE r.silence) = NotifyTime
    BY Times
  <2> QED BY <2>1 DEF Takes, Results
<1>2. q = [r EXCEPT !.quiet = 0, !.silence = NotifyTime]
  BY <1>1 DEF Told, Results
<1> HIDE DEF q
<1>3. q \in Results /\ q.quiet = 0 /\ q.silence = NotifyTime
  BY <1>2, Times DEF Results
<1>4. Takes(q, NotifyTime) = [q EXCEPT !.quiet = NotifyTime, !.silence = NotifyTime]
  <2>1. q.quiet + NotifyTime = NotifyTime
        /\ (IF NotifyTime > q.silence THEN NotifyTime ELSE q.silence) = NotifyTime
    BY <1>3, Times
  <2> QED BY <1>3, <2>1 DEF Takes, Results
<1>5. Told(q) = [q EXCEPT !.quiet = 0, !.silence = NotifyTime]
  BY <1>3, <1>4 DEF Told, Results
<1>6. Told(q) = q
  BY <1>3, <1>5 DEF Results
<1> QED BY <1>6 DEF q

LEMMA ReadConfigSteps == IInv /\ ReadConfig => IInv' /\ RefreshStep
<1> SUFFICES ASSUME IInv, ReadConfig PROVE IInv' /\ RefreshStep
  OBVIOUS
<1> DEFINE P(f) == f = [k \in 0..Chunks |-> IF k = 0 THEN Now ELSE Told(f[k - 1])]
           told == CHOOSE f: P(f)
<1>1. \E k \in 0..Chunks - 1: Becomes({told[k + 1]} \cup May({Untold(told[k])}))
  BY DEF ReadConfig
<1>2. Chunks \in Nat
  BY SessionAssumption DEF SessionAssumption
<1>3. Kept(Now) /\ Room(Now, NotifyTime) /\ Now \in Results /\ Now.quiet = 0 /\ Now.silence = 0
  BY NowKept DEF Now, Result
<1>4. P(told)
  <2> DEFINE g == [k \in 0..Chunks |-> IF k = 0 THEN Now ELSE Told(Now)]
  <2>1. Told(Told(Now)) = Told(Now)
    BY <1>3, ToldTwice
  <2>2. \A k \in 0..Chunks: g[k] = IF k = 0 THEN Now ELSE Told(g[k - 1])
    BY <1>2, <2>1
  <2>3. P(g)
    BY <2>2
  <2> HIDE DEF P, g
  <2> QED BY <2>3
<1> HIDE DEF told
<1>5. told[0] = Now /\ \A k \in 1..Chunks: told[k] = Told(told[k - 1])
  BY <1>2, <1>4
<1> DEFINE Well(r) == Kept(r) /\ Room(r, NotifyTime)
           S == {k \in Nat : k <= Chunks => Well(told[k])}
<1>6. \A r: Well(r) => /\ Well(Told(r)) /\ Fine(Told(r)) /\ Fine(Untold(r))
  <2> SUFFICES ASSUME NEW r, Well(r) PROVE Well(Told(r)) /\ Fine(Told(r)) /\ Fine(Untold(r))
    OBVIOUS
  <2>1. r \in Results /\ Good(r)
    BY KeptType
  <2>2. Alike(Told(r), r) /\ Alike(Untold(r), r)
    BY <2>1, Waits
  <2>3. Kept(Told(r)) /\ Kept(Untold(r))
    BY <2>1, <2>2, AlikeGood DEF Kept, Alike
  <2>4. Room(Told(r), NotifyTime) /\ Room(Told(r), 0) /\ Room(Untold(r), 0)
    BY <2>1, <2>2, ToldRoom, SpareType DEF Spare, Alike
  <2> QED BY <2>3, <2>4 DEF Fine, Kept
<1>7. 0 \in S
  BY <1>3, <1>5
<1>8. ASSUME NEW k \in Nat, k \in S PROVE k + 1 \in S
  <2> SUFFICES ASSUME k + 1 <= Chunks PROVE Well(told[k + 1])
    OBVIOUS
  <2>1. Well(told[k]) /\ k + 1 \in 1..Chunks /\ (k + 1) - 1 = k
    BY <1>2, <1>8
  <2>2. told[k + 1] = Told(told[k])
    BY <1>5, <2>1
  <2> HIDE DEF Well
  <2> QED BY <1>6, <2>1, <2>2
<1> HIDE DEF S
<1>9. Nat \subseteq S
  BY <1>7, <1>8, NatInductionSet
<1>10. PICK k \in 0..Chunks - 1: Becomes({told[k + 1]} \cup May({Untold(told[k])}))
  BY <1>1 DEF told
<1>11. k \in Nat /\ k <= Chunks /\ k + 1 \in 1..Chunks /\ (k + 1) - 1 = k
  BY <1>2
<1>12. Well(told[k]) /\ told[k + 1] = Told(told[k])
  BY <1>5, <1>9, <1>11 DEF S
<1> HIDE DEF Well
<1> DEFINE R == {told[k + 1]} \cup May({Untold(told[k])})
<1>13. \A q \in R: Fine(q)
  BY <1>6, <1>12 DEF May
<1> HIDE DEF R
<1> QED BY <1>10, <1>13, BecomesKeeps DEF R

LEMMA AnswerSteps == IInv /\ Answer => IInv' /\ RefreshStep
<1> SUFFICES ASSUME IInv, Answer PROVE IInv' /\ RefreshStep
  OBVIOUS
<1> DEFINE R == Reply(Now) \cup May({Untold(Now)})
<1>1. Kept(Now) /\ Room(Now, NotifyTime) /\ Now \in Results /\ Good(Now)
  BY NowKept, KeptType
<1>2. Alike(Untold(Now), Now) /\ Room(Untold(Now), 0)
  BY <1>1, Waits, ToldRoom
<1>3. Kept(Untold(Now))
  BY <1>1, <1>2, AlikeGood DEF Kept, Alike
<1>4. ASSUME NEW q \in R PROVE Fine(q)
  <2>1. CASE q \in Reply(Now)
    BY <1>1, <2>1, ReplyFine
  <2>2. CASE q = Untold(Now)
    BY <1>2, <1>3, <2>2 DEF Fine, Kept
  <2> QED BY <2>1, <2>2 DEF May
<1>5. Becomes(R)
  BY DEF Answer
<1> HIDE DEF R
<1> QED BY <1>4, <1>5, BecomesKeeps

LEMMA CancelledSteps == IInv /\ Cancelled => IInv' /\ RefreshStep
<1> SUFFICES ASSUME IInv, Cancelled PROVE IInv' /\ RefreshStep
  OBVIOUS
<1> DEFINE R == Abort(Now) \cup UNION {Reply(a) : a \in Abort(Now)}
<1>1. Kept(Now) /\ Room(Now, NotifyTime)
  BY NowKept
<1>2. \A a \in Abort(Now): Kept(a) /\ Room(a, NotifyTime) /\ Fine(a)
  <2> TAKE a \in Abort(Now)
  <2>1. Kept(a) /\ Room(a, NotifyTime)
    BY <1>1, SpareType, AbortFine
  <2>2. a.quiet \in Nat /\ Owing(a) \in Nat
    BY <2>1, KeptType, Times DEF Results, Owing
  <2>3. Room(a, 0)
    BY <2>1, <2>2, Times DEF Room
  <2> QED BY <2>1, <2>3 DEF Fine, Kept
<1>3. ASSUME NEW q \in R PROVE Fine(q)
  <2>1. q \in Abort(Now) \/ \E a \in Abort(Now): q \in Reply(a)
    OBVIOUS
  <2> QED BY <1>2, <2>1, ReplyFine
<1>4. Becomes(R)
  BY DEF Cancelled
<1> HIDE DEF R
<1> QED BY <1>3, <1>4, BecomesKeeps

LEMMA EmptyType == Empty \in SessionType /\ ~Empty.active /\ ~Empty.etagValid
BY HalfType DEF Empty, SessionType, Tags

LEMMA ResetType == PanelReset \in PanelType /\ ~PanelReset.asleep /\ PanelReset.power = "stuck"
BY HalfType DEF PanelReset, PanelType, Planes, Filled

LEMMA RestartSteps == IInv /\ Restart => IInv' /\ RefreshStep
<1> SUFFICES ASSUME IInv, Restart PROVE IInv' /\ RefreshStep
  OBVIOUS
<1> DEFINE o == [Now EXCEPT !.panel = PanelReset]
<1>1. PICK r \in EpdOff(o): panel' = r.panel /\ silence' = r.silence
  BY DEF Restart
<1>2. Now \in Results /\ Now.quiet = 0 /\ Now.silence = 0 /\ Now.glass = glass
  BY NowKept DEF Now, Result
<1>3. o \in Results /\ o.quiet = 0 /\ o.silence = 0 /\ Asleep(o) /\ o.panel = PanelReset
  BY <1>2, ResetType DEF Results, Asleep
<1> HIDE DEF o
<1>4. r \in Results /\ Asleep(r) /\ r.panel.power # "on"
  BY <1>1, <1>3, OffKeeps
<1>5. r.silence \in Nat /\ r.silence <= Limit
  <2> DEFINE w == Ready(o)
  <2>1. w \in Results /\ w.silence = IF 0 + ReadyTime > 0 THEN 0 + ReadyTime ELSE 0
    <3>1. /\ Alike(Takes(o, ReadyTime), o)
          /\ Takes(o, ReadyTime).silence
               = IF o.quiet + ReadyTime > o.silence THEN o.quiet + ReadyTime ELSE o.silence
      BY <1>3, Times, TakesTime
    <3> QED BY <1>3, <3>1 DEF Ready, Alike
  <2>2. r \in {[w EXCEPT !.panel.asleep = TRUE, !.panel.power = "asleep"],
               [w EXCEPT !.panel.power = "stuck"]}
    BY <1>1, <1>3, ResetType DEF EpdOff, May
  <2> HIDE DEF w
  <2>3. r.silence = w.silence
    BY <2>1, <2>2 DEF Results
  <2> QED BY <2>1, <2>3, Times DEF Limit
<1>6. s' = Empty /\ glass' \in {glass, Unknown} /\ refreshes' = refreshes
  BY DEF Restart
<1>7. glass \in Glasses /\ glass # Garbage /\ refreshes \in 0..1
  BY DEF IInv, Good, Tagged, Results, Now, Result
<1>8. panel' \in PanelType /\ glass' \in Glasses /\ glass' # Garbage
  BY <1>1, <1>4, <1>6, <1>7, GlassTypes DEF Results
<1>9. Good(Now)'
  <2>1. Now' \in Results
    BY <1>6, <1>7, <1>8, EmptyType DEF Now, Result, Results
  <2>2. Asleep(Now)' /\ Powered(Now)' /\ Tagged(Now)' /\ Running(Now)'
    BY <1>1, <1>4, <1>6, <1>8, EmptyType DEF Now, Result, Asleep, Powered, Tagged, Running
  <2>3. (Now \in Results)'
    BY <2>1 DEF Results, SessionType, PanelType, Planes, Glasses, Tags, Half
  <2> QED BY <2>2, <2>3 DEF Good
<1>10. IInv'
  BY <1>1, <1>5, <1>9 DEF IInv, Limit
<1>11. ~(refreshes' > refreshes)
  BY <1>6, <1>7
<1> QED BY <1>6, <1>10, <1>11 DEF RefreshStep

LEMMA InitHolds == Init => IInv
<1> SUFFICES ASSUME Init PROVE IInv
  OBVIOUS
<1> DEFINE o == [panel |-> PanelReset, quiet |-> 0, silence |-> 0]
           w == Ready(o)
<1>1. PICK r \in EpdOff(o): panel = r.panel /\ silence = r.silence
  BY DEF Init
<1>2. w = [panel |-> PanelReset, quiet |-> ReadyTime, silence |-> ReadyTime]
  <2>1. 0 + ReadyTime = ReadyTime /\ (IF ReadyTime > 0 THEN ReadyTime ELSE 0) = ReadyTime
    BY Times
  <2>2. o.quiet = 0 /\ o.silence = 0 /\ o.panel = PanelReset
    OBVIOUS
  <2>3. w = [o EXCEPT !.quiet = ReadyTime, !.silence = ReadyTime]
    <3> HIDE DEF o
    <3> QED BY <2>1, <2>2 DEF Ready, Takes
  <2> QED BY <2>3
<1>3. r \in {[w EXCEPT !.panel.asleep = TRUE, !.panel.power = "asleep"],
             [w EXCEPT !.panel.power = "stuck"]}
  BY <1>1, ResetType DEF EpdOff, May
<1> HIDE DEF w
<1> DEFINE p == [PanelReset EXCEPT !.asleep = TRUE, !.power = "asleep"]
           p2 == [PanelReset EXCEPT !.power = "stuck"]
<1>4. r.silence = ReadyTime /\ r.panel \in {p, p2}
  BY <1>2, <1>3
<1>5. /\ p \in PanelType /\ p.asleep /\ p.power = "asleep"
      /\ p2 \in PanelType /\ ~p2.asleep /\ p2.power = "stuck"
  BY ResetType DEF PanelType
<1> HIDE DEF p, p2
<1>6. panel \in PanelType /\ (panel.asleep <=> panel.power = "asleep") /\ panel.power # "on"
  BY <1>1, <1>4, <1>5
<1>7. s = Empty /\ glass = Unknown /\ refreshes = 0
  BY DEF Init
<1>8. Now \in Results
  BY <1>6, <1>7, EmptyType, GlassTypes DEF Now, Result, Results
<1>9. Good(Now)
  BY <1>6, <1>7, <1>8, EmptyType, GlassTypes DEF Now, Result, Good, Asleep, Powered, Tagged, Running
<1>10. silence \in Nat /\ silence <= Limit
  BY <1>1, <1>4, Times DEF Limit
<1> QED BY <1>9, <1>10 DEF IInv

LEMMA StepHolds == IInv /\ [Next]_vars => IInv' /\ [RefreshStep]_vars
<1> SUFFICES ASSUME IInv, [Next]_vars PROVE IInv' /\ [RefreshStep]_vars
  OBVIOUS
<1>1. CASE UNCHANGED vars
  <2>1. IInv'
    BY <1>1 DEF vars, IInv, Good, Now, Result, Asleep, Powered, Tagged, Running, Limit
  <2> QED BY <1>1, <2>1
<1>2. CASE Next
  BY <1>2, DirectStartSteps, PartialStartSteps, PipeStartSteps, DirectDataSteps, PipeDataSteps,
     EndSteps, ReadConfigSteps, AnswerSteps, CancelledSteps, RestartSteps DEF Next
<1> QED BY <1>1, <1>2

-----------------------------------------------------------------------------
(***************************************************************************)
(* Theorems.                                                               *)
(***************************************************************************)
(* Whatever commands come, in whatever order, and whatever of the panel and
   of the answers fails, the session, the panel and the glass agree. *)
THEOREM SessionInvariant == Spec => []IInv
<1>1. IInv /\ [Next]_vars => IInv'
  BY StepHolds
<1> QED BY InitHolds, <1>1, PTL DEF Spec

(* Types, for every number of parts and every set of images. *)
THEOREM SessionTypes == Spec => []TypeOK
<1>1. IInv => TypeOK
  <2> SUFFICES ASSUME IInv PROVE TypeOK
    OBVIOUS
  <2>1. s \in SessionType /\ panel \in PanelType /\ glass \in Glasses /\ refreshes \in 0..1
    BY DEF IInv, Good, Results, Now, Result
  <2> QED BY <2>1 DEF TypeOK, SessionType, PanelType, Glasses, Tags, Half
<1> QED BY <1>1, SessionInvariant, PTL

(* The ETag the device keeps names the image the panel shows (protocol.c:68-98). *)
THEOREM EtagIsOfImage == Spec => []EtagTruth
<1>1. IInv => EtagTruth
  BY DEF IInv, Good, Tagged, Now, Result, EtagTruth
<1> QED BY <1>1, SessionInvariant, PTL

(* The high voltage is on during a transfer and never otherwise (epd.c:129-145). *)
THEOREM PanelIsOff == Spec => []PanelOff
<1>1. IInv => PanelOff
  BY DEF IInv, Good, Asleep, Powered, Now, Result, PanelOff
<1> QED BY <1>1, SessionInvariant, PTL

(* No command keeps the task from checking in for as long as the sanity check
   allows: it waits three times for the panel and once for a notification at
   most (main.c:79-82, epd.c:48-59). *)
THEOREM ChecksIn == Spec => []SanityKept
<1>1. IInv => SanityKept
  BY Times, SessionAssumption DEF SessionAssumption, IInv, Limit, SanityKept
<1> QED BY <1>1, SessionInvariant, PTL

(* The panel is refreshed only with all of one image, once per START
   (protocol.c:68-98). *)
THEOREM RefreshedWhole == Spec => RefreshWhole
<1>1. IInv /\ [Next]_vars => [RefreshStep]_vars
  BY StepHolds
<1>2. Spec => [][RefreshStep]_vars
  BY <1>1, SessionInvariant, PTL DEF Spec
<1> QED BY <1>2 DEF RefreshWhole, RefreshStep
=============================================================================

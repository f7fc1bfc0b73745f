------------------------------ MODULE Session ------------------------------
(***************************************************************************)
(* The image session of apps/opendisplay/src/protocol.c with the panel     *)
(* driver of epd.c, see Panel, below it: direct (0x70-0x72), partial       *)
(* (0x76) and PIPE (0x80-0x82) transfers, what ends them, the ETag that    *)
(* says which image the panel shows, the panel's power, and the time a     *)
(* command takes.  The display task executes one command at a time, so a   *)
(* command is one action, whatever the client sends and in whatever order; *)
(* PipeWindow has the numbering of PIPE frames that is left out here.      *)
(*                                                                         *)
(* An image is a value and is its own ETag.  A full transfer carries its   *)
(* target; a partial one the difference between its base, the image the    *)
(* old ETag names, and its target.  Its data are Parts equal parts.        *)
(***************************************************************************)
EXTENDS Panel, FiniteSets

CONSTANTS Image,      \* images, each its own ETag
          Nothing,    \* no image: an ETag field that is not in use
          Unknown,    \* a panel whose refresh was broken off
          Garbage,    \* a refresh with anything but an image in the panel's RAM
          NotifyTime, \* 6 s, for the 100 attempts of a notification
          PollTime,   \* 60 s, the longest wait for a command
          SanityTime, \* 120 s, in which a task must check in
          Chunks      \* notifications of the longest config read

ASSUME SessionAssumption ==
  /\ Image # {} /\ {NotifyTime, PollTime, SanityTime, Chunks} \subseteq Nat
  /\ Cardinality({Nothing, Unknown, Garbage}) = 3
  /\ {Nothing, Unknown, Garbage} \cap Image = {}
  /\ 3 * ReadyTime + NotifyTime < SanityTime \* a START that stops a transfer and fails

VARIABLES
  s,         \* struct od_session, with base and target of the transfer
  panel,     \* see Panel; power is "stuck" after a power-off that failed
  glass,     \* what the panel shows; it keeps it without power
  refreshes, \* history: refreshes since the last START
  silence    \* history: the longest time without a check-in in the last command

vars == <<s, panel, glass, refreshes, silence>>

Empty == [active |-> FALSE, pipe |-> FALSE, compressed |-> FALSE, partial |-> FALSE,
          failed |-> FALSE, seen |-> FALSE, pending |-> FALSE, written |-> 0, complete |-> FALSE,
          etagValid |-> FALSE, etag |-> Nothing, newEtagValid |-> FALSE, newEtag |-> Nothing,
          base |-> Nothing, target |-> Nothing]

(***************************************************************************)
(* A function of the C code is the set of its possible results; a result   *)
(* is the session, the panel, what it shows and, for the sanity check, the *)
(* time the task has been quiet and the longest time it was.  run_events   *)
(* checks in just before it runs a command.                                *)
(***************************************************************************)
Result(quiet) == [s |-> s, panel |-> panel, glass |-> glass, refreshes |-> refreshes,
                  quiet |-> quiet, silence |-> quiet]
(* mutant of Now: no check-in between the wait for a command and the command *)
NowAfterWait == Result(PollTime)
Now == Result(0)
With(r, t) == [r EXCEPT !.s = t]

(* send_response: told and checked in, or not told *)
Told(r) == [Takes(r, NotifyTime) EXCEPT !.quiet = 0]
Untold(r) == Takes(r, NotifyTime)

(* od_abort *)
Abort(r) ==
  LET t == [r.s EXCEPT !.active = FALSE, !.written = 0, !.pending = FALSE]
  IN  IF r.s.active THEN EpdOff(With(r, [t EXCEPT !.etagValid = FALSE])) ELSE {With(r, t)}

(* The reply of od_command: a client that cannot be told loses the transfer. *)
Reply(r) == {Told(r)} \cup May(Abort(Untold(r)))

(* mutant of Started: the ETag of an earlier transfer is not forgotten *)
StartedKeepsEtag(t, compressed, partial, base, target) ==
  [t EXCEPT !.compressed = compressed, !.partial = partial, !.failed = FALSE,
            !.complete = FALSE, !.base = base, !.target = target]
Started(t, compressed, partial, base, target) ==
  [t EXCEPT !.compressed = compressed, !.partial = partial, !.failed = FALSE,
            !.newEtagValid = FALSE, !.complete = FALSE, !.base = base, !.target = target]

(* mutant of BeginFails: no epd_off when the panel does not start *)
BeginLeavesPower(r, partial) == {EpdNotBegun(r, partial)}
BeginFails(r, partial) == EpdOff(EpdNotBegun(r, partial))

(* begin, after the od_abort of its callers *)
Begin(r, compressed, partial, base, target) ==
  LET b == [r EXCEPT !.s = Started(@, compressed, partial, base, target), !.refreshes = 0]
  IN  {[EpdBegun(b, partial) EXCEPT !.s.active = TRUE]} \cup May(BeginFails(b, partial))

(* stream: n more parts; a compressed stream may yield nothing yet, and is
   complete some time after its last output.  The other outcome of stream is
   an error, which is left to the callers: what it left in the panel's RAM is
   overwritten after the next START. *)
Stream(r, n) ==
  LET now == r.s.written + n
  IN  IF now > Parts \/ r.s.complete THEN {}
      ELSE {[r EXCEPT !.s.written = now, !.s.complete = done, !.panel = EpdWrite(@, n)] :
              done \in {d \in BOOLEAN : d => r.s.compressed /\ now = Parts}}

(* finish, once its first reply is out: epd_refresh, then the new ETag. *)
Refreshed(r) ==
  LET t == [r.s EXCEPT !.active = FALSE, !.written = 0, !.etagValid = FALSE]
      drawn == Whole(r.panel) /\ (r.panel.waveform = "full" \/ r.glass = t.base)
      renewed == IF t.newEtagValid THEN [t EXCEPT !.etagValid = TRUE, !.etag = t.newEtag] ELSE t
      q == [Ready(r) EXCEPT !.refreshes = @ + 1]
  IN  {[q EXCEPT !.s = renewed, !.glass = IF drawn THEN t.target ELSE Garbage]}
        \cup May({[q EXCEPT !.s = t, !.glass = Unknown]})

Finish(r) == (UNION {{Told(d)} \cup May({Untold(d)}) :
                       d \in UNION {EpdOff(q) : q \in Refreshed(Told(r))}})
             \cup May(Abort(Untold(r)))

-----------------------------------------------------------------------------
(***************************************************************************)
(* Commands.                                                               *)
(***************************************************************************)
Becomes(results) == \E r \in results: /\ s' = r.s /\ panel' = r.panel /\ glass' = r.glass
                                      /\ refreshes' = r.refreshes /\ silence' = r.silence

(* The first data a START may carry, and its reply. *)
First(r) == IF ~r.s.active THEN Reply(r)
            ELSE (UNION {Reply(d) : d \in Stream(r, 0) \cup Stream(r, 1)})
                   \cup UNION {Reply(a) : a \in Abort(r)}

DirectStart ==
  \E a \in Abort(Now), target \in Image, compressed \in BOOLEAN:
    LET r == With(a, [a.s EXCEPT !.pipe = FALSE, !.failed = FALSE])
    IN  Becomes(Reply(r) \* a bad length or size
                \cup UNION {First(b) : b \in Begin(r, compressed, FALSE, Nothing, target)})

(* geometry: the old ETag must be the one of the image shown. *)
Geometry(t, base) == t.etagValid /\ t.etag = base
BadGeometry(r) == With(r, [r.s EXCEPT !.etagValid = FALSE])

PartialStart ==
  \E a \in Abort(Now), base, target \in Image, compressed \in BOOLEAN:
    LET r == With(a, [a.s EXCEPT !.pipe = FALSE])
        named(b) == With(b, [b.s EXCEPT !.newEtagValid = TRUE, !.newEtag = target])
    IN  Becomes(Reply(r) \* a bad length or flag
                \cup Reply(BadGeometry(r)) \* the ETag or the rectangle is refused
                \cup UNION {First(IF b.s.active THEN named(b) ELSE b) :
                              b \in IF Geometry(r.s, base)
                                    THEN Begin(r, compressed, TRUE, base, target) ELSE {}})

PipeStart ==
  \E a \in Abort(Now), base, target \in Image, compressed, partial \in BOOLEAN:
    LET r == With(a, [a.s EXCEPT !.pipe = TRUE, !.failed = FALSE, !.seen = FALSE])
        refused(b) == With(b, [b.s EXCEPT !.failed = TRUE])
    IN  Becomes(Reply(refused(r)) \cup Reply(refused(BadGeometry(r)))
                \cup UNION {Reply(IF b.s.active THEN b ELSE refused(b)) :
                              b \in IF partial => Geometry(r.s, base)
                                    THEN Begin(r, compressed, partial, IF partial THEN base ELSE Nothing,
                                               target)
                                    ELSE {}})

(* 0x71 *)
DirectData ==
  IF ~s.active \/ s.pipe THEN Becomes(Reply(Now))
  ELSE \E n \in 0..Parts:
         Becomes((UNION {Reply(d) : d \in Stream(Now, n)})
                 \cup UNION {Reply(a) : a \in Abort(Now)}) \* too long, or stream refuses

(* pipe_data: a fatal answer, a repetition, an early frame put aside, or the
   expected frame, which may release the one put aside. *)
Fatal == {With(a, [a.s EXCEPT !.failed = TRUE]) :
            a \in Abort(Told(Now)) \cup May(Abort(Untold(Now)))}

AutoFinish(t) == ~t.compressed /\ ~t.partial /\ t.written = Parts /\ ~t.pending

Acked(r) == (IF AutoFinish(r.s) THEN Finish(Told(r))
             ELSE {Told(r)} \cup IF r.s.written = Parts THEN {} ELSE {r})
            \cup May(Abort(Untold(r)))

PipeData ==
  IF s.failed THEN UNCHANGED vars
  ELSE IF ~s.active \/ ~s.pipe THEN Becomes(Fatal)
  ELSE LET seen(t) == [t EXCEPT !.seen = TRUE]
           early == IF s.pending THEN {} ELSE {With(Now, seen([s EXCEPT !.pending = TRUE]))}
           repeated == IF s.seen THEN Reply(Now) ELSE {}
           one == {With(d, seen(d.s)) : d \in Stream(Now, 1) \cup Stream(Now, 0)}
           drained == {With(d, [d.s EXCEPT !.pending = FALSE]) :
                         d \in UNION {Stream(o, 1) \cup Stream(o, 0) : o \in one}}
           expected == IF s.pending THEN drained ELSE one
       IN  Becomes(Fatal \cup repeated \cup UNION {Acked(r) : r \in early \cup expected})

(* 0x72 and 0x82, without an ETag or with that of the target. *)
MayFinishByCount(r) == r.s.active /\ r.s.written = Parts \* mutant of MayFinish
MayFinish(r) == /\ r.s.active /\ r.s.written = Parts /\ ~r.s.pending
                /\ r.s.compressed => r.s.complete

End ==
  \E endPipe, etag \in BOOLEAN:
    LET tail == endPipe /\ s.active /\ s.pipe /\ s.seen
        acked == IF tail THEN Told(Now) ELSE Now
        named == IF etag THEN [acked EXCEPT !.s.newEtagValid = TRUE, !.s.newEtag = s.target] ELSE acked
    IN  Becomes((IF tail THEN May(Abort(Untold(Now))) ELSE {})
                \cup (UNION {Reply(a) : a \in Abort(acked)}) \* a bad length or mode, or too early
                \cup IF MayFinish(Now) /\ endPipe = s.pipe THEN Finish(named) ELSE {})

(* 0x40: a notification for each chunk,
   until one fails *)
ReadConfig ==
  LET told[k \in 0..Chunks] == IF k = 0 THEN Now ELSE Told(told[k - 1])
  IN  \E k \in 0..Chunks - 1: Becomes({told[k + 1]} \cup May({Untold(told[k])}))

(* 0x43, 0x44, 0x51-0x53, 0x73, 0x75, 0x77, 0x83 and what is unknown or
   malformed: an answer, and the transfer lost if od_command cannot give it;
   od_secure_command, which refuses before, leaves the transfer. *)
Answer == Becomes(Reply(Now) \cup May({Untold(Now)}))

(* Everything that ends a transfer from outside: a config update (0x41, 0x45),
   a command of an earlier generation, one that fails authentication,
   od_expire_transfer, the abort events of main.c. *)
Cancelled == Becomes(Abort(Now) \cup UNION {Reply(a) : a \in Abort(Now)})

(* 0x0f, a watchdog reset or power loss, in the middle of a refresh too; then
   display_main resets the panel and puts it to sleep. *)
Restart ==
  /\ s' = Empty
  /\ glass' \in {glass} \cup IF MayFinish(Now) THEN {Unknown} ELSE {}
  /\ \E r \in EpdOff([Now EXCEPT !.panel = PanelReset]): panel' = r.panel /\ silence' = r.silence
  /\ UNCHANGED refreshes

Init == /\ s = Empty /\ glass = Unknown /\ refreshes = 0
        /\ \E r \in EpdOff([panel |-> PanelReset, quiet |-> 0, silence |-> 0]):
             panel = r.panel /\ silence = r.silence

Next == DirectStart \/ PartialStart \/ PipeStart \/ DirectData \/ PipeData \/ End
        \/ ReadConfig \/ Answer \/ Cancelled \/ Restart

Spec == Init /\ [][Next]_vars
-----------------------------------------------------------------------------
TypeOK ==
  /\ s.active \in BOOLEAN /\ s.pipe \in BOOLEAN /\ s.failed \in BOOLEAN /\ s.seen \in BOOLEAN
  /\ s.compressed \in BOOLEAN /\ s.partial \in BOOLEAN /\ s.complete \in BOOLEAN
  /\ s.pending \in BOOLEAN /\ s.written \in 0..Parts
  /\ s.etagValid \in BOOLEAN /\ s.newEtagValid \in BOOLEAN
  /\ {s.etag, s.newEtag, s.base, s.target} \subseteq Image \cup {Nothing}
  /\ panel.power \in {"asleep", "on", "stuck"} /\ panel.asleep \in BOOLEAN
  /\ panel.size \in {0, Parts \div 2} /\ panel.offset \in 0..Parts
  /\ glass \in Image \cup {Unknown, Garbage}
  /\ refreshes \in 0..1

(* The ETag the device keeps names the image the panel shows, so a partial
   update is only ever drawn over the image it was computed from, whatever was
   aborted, refused, timed out or restarted before (protocol.c:14-22, 68-98). *)
EtagTruth == /\ s.etagValid => glass = s.etag
             /\ glass # Garbage

(* The panel's high voltage is on only during a transfer, whichever command,
   failure or refusal ended it; a power-off that timed out is the one
   exception, and then the driver knows that the panel is not asleep
   (epd.c:23, 129-145, protocol.c:14-22, 61-64). *)
PanelOff == /\ s.active <=> panel.power = "on"
            /\ panel.asleep <=> panel.power = "asleep"

(* No command keeps the display task from checking in for the 120 seconds
   after which the sanity check resets the tag, though every wait for the
   panel takes its 30 seconds, every notification all of its attempts, and
   the code that gives up waits again (main.c:79-82, 171-183, epd.c:48-59). *)
SanityKept == silence < SanityTime

(* The panel is refreshed only when all parts of one transfer have arrived,
   its stream is complete and nothing of it is still put aside, and once per
   START; nothing else changes the image (docs/protocol-coverage.md:42, 43).
   Only the last DATA of a raw PIPE frame may be the one that completes it. *)
RefreshWhole ==
  [][/\ refreshes' > refreshes =>
          /\ s.active /\ refreshes = 0 /\ ~s'.pending
          /\ s.written = Parts \/ (s.pipe /\ ~s.compressed /\ ~s.partial)
          /\ s.compressed => s.complete
     /\ glass' # glass => refreshes' > refreshes \/ s' = Empty]_vars
=============================================================================

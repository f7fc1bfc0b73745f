------------------------------- MODULE Panel -------------------------------
(***************************************************************************)
(* The panel and its driver, apps/opendisplay/src/epd.c, as functions on   *)
(* what they change: the driver's variables, the controller's two RAM      *)
(* planes and the supply.  A full image is sent to the "new" plane; the    *)
(* data of a partial one fill its window in the "old" plane, then in the   *)
(* "new" one, and are inverted by epd_write.  Data are counted in parts.   *)
(*                                                                         *)
(* A function returns the set of what it may lead to, for every wait for   *)
(* BUSY may time out; it also says how long the display task was busy.     *)
(***************************************************************************)
EXTENDS Integers

CONSTANTS Parts,     \* of the data of a transfer, half of them for each plane of a window
          Faults,    \* whether the panel, the decompressor and sends may fail
          ReadyTime  \* 30 s, the longest wait for BUSY

ASSUME PanelAssumption == /\ Parts \in Nat \ {0} /\ Parts % 2 = 0
                          /\ Faults \in BOOLEAN /\ ReadyTime \in Nat \ {0}

May(outcomes) == IF Faults THEN outcomes ELSE {}

Filled(bits, parts) == [bits |-> bits, parts |-> parts]

(* After epd_gpio_init and the pulse on RESET. *)
PanelReset == [asleep |-> FALSE, power |-> "stuck", size |-> 0, offset |-> 0, waveform |-> "full",
               plane |-> "new", old |-> Filled("white", 0), new |-> Filled("white", 0)]

(* epd_begin; what follows its wait for BUSY matters only if that succeeds. *)
FullPanel(p) ==
  [p EXCEPT !.size = 0, !.offset = 0, !.asleep = FALSE, !.power = "on", !.waveform = "full",
            !.old = Filled("white", Parts), !.plane = "new", !.new = Filled("white", 0)]

(* epd_begin_partial *)
WindowPanel(p) ==
  [p EXCEPT !.size = Parts \div 2, !.offset = 0, !.asleep = FALSE, !.power = "on",
            !.waveform = "partial", !.plane = "old", !.old = Filled("white", 0)]
WindowTimedOut(p) == [p EXCEPT !.asleep = FALSE, !.power = "on"]

(* epd_write, for one part and for n *)
WritePart(p) ==
  LET next == p.size # 0 /\ p.offset = p.size
      at == IF next THEN "new" ELSE p.plane
      before == IF next THEN 0 ELSE p[at].parts
  IN  [p EXCEPT !.plane = at, !.offset = @ + 1,
                ![at] = Filled(IF p.size # 0 THEN "inverted" ELSE "sent", before + 1)]

EpdWrite(p, n) ==
  LET after[k \in 0..n] == IF k = 0 THEN p ELSE WritePart(after[k - 1]) IN after[n]

(* Whether the planes hold what the waveform in use makes an image of. *)
Whole(p) == IF p.waveform = "full"
            THEN p.old = Filled("white", Parts) /\ p.new = Filled("sent", Parts)
            ELSE p.old = Filled("inverted", Parts \div 2) /\ p.new = p.old

-----------------------------------------------------------------------------
(***************************************************************************)
(* The functions that wait, on a result r: a record with the panel, how    *)
(* long the task has been quiet and the longest time it was.               *)
(***************************************************************************)
Takes(r, time) ==
  LET quiet == r.quiet + time
  IN  [r EXCEPT !.quiet = quiet, !.silence = IF quiet > @ THEN quiet ELSE @]

Ready(r) == Takes(r, ReadyTime)

EpdBegun(r, partial) ==
  [Ready(r) EXCEPT !.panel = IF partial THEN WindowPanel(@) ELSE FullPanel(@)]
EpdNotBegun(r, partial) ==
  [Ready(r) EXCEPT !.panel = IF partial THEN WindowTimedOut(@) ELSE FullPanel(@)]

EpdOff(r) ==
  IF r.panel.asleep THEN {r}
  ELSE {[Ready(r) EXCEPT !.panel.asleep = TRUE, !.panel.power = "asleep"]}
         \cup May({[Ready(r) EXCEPT !.panel.power = "stuck"]})
=============================================================================

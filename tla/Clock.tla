------------------------------- MODULE Clock -------------------------------
(***************************************************************************)
(* The calibration of the RC oscillator in hw/bsp/lt213a/src/hal_bsp.c.    *)
(* Every two seconds the POWER_CLOCK interrupt asks for the crystal,       *)
(* waits for it by way of another interrupt, calibrates and lets go of it. *)
(* The radio uses the same crystal, under one reference count.             *)
(*                                                                         *)
(* The interrupt has the lowest priority: the hardware and the requests of *)
(* the radio, which come from its own interrupts, fall between any two of  *)
(* its register accesses.  The radio releases the crystal in the link      *)
(* layer's task, so not while the interrupt is being served; that, the     *)
(* reference count and the hardware are external.                          *)
(***************************************************************************)
EXTENDS Integers

VARIABLES
  crystal,  \* HFCLKSTAT: "off", "starting" or "on"
  count,    \* requests for the crystal
  radio,    \* whether the radio holds one
  started, done, ctto, \* EVENTS_HFCLKSTARTED, EVENTS_DONE, EVENTS_CTTO
  armed,    \* INTEN: HFCLKSTARTED raises the interrupt, as DONE and CTTO always do
  pending,  \* the interrupt is pending
  waiting,  \* calibration_waiting
  calibrating, timer, \* what CAL and CTSTART have set going
  pc        \* the next access of calibration_irq; "none" when it is not served

hardware == <<crystal, count, radio, calibrating, timer>>
events == <<started, done, ctto>>
vars == <<hardware, events, armed, pending, waiting, pc>>

Goto(l) == pc' = l

(***************************************************************************)
(* The crystal's reference count.                                          *)
(***************************************************************************)
Request == /\ count' = count + 1
           /\ crystal' = IF count = 0 THEN "starting" ELSE crystal

Release == /\ count' = count - 1
           /\ crystal' = IF count = 1 THEN "off" ELSE crystal

RadioRequests == /\ ~radio /\ radio' = TRUE /\ Request
                 /\ UNCHANGED <<events, armed, pending, waiting, calibrating, timer, pc>>
RadioReleases == /\ radio /\ pc = "none" /\ radio' = FALSE /\ Release
                 /\ UNCHANGED <<events, armed, pending, waiting, calibrating, timer, pc>>

(***************************************************************************)
(* The hardware.                                                           *)
(***************************************************************************)
CrystalStarts == /\ crystal = "starting" /\ crystal' = "on"
                 /\ started' = TRUE
                 /\ pending' = (pending \/ armed)
                 /\ UNCHANGED <<count, radio, calibrating, timer, done, ctto, armed, waiting, pc>>

CalibrationEnds == /\ calibrating /\ calibrating' = FALSE
                   /\ done' = TRUE /\ pending' = TRUE
                   /\ UNCHANGED <<crystal, count, radio, timer, started, ctto, armed, waiting, pc>>

TimerEnds == /\ timer /\ timer' = FALSE
             /\ ctto' = TRUE /\ pending' = TRUE
             /\ UNCHANGED <<crystal, count, radio, calibrating, started, done, armed, waiting, pc>>

-----------------------------------------------------------------------------
(***************************************************************************)
(* calibration_irq.                                                        *)
(***************************************************************************)
Serve == /\ pending /\ pc = "none"
         /\ pending' = FALSE
         /\ Goto("started?")
         /\ UNCHANGED <<hardware, events, armed, waiting>>

StartedQ == /\ pc = "started?"
            /\ Goto(IF waiting /\ started THEN "take" ELSE "done?")
            /\ UNCHANGED <<hardware, events, armed, pending, waiting>>

Take == /\ pc = "take" /\ Goto("calibrate")
        /\ started' = FALSE
        /\ UNCHANGED <<hardware, done, ctto, armed, pending, waiting>>

(* mutant of Calibrate: the interval timer is restarted before the calibration is done *)
CalibrateRestarts == /\ pc = "calibrate" /\ Goto("done?")
                     /\ armed' = FALSE /\ waiting' = FALSE /\ calibrating' = TRUE /\ timer' = TRUE
                     /\ UNCHANGED <<crystal, count, radio, events, pending>>

(* INTENCLR, calibration_waiting and TASKS_CAL; nobody else looks at the
   first two. *)
Calibrate == /\ pc = "calibrate" /\ Goto("done?")
             /\ armed' = FALSE /\ waiting' = FALSE /\ calibrating' = TRUE
             /\ UNCHANGED <<crystal, count, radio, timer, events, pending>>

DoneQ == /\ pc = "done?"
         /\ Goto(IF done THEN "release" ELSE "ctto?")
         /\ done' = FALSE
         /\ UNCHANGED <<hardware, started, ctto, armed, pending, waiting>>

ReleaseCrystal == /\ pc = "release" /\ Goto("restart")
                  /\ Release
                  /\ UNCHANGED <<radio, calibrating, timer, events, armed, pending, waiting>>

RestartTimer == /\ pc = "restart" /\ Goto("ctto?")
                /\ timer' = TRUE
                /\ UNCHANGED <<crystal, count, radio, calibrating, events, armed, pending, waiting>>

CttoQ == /\ pc = "ctto?"
         /\ Goto(IF ctto THEN "clear" ELSE "none")
         /\ ctto' = FALSE
         /\ UNCHANGED <<hardware, started, done, armed, pending, waiting>>

(***************************************************************************)
(* calibration_start.                                                      *)
(***************************************************************************)
(* mutant of ClearEvents: a start of long ago is still to be seen *)
ClearDoneOnly == /\ pc = "clear" /\ Goto("request")
                 /\ done' = FALSE /\ waiting' = TRUE
                 /\ UNCHANGED <<hardware, started, ctto, armed, pending>>

ClearEvents == /\ pc = "clear" /\ Goto("request")
               /\ done' = FALSE /\ started' = FALSE /\ waiting' = TRUE
               /\ UNCHANGED <<hardware, ctto, armed, pending>>

RequestCrystal == /\ pc = "request" /\ Goto("arm")
                  /\ Request
                  /\ UNCHANGED <<radio, calibrating, timer, events, armed, pending, waiting>>

Arm == /\ pc = "arm" /\ Goto("on?")
       /\ armed' = TRUE /\ pending' = (pending \/ started)
       /\ UNCHANGED <<hardware, events, waiting>>

(* mutant of OnQ: the crystal that runs already is not noticed *)
OnlyWait == /\ pc = "on?" /\ Goto("none")
            /\ UNCHANGED <<hardware, events, armed, pending, waiting>>

(* The crystal runs already: there may be no event to wait for. *)
OnQ == /\ pc = "on?" /\ Goto("none")
       /\ IF crystal = "on"
          THEN waiting' = FALSE /\ armed' = FALSE /\ calibrating' = TRUE
          ELSE UNCHANGED <<waiting, armed, calibrating>>
       /\ UNCHANGED <<crystal, count, radio, timer, events, pending>>

(* As calibration_init leaves it: the event of its own request is still set. *)
Init == /\ crystal = "off" /\ count = 0 /\ radio = FALSE
        /\ started = TRUE /\ done = FALSE /\ ctto = FALSE
        /\ armed = FALSE /\ pending = FALSE /\ waiting = FALSE
        /\ calibrating = FALSE /\ timer = TRUE
        /\ pc = "none"

Radio == RadioRequests \/ RadioReleases
Hardware == CrystalStarts \/ CalibrationEnds \/ TimerEnds
Interrupt == Serve \/ StartedQ \/ Take \/ Calibrate \/ DoneQ \/ ReleaseCrystal \/ RestartTimer
             \/ CttoQ \/ ClearEvents \/ RequestCrystal \/ Arm \/ OnQ

Next == Radio \/ Hardware \/ Interrupt

Spec == Init /\ [][Next]_vars

(* The interrupt is served, the hardware does what it was told; the radio
   may hold the crystal for ever or never use it. *)
FairSpec == /\ Spec /\ WF_vars(Interrupt) /\ WF_vars(CrystalStarts)
            /\ WF_vars(CalibrationEnds) /\ WF_vars(TimerEnds)
-----------------------------------------------------------------------------
TypeOK == /\ crystal \in {"off", "starting", "on"}
          /\ count \in 0..2
          /\ {radio, started, done, ctto, armed, pending, waiting, calibrating, timer} \subseteq BOOLEAN

(* The oscillator is calibrated against the crystal, which runs, whatever the
   radio and old events do meanwhile (docs/power-saving.md:14). *)
CalibratesOnCrystal == calibrating => crystal = "on"

(* Between two calibrations nothing but the radio keeps the crystal on, and the
   interval timer is never restarted while a calibration runs. *)
LetsGo == timer => /\ ~calibrating /\ ~waiting
                   /\ count = IF radio THEN 1 ELSE 0

(* Calibration goes on for ever: no order of events is waited for that has
   passed already. *)
KeepsCalibrating == []<>calibrating
=============================================================================

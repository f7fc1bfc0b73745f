---------------------------- MODULE ClockProofs ----------------------------
(***************************************************************************)
(* Theorems about Clock.                                                   *)
(***************************************************************************)
EXTENDS Clock, TLAPS

One(condition) == IF condition THEN 1 ELSE 0

Types ==
  /\ crystal \in {"off", "starting", "on"} /\ count \in 0..2
  /\ radio \in BOOLEAN /\ calibrating \in BOOLEAN /\ timer \in BOOLEAN
  /\ started \in BOOLEAN /\ done \in BOOLEAN /\ ctto \in BOOLEAN
  /\ armed \in BOOLEAN /\ pending \in BOOLEAN /\ waiting \in BOOLEAN
  /\ pc \in {"none", "started?", "take", "calibrate", "done?", "release", "restart",
             "ctto?", "clear", "request", "arm", "on?"}

(* One thing is under way: the interval, its end, a start, the wait for the
   crystal, a calibration, its end, or the way back to the interval. *)
OnePhase == One(timer) + One(ctto) + One(pc = "clear") + One(waiting) + One(calibrating)
              + One(done) + One(pc \in {"release", "restart"}) = 1

(* The calibration's own request for the crystal. *)
Own == \/ waiting /\ pc # "request"
       \/ calibrating \/ done \/ pc = "release"

CrystalInv == /\ count = One(radio) + One(Own)
              /\ crystal = "off" <=> count = 0

(* An old start is not taken for the one that is waited for. *)
StartInv == /\ pc \in {"request", "arm", "on?", "take", "calibrate"} => waiting
            /\ waiting /\ started => crystal = "on"
            /\ pc \in {"take", "calibrate"} => crystal = "on"

IInv == Types /\ OnePhase /\ CrystalInv /\ StartInv /\ CalibratesOnCrystal

USE DEF hardware, events, Goto

LEMMA InitHolds == Init => IInv
<1> SUFFICES ASSUME Init PROVE IInv
  OBVIOUS
<1>1. Types
  <2>1. crystal \in {"off", "starting", "on"} /\ count \in 0..2 /\ pc = "none"
    BY DEF Init
  <2> QED BY <2>1, Zenon DEF Init, Types
<1>2. OnePhase BY DEF Init, OnePhase, One
<1>3. CrystalInv /\ StartInv /\ CalibratesOnCrystal
  BY DEF Init, CrystalInv, Own, One, StartInv, CalibratesOnCrystal
<1> QED BY <1>1, <1>2, <1>3 DEF IInv

(* The radio asks for the crystal and lets go of it. *)
LEMMA RadioKeeps ==
  ASSUME IInv, RadioRequests \/ RadioReleases
  PROVE  IInv'
<1> USE DEF IInv, Types, OnePhase, One, CrystalInv, Own, StartInv, CalibratesOnCrystal
<1>1. CASE RadioRequests BY <1>1 DEF RadioRequests, Request
<1>2. CASE RadioReleases
  <2>1. count \in 1..2 /\ count' = count - 1 /\ crystal' \in {crystal, "off"}
    BY <1>2 DEF RadioReleases, Release
  <2>2. count' \in 0..2
    BY <2>1
  <2>3. Types' BY <1>2, <2>1, <2>2, Zenon DEF RadioReleases, Release
  <2>4. OnePhase' /\ CrystalInv' /\ StartInv' /\ CalibratesOnCrystal'
    BY <1>2 DEF RadioReleases, Release
  <2> QED BY <2>3, <2>4
<1> QED BY <1>1, <1>2

LEMMA HardwareKeeps ==
  ASSUME IInv, CrystalStarts \/ CalibrationEnds \/ TimerEnds
  PROVE  IInv'
<1> USE DEF IInv, Types, OnePhase, One, CrystalInv, Own, StartInv, CalibratesOnCrystal
<1>1. CASE CrystalStarts BY <1>1 DEF CrystalStarts
<1>2. CASE CalibrationEnds
  <2>1. Types' BY <1>2 DEF CalibrationEnds
  <2>2. OnePhase' /\ CrystalInv' BY <1>2 DEF CalibrationEnds
  <2>3. StartInv' /\ CalibratesOnCrystal' BY <1>2 DEF CalibrationEnds
  <2> QED BY <2>1, <2>2, <2>3
<1>3. CASE TimerEnds
  <2>1. Types' BY <1>3 DEF TimerEnds
  <2>2. OnePhase' /\ CrystalInv' BY <1>3 DEF TimerEnds
  <2>3. StartInv' /\ CalibratesOnCrystal' BY <1>3 DEF TimerEnds
  <2> QED BY <2>1, <2>2, <2>3
<1> QED BY <1>1, <1>2, <1>3

(* The first half of calibration_irq: the crystal has started. *)
LEMMA StartedKeeps ==
  ASSUME IInv, Serve \/ StartedQ \/ Take \/ Calibrate
  PROVE  IInv'
<1> USE DEF IInv, Types, OnePhase, One, CrystalInv, Own, StartInv, CalibratesOnCrystal
<1>1. CASE Serve BY <1>1 DEF Serve
<1>2. CASE StartedQ BY <1>2 DEF StartedQ
<1>3. CASE Take BY <1>3 DEF Take
<1>4. CASE Calibrate
  <2>1. Types' BY <1>4 DEF Calibrate
  <2>2. OnePhase' /\ CrystalInv' BY <1>4 DEF Calibrate
  <2>3. StartInv' /\ CalibratesOnCrystal' BY <1>4 DEF Calibrate
  <2> QED BY <2>1, <2>2, <2>3
<1> QED BY <1>1, <1>2, <1>3, <1>4

(* The second half: a calibration is done. *)
LEMMA DoneKeeps ==
  ASSUME IInv, DoneQ \/ ReleaseCrystal \/ RestartTimer \/ CttoQ
  PROVE  IInv'
<1> USE DEF IInv, Types, OnePhase, One, CrystalInv, Own, StartInv, CalibratesOnCrystal
<1>1. CASE DoneQ
  <2>1. Types' BY <1>1 DEF DoneQ
  <2>2. OnePhase' /\ CrystalInv' BY <1>1 DEF DoneQ
  <2>3. StartInv' /\ CalibratesOnCrystal' BY <1>1 DEF DoneQ
  <2> QED BY <2>1, <2>2, <2>3
<1>2. CASE ReleaseCrystal BY <1>2 DEF ReleaseCrystal, Release
<1>3. CASE RestartTimer BY <1>3 DEF RestartTimer, Release
<1>4. CASE CttoQ
  <2>1. Types' BY <1>4 DEF CttoQ
  <2>2. OnePhase' /\ CrystalInv' BY <1>4 DEF CttoQ
  <2>3. StartInv' /\ CalibratesOnCrystal' BY <1>4 DEF CttoQ
  <2> QED BY <2>1, <2>2, <2>3
<1> QED BY <1>1, <1>2, <1>3, <1>4

(* calibration_start *)
LEMMA NextCalibrationKeeps ==
  ASSUME IInv, ClearEvents \/ RequestCrystal \/ Arm \/ OnQ
  PROVE  IInv'
<1> USE DEF IInv, Types, OnePhase, One, CrystalInv, Own, StartInv, CalibratesOnCrystal
<1>1. CASE ClearEvents
  <2>1. Types' BY <1>1 DEF ClearEvents
  <2>2. OnePhase' /\ CrystalInv' BY <1>1 DEF ClearEvents
  <2>3. StartInv' /\ CalibratesOnCrystal' BY <1>1 DEF ClearEvents
  <2> QED BY <2>1, <2>2, <2>3
<1>2. CASE RequestCrystal BY <1>2 DEF RequestCrystal, Request
<1>3. CASE Arm BY <1>3 DEF Arm, Request
<1>4. CASE OnQ
  <2>1. CASE crystal = "on"
    <3>1. /\ waiting' = FALSE /\ armed' = FALSE /\ calibrating' = TRUE /\ pc = "on?" /\ pc' = "none"
          /\ UNCHANGED <<crystal, count, radio, timer, events, pending>>
      BY <1>4, <2>1 DEF OnQ
    <3>2. ~timer /\ ~ctto /\ ~done /\ waiting
      BY <3>1
    <3>3. Types' BY <3>1
    <3>4. OnePhase' BY <3>1, <3>2
    <3>5. CrystalInv' BY <3>1, <3>2
    <3>6. StartInv' /\ CalibratesOnCrystal' BY <3>1, <2>1
    <3> QED BY <3>3, <3>4, <3>5, <3>6
  <2>2. CASE crystal # "on" BY <1>4, <2>2 DEF OnQ
  <2> QED BY <2>1, <2>2
<1> QED BY <1>1, <1>2, <1>3, <1>4

LEMMA StepKeeps == IInv /\ [Next]_vars => IInv'
<1> SUFFICES ASSUME IInv, [Next]_vars PROVE IInv'
  OBVIOUS
<1>1. CASE Radio BY <1>1, RadioKeeps DEF Radio
<1>2. CASE Hardware BY <1>2, HardwareKeeps DEF Hardware
<1>3. CASE Interrupt BY <1>3, StartedKeeps, DoneKeeps, NextCalibrationKeeps DEF Interrupt
<1>4. CASE UNCHANGED vars
  BY <1>4 DEF vars, IInv, Types, OnePhase, One, CrystalInv, Own, StartInv, CalibratesOnCrystal
<1> QED BY <1>1, <1>2, <1>3, <1>4 DEF Next

(* One phase of the interrupt handler at a time, each with the crystal in the
   state its registers say. *)
THEOREM ClockInvariant == Spec => []IInv
BY InitHolds, StepKeeps, PTL DEF Spec

(* The oscillator is never calibrated against a crystal that is off or still
   starting, in whatever order the interrupt, the radio's requests and the
   hardware's events fall. *)
THEOREM Calibrates == Spec => []CalibratesOnCrystal
<1>1. IInv => CalibratesOnCrystal
  BY DEF IInv
<1> QED BY <1>1, ClockInvariant, PTL

(* While the interval runs, no calibration does and the crystal is only kept
   on by the radio. *)
THEOREM CrystalReleased == Spec => []LetsGo
<1>1. ASSUME IInv PROVE LetsGo
  <2> USE <1>1 DEF IInv, Types
  <2>1. timer => ~calibrating /\ ~waiting /\ ~done /\ pc # "release"
    BY DEF OnePhase, One
  <2> QED BY <2>1 DEF LetsGo, CrystalInv, Own, One
<1> QED BY <1>1, ClockInvariant, PTL
=============================================================================

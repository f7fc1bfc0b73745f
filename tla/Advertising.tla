---------------------------- MODULE Advertising ----------------------------
(***************************************************************************)
(* When, how and what the tag advertises: the adv_retry callout and the    *)
(* calls of apps/opendisplay/src/main.c into the NimBLE host.  All of it   *)
(* runs on the host task, so a callback is one action; the callout and its *)
(* event are one thing, because stopping or resetting it also takes the    *)
(* event off the queue.  Every call into the host may be refused.          *)
(*                                                                         *)
(* The advertised data are msd[], which the display task writes, without a *)
(* lock, while it executes a command; the host copies them when it sets    *)
(* the advertised fields, which may fall between two of these writes.      *)
(***************************************************************************)
EXTENDS Integers, FiniteSets

CONSTANTS Second, FastTime, SlowTime, \* 1 s, 30 s and 300 s in ticks of the model
          Data \* contents of msd[], half-written ones among them

ASSUME AdvertisingAssumption ==
  /\ {Second, FastTime, SlowTime} \subseteq Nat \ {0}
  /\ Second < FastTime /\ FastTime < SlowTime
  /\ Data # {}

VARIABLES
  synced,   \* ble_hs_synced()
  connected,
  slowAdvertising,
  adv,      \* what is on the air: "off", "fast" or "slow"
  fastFor,  \* history: ticks since fast advertising was started
  stopRefused, \* history: stopping it was refused since then
  advRetry, \* the callout: Off, or the ticks until it fires
  working,  \* the jobs in the two command slots, see Link
  msd,
  aired,    \* the copy of msd the controller has
  airedRefused \* history: setting that copy was refused the last time

vars == <<synced, connected, slowAdvertising, adv, fastFor, stopRefused, advRetry, working,
          msd, aired, airedRefused>>

Commands == {"first", "second"}

Off == -1

OnAir(air) == adv' = air /\ fastFor' = 0 /\ stopRefused' = FALSE
StaysOnAir(refused) == UNCHANGED <<adv, fastFor>> /\ stopRefused' = (stopRefused \/ refused)
AirUnchanged == StaysOnAir(FALSE)

(***************************************************************************)
(* advertise, with "off" TRUE when the caller stopped advertising first;   *)
(* ble_gap_adv_start refuses when the host advertises already.             *)
(***************************************************************************)
Interval(slow) == IF slow THEN "slow" ELSE "fast"
Refresh(slow) == IF slow THEN SlowTime ELSE FastTime
NotStarted(off) == IF off THEN OnAir("off") ELSE StaysOnAir(adv # "off")

(* set_advertisement_data with what msd holds, accepted or refused *)
SetData(m) == aired' = m /\ airedRefused' = FALSE
DataRefused == UNCHANGED aired /\ airedRefused' = TRUE
DataUnchanged == UNCHANGED <<msd, aired, airedRefused>>

(* mutant of AdvertiseWith: a refused start is not tried again *)
AdvertiseOnce(m, off, conn, sync, slow) ==
  /\ msd' = m
  /\ IF conn \/ ~sync THEN NotStarted(off) /\ UNCHANGED <<advRetry, aired, airedRefused>>
     ELSE \/ off /\ OnAir(Interval(slow)) /\ advRetry' = Refresh(slow) /\ SetData(m)
          \/ NotStarted(off) /\ advRetry' = SlowTime /\ (SetData(m) \/ DataRefused)

AdvertiseWith(m, off, conn, sync, slow) ==
  /\ msd' = m
  /\ IF conn \/ ~sync THEN NotStarted(off) /\ UNCHANGED <<advRetry, aired, airedRefused>>
     ELSE \/ off /\ OnAir(Interval(slow)) /\ advRetry' = Refresh(slow) /\ SetData(m)
          \/ NotStarted(off) /\ advRetry' = Second /\ (SetData(m) \/ DataRefused)

Advertise(off, conn, sync, slow) == AdvertiseWith(msd, off, conn, sync, slow)

-----------------------------------------------------------------------------
(* sample_telemetry, called without a connection *)
SampleTelemetry == working' = IF working = {} THEN {"telemetry"} ELSE working

(* The security bit of msd is set anew. *)
OnSync == /\ ~synced
          /\ synced' = TRUE
          /\ SampleTelemetry
          /\ \E m \in Data: AdvertiseWith(m, adv = "off", connected, TRUE, slowAdvertising)
          /\ UNCHANGED <<connected, slowAdvertising>>

(* The host loses the controller: it ends advertising or the connection
   itself (ADV_COMPLETE and DISCONNECT find it out of sync), then on_reset. *)
OnReset == /\ synced
           /\ synced' = FALSE /\ connected' = FALSE
           /\ slowAdvertising' = (slowAdvertising /\ ~connected)
           /\ Advertise(TRUE, FALSE, FALSE, slowAdvertising)
           /\ UNCHANGED working

(* gap_event: CONNECT, for which the controller stopped advertising. *)
Connected == /\ synced /\ adv # "off"
             /\ connected' = TRUE /\ OnAir("off") /\ advRetry' = Off
             /\ DataUnchanged /\ UNCHANGED <<synced, slowAdvertising, working>>

ConnectFailed == /\ synced /\ adv # "off"
                 /\ Advertise(TRUE, connected, synced, slowAdvertising)
                 /\ UNCHANGED <<synced, connected, slowAdvertising, working>>

Disconnected == /\ connected
                /\ connected' = FALSE
                /\ slowAdvertising' = FALSE
                /\ Advertise(adv = "off", FALSE, synced, FALSE)
                /\ UNCHANGED <<synced, working>>

(* advertise_retry: on the air it samples the telemetry and, the first time,
   changes to the slow interval; otherwise it tries to start. *)
StopRefused == advRetry' = Second /\ StaysOnAir(TRUE) /\ DataUnchanged

(* mutant of RetryOnAir: the flag is set before it is looked at *)
RetrySetsFirst ==
  /\ advRetry = 0 /\ ~connected /\ adv # "off"
  /\ SampleTelemetry
  /\ slowAdvertising' = TRUE
  /\ advRetry' = SlowTime /\ AirUnchanged /\ DataUnchanged
  /\ UNCHANGED <<synced, connected>>

RetryOnAir ==
  /\ advRetry = 0 /\ ~connected /\ adv # "off"
  /\ SampleTelemetry
  /\ slowAdvertising' = TRUE
  /\ \/ /\ slowAdvertising
        /\ advRetry' = SlowTime /\ AirUnchanged /\ DataUnchanged
     \/ /\ ~slowAdvertising
        /\ StopRefused \/ Advertise(TRUE, connected, synced, TRUE)
  /\ UNCHANGED <<synced, connected>>

RetryOffAir ==
  /\ advRetry = 0 /\ ~connected /\ adv = "off"
  /\ IF synced THEN Advertise(TRUE, FALSE, TRUE, slowAdvertising)
     ELSE advRetry' = Off /\ AirUnchanged /\ DataUnchanged
  /\ UNCHANGED <<synced, connected, slowAdvertising, working>>

AdvertiseRetry == RetryOnAir \/ RetryOffAir

(* A client's command takes a free slot and goes to the display task. *)
CommandStarts(kind) ==
  /\ connected /\ kind \in Commands \ working /\ Cardinality(working) < 2
  /\ working' = working \cup {kind}
  /\ AirUnchanged /\ DataUnchanged
  /\ UNCHANGED <<synced, connected, slowAdvertising, advRetry>>

(* command_work changes msd: the sample of 0x44, the security bit. *)
CommandWrites ==
  /\ working \cap Commands # {}
  /\ msd' \in Data
  /\ AirUnchanged
  /\ UNCHANGED <<synced, connected, slowAdvertising, advRetry, working, aired, airedRefused>>

(* command_done.  A sample that succeeded is set without a restart; a command
   that outlived its connection may have changed the advertised data and
   restarts advertising, refused or not. *)
TelemetryDone ==
  /\ AirUnchanged /\ UNCHANGED advRetry
  /\ \/ DataUnchanged
     \/ \E m \in Data: /\ msd' = m
                       /\ IF adv # "off" THEN SetData(m) \/ DataRefused
                          ELSE UNCHANGED <<aired, airedRefused>>

NeverRestarts(kind) == FALSE \* mutant of Restarts
Restarts(kind) == kind \in Commands /\ ~connected /\ adv # "off"

CommandDone(kind) ==
  /\ kind \in working
  /\ working' = working \ {kind}
  /\ IF kind = "telemetry" THEN TelemetryDone
     ELSE IF Restarts(kind)
     THEN \/ Advertise(TRUE, connected, synced, slowAdvertising)
          \/ Advertise(FALSE, connected, synced, slowAdvertising)
     ELSE AirUnchanged /\ DataUnchanged /\ UNCHANGED advRetry
  /\ UNCHANGED <<synced, connected, slowAdvertising>>

(* Time goes on; a callout that is due fires first.  The history is not
   counted further than the slow timer. *)
Tick ==
  /\ advRetry # 0
  /\ advRetry' = IF advRetry = Off THEN Off ELSE advRetry - 1
  /\ fastFor' = IF adv = "fast" /\ fastFor < SlowTime THEN fastFor + 1 ELSE fastFor
  /\ DataUnchanged
  /\ UNCHANGED <<synced, connected, slowAdvertising, adv, stopRefused, working>>

Init == /\ synced = FALSE /\ connected = FALSE /\ slowAdvertising = FALSE
        /\ adv = "off" /\ fastFor = 0 /\ stopRefused = FALSE /\ advRetry = Off /\ working = {}
        /\ msd \in Data /\ aired \in Data /\ airedRefused = FALSE

Next == OnSync \/ OnReset \/ Connected \/ ConnectFailed \/ Disconnected
        \/ AdvertiseRetry \/ (\E kind \in Commands: CommandStarts(kind))
        \/ CommandWrites \/ (\E kind \in working: CommandDone(kind)) \/ Tick

Spec == Init /\ [][Next]_vars

(* Time goes on and a callout that is due fires. *)
FairSpec == Spec /\ WF_vars(AdvertiseRetry) /\ WF_vars(Tick)
-----------------------------------------------------------------------------
TypeOK == /\ synced \in BOOLEAN /\ connected \in BOOLEAN /\ slowAdvertising \in BOOLEAN
          /\ adv \in {"off", "fast", "slow"}
          /\ fastFor \in 0..SlowTime /\ stopRefused \in BOOLEAN
          /\ advRetry \in {Off} \cup 0..SlowTime
          /\ working \subseteq {"telemetry"} \cup Commands /\ Cardinality(working) <= 2
          /\ msd \in Data /\ aired \in Data /\ airedRefused \in BOOLEAN

(* A tag without a connection is on the air or will try again within a
   second, and its timer never stops: whatever was refused, and whichever of
   the GAP events, the timer and a finished command came first
   (main.c:106-109, 242-297, 315-324). *)
StaysReachable ==
  (synced /\ ~connected) => /\ advRetry # Off
                            /\ adv = "off" => advRetry <= Second

(* Fast advertising, once started, lasts 30 seconds at most, whatever finished
   commands and refused starts do to its timer, unless the stack refused to
   stop it (main.c:242-297). *)
FastWindow == (adv = "fast" /\ ~stopRefused) => fastFor <= FastTime

(* What is on the air is what msd holds, once no command is under way: also
   when a command wrote it while the host was copying it, or after its
   connection was gone.  A refusal to take new data is the exception
   (main.c:89-109, 131-142, 259-277). *)
AdvertisedCurrent ==
  (adv # "off" /\ working = {} /\ ~airedRefused) => aired = msd

(* A round of fast advertising ends: after its 30 seconds the tag is slow, or
   a new connection or attempt starts another round (docs/power-saving.md:8). *)
FastEnds == (adv = "fast" /\ fastFor > 0) ~> (adv # "fast" \/ fastFor = 0)
=============================================================================

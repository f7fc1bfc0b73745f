----------------------------- MODULE HostTimers -----------------------------
(***************************************************************************)
(* The two deadlines of a connection: 120 seconds without a command, and   *)
(* 15 minutes for a transfer from its START, commands or not.  They share  *)
(* the idle_timeout callout of apps/opendisplay/src/main.c.  Advertising   *)
(* has the other callout of the host task and the events they share; here  *)
(* every one of its actions also does what it does to the idle callout,    *)
(* the command slots and the display task, which od_expire_transfer asks   *)
(* at the start of every command whether its transfer is over.             *)
(*                                                                         *)
(* Time is os_time, a counter of ticks that wraps; od_millis makes a 32-bit *)
(* number of milliseconds of it, 125/16 to a tick.  In the model both wrap *)
(* at Wrap, and 5/2 are the milliseconds of a tick.  A command takes any   *)
(* time; everything else that is ready is done before time goes on.        *)
(***************************************************************************)
EXTENDS Advertising

CONSTANTS Wrap,         \* 2^32
          IdleTime,     \* OD_BLE_IDLE_MS, in milliseconds of the model
          TransferTime, \* OD_TRANSFER_TIMEOUT_MS, likewise
          StartTicks,   \* values of os_time at a START
          MaxAge        \* bound: ticks a transfer is followed

ASSUME TimersAssumption ==
  /\ Wrap \in Nat \ {0} /\ StartTicks \subseteq 0..Wrap - 1
  /\ {IdleTime, TransferTime, MaxAge} \subseteq Nat
  /\ IdleTime < TransferTime
  \* 15 minutes are a whole number of ticks, and both they and the age a
  \* transfer is followed to are far from half the range of the clock.
  /\ (TransferTime * 2) % 5 = 0
  /\ Wrap % 2 = 0 /\ TransferTime * 2 <= Wrap /\ MaxAge * 5 + 2 < Wrap

VARIABLES
  stage,    \* the commands: "free", "queued", "running", "done"
  mine,     \* those of the current generation
  expired,  \* those with disconnect_after
  transfer, \* "none", "starting" while the panel is switched on, "active"
  startTick, age, \* os_time at the START, and the ticks since; 0 without a transfer
  aborting, \* abort_event or idle_abort_event is queued
  idle,     \* idle_timeout: Off, or the ticks until it fires
  quiet,    \* history: ticks since the connection or the last use of a command
  late,     \* history: the command that ran last began on an overdue transfer
  overtime  \* history: ticks the transfer was overdue with no command running
            \* that began before

timerVars == <<stage, mine, expired, transfer, startTick, age, aborting, idle, quiet, late, overtime>>
allVars == <<vars, timerVars>>

-----------------------------------------------------------------------------
(* od_millis *)
Millis(tick) == ((tick * 5) \div 2) % Wrap
Now == (startTick + age) % Wrap
Elapsed == (Millis(Now) - Millis(startTick)) % Wrap

(* od_transfer_remaining_ms; NoLimit is UINT32_MAX. *)
NoLimit == Wrap
Remaining == IF transfer # "active" THEN NoLimit
             ELSE IF Elapsed >= TransferTime THEN 0 ELSE TransferTime - Elapsed

Smaller(a, b) == IF a < b THEN a ELSE b
(* os_time_ms_to_ticks32(delay) + 1 *)
TicksOf(ms) == (ms * 2) \div 5 + 1
DelayIdle == TicksOf(IdleTime) \* mutant of Delay: the transfer is not asked
Delay == TicksOf(Smaller(Remaining, IdleTime))

InTime == late' = FALSE /\ overtime' = 0
NoTransfer == transfer' = "none" /\ startTick' = 0 /\ age' = 0 /\ InTime
TransferUnchanged == UNCHANGED <<transfer, startTick, age, late, overtime>>

(* By the ticks since its START, however they are converted. *)
TransferTicks == (TransferTime * 2) \div 5
Overdue == transfer # "none" /\ age >= TransferTicks

Running == {k \in Commands: stage[k] = "running"}
QuietIdle == (IdleTime * 2) \div 5 \* as far as quiet is counted

-----------------------------------------------------------------------------
(***************************************************************************)
(* Host task.                                                              *)
(***************************************************************************)
SlotsUnchanged == UNCHANGED <<stage, expired>>

(* gap_event CONNECT *)
LinkUp == /\ Connected
          /\ mine' = {} /\ idle' = TicksOf(IdleTime) /\ quiet' = 0
          /\ TransferUnchanged /\ UNCHANGED <<stage, expired, aborting>>

(* reset_link *)
ResetLink == /\ mine' = {} /\ idle' = Off /\ aborting' = TRUE
             /\ SlotsUnchanged /\ TransferUnchanged /\ UNCHANGED quiet

LinkDown == (Disconnected \/ OnReset) /\ ResetLink

(* gap_event SUBSCRIBE, with notifications switched off *)
Unsubscribe == /\ connected
               /\ mine' = {} /\ aborting' = TRUE
               /\ SlotsUnchanged /\ TransferUnchanged /\ UNCHANGED <<vars, idle, quiet>>

(* access_value *)
Accept(k) == /\ CommandStarts(k)
             /\ stage' = [stage EXCEPT ![k] = "queued"]
             /\ mine' = mine \cup {k}
             /\ idle' = Off /\ quiet' = 0
             /\ TransferUnchanged /\ UNCHANGED <<expired, aborting>>

(* command_done; ble_gap_terminate may be refused. *)
Drop == /\ mine' = {}
        /\ idle' \in {idle, Second}

Finished(k) ==
  /\ stage[k] = "done"
  /\ CommandDone(k)
  /\ stage' = [stage EXCEPT ![k] = "free"] /\ expired' = expired \ {k}
  /\ IF k \in expired \cap mine THEN Drop
     ELSE /\ mine' = mine \ {k}
          /\ idle' = IF k \in mine THEN Delay ELSE idle
  /\ quiet' = 0
  /\ TransferUnchanged /\ UNCHANGED aborting

(* expire *)
ExpireBusy == /\ idle = 0 /\ working # {}
              /\ idle' = Second
              /\ TransferUnchanged /\ SlotsUnchanged /\ UNCHANGED <<vars, mine, aborting, quiet>>

(* mutant of ExpireIdle: the slots are not looked at *)
ExpireAnyway == /\ idle = 0
                /\ aborting' = TRUE
                /\ idle' \in {Off} \cup (IF connected THEN {Second} ELSE {})
                /\ TransferUnchanged /\ SlotsUnchanged /\ UNCHANGED <<vars, mine, quiet>>

ExpireIdle == /\ idle = 0 /\ working = {}
              /\ aborting' = TRUE
              /\ idle' \in {Off} \cup (IF connected THEN {Second} ELSE {})
              /\ TransferUnchanged /\ SlotsUnchanged /\ UNCHANGED <<vars, mine, quiet>>

-----------------------------------------------------------------------------
(***************************************************************************)
(* Display task: what it does to the transfer.  It has a lower priority,   *)
(* so it goes on only when the host task has no event left.                *)
(***************************************************************************)
HostIdle == idle # 0 /\ advRetry # 0 /\ \A k \in Commands: stage[k] # "done"

(* abort_work, idle_abort_work *)
AbortWork == /\ HostIdle /\ aborting /\ Running = {}
             /\ aborting' = FALSE /\ NoTransfer
             /\ SlotsUnchanged /\ UNCHANGED <<vars, mine, idle, quiet>>

(* command_work up to od_secure_command *)
NeverOver == FALSE \* mutant of Over: commands that arrive keep a transfer
Over == Remaining = 0

Work(k) ==
  /\ HostIdle /\ stage[k] = "queued" /\ Running = {}
  /\ stage' = [stage EXCEPT ![k] = IF k \in mine /\ ~Over THEN "running" ELSE "done"]
  /\ expired' = IF k \in mine /\ Over THEN expired \cup {k} ELSE expired
  /\ IF k \in mine /\ ~Over
     THEN late' = Overdue /\ UNCHANGED <<transfer, startTick, age, overtime>>
     ELSE NoTransfer
  /\ UNCHANGED <<vars, mine, aborting, idle, quiet>>

(* begin: od_abort, started_at, and some time later the panel is on, or not. *)
Start == /\ HostIdle /\ Running # {} /\ transfer # "starting"
         /\ transfer' = "starting" /\ startTick' \in StartTicks /\ age' = 0 /\ InTime
         /\ SlotsUnchanged /\ UNCHANGED <<vars, mine, aborting, idle, quiet>>

Started == /\ HostIdle /\ transfer = "starting"
           /\ transfer' = "active" /\ UNCHANGED <<startTick, age, late, overtime>>
           /\ SlotsUnchanged /\ UNCHANGED <<vars, mine, aborting, idle, quiet>>

(* finish, od_abort and a panel that does not start *)
Ends == /\ HostIdle /\ Running # {} /\ transfer # "none"
        /\ NoTransfer
        /\ SlotsUnchanged /\ UNCHANGED <<vars, mine, aborting, idle, quiet>>

Writes == HostIdle /\ Running # {} /\ CommandWrites /\ UNCHANGED timerVars

CommandEnds(k) == /\ HostIdle /\ stage[k] = "running" /\ transfer # "starting"
                  /\ stage' = [stage EXCEPT ![k] = "done"]
                  /\ TransferUnchanged
                  /\ UNCHANGED <<vars, mine, expired, aborting, idle, quiet>>

-----------------------------------------------------------------------------
(* Advertising goes on as before, with no effect on the idle callout. *)
Airs == /\ OnSync \/ ConnectFailed \/ AdvertiseRetry \/ CommandDone("telemetry")
        /\ UNCHANGED timerVars

(* Nothing is due and nothing waits but for a command that is running. *)
Time == /\ Tick
        /\ HostIdle /\ "telemetry" \notin working
        /\ Running = {} => ~aborting /\ \A k \in Commands: stage[k] # "queued"
        /\ transfer # "none" => age < MaxAge
        /\ age' = IF transfer = "none" THEN 0 ELSE age + 1
        /\ idle' = IF idle = Off THEN Off ELSE idle - 1
        /\ quiet' = IF quiet < QuietIdle THEN quiet + 1 ELSE quiet
        /\ overtime' = IF Overdue /\ (Running = {} \/ late) THEN overtime + 1 ELSE overtime
        /\ SlotsUnchanged /\ UNCHANGED <<mine, transfer, startTick, aborting, late>>

TimersInit == /\ Init
              /\ stage = [k \in Commands |-> "free"] /\ mine = {} /\ expired = {}
              /\ transfer = "none" /\ startTick = 0 /\ age = 0
              /\ aborting = FALSE /\ idle = Off /\ quiet = 0 /\ late = FALSE /\ overtime = 0

TimersNext == \/ LinkUp \/ LinkDown \/ Unsubscribe
              \/ (\E k \in Commands: Accept(k) \/ Finished(k) \/ Work(k) \/ CommandEnds(k))
              \/ ExpireBusy \/ ExpireIdle \/ AbortWork
              \/ Start \/ Started \/ Ends \/ Writes
              \/ Airs \/ Time

TimersSpec == TimersInit /\ [][TimersNext]_allVars
-----------------------------------------------------------------------------
(* A transfer ends 15 minutes after its START, whatever the client goes on
   sending and however the stack refuses to disconnect: it exists for at most
   a tick more in which no command runs that began before.  A command that
   arrives later never gets to hold it, whatever it is, and one that is running
   then only as long as it runs itself (docs/protocol-coverage.md:103,
   power-saving.md:25; main.c:110-114, 125-130, 158-170). *)
TransferEnds == overtime <= 1

(* Nothing of this cuts a transfer short: it is aborted for its age only at 15
   minutes, or if os_time itself wrapped, and by the idle callout only after
   120 seconds without a command (docs/power-saving.md:25, main.c:110-114,
   158-170). *)
Wrapped == startTick + age >= Wrap
NotCutShort ==
  [][/\ expired' \ expired # {} => age >= TransferTicks \/ Wrapped
     /\ (idle = 0 /\ idle' # 0 /\ connected' /\ ~aborting /\ aborting' /\ transfer = "active") =>
          age >= TransferTicks \/ Wrapped \/ (quiet >= QuietIdle /\ working = {})]_allVars
=============================================================================

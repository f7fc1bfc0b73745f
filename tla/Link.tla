-------------------------------- MODULE Link --------------------------------
(***************************************************************************)
(* The hand-off between the BLE host task and the display task in          *)
(* apps/opendisplay/src/main.c.  The host task owns the connection; it     *)
(* copies an accepted GATT write into one of two command slots and queues  *)
(* it to the display task, which executes it, sends each response through  *)
(* the one tx record and waits on a semaphore for the host to notify it.   *)
(*                                                                         *)
(* Every handler of the host task is one action.  The display task is      *)
(* preemptible, so each of its reads of shared state is an action of its   *)
(* own.  Queue puts are os_eventq_put: an event that is already queued is  *)
(* not queued again.  Time is abstract: an armed callout may fire at any   *)
(* moment.  Advertising is the subject of Advertising.                     *)
(***************************************************************************)
EXTENDS Integers, Sequences, FiniteSets, SequencesExt, FiniteSetsExt

CONSTANTS Slot,        \* the commands[] array: {1, 2}, slot 1 also samples telemetry
          Generation,  \* enough values of the generation counter, see Bump
          MaxRetries,  \* 100 tries of one notification
          MaxSends,    \* bound: responses one command sends
          HostFirst    \* whether the host task always runs before the display task

ASSUME LinkAssumption ==
  /\ Slot \subseteq Nat \ {0} /\ Slot # {} /\ IsFiniteSet(Slot)
  /\ Generation \subseteq Nat /\ IsFiniteSet(Generation)
  /\ Cardinality(Generation) >= Cardinality(Slot) + 2
  /\ MaxRetries \in Nat \ {0} /\ MaxSends \in Nat
  /\ HostFirst \in BOOLEAN

VARIABLES
  generation, connected, subscribed, \* the link as the host task sees it
  closing,     \* ble_gap_terminate was accepted, DISCONNECT is on its way
  lapsed,      \* history: notifications were disabled under a command, the idle callout not set since
  commands,    \* the slots
  displayQueue, hostQueue,           \* the two event queues
  idleTimeout, txRetry,              \* callouts: "off" or "armed"
  tx, finished,                      \* the response record and its semaphore
  pc, current, sends,                \* the display task
  held         \* session state of the display task, see below

linkVars == <<generation, connected, subscribed, closing, lapsed>>
txVars == <<tx, finished, txRetry>>
workerVars == <<pc, current, sends, held>>
vars == <<linkVars, commands, displayQueue, hostQueue, idleTimeout, txVars, workerVars>>

None == 0

Work(i) == <<"work", i>>
Done(i) == <<"done", i>>
AbortEvent == <<"abort", None>>
IdleAbortEvent == <<"idleAbort", None>>
TxEvent == <<"tx", None>>
TxRetryEvent == <<"txRetry", None>>
IdleTimeoutEvent == <<"idleTimeout", None>>

(* os_eventq_put *)
Put(q, e) == IF Contains(q, e) THEN q ELSE Append(q, e)

(* os_eventq_remove *)
Cancel(q, e) == IF Contains(q, e) THEN RemoveAt(q, CHOOSE k \in 1..Len(q): q[k] = e) ELSE q

(* What a command may leave behind in the display task, and for whom: "mine"
   for the subscription that is current, "foreign" for an earlier one. *)
Component == {"transfer", "staging", "auth"}
Owner == {"none", "mine", "foreign"}

(* A slot nobody uses: its other fields are written before they are read. *)
FreeSlot == [used |-> FALSE, kind |-> "command", mine |-> FALSE,
             generation |-> Min(Generation), disconnectAfter |-> FALSE]

(* The tx record between two sends, likewise. *)
IdleTx == [generation |-> Min(Generation), retries |-> 0, result |-> "ok"]

(***************************************************************************)
(* The generation counter is compared only for equality and only with the  *)
(* copies in used slots (tx.generation is the copy of the current one), so *)
(* any value that none of them holds stands for generation + 1.            *)
(***************************************************************************)
LiveGenerations == {generation} \cup {commands[i].generation : i \in {j \in Slot: commands[j].used}}

Bump == generation' = Min(Generation \ LiveGenerations)

(* History: the subscription that accepted a command or created session state
   is over. *)
Outdate(c) == [i \in Slot |-> [c[i] EXCEPT !.mine = FALSE]]
OutdateHeld == held' = [k \in Component |-> IF held[k] = "none" THEN "none" ELSE "foreign"]

-----------------------------------------------------------------------------
(***************************************************************************)
(* Host task: GAP and GATT callbacks.                                      *)
(***************************************************************************)
StopIdle == /\ idleTimeout' = "off"
            /\ hostQueue' = Cancel(hostQueue, IdleTimeoutEvent)

(* os_callout_reset: stop, then arm. *)
ArmIdle(q) == /\ idleTimeout' = "armed" /\ lapsed' = FALSE
              /\ hostQueue' = Cancel(q, IdleTimeoutEvent)

Connect ==
  /\ ~connected
  /\ Bump
  /\ connected' = TRUE /\ subscribed' = FALSE /\ closing' = FALSE
  /\ ArmIdle(hostQueue)
  /\ commands' = Outdate(commands) /\ OutdateHeld
  /\ UNCHANGED <<displayQueue, txVars, pc, current, sends>>

(* mutant of ResetLink: the display task is not told *)
ResetLinkSilent ==
  /\ Bump
  /\ connected' = FALSE /\ subscribed' = FALSE /\ closing' = FALSE /\ lapsed' = FALSE
  /\ StopIdle
  /\ commands' = Outdate(commands) /\ OutdateHeld
  /\ UNCHANGED <<displayQueue, txVars, pc, current, sends>>

(* reset_link: the connection ends, or the host is reset, connected or not. *)
ResetLink ==
  /\ Bump
  /\ connected' = FALSE /\ subscribed' = FALSE /\ closing' = FALSE /\ lapsed' = FALSE
  /\ StopIdle
  /\ displayQueue' = Put(displayQueue, AbortEvent)
  /\ commands' = Outdate(commands) /\ OutdateHeld
  /\ UNCHANGED <<txVars, pc, current, sends>>

Subscribe ==
  /\ connected
  /\ subscribed' = TRUE
  /\ UNCHANGED <<generation, connected, closing, lapsed, commands, displayQueue, hostQueue,
                 idleTimeout, txVars, workerVars>>

AllSlots == Slot \* mutant of FreeSlots: c->used is not looked at
FreeSlots == {i \in Slot: ~commands[i].used}

Unsubscribe ==
  /\ connected
  /\ subscribed' = FALSE
  /\ lapsed' = (idleTimeout = "off" /\ ~Contains(hostQueue, IdleTimeoutEvent))
  /\ Bump
  /\ displayQueue' = Put(displayQueue, AbortEvent)
  /\ commands' = Outdate(commands) /\ OutdateHeld
  /\ UNCHANGED <<connected, closing, hostQueue, idleTimeout, txVars, pc, current, sends>>

Claim(i, kind) ==
  /\ commands' = [commands EXCEPT ![i] = [used |-> TRUE, kind |-> kind, mine |-> TRUE,
                                          generation |-> generation, disconnectAfter |-> FALSE]]
  /\ displayQueue' = Put(displayQueue, Work(i))

(* A write the server accepts; one that finds no slot changes nothing. *)
AccessValue ==
  /\ connected /\ subscribed
  /\ FreeSlots # {}
  /\ Claim(Min(FreeSlots), "command")
  /\ StopIdle
  /\ UNCHANGED <<linkVars, txVars, workerVars>>

(* From on_sync and the advertising timer, with nothing else going on. *)
SampleTelemetry ==
  /\ ~connected /\ FreeSlots = Slot
  /\ Claim(Min(Slot), "telemetry")
  /\ UNCHANGED <<linkVars, hostQueue, idleTimeout, txVars, workerVars>>

-----------------------------------------------------------------------------
(***************************************************************************)
(* Host task: its event queue.                                             *)
(***************************************************************************)
HostHead(e) == hostQueue # <<>> /\ Head(hostQueue) = e

(* mutant of Notify: the retry falls through to the release *)
NotifyFallsThrough ==
  \E e \in {TxEvent, TxRetryEvent}, rc \in {"ok", "busy", "failed", "notConnected"}:
    /\ HostHead(e)
    /\ hostQueue' = Tail(hostQueue)
    /\ rc = "notConnected" <=> ~(tx.generation = generation /\ subscribed /\ connected)
    /\ tx' = [tx EXCEPT !.retries = IF rc = "busy" THEN @ + 1 ELSE @, !.result = rc]
    /\ txRetry' = IF rc = "busy" /\ tx'.retries < MaxRetries THEN "armed" ELSE txRetry
    /\ finished' = finished + 1
    /\ UNCHANGED <<linkVars, commands, displayQueue, idleTimeout, workerVars>>

(* mutant of Notify: whoever is subscribed gets the response *)
NotifyAnySubscriber ==
  \E e \in {TxEvent, TxRetryEvent}, rc \in {"ok", "busy", "failed", "notConnected"}:
    /\ HostHead(e)
    /\ hostQueue' = Tail(hostQueue)
    /\ rc = "notConnected" <=> ~(subscribed /\ connected)
    /\ IF rc = "busy" /\ tx.retries + 1 < MaxRetries
       THEN /\ txRetry' = "armed"
            /\ tx' = [tx EXCEPT !.retries = @ + 1]
            /\ UNCHANGED finished
       ELSE /\ tx' = [tx EXCEPT !.retries = IF rc = "busy" THEN @ + 1 ELSE @, !.result = rc]
            /\ finished' = finished + 1
            /\ UNCHANGED txRetry
    /\ UNCHANGED <<linkVars, commands, displayQueue, idleTimeout, workerVars>>

(* mutant of Notify: the tries are not limited *)
NotifyNoLimit ==
  \E e \in {TxEvent, TxRetryEvent}, rc \in {"ok", "busy", "failed", "notConnected"}:
    /\ HostHead(e)
    /\ tx.retries <= MaxRetries
    /\ hostQueue' = Tail(hostQueue)
    /\ rc = "notConnected" <=> ~(tx.generation = generation /\ subscribed /\ connected)
    /\ IF rc = "busy"
       THEN /\ txRetry' = "armed"
            /\ tx' = [tx EXCEPT !.retries = @ + 1]
            /\ UNCHANGED finished
       ELSE /\ tx' = [tx EXCEPT !.result = rc]
            /\ finished' = finished + 1
            /\ UNCHANGED txRetry
    /\ UNCHANGED <<linkVars, commands, displayQueue, idleTimeout, workerVars>>

(* notify: one try to deliver the response.  Out of buffers, the try is
   repeated from the tx_retry callout; any other outcome ends the send. *)
Notify ==
  \E e \in {TxEvent, TxRetryEvent}, rc \in {"ok", "busy", "failed", "notConnected"}:
    /\ HostHead(e)
    /\ hostQueue' = Tail(hostQueue)
    /\ rc = "notConnected" <=> ~(tx.generation = generation /\ subscribed /\ connected)
    /\ IF rc = "busy" /\ tx.retries + 1 < MaxRetries
       THEN /\ txRetry' = "armed"
            /\ tx' = [tx EXCEPT !.retries = @ + 1]
            /\ UNCHANGED finished
       ELSE /\ tx' = [tx EXCEPT !.retries = IF rc = "busy" THEN @ + 1 ELSE @, !.result = rc]
            /\ finished' = finished + 1
            /\ UNCHANGED txRetry
    /\ UNCHANGED <<linkVars, commands, displayQueue, idleTimeout, workerVars>>

(* command_done of an expired transfer: drop the subscription and the link. *)
DisconnectAfter(i) ==
  /\ commands[i].disconnectAfter /\ commands[i].generation = generation
  /\ Bump
  /\ subscribed' = FALSE
  /\ IF connected
     THEN \/ closing' = TRUE /\ hostQueue' = Tail(hostQueue) /\ UNCHANGED <<idleTimeout, lapsed>>
          \/ UNCHANGED closing /\ ArmIdle(Tail(hostQueue))
     ELSE hostQueue' = Tail(hostQueue) /\ UNCHANGED <<closing, idleTimeout, lapsed>>
  /\ commands' = Outdate([commands EXCEPT ![i] = FreeSlot])
  /\ OutdateHeld
  /\ UNCHANGED connected

CommandDone ==
  \E i \in Slot:
    /\ HostHead(Done(i))
    /\ \/ DisconnectAfter(i)
       \/ /\ ~(commands[i].disconnectAfter /\ commands[i].generation = generation)
          /\ commands' = [commands EXCEPT ![i] = FreeSlot]
          /\ IF /\ commands[i].kind = "command"
                /\ commands[i].generation = generation
                /\ connected
             THEN ArmIdle(Tail(hostQueue))
             ELSE hostQueue' = Tail(hostQueue) /\ UNCHANGED <<idleTimeout, lapsed>>
          /\ UNCHANGED <<generation, connected, subscribed, closing, held>>
    /\ UNCHANGED <<displayQueue, txVars, pc, current, sends>>

(* mutant of Expire: a refused terminate is not tried again *)
ExpireOnce ==
  /\ HostHead(IdleTimeoutEvent)
  /\ hostQueue' = Tail(hostQueue)
  /\ IF FreeSlots # Slot
     THEN idleTimeout' = "armed" /\ UNCHANGED <<displayQueue, closing>>
     ELSE /\ displayQueue' = Put(displayQueue, IdleAbortEvent)
          /\ UNCHANGED idleTimeout
          /\ IF connected THEN closing' \in {TRUE, closing} ELSE UNCHANGED closing
  /\ UNCHANGED <<generation, connected, subscribed, lapsed, commands, txVars, workerVars>>

(* expire: the idle callout.  A terminate the stack refuses is tried again. *)
Expire ==
  /\ HostHead(IdleTimeoutEvent)
  /\ hostQueue' = Tail(hostQueue)
  /\ IF FreeSlots # Slot
     THEN idleTimeout' = "armed" /\ UNCHANGED <<displayQueue, closing>>
     ELSE /\ displayQueue' = Put(displayQueue, IdleAbortEvent)
          /\ IF connected
             THEN \/ closing' = TRUE /\ UNCHANGED idleTimeout
                  \/ idleTimeout' = "armed" /\ UNCHANGED closing
             ELSE UNCHANGED <<closing, idleTimeout>>
  /\ UNCHANGED <<generation, connected, subscribed, lapsed, commands, txVars, workerVars>>

(* The callouts fire into the host's queue. *)
IdleFires == /\ idleTimeout = "armed"
             /\ idleTimeout' = "off"
             /\ hostQueue' = Put(hostQueue, IdleTimeoutEvent)
             /\ UNCHANGED <<linkVars, commands, displayQueue, txVars, workerVars>>

TxRetryFires == /\ txRetry = "armed"
                /\ txRetry' = "off"
                /\ hostQueue' = Put(hostQueue, TxRetryEvent)
                /\ UNCHANGED <<linkVars, commands, displayQueue, idleTimeout, tx, finished,
                               workerVars>>

-----------------------------------------------------------------------------
(***************************************************************************)
(* Display task.                                                           *)
(***************************************************************************)
MayRun == HostFirst => hostQueue = <<>>

Clear(ks) == held' = [k \in Component |-> IF k \in ks THEN "none" ELSE held[k]]

(* run_events takes the next event of the display queue. *)
TakeWork ==
  /\ MayRun /\ pc = "queue"
  /\ \E i \in Slot: /\ displayQueue # <<>> /\ Head(displayQueue) = Work(i)
                    /\ current' = i
  /\ displayQueue' = Tail(displayQueue)
  /\ pc' = "check"
  /\ UNCHANGED <<linkVars, commands, hostQueue, idleTimeout, txVars, sends, held>>

(* mutant of AbortWork: the config upload is forgotten *)
AbortWorkKeepsStaging ==
  /\ MayRun /\ pc = "queue"
  /\ displayQueue # <<>> /\ Head(displayQueue) = AbortEvent
  /\ displayQueue' = Tail(displayQueue)
  /\ Clear({"transfer", "auth"})
  /\ UNCHANGED <<linkVars, commands, hostQueue, idleTimeout, txVars, pc, current, sends>>

AbortWork ==
  /\ MayRun /\ pc = "queue"
  /\ displayQueue # <<>> /\ Head(displayQueue) = AbortEvent
  /\ displayQueue' = Tail(displayQueue)
  /\ Clear(Component)
  /\ UNCHANGED <<linkVars, commands, hostQueue, idleTimeout, txVars, pc, current, sends>>

IdleAbortWork ==
  /\ MayRun /\ pc = "queue"
  /\ displayQueue # <<>> /\ Head(displayQueue) = IdleAbortEvent
  /\ displayQueue' = Tail(displayQueue)
  /\ Clear({"transfer", "staging"})
  /\ UNCHANGED <<linkVars, commands, hostQueue, idleTimeout, txVars, pc, current, sends>>

Finish == /\ hostQueue' = Put(hostQueue, Done(current))
          /\ pc' = "queue" /\ current' = None /\ sends' = 0

(* command_work up to the execution of the command: a telemetry sample is
   taken at once, a stale command only aborts, the first command after the
   transfer's deadline ends the transfer instead of being executed. *)
CheckTelemetry ==
  /\ MayRun /\ pc = "check" /\ commands[current].kind = "telemetry"
  /\ Finish
  /\ UNCHANGED <<linkVars, commands, displayQueue, idleTimeout, txVars, held>>

(* mutant of CheckStale: an early return that does not queue "done" *)
CheckStaleReturns ==
  /\ MayRun /\ pc = "check" /\ commands[current].kind = "command"
  /\ commands[current].generation # generation
  /\ Clear({"transfer"})
  /\ pc' = "queue" /\ current' = None
  /\ UNCHANGED <<linkVars, commands, displayQueue, hostQueue, idleTimeout, txVars, sends>>

CheckStale ==
  /\ MayRun /\ pc = "check" /\ commands[current].kind = "command"
  /\ commands[current].generation # generation
  /\ Clear({"transfer"})
  /\ Finish
  /\ UNCHANGED <<linkVars, commands, displayQueue, idleTimeout, txVars>>

(* mutant of CheckExpired: the "goto done" is missing *)
CheckExpiredGoesOn ==
  /\ MayRun /\ pc = "check" /\ commands[current].kind = "command"
  /\ commands[current].generation = generation
  /\ held["transfer"] # "none"
  /\ Clear(Component)
  /\ commands' = [commands EXCEPT ![current].disconnectAfter = TRUE]
  /\ pc' = "run"
  /\ UNCHANGED <<linkVars, displayQueue, hostQueue, idleTimeout, txVars, current, sends>>

CheckExpired ==
  /\ MayRun /\ pc = "check" /\ commands[current].kind = "command"
  /\ commands[current].generation = generation
  /\ held["transfer"] # "none" \* and its 15 minutes are over
  /\ Clear(Component)
  /\ commands' = [commands EXCEPT ![current].disconnectAfter = TRUE]
  /\ Finish
  /\ UNCHANGED <<linkVars, displayQueue, idleTimeout, txVars>>

CheckOk ==
  /\ MayRun /\ pc = "check" /\ commands[current].kind = "command"
  /\ commands[current].generation = generation
  /\ pc' = "run"
  /\ UNCHANGED <<linkVars, commands, displayQueue, hostQueue, idleTimeout, txVars,
                 current, sends, held>>

(* od_secure_command changes the session: it starts or ends a transfer or a
   config upload, authenticates, loses the authentication.  By then the link
   may be another one. *)
Execute ==
  /\ MayRun /\ pc = "run"
  /\ \E k \in Component:
       \/ held' = [held EXCEPT ![k] = IF commands[current].mine THEN "mine" ELSE "foreign"]
       \/ held' = [held EXCEPT ![k] = "none"]
  /\ UNCHANGED <<linkVars, commands, displayQueue, hostQueue, idleTimeout, txVars,
                 pc, current, sends>>

(* send_response *)
SendResponse ==
  /\ MayRun /\ pc = "run" /\ sends < MaxSends
  /\ tx' = [tx EXCEPT !.generation = commands[current].generation, !.retries = 0]
  /\ hostQueue' = Put(hostQueue, TxEvent)
  /\ pc' = "wait" /\ sends' = sends + 1
  /\ UNCHANGED <<linkVars, commands, displayQueue, idleTimeout, finished, txRetry, current, held>>

(* os_sem_pend returns.  A response that was not delivered ends the command,
   and the transfer or the authentication it belonged to. *)
ResponseSent ==
  /\ MayRun /\ pc = "wait" /\ finished > 0
  /\ finished' = finished - 1
  /\ IF tx.result = "ok"
     THEN pc' = "run" /\ UNCHANGED <<current, hostQueue, sends, held>>
     ELSE /\ \E ks \in SUBSET {"transfer", "auth"}: Clear(ks)
          /\ Finish
  /\ tx' = IdleTx
  /\ UNCHANGED <<linkVars, commands, displayQueue, idleTimeout, txRetry>>

CommandEnds ==
  /\ MayRun /\ pc = "run"
  /\ Finish
  /\ UNCHANGED <<linkVars, commands, displayQueue, idleTimeout, txVars, held>>

-----------------------------------------------------------------------------
Init ==
  /\ generation = Min(Generation)
  /\ connected = FALSE /\ subscribed = FALSE /\ closing = FALSE /\ lapsed = FALSE
  /\ commands = [i \in Slot |-> FreeSlot]
  /\ displayQueue = <<>> /\ hostQueue = <<>>
  /\ idleTimeout = "off" /\ txRetry = "off"
  /\ tx = IdleTx
  /\ finished = 0
  /\ pc = "queue" /\ current = None /\ sends = 0
  /\ held = [k \in Component |-> "none"]

Client == Connect \/ ResetLink \/ Subscribe \/ Unsubscribe \/ AccessValue
HostStep == Notify \/ CommandDone \/ Expire
Timers == IdleFires \/ TxRetryFires
Leave == CheckTelemetry \/ CheckStale \/ CheckExpired \/ CheckOk
         \/ SendResponse \/ ResponseSent \/ CommandEnds
Dequeue == TakeWork \/ AbortWork \/ IdleAbortWork
Worker == Dequeue \/ Leave \/ Execute

Next == Client \/ SampleTelemetry \/ HostStep \/ Timers \/ Worker

Spec == Init /\ [][Next]_vars

(* The host task handles its events.  The display task gets the processor
   again and again, because the host task sleeps between events: that is
   strong fairness, its steps need not stay enabled under HostFirst. *)
FairSpec == Spec /\ WF_vars(HostStep) /\ WF_vars(TxRetryFires)
                 /\ SF_vars(Dequeue) /\ SF_vars(Leave)

-----------------------------------------------------------------------------
Events == {Work(i) : i \in Slot} \cup {Done(i) : i \in Slot}
            \cup {AbortEvent, IdleAbortEvent, TxEvent, TxRetryEvent, IdleTimeoutEvent}

(* Types; no event is queued twice. *)
TypeOK ==
  /\ generation \in Generation
  /\ connected \in BOOLEAN /\ subscribed \in BOOLEAN /\ closing \in BOOLEAN /\ lapsed \in BOOLEAN
  /\ commands \in [Slot -> [used : BOOLEAN, kind : {"command", "telemetry"}, mine : BOOLEAN,
                            generation : Generation, disconnectAfter : BOOLEAN]]
  /\ \A q \in {displayQueue, hostQueue}: q \in Seq(Events) /\ IsInjective(q)
  /\ idleTimeout \in {"off", "armed"} /\ txRetry \in {"off", "armed"}
  /\ tx \in [generation : Generation, retries : 0..MaxRetries,
             result : {"ok", "busy", "failed", "notConnected"}]
  /\ finished \in 0..1
  /\ pc \in {"queue", "check", "run", "wait"}
  /\ current \in Slot \cup {None}
  /\ sends \in 0..MaxSends
  /\ held \in [Component -> Owner]

Holders(i) == {h \in {"displayQueue", "worker", "hostQueue"}:
                 CASE h = "displayQueue" -> Contains(displayQueue, Work(i))
                   [] h = "worker"       -> current = i
                   [] h = "hostQueue"    -> Contains(hostQueue, Done(i))}

(* A slot in use is in exactly one place: waiting for the display task, being
   executed, or waiting to be freed; so none is lost, freed while it is
   executed or overwritten by the next write (main.c:85-148, 203-217). *)
SlotAccounting == \A i \in Slot: Cardinality(Holders(i)) = IF commands[i].used THEN 1 ELSE 0

(* One send is under way exactly while the display task waits for it: the
   semaphore never holds a token a later send would take for its own
   (main.c:56-84). *)
TokenDiscipline ==
  finished + Cardinality({e \in {TxEvent, TxRetryEvent}: Contains(hostQueue, e)})
           + (IF txRetry = "armed" THEN 1 ELSE 0)
    = IF pc = "wait" THEN 1 ELSE 0

(* A command never runs on session state that an earlier connection or
   subscription left behind: a half-done transfer, a half-received config, an
   authentication (main.c:149-153, 298-304, 325-332). *)
NoForeignSession ==
  (pc = "run" /\ commands[current].mine) => \A k \in Component: held[k] # "foreign"

(* A response is delivered only to the subscription that asked for it. *)
NoStaleReply ==
  [][(finished' > finished /\ tx'.result = "ok") =>
        pc = "wait" /\ commands[current].mine /\ subscribed]_vars

(* No command queued behind an expired transfer is executed before the link
   is dropped (main.c:98-100). *)
ExpiredDropsQueue ==
  pc = "run" => ~\E i \in Slot: /\ commands[i].used /\ commands[i].disconnectAfter
                               /\ commands[i].generation = generation

(* A connected link always has an end in sight: the idle callout runs, or a
   command is under way that will start it again
   (docs/protocol-coverage.md:94). *)
IdleDeadline ==
  (connected /\ ~closing) => \/ idleTimeout = "armed"
                             \/ Contains(hostQueue, IdleTimeoutEvent)
                             \/ \E i \in Slot: commands[i].used

(* It has one except after notifications were disabled under a running
   command. *)
IdleKept == lapsed \/ IdleDeadline

(* Every accepted command is eventually answered or dropped, and its slot
   freed. *)
SlotFreed == \A i \in Slot: commands[i].used ~> ~commands[i].used

(* What a lost subscription left behind is eventually cleared, and with it the
   panel's power. *)
ForeignCleared == \A k \in Component: held[k] = "foreign" ~> held[k] = "none"
=============================================================================

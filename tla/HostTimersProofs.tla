-------------------------- MODULE HostTimersProofs --------------------------
(***************************************************************************)
(* Theorems about Advertising and HostTimers, for any times and any data:  *)
(* the tag stays reachable, fast advertising is bounded and what is on the *)
(* air is current; HostTimers implements Advertising, so all of this holds *)
(* with the connection's timers, too; and a transfer ends at its deadline  *)
(* and not before.                                                         *)
(***************************************************************************)
EXTENDS HostTimers, FiniteSetTheorems, TLAPS

-----------------------------------------------------------------------------
(* The remainder: a number is a multiple of M and a rest below M, in only one
   way. *)
LEMMA ModRest ==
  ASSUME NEW M \in Nat \ {0}, NEW a \in Int
  PROVE  a \div M \in Int /\ (a % M) \in 0..M - 1 /\ a = M * (a \div M) + (a % M)
OBVIOUS

LEMMA NextMultiple ==
  ASSUME NEW M \in Nat \ {0}, NEW p \in Int, NEW q \in Int, p < q
  PROVE  M * p + M <= M * q
<1>1. q - p - 1 >= 0
  OBVIOUS
<1>2. M * (q - p - 1) >= 0
  BY <1>1
<1>3. M * (q - p - 1) = M * q - M * p - M
  OBVIOUS
<1> QED BY <1>2, <1>3

LEMMA ModUnique ==
  ASSUME NEW M \in Nat \ {0}, NEW a \in Int, NEW q \in Int, NEW r \in 0..M - 1, a = M * q + r
  PROVE  a % M = r
<1> DEFINE p == a \div M
<1>1. p \in Int /\ (a % M) \in 0..M - 1 /\ a = M * p + (a % M)
  BY ModRest
<1> HIDE DEF p
<1>2. M * q \in Int /\ M * p \in Int
  BY <1>1
<1>3. ~(p < q)
  <2>1. p < q => M * p + M <= M * q
    BY <1>1, NextMultiple
  <2> QED BY <1>1, <1>2, <2>1
<1>4. ~(q < p)
  <2>1. q < p => M * q + M <= M * p
    BY <1>1, NextMultiple
  <2> QED BY <1>1, <1>2, <2>1
<1>5. p = q
  BY <1>1, <1>3, <1>4
<1> QED BY <1>1, <1>2, <1>5

(* A multiple of M changes nothing. *)
LEMMA ModShift ==
  ASSUME NEW M \in Nat \ {0}, NEW a \in Int, NEW k \in Int, NEW b \in Int, b = a + M * k
  PROVE  b % M = a % M
<1> DEFINE p == a \div M
<1>1. p \in Int /\ (a % M) \in 0..M - 1 /\ a = M * p + (a % M)
  BY ModRest
<1> HIDE DEF p
<1>2. M * p \in Int /\ M * k \in Int /\ p + k \in Int /\ M * (p + k) = M * p + M * k
  BY <1>1
<1>3. b = M * (p + k) + (a % M)
  BY <1>1, <1>2
<1> QED BY <1>1, <1>2, <1>3, ModUnique

LEMMA ModSmall ==
  ASSUME NEW M \in Nat \ {0}, NEW r \in 0..M - 1
  PROVE  r % M = r
OBVIOUS

(* Sums and differences of remainders. *)
LEMMA ModAdd ==
  ASSUME NEW M \in Nat \ {0}, NEW a \in Int, NEW b \in Int
  PROVE  ((a % M) + b) % M = (a + b) % M
<1> DEFINE p == a \div M
           c == a % M
<1>1. p \in Int /\ c \in 0..M - 1 /\ a = M * p + c
  BY ModRest
<1> HIDE DEF p, c
<1>2. M * p \in Int /\ c + b \in Int /\ a + b \in Int /\ a + b = (c + b) + M * p
  BY <1>1
<1>3. (a + b) % M = (c + b) % M
  <2>1. \A x, y \in Int: y = x + M * p => y % M = x % M
    BY <1>1, ModShift
  <2> QED BY <1>2, <2>1
<1> QED BY <1>3 DEF c

LEMMA ModSub ==
  ASSUME NEW M \in Nat \ {0}, NEW a \in Int, NEW b \in Int
  PROVE  ((a % M) - (b % M)) % M = (a - b) % M
<1> DEFINE p == b \div M
           c == b % M
           d == a % M
<1>1. p \in Int /\ c \in 0..M - 1 /\ b = M * p + c /\ d \in 0..M - 1
  BY ModRest
<1>2. (d + (-c)) % M = (a + (-c)) % M
  <2>1. -c \in Int
    BY <1>1
  <2> QED BY <2>1, ModAdd
<1> HIDE DEF p, c, d
<1>3. M * p \in Int /\ a - c \in Int /\ a - b \in Int /\ a - c = (a - b) + M * p
  BY <1>1
<1>4. (a - c) % M = (a - b) % M
  <2>1. \A x, y \in Int: y = x + M * p => y % M = x % M
    BY <1>1, ModShift
  <2> QED BY <1>3, <2>1
<1>5. d - c = d + (-c) /\ a - c = a + (-c)
  BY <1>1
<1>6. (d - c) % M = (a - b) % M
  BY <1>2, <1>4, <1>5
<1> QED BY <1>6 DEF c, d

Working == /\ working \subseteq {"telemetry"} \cup Commands
           /\ Cardinality(working) <= 2

RadioTypes == /\ synced \in BOOLEAN /\ connected \in BOOLEAN /\ slowAdvertising \in BOOLEAN
              /\ adv \in {"off", "fast", "slow"}
              /\ fastFor \in 0..SlowTime /\ stopRefused \in BOOLEAN
              /\ advRetry \in {Off} \cup 0..SlowTime
              /\ msd \in Data /\ aired \in Data /\ airedRefused \in BOOLEAN

(* Nothing is on the air without a controller or with a connection. *)
AirFree == /\ connected => synced /\ adv = "off"
           /\ adv # "off" => synced

(* What is left of the 30 seconds is on the callout. *)
FastLeft == (adv = "fast" /\ ~stopRefused) =>
              ~slowAdvertising /\ advRetry # Off /\ fastFor + advRetry <= FastTime

(* Only a command under way can have changed msd since it was copied. *)
Copied == (adv # "off" /\ working \cap Commands = {} /\ ~airedRefused) => aired = msd

IInv == RadioTypes /\ Working /\ AirFree /\ StaysReachable /\ FastLeft /\ Copied

-----------------------------------------------------------------------------
LEMMA InitHolds == Init => IInv
<1> SUFFICES ASSUME Init PROVE IInv
  OBVIOUS
<1>1. RadioTypes
  <2>1. /\ synced \in BOOLEAN /\ connected \in BOOLEAN /\ slowAdvertising \in BOOLEAN
        /\ stopRefused \in BOOLEAN /\ airedRefused \in BOOLEAN
    BY Zenon DEF Init
  <2>2. fastFor \in 0..SlowTime
    BY AdvertisingAssumption DEF AdvertisingAssumption, Init
  <2> QED BY <2>1, <2>2 DEF Init, RadioTypes
<1>2. Working
  BY FS_EmptySet DEF Init, Working, Commands
<1>3. AirFree /\ StaysReachable /\ FastLeft /\ Copied
  BY DEF Init, AirFree, StaysReachable, FastLeft, Copied
<1> QED
  BY <1>1, <1>2, <1>3 DEF IInv

(* What advertise does to the radio, whoever calls it; a caller on a tag
   without a connection that did not stop advertising found it off. *)
LEMMA AdvertiseKeeps ==
  ASSUME IInv, NEW m \in Data, NEW off \in BOOLEAN,
         connected' \in BOOLEAN, synced' \in BOOLEAN, slowAdvertising' \in BOOLEAN,
         AdvertiseWith(m, off, connected', synced', slowAdvertising'),
         off \/ adv = "off" \/ (synced' /\ ~connected'), connected' => synced'
  PROVE  RadioTypes' /\ AirFree' /\ StaysReachable' /\ FastLeft' /\ Copied'
<1> USE AdvertisingAssumption DEF AdvertisingAssumption, IInv, RadioTypes, AdvertiseWith, NotStarted, OnAir, StaysOnAir,
        Interval, Refresh, SetData, DataRefused, Off
<1>1. RadioTypes'
  <2>1. stopRefused' \in BOOLEAN /\ airedRefused' \in BOOLEAN
    BY Zenon
  <2>2. adv' \in {"off", "fast", "slow"} /\ fastFor' \in 0..SlowTime
    OBVIOUS
  <2>3. advRetry' \in {Off} \cup 0..SlowTime
    OBVIOUS
  <2>4. msd' \in Data /\ aired' \in Data
    OBVIOUS
  <2> QED BY <2>1, <2>2, <2>3, <2>4
<1>2. AirFree' BY DEF AirFree
<1>3. StaysReachable'
  <2>1. CASE connected' \/ ~synced'
    BY <2>1 DEF StaysReachable
  <2>2. CASE ~connected' /\ synced'
    BY <2>2 DEF StaysReachable
  <2> QED BY <2>1, <2>2
<1>4. FastLeft' BY DEF FastLeft
<1>5. Copied' BY DEF Copied
<1> QED BY <1>1, <1>2, <1>3, <1>4, <1>5

(* Steps that leave what is on the air alone, and do not stop the callout. *)
RadioKept == RadioTypes /\ AirFree /\ StaysReachable /\ FastLeft /\ Copied

-----------------------------------------------------------------------------
(* Slots. *)
LEMMA WorkingFinite == Working => IsFiniteSet(working)
<1> DEFINE one == {} \cup {"telemetry"}
           two == one \cup {"first"}
           three == two \cup {"second"}
<1>1. IsFiniteSet(one)
  BY FS_EmptySet, FS_AddElement
<1>2. IsFiniteSet(two)
  BY <1>1, FS_AddElement
<1>3. IsFiniteSet(three)
  BY <1>2, FS_AddElement
<1>4. Working => working \subseteq three
  BY DEF Working, Commands
<1> QED
  BY <1>3, <1>4, FS_Subset

LEMMA SampleKeeps ==
  ASSUME Working, SampleTelemetry PROVE Working' /\ working' \cap Commands = working \cap Commands
<1>1. CASE working = {}
  BY <1>1, FS_Singleton DEF SampleTelemetry, Working, Commands
<1>2. CASE working # {}
  BY <1>2 DEF SampleTelemetry, Working
<1> QED
  BY <1>1, <1>2

LEMMA OnSyncKeeps == ASSUME IInv, OnSync PROVE RadioKept'
<1>1. adv = "off" /\ ~connected /\ slowAdvertising \in BOOLEAN
  BY DEF OnSync, IInv, AirFree, RadioTypes
<1>2. synced' = TRUE /\ connected' = FALSE /\ slowAdvertising' = slowAdvertising
  BY <1>1, Zenon DEF OnSync, IInv, RadioTypes
<1>3. PICK m \in Data: AdvertiseWith(m, TRUE, connected', synced', slowAdvertising')
  BY <1>1, <1>2 DEF OnSync, AdvertiseWith
<1> QED
  BY <1>1, <1>2, <1>3, AdvertiseKeeps DEF RadioKept

LEMMA OnResetKeeps == ASSUME IInv, OnReset PROVE RadioKept'
<1>1. synced' = FALSE /\ connected' = FALSE /\ slowAdvertising' = (slowAdvertising /\ ~connected)
  BY DEF OnReset
<1>2. AdvertiseWith(msd, TRUE, connected', synced', slowAdvertising')
  BY <1>1 DEF OnReset, Advertise, AdvertiseWith
<1>3. msd \in Data /\ slowAdvertising' \in BOOLEAN
  BY <1>1, Zenon DEF IInv, RadioTypes
<1> QED
  BY <1>1, <1>2, <1>3, AdvertiseKeeps DEF RadioKept

LEMMA ConnectedKeeps == ASSUME IInv, Connected PROVE RadioKept'
<1> USE AdvertisingAssumption DEF AdvertisingAssumption, IInv, RadioTypes, Connected, OnAir,
        DataUnchanged, Off
<1>1. RadioTypes'
  <2>1. stopRefused' \in BOOLEAN /\ airedRefused' \in BOOLEAN /\ connected' \in BOOLEAN
        /\ synced' \in BOOLEAN /\ slowAdvertising' \in BOOLEAN
    BY Zenon
  <2>2. fastFor' \in 0..SlowTime
    OBVIOUS
  <2> QED BY <2>1, <2>2
<1>2. AirFree' BY DEF AirFree
<1>3. StaysReachable' BY DEF StaysReachable
<1>4. FastLeft' BY DEF FastLeft
<1>5. Copied' BY DEF Copied
<1> QED BY <1>1, <1>2, <1>3, <1>4, <1>5 DEF RadioKept

LEMMA ConnectFailedKeeps == ASSUME IInv, ConnectFailed PROVE RadioKept'
<1>1. synced' = synced /\ connected' = connected /\ slowAdvertising' = slowAdvertising
  BY DEF ConnectFailed
<1>2. AdvertiseWith(msd, TRUE, connected', synced', slowAdvertising')
  <2>1. AdvertiseWith(msd, TRUE, connected, synced, slowAdvertising)
    BY DEF ConnectFailed, Advertise
  <2> QED BY <1>1, <2>1, Zenon DEF AdvertiseWith
<1>3. /\ msd \in Data /\ (connected' => synced')
      /\ synced' \in BOOLEAN /\ connected' \in BOOLEAN /\ slowAdvertising' \in BOOLEAN
  BY <1>1, Zenon DEF IInv, RadioTypes, AirFree
<1>4. TRUE \in BOOLEAN /\ (TRUE \/ adv = "off" \/ (synced' /\ ~connected'))
  OBVIOUS
<1> QED
  BY <1>2, <1>3, <1>4, AdvertiseKeeps, Zenon DEF RadioKept

LEMMA DisconnectedKeeps == ASSUME IInv, Disconnected PROVE RadioKept'
<1>1. synced' = synced /\ connected' = FALSE /\ slowAdvertising' = FALSE
  BY DEF Disconnected
<1>2. adv = "off" /\ msd \in Data /\ synced' \in BOOLEAN
  BY <1>1 DEF IInv, RadioTypes, AirFree, Disconnected
<1>3. AdvertiseWith(msd, TRUE, connected', synced', slowAdvertising')
  <2>1. AdvertiseWith(msd, adv = "off", FALSE, synced, FALSE) /\ (adv = "off") = TRUE
    BY <1>2 DEF Disconnected, Advertise
  <2> QED BY <1>1, <2>1, Zenon DEF AdvertiseWith
<1> QED
  BY <1>1, <1>2, <1>3, AdvertiseKeeps DEF RadioKept

LEMMA RetryOnAirKeeps == ASSUME IInv, RetryOnAir PROVE RadioKept'
<1>1. /\ synced' = synced /\ connected' = connected /\ slowAdvertising' = TRUE
      /\ ~connected /\ synced /\ adv # "off" /\ advRetry = 0 /\ msd \in Data
  BY DEF RetryOnAir, IInv, AirFree, RadioTypes
<1>2. CASE AdvertiseWith(msd, TRUE, connected, synced, TRUE)
  <2>1. AdvertiseWith(msd, TRUE, connected', synced', slowAdvertising')
    BY <1>1, <1>2, Zenon DEF AdvertiseWith
  <2>2. connected' = FALSE /\ synced' = TRUE
    BY <1>1, Zenon DEF IInv, RadioTypes
  <2> QED
    BY <1>1, <2>1, <2>2, AdvertiseKeeps DEF RadioKept
<1>3. CASE ~AdvertiseWith(msd, TRUE, connected, synced, TRUE)
  <2>1. /\ adv' = adv /\ fastFor' = fastFor /\ DataUnchanged
        /\ slowAdvertising \/ stopRefused'
        /\ advRetry' \in {Second, SlowTime}
    BY <1>1, <1>3 DEF RetryOnAir, Advertise, StopRefused, StaysOnAir, AirUnchanged
  <2>2. stopRefused' \in BOOLEAN /\ (stopRefused => stopRefused')
    BY <1>1, <1>3, Zenon DEF RetryOnAir, Advertise, StopRefused, StaysOnAir, AirUnchanged
  <2>3. working' \cap Commands = working \cap Commands
    BY SampleKeeps DEF RetryOnAir, IInv
  <2> QED
    BY <1>1, <2>1, <2>2, <2>3, AdvertisingAssumption
    DEF AdvertisingAssumption, DataUnchanged, RadioKept, IInv, RadioTypes, AirFree, StaysReachable,
        FastLeft, Copied, Off
<1> QED
  BY <1>2, <1>3

LEMMA RetryOffAirKeeps == ASSUME IInv, RetryOffAir PROVE RadioKept'
<1>1. /\ synced' = synced /\ connected' = connected /\ slowAdvertising' = slowAdvertising
      /\ ~connected /\ adv = "off" /\ msd \in Data
      /\ synced' \in BOOLEAN /\ connected' \in BOOLEAN /\ slowAdvertising' \in BOOLEAN
  BY Zenon DEF RetryOffAir, IInv, RadioTypes
<1>2. CASE synced
  <2>1. AdvertiseWith(msd, TRUE, connected', synced', slowAdvertising')
    <3>1. AdvertiseWith(msd, TRUE, FALSE, TRUE, slowAdvertising)
      BY <1>2 DEF RetryOffAir, Advertise
    <3>2. connected' = FALSE /\ synced' = TRUE
      BY <1>1, <1>2, Zenon DEF IInv, RadioTypes
    <3> QED BY <1>1, <3>1, <3>2, Zenon DEF AdvertiseWith
  <2> QED
    BY <1>1, <1>2, <2>1, AdvertiseKeeps DEF RadioKept
<1>3. CASE ~synced
  <2>1. /\ adv' = "off" /\ ~synced' /\ ~connected' /\ advRetry' = Off /\ fastFor' = fastFor
        /\ DataUnchanged
    BY <1>1, <1>3 DEF RetryOffAir, AirUnchanged, StaysOnAir
  <2>2. stopRefused' \in BOOLEAN
    BY <1>3, Zenon DEF RetryOffAir, AirUnchanged, StaysOnAir
  <2> QED
    BY <1>1, <2>1, <2>2 DEF DataUnchanged, RadioKept, IInv, RadioTypes, AirFree, StaysReachable,
       FastLeft, Copied
<1> QED
  BY <1>2, <1>3

LEMMA StartsKeeps ==
  ASSUME IInv, NEW kind \in Commands, CommandStarts(kind) PROVE RadioKept'
<1> USE DEF IInv, CommandStarts, DataUnchanged, AirUnchanged, StaysOnAir
<1>1. stopRefused' = stopRefused
  BY Zenon DEF RadioTypes
<1> QED
  BY <1>1 DEF RadioKept, RadioTypes, AirFree, StaysReachable, FastLeft, Copied, Off

LEMMA WritesKeeps == ASSUME IInv, CommandWrites PROVE RadioKept'
<1> USE DEF IInv, CommandWrites, AirUnchanged, StaysOnAir
<1>1. stopRefused' = stopRefused
  BY Zenon DEF RadioTypes
<1> QED
  BY <1>1 DEF RadioKept, RadioTypes, AirFree, StaysReachable, FastLeft, Copied, Off

LEMMA TickKeeps == ASSUME IInv, Tick PROVE RadioKept'
<1> USE AdvertisingAssumption DEF AdvertisingAssumption, IInv, Tick, DataUnchanged, RadioTypes, Off
<1>1. RadioTypes' OBVIOUS
<1>2. AirFree' BY DEF AirFree
<1>3. StaysReachable' BY DEF StaysReachable
<1>4. FastLeft' BY DEF FastLeft
<1>5. Copied' BY DEF Copied
<1> QED BY <1>1, <1>2, <1>3, <1>4, <1>5 DEF RadioKept

LEMMA DoneKeeps ==
  ASSUME IInv, NEW kind \in working, CommandDone(kind) PROVE RadioKept'
<1>1. /\ synced' = synced /\ connected' = connected /\ slowAdvertising' = slowAdvertising
      /\ working' = working \ {kind}
      /\ synced' \in BOOLEAN /\ connected' \in BOOLEAN /\ slowAdvertising' \in BOOLEAN
  BY Zenon DEF CommandDone, IInv, RadioTypes
<1>2. CASE kind = "telemetry"
  <2>1. TelemetryDone
    BY <1>2 DEF CommandDone
  <2>2. stopRefused' = stopRefused /\ airedRefused' \in BOOLEAN
    BY <2>1, Zenon DEF TelemetryDone, AirUnchanged, StaysOnAir, IInv, RadioTypes, DataUnchanged,
       SetData, DataRefused
  <2>3. working' \cap Commands = working \cap Commands
    BY <1>1, <1>2 DEF Commands
  <2> QED
    BY <1>1, <2>1, <2>2, <2>3
    DEF TelemetryDone, AirUnchanged, StaysOnAir, DataUnchanged, SetData, DataRefused, IInv, RadioKept,
        RadioTypes, AirFree, StaysReachable, FastLeft, Copied, Off
<1>3. CASE kind # "telemetry" /\ Restarts(kind)
  <2>1. PICK off \in BOOLEAN: AdvertiseWith(msd, off, connected, synced, slowAdvertising)
    BY <1>3 DEF CommandDone, Advertise
  <2>2. AdvertiseWith(msd, off, connected', synced', slowAdvertising')
    BY <1>1, <2>1, Zenon DEF AdvertiseWith
  <2>3. synced' /\ ~connected' /\ msd \in Data
    BY <1>1, <1>3 DEF Restarts, IInv, AirFree, RadioTypes
  <2> QED
    BY <1>1, <2>2, <2>3, AdvertiseKeeps DEF RadioKept
<1>4. CASE kind # "telemetry" /\ ~Restarts(kind)
  <2>1. AirUnchanged /\ DataUnchanged /\ UNCHANGED advRetry
    BY <1>4 DEF CommandDone
  <2>2. stopRefused' = stopRefused
    BY <2>1, Zenon DEF AirUnchanged, StaysOnAir, IInv, RadioTypes
  <2>3. adv = "off"
    BY <1>4 DEF Restarts, IInv, Working, AirFree
  <2> QED
    BY <1>1, <2>1, <2>2, <2>3
    DEF AirUnchanged, StaysOnAir, DataUnchanged, IInv, RadioKept,
        RadioTypes, AirFree, StaysReachable, FastLeft, Copied, Off
<1> QED
  BY <1>2, <1>3, <1>4

LEMMA WorkingStep == ASSUME Working, Next PROVE Working'
<1>1. CASE OnSync \/ RetryOnAir
  BY <1>1, SampleKeeps DEF OnSync, RetryOnAir
<1>2. CASE OnReset \/ Connected \/ ConnectFailed \/ Disconnected \/ RetryOffAir \/ CommandWrites \/ Tick
  BY <1>2 DEF OnReset, Connected, ConnectFailed, Disconnected, RetryOffAir, CommandWrites, Tick, Working
<1>3. ASSUME NEW kind \in Commands, CommandStarts(kind) PROVE Working'
  <2>1. /\ IsFiniteSet(working) /\ kind \notin working /\ working' = working \cup {kind}
        /\ Cardinality(working) < 2
    BY <1>3, WorkingFinite DEF CommandStarts
  <2>2. Cardinality(working') = Cardinality(working) + 1 /\ Cardinality(working) \in Nat
    BY <2>1, FS_AddElement, FS_CardinalityType
  <2>3. working' \subseteq {"telemetry"} \cup Commands
    BY <1>3, <2>1 DEF Working
  <2>4. Cardinality(working') <= 2
    BY <2>1, <2>2
  <2> QED
    BY <2>3, <2>4 DEF Working
<1>4. ASSUME NEW kind \in working, CommandDone(kind) PROVE Working'
  <2>1. working' = working \ {kind} /\ IsFiniteSet(working)
    BY <1>4, WorkingFinite DEF CommandDone
  <2>2. Cardinality(working') = Cardinality(working) - 1 /\ Cardinality(working) \in Nat
    BY <2>1, FS_RemoveElement, FS_CardinalityType
  <2> QED
    BY <2>1, <2>2 DEF Working
<1> QED
  BY <1>1, <1>2, <1>3, <1>4 DEF Next, AdvertiseRetry

-----------------------------------------------------------------------------
LEMMA StepKeeps == ASSUME IInv, [Next]_vars PROVE IInv'
<1>1. CASE Next
  <2>1. Working'
    BY <1>1, WorkingStep DEF IInv
  <2>2. RadioKept'
    BY <1>1, OnSyncKeeps, OnResetKeeps, ConnectedKeeps, ConnectFailedKeeps, DisconnectedKeeps,
       RetryOnAirKeeps, RetryOffAirKeeps, StartsKeeps, WritesKeeps, DoneKeeps, TickKeeps
    DEF Next, AdvertiseRetry
  <2> QED
    BY <2>1, <2>2 DEF RadioKept, IInv
<1>2. CASE UNCHANGED vars
  BY <1>2 DEF vars, IInv, RadioTypes, Working, AirFree, StaysReachable, FastLeft, Copied
<1> QED
  BY <1>1, <1>2

(* The inductive invariant, over every run of the radio and its events. *)
THEOREM RadioInvariant == Spec => []IInv
<1> QED BY InitHolds, StepKeeps, PTL DEF Spec

(* The state of the radio keeps its types: no delay below zero or above the
   longest, no third command slot (main.c:29, 242-297). *)
THEOREM RadioTypesHold == Spec => []TypeOK
<1>1. IInv => TypeOK
  BY DEF IInv, RadioTypes, Working, TypeOK
<1> QED BY <1>1, RadioInvariant, PTL

(* A tag without a connection is on the air or tries again within a second,
   whatever the delays are and whatever the stack refuses (main.c:242-297). *)
THEOREM Reachable == Spec => []StaysReachable
<1>1. IInv => StaysReachable
  BY DEF IInv
<1> QED BY <1>1, RadioInvariant, PTL

(* Fast advertising is over after its 30 seconds, whatever restarts it, unless
   the stack refused to stop it (main.c:251-270). *)
THEOREM FastBounded == Spec => []FastWindow
<1>1. IInv => FastWindow
  BY AdvertisingAssumption
  DEF AdvertisingAssumption, IInv, RadioTypes, FastLeft, FastWindow, Off
<1> QED BY <1>1, RadioInvariant, PTL

(* The advertised data are those of msd once no command is under way, for any
   contents of msd and any interleaving with its writers (main.c:89-142). *)
THEOREM DataCurrent == Spec => []AdvertisedCurrent
<1>1. IInv => AdvertisedCurrent
  BY DEF IInv, Copied, AdvertisedCurrent
<1> QED BY <1>1, RadioInvariant, PTL

-----------------------------------------------------------------------------
LEMMA TimersStepAdvertises == ASSUME [TimersNext]_allVars PROVE [Next]_vars
<1> USE DEF Next, AdvertiseRetry
<1>1. CASE LinkUp \/ LinkDown \/ Unsubscribe
  BY <1>1 DEF LinkUp, LinkDown, Unsubscribe
<1>2. ASSUME NEW k \in Commands, Accept(k) \/ Finished(k) \/ Work(k) \/ CommandEnds(k)
      PROVE  [Next]_vars
  <2>1. CASE Accept(k)
    BY <2>1 DEF Accept
  <2>2. CASE Finished(k)
    BY <2>2 DEF Finished, CommandDone
  <2>3. CASE Work(k) \/ CommandEnds(k)
    BY <2>3 DEF Work, CommandEnds
  <2> QED
    BY <1>2, <2>1, <2>2, <2>3
<1>3. CASE ExpireBusy \/ ExpireIdle \/ AbortWork \/ Start \/ Started \/ Ends
  BY <1>3 DEF ExpireBusy, ExpireIdle, AbortWork, Start, Started, Ends
<1>4. CASE Writes \/ Time
  BY <1>4 DEF Writes, Time
<1>5. CASE Airs
  BY <1>5 DEF Airs, CommandDone
<1>6. CASE UNCHANGED allVars
  BY <1>6 DEF allVars
<1> QED
  BY <1>1, <1>2, <1>3, <1>4, <1>5, <1>6 DEF TimersNext

(* The timers of the connection do nothing to the radio that Advertising does
   not allow: with them, too, the radio behaves as Advertising says. *)
THEOREM TimersAdvertise == TimersSpec => Spec
<1>1. TimersInit => Init
  BY DEF TimersInit
<1> QED BY <1>1, TimersStepAdvertises, PTL DEF TimersSpec, Spec

(* So a tag whose connection was dropped by its idle or its transfer deadline
   is on the air again, soon and for as long as it should be, with what msd
   holds (main.c:89-114, 158-170, 242-297). *)
THEOREM TimersReachable == TimersSpec => [](StaysReachable /\ FastWindow /\ AdvertisedCurrent)
<1> QED BY TimersAdvertise, Reachable, FastBounded, DataCurrent, PTL

-----------------------------------------------------------------------------
(***************************************************************************)
(* The end of a transfer.                                                  *)
(***************************************************************************)
TimerTypes ==
  /\ stage \in [Commands -> {"free", "queued", "running", "done"}]
  /\ mine \subseteq Commands /\ expired \subseteq Commands
  /\ transfer \in {"none", "starting", "active"}
  /\ startTick \in 0..Wrap - 1 /\ age \in 0..MaxAge
  /\ aborting \in BOOLEAN /\ idle \in Nat \cup {Off} /\ quiet \in Nat
  /\ late \in BOOLEAN /\ overtime \in Nat

SlotInv == /\ \A k \in Commands: stage[k] # "free" <=> k \in working
           /\ mine \subseteq working

(* Between the end of an expired transfer and its command_done nothing runs. *)
ExpiredInv == expired # {} => /\ transfer = "none" /\ Running = {}
                              /\ \A k \in expired: stage[k] = "done"

(* A command of an earlier generation runs only with an abort behind it. *)
RunningInv == /\ aborting \/ Running \subseteq mine
              /\ transfer = "starting" => Running # {}

ApartInv == ~connected => mine = {} /\ idle = Off

(* When the idle callout fires a command runs, or none is there. *)
DueInv == idle = 0 => /\ "telemetry" \notin working /\ \A k \in Commands: stage[k] # "done"
                      /\ Running # {} \/ working = {}

(* A transfer is about to be aborted, in the hands of a command that will set
   the callout again, or the callout fires in time. *)
DeadlineInv == transfer # "none" =>
  \/ aborting
  \/ mine # {}
  \/ idle # Off /\ (age + idle <= TransferTicks + 1 \/ idle + overtime <= 1)

(* No command has begun on an overdue transfer; so once one is overdue without
   a command, nothing runs any more and the host has heard of the last one. *)
EndsInv == /\ ~late /\ overtime <= 1
           /\ overtime > 0 => /\ transfer = "active" /\ age > TransferTicks
                              /\ Running = {} /\ \A k \in Commands: stage[k] # "done"

TInv == /\ TimerTypes /\ SlotInv /\ ExpiredInv /\ RunningInv /\ ApartInv /\ DueInv
        /\ DeadlineInv /\ EndsInv

(***************************************************************************)
(* The arithmetic of od_millis: the time left is never more than the ticks *)
(* left, and a clock that wrapped leaves none.                             *)
(***************************************************************************)
LEMMA ElapsedTime ==
  ASSUME TimerTypes
  PROVE  /\ Elapsed \in Nat
         /\ 2 * Elapsed >= 5 * age - 1 \/ Elapsed >= TransferTime
<1> DEFINE x == startTick + age
           a == (x * 5) \div 2
           b == (startTick * 5) \div 2
           half == Wrap \div 2
<1>1. /\ Wrap \in Nat \ {0} /\ half \in Nat /\ Wrap = 2 * half /\ TransferTime <= half
      /\ startTick \in 0..Wrap - 1 /\ age \in Nat /\ age < Wrap
      /\ x \in Nat /\ a \in Nat /\ b \in Nat
      /\ 2 * (a - b) >= 5 * age - 1 /\ 0 <= a - b /\ a - b < half
      /\ TransferTime \in Nat
  BY TimersAssumption DEF TimersAssumption, TimerTypes
<1>0. /\ \A y, z \in Int: ((y % Wrap) - (z % Wrap)) % Wrap = (y - z) % Wrap
      /\ \A y, z, k \in Int: z = y + Wrap * k => z % Wrap = y % Wrap
  <2>1. Wrap \in Nat \ {0}
    BY <1>1
  <2> QED BY <2>1, ModSub, ModShift
<1>2. Elapsed \in Nat
  <2>1. \A y \in Int: y % Wrap \in Nat
    BY <1>1, ModRest
  <2>2. Now \in Nat /\ Millis(startTick) \in Nat
    BY <1>1, <2>1 DEF Now, Millis
  <2>3. (Now * 5) \div 2 \in Int
    BY <2>2
  <2>4. Millis(Now) \in Nat
    BY <2>1, <2>3 DEF Millis
  <2> QED BY <2>1, <2>2, <2>4 DEF Elapsed
<1>3. CASE x < Wrap
  <2>1. Now = x
    BY <1>1, <1>3, ModSmall DEF Now
  <2>2. Elapsed = ((a % Wrap) - (b % Wrap)) % Wrap
    BY <2>1 DEF Elapsed, Millis
  <2>0. a \in Int /\ b \in Int
    BY <1>1
  <2> HIDE DEF x, a, b, half
  <2>3. Elapsed = (a - b) % Wrap
    BY <1>0, <2>2, <2>0, Zenon
  <2>4. a - b \in 0..Wrap - 1
    BY <1>1
  <2>5. Elapsed = a - b
    BY <1>1, <2>3, <2>4, ModSmall
  <2> QED BY <1>1, <1>2, <2>5
<1>4. CASE x >= Wrap
  <2> DEFINE c == ((x - Wrap) * 5) \div 2
  <2>1. x - Wrap \in 0..Wrap - 1 /\ x \in Int /\ x = (x - Wrap) + Wrap * 1
    BY <1>1, <1>4
  <2>2. c \in Int /\ c = a - 5 * half
    BY <1>1, <1>4
  <2>3. Now = x - Wrap
    <3> HIDE DEF x
    <3>1. x % Wrap = (x - Wrap) % Wrap
      BY <1>0, <2>1
    <3>2. (x - Wrap) % Wrap = x - Wrap
      BY <1>1, <2>1, ModSmall
    <3> QED BY <3>1, <3>2 DEF Now, x
  <2>4. Elapsed = ((c % Wrap) - (b % Wrap)) % Wrap
    BY <2>3 DEF Elapsed, Millis
  <2>0. b \in Int
    BY <1>1
  <2> HIDE DEF x, a, b, c, half
  <2>5. Elapsed = (c - b) % Wrap
    BY <1>0, <2>2, <2>4, <2>0, Zenon
  <2>6. (a - b) + half \in Int /\ c - b \in Int /\ (a - b) + half = (c - b) + Wrap * 3
    BY <1>1, <2>2
  <2>7. ((a - b) + half) % Wrap = (c - b) % Wrap
    BY <1>0, <2>6
  <2>8. (a - b) + half \in 0..Wrap - 1
    BY <1>1
  <2>9. Elapsed = (a - b) + half
    BY <1>1, <2>5, <2>7, <2>8, ModSmall
  <2> QED BY <1>1, <1>2, <2>9
<1> QED BY <1>1, <1>3, <1>4

LEMMA TicksPositive ==
  ASSUME NEW ms \in Nat
  PROVE  TicksOf(ms) \in Nat \ {0}
BY DEF TicksOf

LEMMA DelayBound ==
  ASSUME TimerTypes
  PROVE  /\ Delay \in Nat \ {0}
         /\ transfer = "active" => age + Delay <= TransferTicks + 1 \/ Delay = 1
<1>1. /\ TransferTime \in Nat /\ IdleTime \in Nat /\ Wrap \in Nat
      /\ TransferTicks \in Nat /\ TransferTime * 2 = 5 * TransferTicks
      /\ age \in Nat
  BY TimersAssumption DEF TimersAssumption, TransferTicks, TimerTypes
<1>2. Elapsed \in Nat /\ (2 * Elapsed >= 5 * age - 1 \/ Elapsed >= TransferTime)
  BY ElapsedTime
<1>3. Remaining \in Nat
  BY <1>1, <1>2 DEF Remaining, NoLimit
<1>4. Smaller(Remaining, IdleTime) \in Nat /\ Smaller(Remaining, IdleTime) <= Remaining
  BY <1>1, <1>3 DEF Smaller
<1>5. Delay \in Nat \ {0}
  BY <1>4, TicksPositive DEF Delay
<1>6. ASSUME transfer = "active" PROVE age + Delay <= TransferTicks + 1 \/ Delay = 1
  <2> DEFINE ms == Smaller(Remaining, IdleTime)
  <2>1. Delay = (ms * 2) \div 5 + 1
    BY DEF Delay, TicksOf
  <2>2. ms \in Nat /\ ms <= Remaining
    BY <1>4
  <2> HIDE DEF ms
  <2>3. CASE Elapsed >= TransferTime
    <3>1. Remaining = 0
      BY <1>6, <2>3 DEF Remaining
    <3> QED BY <2>1, <2>2, <3>1
  <2>4. CASE Elapsed < TransferTime
    <3>1. Remaining = TransferTime - Elapsed
      BY <1>1, <1>2, <1>6, <2>4 DEF Remaining
    <3>2. ms * 2 <= 5 * (TransferTicks - age) + 1
      BY <1>1, <1>2, <2>2, <2>4, <3>1
    <3>3. (ms * 2) \div 5 <= TransferTicks - age
      BY <1>1, <2>2, <3>2
    <3> QED BY <1>1, <2>1, <2>2, <3>3
  <2> QED BY <1>1, <1>2, <2>3, <2>4
<1> QED BY <1>5, <1>6

(* A command that finds an overdue transfer finds it over, also on a clock that
   has wrapped. *)
LEMMA OverdueIsOver ==
  ASSUME TimerTypes, transfer = "active", age >= TransferTicks
  PROVE  Over
<1>1. /\ TransferTime \in Nat /\ TransferTicks \in Nat /\ TransferTime * 2 = 5 * TransferTicks
      /\ age \in Nat
  BY TimersAssumption DEF TimersAssumption, TransferTicks, TimerTypes
<1>2. Elapsed \in Nat /\ (2 * Elapsed >= 5 * age - 1 \/ Elapsed >= TransferTime)
  BY ElapsedTime
<1>3. Elapsed >= TransferTime
  BY <1>1, <1>2
<1> QED BY <1>3 DEF Over, Remaining

(***************************************************************************)
(* Every action keeps the deadline of a transfer.                          *)
(***************************************************************************)
LEMMA SlotState ==
  ASSUME Working, TimerTypes, SlotInv
  PROVE  (\A k \in Commands: stage[k] = "free") <=> working \cap Commands = {}
BY DEF SlotInv

(* Connections and subscriptions come and go. *)
LEMMA LinkKeepsDeadline ==
  ASSUME IInv, TInv, LinkUp \/ LinkDown \/ Unsubscribe
  PROVE  TInv'
<1> USE DEF TInv
<1>1. CASE LinkUp
  <2>1. ~connected /\ connected' /\ UNCHANGED working
    BY <1>1 DEF LinkUp, Connected, IInv, AirFree
  <2>2. /\ mine' = {} /\ mine = {} /\ idle = Off /\ idle' \in Nat \ {0} /\ quiet' = 0
        /\ UNCHANGED <<stage, expired, transfer, startTick, age, aborting, late, overtime>>
    BY <1>1, <2>1, TicksPositive, TimersAssumption
       DEF LinkUp, ApartInv, TimersAssumption, TransferUnchanged
  <2>3. TimerTypes'
    BY <2>2 DEF TimerTypes
  <2>4. SlotInv' /\ ExpiredInv' /\ RunningInv'
    BY <2>1, <2>2 DEF SlotInv, ExpiredInv, RunningInv, Running
  <2>5. ApartInv' /\ DueInv'
    BY <2>1, <2>2 DEF ApartInv, DueInv
  <2>6. DeadlineInv'
    BY <2>2 DEF DeadlineInv
  <2>7. EndsInv'
    BY <2>2 DEF EndsInv, Running, TransferTicks
  <2> QED BY <2>3, <2>4, <2>5, <2>6, <2>7
<1>2. CASE LinkDown
  <2>1. /\ mine' = {} /\ idle' = Off /\ aborting' = TRUE
        /\ UNCHANGED <<stage, expired, transfer, startTick, age, quiet, late, overtime>>
    BY <1>2 DEF LinkDown, ResetLink, SlotsUnchanged, TransferUnchanged
  <2>2. UNCHANGED working
    BY <1>2 DEF LinkDown, OnReset, Disconnected
  <2>3. TimerTypes'
    BY <2>1 DEF TimerTypes
  <2>4. SlotInv' /\ ExpiredInv' /\ RunningInv'
    BY <2>1, <2>2 DEF SlotInv, ExpiredInv, RunningInv, Running
  <2>5. ApartInv' /\ DueInv' /\ DeadlineInv'
    BY <2>1 DEF ApartInv, DueInv, DeadlineInv, Off
  <2>6. EndsInv'
    BY <2>1, <2>2 DEF EndsInv, Running, TransferTicks
  <2> QED BY <2>3, <2>4, <2>5, <2>6
<1>3. CASE Unsubscribe
  <2>1. /\ mine' = {} /\ aborting' = TRUE /\ connected' = connected
        /\ UNCHANGED <<stage, expired, transfer, startTick, age, quiet, idle, working, late, overtime>>
    BY <1>3 DEF Unsubscribe, SlotsUnchanged, TransferUnchanged, vars
  <2>2. TimerTypes'
    BY <2>1 DEF TimerTypes
  <2>3. SlotInv' /\ ExpiredInv' /\ RunningInv'
    BY <2>1 DEF SlotInv, ExpiredInv, RunningInv, Running
  <2>4. ApartInv' /\ DueInv' /\ DeadlineInv' /\ EndsInv'
    BY <2>1 DEF ApartInv, DueInv, DeadlineInv, EndsInv, Running, TransferTicks
  <2> QED BY <2>2, <2>3, <2>4
<1> QED BY <1>1, <1>2, <1>3

(* A command comes, and the host hears of its end. *)
LEMMA CommandKeepsDeadline ==
  ASSUME IInv, TInv, NEW k \in Commands, Accept(k) \/ Finished(k)
  PROVE  TInv'
<1> USE DEF TInv
<1>1. CASE Accept(k)
  <2>1. /\ connected /\ connected' = connected /\ k \notin working /\ working' = working \cup {k}
        /\ stage' = [stage EXCEPT ![k] = "queued"] /\ mine' = mine \cup {k}
        /\ idle' = Off /\ quiet' = 0
        /\ UNCHANGED <<transfer, startTick, age, expired, aborting, late, overtime>>
    BY <1>1 DEF Accept, CommandStarts, TransferUnchanged
  <2>2. \A j \in Commands: stage'[j] = IF j = k THEN "queued" ELSE stage[j]
    BY <2>1 DEF TimerTypes
  <2>3. TimerTypes'
    BY <2>1 DEF TimerTypes
  <2>4. SlotInv' /\ stage[k] = "free"
    BY <2>1, <2>2 DEF SlotInv
  <2>5. Running' = Running
    BY <2>2, <2>4 DEF Running
  <2>6. ExpiredInv' /\ RunningInv'
    BY <2>1, <2>2, <2>4, <2>5 DEF ExpiredInv, RunningInv, TimerTypes
  <2>7. ApartInv' /\ DueInv' /\ DeadlineInv'
    BY <2>1 DEF ApartInv, DueInv, DeadlineInv, Off
  <2>8. EndsInv'
    BY <2>1, <2>2, <2>5 DEF EndsInv, TransferTicks
  <2> QED BY <2>3, <2>4, <2>6, <2>7, <2>8
<1>2. CASE Finished(k)
  <2>1. /\ stage[k] = "done" /\ connected' = connected /\ working' = working \ {k}
        /\ stage' = [stage EXCEPT ![k] = "free"] /\ expired' = expired \ {k}
        /\ quiet' = 0 /\ UNCHANGED <<transfer, startTick, age, aborting, late, overtime>>
        /\ IF k \in expired \cap mine THEN mine' = {} /\ idle' \in {idle, Second}
           ELSE mine' = mine \ {k} /\ idle' = IF k \in mine THEN Delay ELSE idle
    BY <1>2 DEF Finished, CommandDone, TransferUnchanged, Drop
  <2>2. \A j \in Commands: stage'[j] = IF j = k THEN "free" ELSE stage[j]
    BY <2>1 DEF TimerTypes
  <2>3. Delay \in Nat \ {0}
        /\ (transfer = "active" => age + Delay <= TransferTicks + 1 \/ Delay = 1)
    BY DelayBound
  <2>4. idle # 0
    BY <2>1 DEF DueInv
  <2>5. idle' # 0 /\ idle' \in Nat \cup {Off}
    BY <2>1, <2>3, <2>4, AdvertisingAssumption DEF AdvertisingAssumption, TimerTypes
  <2>6. TimerTypes'
    <3>1. mine' \subseteq Commands /\ expired' \subseteq Commands
      BY <2>1 DEF TimerTypes
    <3>2. stage' \in [Commands -> {"free", "queued", "running", "done"}]
      BY <2>1 DEF TimerTypes
    <3> QED BY <2>1, <2>5, <3>1, <3>2 DEF TimerTypes
  <2>7. SlotInv' /\ mine' \subseteq mine \ {k}
    BY <2>1, <2>2 DEF SlotInv
  <2>8. Running' = Running /\ k \notin Running
    BY <2>1, <2>2 DEF Running
  <2>9. ExpiredInv'
    BY <2>1, <2>2, <2>8 DEF ExpiredInv, TimerTypes
  <2>10. RunningInv'
    <3>1. CASE k \in expired \cap mine
      BY <2>1, <2>8, <3>1 DEF RunningInv, ExpiredInv
    <3>2. CASE k \notin expired \cap mine
      BY <2>1, <2>8, <3>2 DEF RunningInv
    <3> QED BY <3>1, <3>2
  <2>11. ApartInv'
    BY <2>1, <2>7 DEF ApartInv
  <2>12. DueInv'
    BY <2>5 DEF DueInv
  <2>13. DeadlineInv'
    <3>1. CASE k \in expired \cap mine
      BY <2>1, <3>1 DEF DeadlineInv, ExpiredInv
    <3>2. CASE k \in mine \ expired
      <4>1. CASE transfer = "starting"
        <5>1. aborting \/ mine' # {}
          BY <2>1, <2>8, <3>2, <4>1 DEF RunningInv
        <5> QED BY <2>1, <5>1 DEF DeadlineInv
      <4>2. CASE transfer = "active"
        <5>1. idle' = Delay
          BY <2>1, <3>2
        <5>2. overtime = 0 \* the host has not heard of k yet
          BY <2>1 DEF EndsInv, TimerTypes
        <5>3. idle' # Off /\ (age' + idle' <= TransferTicks + 1 \/ idle' + overtime' <= 1)
          <6>1. TransferTicks' = TransferTicks /\ Off' = Off
            BY DEF TransferTicks, Off
          <6> QED BY <2>1, <2>3, <4>2, <5>1, <5>2 DEF Off
        <5> QED BY <5>3 DEF DeadlineInv, TransferTicks
      <4> QED BY <2>1, <4>1, <4>2 DEF DeadlineInv, TimerTypes
    <3>3. CASE k \notin mine
      <4>1. idle' = idle /\ mine' = mine
        BY <2>1, <3>3
      <4> QED BY <2>1, <4>1 DEF DeadlineInv, TimerTypes, Off, TransferTicks
    <3> QED BY <3>1, <3>2, <3>3
  <2>14. EndsInv'
    BY <2>1, <2>2, <2>8 DEF EndsInv, TransferTicks
  <2> QED BY <2>6, <2>7, <2>9, <2>10, <2>11, <2>12, <2>13, <2>14
<1> QED BY <1>1, <1>2

(* The idle callout fires. *)
LEMMA ExpireKeepsDeadline ==
  ASSUME IInv, TInv, ExpireBusy \/ ExpireIdle
  PROVE  TInv'
<1> USE DEF TInv
<1>1. /\ idle = 0 /\ idle' \in {Off, Second}
      /\ UNCHANGED <<stage, mine, expired, transfer, startTick, age, quiet, working, connected, late,
                     overtime>>
  BY DEF ExpireBusy, ExpireIdle, TransferUnchanged, SlotsUnchanged, vars
<1>2. idle' # 0 /\ idle' \in Nat \cup {Off}
  BY <1>1, AdvertisingAssumption DEF AdvertisingAssumption, Off
<1>3. aborting' \in BOOLEAN /\ (aborting => aborting')
  BY Zenon DEF ExpireBusy, ExpireIdle, TimerTypes
<1>4. TimerTypes'
  BY <1>1, <1>2, <1>3 DEF TimerTypes
<1>5. connected
  BY <1>1 DEF ApartInv, Off
<1>6. SlotInv' /\ ExpiredInv' /\ ApartInv'
  BY <1>1, <1>5 DEF SlotInv, ExpiredInv, ApartInv, Running
<1>7. RunningInv' /\ DueInv' /\ EndsInv'
  BY <1>1, <1>2, <1>3 DEF RunningInv, DueInv, EndsInv, Running, TransferTicks
<1>8. DeadlineInv'
  <2>1. CASE ExpireBusy
    <3>1. aborting \/ mine # {}
      BY <1>1, <2>1 DEF ExpireBusy, DueInv, RunningInv
    <3> QED BY <1>1, <1>3, <3>1 DEF DeadlineInv
  <2>2. CASE ExpireIdle
    BY <2>2 DEF ExpireIdle, DeadlineInv
  <2> QED BY <2>1, <2>2
<1> QED BY <1>4, <1>6, <1>7, <1>8

(* The display task works on the transfer. *)
LEMMA DisplayKeepsDeadline ==
  ASSUME IInv, TInv, AbortWork \/ Start \/ Started \/ Ends \/ Writes
  PROVE  TInv'
<1> USE DEF TInv
<1>1. /\ UNCHANGED <<stage, mine, expired, idle, quiet, working, connected>>
      /\ idle # 0
  BY DEF AbortWork, Start, Started, Ends, Writes, CommandWrites, SlotsUnchanged, vars, timerVars,
     HostIdle
<1>2. SlotInv' /\ ApartInv' /\ DueInv' /\ Running' = Running
  BY <1>1 DEF SlotInv, ApartInv, DueInv, Running
<1>3. \A k \in Running: k \in working \cap Commands
  BY DEF Running, SlotInv
<1>4. CASE AbortWork \/ Ends
  <2>1. transfer' = "none" /\ startTick' = 0 /\ age' = 0 /\ late' = FALSE /\ overtime' = 0
    BY <1>4 DEF AbortWork, Ends, NoTransfer, InTime
  <2>2. aborting' \in BOOLEAN /\ (aborting' \/ Running \subseteq mine)
    BY <1>4 DEF AbortWork, Ends, TimerTypes, RunningInv
  <2>3. TimerTypes'
    <3>1. 0 \in 0..Wrap - 1 /\ 0 \in 0..MaxAge
      BY TimersAssumption DEF TimersAssumption
    <3> QED BY <1>1, <2>1, <2>2, <3>1 DEF TimerTypes
  <2> QED BY <1>1, <1>2, <2>1, <2>2, <2>3
          DEF ExpiredInv, RunningInv, DeadlineInv, EndsInv
<1>5. CASE Start
  <2>1. transfer' = "starting" /\ startTick' \in StartTicks /\ age' = 0 /\ Running # {}
        /\ aborting' = aborting /\ late' = FALSE /\ overtime' = 0
    BY <1>5 DEF Start, InTime
  <2>2. TimerTypes'
    <3>1. startTick' \in 0..Wrap - 1 /\ age' \in 0..MaxAge
      BY <2>1, TimersAssumption DEF TimersAssumption
    <3> QED BY <1>1, <2>1, <3>1 DEF TimerTypes
  <2>3. ExpiredInv' /\ RunningInv' /\ EndsInv'
    BY <1>1, <1>2, <2>1 DEF ExpiredInv, RunningInv, EndsInv
  <2>4. DeadlineInv'
    BY <1>1, <2>1 DEF DeadlineInv, RunningInv
  <2> QED BY <1>2, <2>2, <2>3, <2>4
<1>6. CASE Started
  <2>1. transfer = "starting" /\ transfer' = "active" /\ UNCHANGED <<startTick, age, aborting, late, overtime>>
    BY <1>6 DEF Started
  <2>2. TimerTypes' /\ DeadlineInv'
    BY <1>1, <2>1 DEF TimerTypes, DeadlineInv, Off, TransferTicks
  <2>3. ExpiredInv' /\ RunningInv' /\ EndsInv'
    BY <1>1, <1>2, <1>3, <2>1 DEF ExpiredInv, RunningInv, EndsInv, TransferTicks
  <2> QED BY <1>2, <2>2, <2>3
<1>7. CASE Writes
  <2>1. UNCHANGED <<transfer, startTick, age, aborting, late, overtime>>
    BY <1>7 DEF Writes, timerVars
  <2>2. TimerTypes' /\ DeadlineInv'
    BY <1>1, <2>1 DEF TimerTypes, DeadlineInv, Off, TransferTicks
  <2>3. ExpiredInv' /\ RunningInv' /\ EndsInv'
    BY <1>1, <1>2, <2>1 DEF ExpiredInv, RunningInv, EndsInv, TransferTicks
  <2> QED BY <1>2, <2>2, <2>3
<1> QED BY <1>4, <1>5, <1>6, <1>7

(* A command starts and ends. *)
LEMMA WorkKeepsDeadline ==
  ASSUME IInv, TInv, NEW k \in Commands, Work(k) \/ CommandEnds(k)
  PROVE  TInv'
<1> USE DEF TInv
<1>1. /\ UNCHANGED <<mine, idle, quiet, aborting, working, connected>> /\ idle # 0
      /\ \A j \in Commands: stage[j] # "done"
      /\ stage[k] \in {"queued", "running"}
  BY DEF Work, CommandEnds, HostIdle, vars
<1>2. PICK new \in {"running", "done"}: stage' = [stage EXCEPT ![k] = new]
                                        /\ (new = "running" => k \in mine)
  BY DEF Work, CommandEnds
<1>3. \A j \in Commands: stage'[j] = IF j = k THEN new ELSE stage[j]
  BY <1>2 DEF TimerTypes
<1>4. SlotInv' /\ ApartInv' /\ DueInv'
  BY <1>1, <1>3 DEF SlotInv, ApartInv, DueInv
<1>5. Running' = (Running \ {k}) \cup (IF new = "running" THEN {k} ELSE {})
  BY <1>3 DEF Running
<1>6. stage' \in [Commands -> {"free", "queued", "running", "done"}]
  BY <1>2 DEF TimerTypes
<1>7. expired = {}
  BY <1>1 DEF ExpiredInv, TimerTypes
<1>8. k \in working \cap Commands
  BY <1>1 DEF SlotInv
<1>9. CASE /\ UNCHANGED <<transfer, startTick, age, expired, overtime>> /\ transfer # "starting"
           /\ late' = FALSE /\ ~(overtime > 0)
  <2>1. TimerTypes' /\ DeadlineInv'
    BY <1>1, <1>6, <1>9 DEF TimerTypes, DeadlineInv, Off, TransferTicks
  <2>2. RunningInv'
    BY <1>1, <1>2, <1>5, <1>9 DEF RunningInv
  <2>3. ExpiredInv'
    BY <1>7, <1>9 DEF ExpiredInv
  <2>4. EndsInv'
    <3>1. overtime' = overtime /\ overtime <= 1 /\ ~late'
      BY <1>9 DEF EndsInv
    <3>2. overtime' <= 1 /\ ~(overtime' > 0)
      BY <1>9, <3>1
    <3> QED BY <3>1, <3>2 DEF EndsInv
  <2> QED BY <1>4, <2>1, <2>2, <2>3, <2>4
<1>10. CASE /\ NoTransfer /\ Running = {} /\ new = "done"
            /\ expired' \in {expired, expired \cup {k}}
  <2>1. transfer' = "none" /\ startTick' = 0 /\ age' = 0 /\ Running' = {} /\ late' = FALSE /\ overtime' = 0
    BY <1>5, <1>10 DEF NoTransfer, InTime
  <2>2. TimerTypes'
    <3>1. 0 \in 0..Wrap - 1 /\ 0 \in 0..MaxAge
      BY TimersAssumption DEF TimersAssumption
    <3> QED BY <1>1, <1>6, <1>10, <2>1, <3>1 DEF TimerTypes
  <2>3. ExpiredInv'
    BY <1>3, <1>7, <1>10, <2>1 DEF ExpiredInv
  <2>4. RunningInv' /\ DeadlineInv' /\ EndsInv'
    BY <2>1 DEF RunningInv, DeadlineInv, EndsInv
  <2> QED BY <1>4, <2>2, <2>3, <2>4
<1>11. CASE CommandEnds(k)
  <2>1. k \in Running /\ new = "done" /\ overtime' = overtime /\ late' = late
    BY <1>2, <1>11 DEF CommandEnds, Running, TimerTypes, TransferUnchanged
  <2>2. ~(overtime > 0) /\ late' = FALSE
    BY <2>1 DEF EndsInv
  <2> QED BY <1>9, <1>11, <2>1, <2>2 DEF CommandEnds, TransferUnchanged
<1>12. CASE Work(k)
  <2>1. CASE k \in mine /\ ~Over
    <3>1. transfer # "starting"
      BY <1>12 DEF Work, RunningInv
    <3>2. ~Overdue /\ ~(overtime > 0)
      <4>1. TransferTicks \in Nat /\ age \in Nat
        BY TimersAssumption DEF TimersAssumption, TransferTicks, TimerTypes
      <4>2. ~(transfer = "active" /\ age >= TransferTicks)
        BY <2>1, OverdueIsOver
      <4> QED BY <3>1, <4>1, <4>2 DEF Overdue, EndsInv, TimerTypes
    <3>3. expired' = expired /\ late' = Overdue /\ UNCHANGED <<transfer, startTick, age, overtime>>
      BY <1>12, <2>1, Zenon DEF Work
    <3>4. late' = FALSE
      BY <3>2, <3>3, Zenon DEF Overdue
    <3> QED BY <1>9, <3>1, <3>2, <3>3, <3>4
  <2>2. CASE ~(k \in mine /\ ~Over)
    <3>1. stage'[k] = "done"
      BY <1>12, <2>2 DEF Work, TimerTypes
    <3> QED BY <1>3, <1>10, <1>12, <2>2, <3>1 DEF Work
  <2> QED BY <2>1, <2>2
<1> QED BY <1>11, <1>12

(* Advertising goes on. *)
LEMMA AirsKeepsDeadline ==
  ASSUME IInv, TInv, Airs
  PROVE  TInv'
<1> USE DEF TInv
<1>1. UNCHANGED <<stage, mine, expired, transfer, startTick, age, aborting, idle, quiet, late, overtime>>
  BY DEF Airs, timerVars
<1>2. TimerTypes'
  BY <1>1 DEF TimerTypes
<1>3. working' \cap Commands = working \cap Commands /\ connected' = connected
  <2>1. SampleTelemetry => working' \cap Commands = working \cap Commands
    BY SampleKeeps DEF IInv
  <2>2. CommandDone("telemetry") => working' = working \ {"telemetry"} /\ connected' = connected
    BY DEF CommandDone
  <2>3. "telemetry" \notin Commands
    BY DEF Commands
  <2> QED BY <2>1, <2>2, <2>3
          DEF Airs, OnSync, ConnectFailed, AdvertiseRetry, RetryOnAir, RetryOffAir
<1>4. working' \subseteq working \/ ~connected
  BY DEF Airs, OnSync, ConnectFailed, AdvertiseRetry, RetryOnAir, RetryOffAir, CommandDone,
     IInv, AirFree
<1>5. SlotInv'
  BY <1>1, <1>3 DEF SlotInv, TimerTypes
<1>6. ExpiredInv' /\ RunningInv' /\ ApartInv'
  BY <1>1, <1>3 DEF ExpiredInv, RunningInv, ApartInv, Running
<1>7. DueInv'
  BY <1>1, <1>4 DEF DueInv, ApartInv, Running, Off
<1>8. DeadlineInv' /\ EndsInv'
  BY <1>1, <1>3 DEF DeadlineInv, EndsInv, Off, TransferTicks, Running
<1> QED BY <1>2, <1>5, <1>6, <1>7, <1>8

(* Time goes on: then the callout runs, if there is a transfer and no command. *)
LEMMA TimeKeepsDeadline ==
  ASSUME IInv, TInv, Time
  PROVE  TInv'
<1> USE DEF TInv
<1>1. /\ UNCHANGED <<stage, expired, mine, transfer, startTick, aborting, working, connected, late>>
      /\ age' = IF transfer = "none" THEN 0 ELSE age + 1
      /\ idle' = IF idle = Off THEN Off ELSE idle - 1
      /\ quiet' = IF quiet < QuietIdle THEN quiet + 1 ELSE quiet
      /\ overtime' = IF Overdue /\ (Running = {} \/ late) THEN overtime + 1 ELSE overtime
      /\ transfer # "none" => age < MaxAge
      /\ idle # 0 /\ "telemetry" \notin working /\ \A k \in Commands: stage[k] # "done"
      /\ Running = {} => ~aborting /\ \A k \in Commands: stage[k] # "queued"
  BY DEF Time, Tick, HostIdle, SlotsUnchanged
<1>2. /\ idle \in Nat \cup {Off} /\ age \in 0..MaxAge /\ quiet \in Nat /\ MaxAge \in Nat
      /\ overtime \in Nat /\ TransferTicks \in Nat
  BY TimersAssumption DEF TimerTypes, TimersAssumption, TransferTicks
<1>3. /\ idle' \in Nat \cup {Off} /\ (idle' = Off <=> idle = Off)
      /\ age' \in 0..MaxAge /\ quiet' \in Nat /\ overtime' \in Nat /\ overtime' <= overtime + 1
      /\ idle # Off => idle \in Nat \ {0} /\ idle' = idle - 1
  BY <1>1, <1>2 DEF Off
<1>4. TimerTypes'
  BY <1>1, <1>3 DEF TimerTypes
<1>5. SlotInv' /\ ExpiredInv' /\ RunningInv' /\ ApartInv'
  BY <1>1, <1>3 DEF SlotInv, ExpiredInv, RunningInv, ApartInv, Running
<1>6. Running = {} => /\ ~aborting /\ working \cap Commands = {} /\ mine = {}
  <2>1. Running = {} => \A k \in Commands: stage[k] = "free"
    BY <1>1 DEF Running, TimerTypes
  <2> QED BY <1>1, <2>1 DEF SlotInv, TimerTypes
<1>7. DueInv'
  <2>1. Running = {} => working = {}
    BY <1>1, <1>6 DEF IInv, Working
  <2> QED BY <1>1, <2>1 DEF DueInv, Running
<1>8. DeadlineInv'
  <2>1. ASSUME idle # Off, age + idle <= TransferTicks + 1 \/ idle + overtime <= 1, transfer # "none"
        PROVE  idle' # Off /\ (age' + idle' <= TransferTicks + 1 \/ idle' + overtime' <= 1)
    BY <1>1, <1>2, <1>3, <2>1
  <2> QED BY <1>1, <2>1 DEF DeadlineInv, Off, TransferTicks
<1>9. EndsInv'
  <2>1. ~late' /\ (overtime > 0 => transfer = "active" /\ age > TransferTicks /\ Running = {})
    BY <1>1 DEF EndsInv
  <2>2. CASE Overdue /\ Running = {}
    <3>1. transfer = "active" /\ age >= TransferTicks
      BY <2>2 DEF Overdue, RunningInv, TimerTypes
    <3>2. idle \in Nat \ {0} /\ (age + idle <= TransferTicks + 1 \/ idle + overtime <= 1)
      <4>1. idle # Off /\ (age + idle <= TransferTicks + 1 \/ idle + overtime <= 1)
        BY <1>6, <2>2, <3>1, Zenon DEF DeadlineInv
      <4> QED BY <1>3, <4>1
    <3>3. overtime = 0 \* there is a tick left on the callout, but not another
      BY <1>2, <2>1, <3>1, <3>2
    <3>4. overtime' <= 1 /\ age' > TransferTicks /\ transfer' = "active"
      BY <1>1, <1>2, <1>3, <3>1, <3>3
    <3>5. Running' = {} /\ \A k \in Commands: stage'[k] # "done"
      BY <1>1, <2>2 DEF Running
    <3> QED BY <2>1, <3>4, <3>5 DEF EndsInv, TransferTicks
  <2>3. CASE ~(Overdue /\ Running = {})
    <3>1. overtime' = overtime
      BY <1>1, <2>3 DEF EndsInv
    <3>2. ~(overtime > 0)
      BY <1>2, <2>1, <2>3 DEF Overdue
    <3> QED BY <1>2, <2>1, <3>1, <3>2 DEF EndsInv
  <2> QED BY <2>2, <2>3
<1> QED BY <1>4, <1>5, <1>7, <1>8, <1>9

LEMMA TimersInitHolds == TimersInit => TInv
<1> SUFFICES ASSUME TimersInit PROVE TInv
  OBVIOUS
<1>1. TimerTypes
  <2>1. 0 \in 0..Wrap - 1 /\ 0 \in 0..MaxAge
    BY TimersAssumption DEF TimersAssumption
  <2> QED BY <2>1 DEF TimersInit, TimerTypes
<1>2. SlotInv /\ ExpiredInv /\ RunningInv /\ ApartInv /\ DueInv /\ DeadlineInv /\ EndsInv
  BY DEF TimersInit, Init, SlotInv, ExpiredInv, RunningInv, ApartInv, DueInv, DeadlineInv, EndsInv,
     Running, Off
<1> QED BY <1>1, <1>2 DEF TInv

LEMMA TimersStepKeeps == IInv /\ TInv /\ [TimersNext]_allVars => TInv'
<1> SUFFICES ASSUME IInv, TInv, [TimersNext]_allVars PROVE TInv'
  OBVIOUS
<1>1. CASE LinkUp \/ LinkDown \/ Unsubscribe BY <1>1, LinkKeepsDeadline
<1>2. CASE \E k \in Commands: Accept(k) \/ Finished(k) \/ Work(k) \/ CommandEnds(k)
  BY <1>2, CommandKeepsDeadline, WorkKeepsDeadline
<1>3. CASE ExpireBusy \/ ExpireIdle BY <1>3, ExpireKeepsDeadline
<1>4. CASE AbortWork \/ Start \/ Started \/ Ends \/ Writes BY <1>4, DisplayKeepsDeadline
<1>5. CASE Airs BY <1>5, AirsKeepsDeadline
<1>6. CASE Time BY <1>6, TimeKeepsDeadline
<1>7. CASE UNCHANGED allVars
  BY <1>7 DEF allVars, vars, timerVars, TInv, TimerTypes, SlotInv, ExpiredInv, RunningInv, Running,
              ApartInv, DueInv, DeadlineInv, EndsInv, Off, TransferTicks
<1> QED BY <1>1, <1>2, <1>3, <1>4, <1>5, <1>6, <1>7 DEF TimersNext

(* The deadlines of connection and transfer, the clock they are computed from
   and the slots they wait for agree in every state. *)
THEOREM TimersInvariant == TimersSpec => []TInv
BY TimersInitHolds, TimersStepKeeps, TimersAdvertise, RadioInvariant, PTL DEF TimersSpec

(* A transfer is over 15 minutes after its START and a tick, not counting the
   time a command takes that began before: commands that arrive later do not
   prolong it, for any idle time, any start on the wrapping clock and any
   interleaving of refusals and connections (main.c:89-114, 125-130, 158-170). *)
THEOREM TransferAlwaysEnds == TimersSpec => []TransferEnds
<1>1. TInv => TransferEnds
  BY DEF TInv, EndsInv, TransferEnds
<1> QED BY <1>1, TimersInvariant, PTL

-----------------------------------------------------------------------------
(***************************************************************************)
(* Nothing ends a transfer early.                                          *)
(***************************************************************************)
(* The host hears of the end of a command of an earlier generation when the
   transfer is gone, or with an abort behind that command. *)
StrangerInv == \A k \in Commands:
  (stage[k] = "done" /\ k \notin mine) => aborting \/ transfer = "none"

(* With no command of this connection under way, the callout fires when the
   transfer or the connection is due, or os_time has wrapped. *)
PatientInv == (transfer = "active" /\ ~aborting /\ idle # Off /\ mine = {}) =>
  \/ age + idle >= TransferTicks
  \/ startTick + age + idle >= Wrap
  \/ quiet + idle >= QuietIdle

PInv == StrangerInv /\ PatientInv

(* A clock that has not wrapped shows at most half a millisecond too much. *)
LEMMA ElapsedAtMost ==
  ASSUME TimerTypes, ~Wrapped
  PROVE  Elapsed \in Nat /\ 2 * Elapsed <= 5 * age + 1
<1> DEFINE x == startTick + age
           a == (x * 5) \div 2
           b == (startTick * 5) \div 2
<1>1. /\ Wrap \in Nat \ {0} /\ age \in Nat /\ MaxAge * 5 + 2 < Wrap /\ MaxAge \in Nat /\ age <= MaxAge
      /\ x \in 0..Wrap - 1 /\ a \in Int /\ b \in Int
      /\ 2 * (a - b) <= 5 * age + 1 /\ 0 <= a - b /\ a - b \in Int
  BY TimersAssumption DEF TimersAssumption, TimerTypes, Wrapped
<1>2. Now = x
  BY <1>1, ModSmall DEF Now
<1>3. Elapsed = ((a % Wrap) - (b % Wrap)) % Wrap
  BY <1>2 DEF Elapsed, Millis
<1> HIDE DEF x, a, b
<1>4. Elapsed = (a - b) % Wrap
  BY <1>1, <1>3, ModSub
<1>5. a - b \in 0..Wrap - 1
  BY <1>1
<1>6. Elapsed = a - b
  BY <1>1, <1>4, <1>5, ModSmall
<1> QED BY <1>1, <1>6

LEMMA DelayPatient ==
  ASSUME TimerTypes, transfer = "active", ~Wrapped
  PROVE  /\ age + Delay >= TransferTicks \/ Delay >= QuietIdle
         /\ Over => age >= TransferTicks
<1>1. /\ TransferTime \in Nat /\ IdleTime \in Nat /\ TransferTicks \in Nat
      /\ TransferTime * 2 = 5 * TransferTicks /\ age \in Nat
  BY TimersAssumption DEF TimersAssumption, TransferTicks, TimerTypes
<1>2. Elapsed \in Nat /\ 2 * Elapsed <= 5 * age + 1
  BY ElapsedAtMost
<1>3. CASE Elapsed >= TransferTime
  <2>1. 5 * TransferTicks <= 5 * age + 1
    BY <1>1, <1>2, <1>3
  <2>2. age >= TransferTicks
    BY <1>1, <2>1
  <2>3. Delay \in Nat
    BY DelayBound
  <2> QED BY <1>1, <2>2, <2>3
<1>4. CASE Elapsed < TransferTime
  <2>1. Remaining = TransferTime - Elapsed /\ Remaining \in Nat /\ Remaining # 0
    BY <1>1, <1>2, <1>4 DEF Remaining
  <2>2. CASE Remaining < IdleTime
    <3>1. Delay = (Remaining * 2) \div 5 + 1
      BY <2>2 DEF Delay, TicksOf, Smaller
    <3>2. Remaining * 2 >= 5 * (TransferTicks - age) - 1
      BY <1>1, <1>2, <2>1
    <3>3. (Remaining * 2) \div 5 + 1 >= TransferTicks - age
      BY <1>1, <2>1, <3>2
    <3>4. age + Delay >= TransferTicks
      BY <1>1, <2>1, <3>1, <3>3
    <3> QED BY <2>1, <3>4 DEF Over
  <2>3. CASE ~(Remaining < IdleTime)
    <3>1. Delay = QuietIdle + 1 /\ QuietIdle \in Nat
      BY <1>1, <2>3 DEF Delay, TicksOf, Smaller, QuietIdle
    <3> QED BY <2>1, <3>1 DEF Over
  <2> QED BY <2>2, <2>3
<1> QED BY <1>1, <1>2, <1>3, <1>4

LEMMA PatientInit == TimersInit => PInv
BY DEF TimersInit, PInv, StrangerInv, PatientInv

(* Connections and subscriptions: what they leave behind has an abort behind
   it, and a new connection has its 120 seconds before it. *)
LEMMA LinkKeepsPatience ==
  ASSUME IInv, TInv, PInv, LinkUp \/ LinkDown \/ Unsubscribe
  PROVE  PInv'
<1>1. CASE LinkUp
  <2>1. ~connected /\ mine = {}
    BY <1>1 DEF LinkUp, Connected, IInv, AirFree, TInv, ApartInv
  <2>2. /\ mine' = mine /\ idle' = TicksOf(IdleTime) /\ quiet' = 0
        /\ UNCHANGED <<stage, transfer, aborting>>
    BY <1>1, <2>1 DEF LinkUp, TransferUnchanged
  <2>3. quiet' + idle' >= QuietIdle
    BY <2>2, TimersAssumption DEF TimersAssumption, TicksOf, QuietIdle
  <2>4. PatientInv'
    BY <2>3 DEF PatientInv, QuietIdle
  <2> QED BY <2>2, <2>4 DEF PInv, StrangerInv
<1>2. CASE LinkDown \/ Unsubscribe
  <2>1. aborting' = TRUE
    BY <1>2 DEF LinkDown, Unsubscribe, ResetLink
  <2> QED BY <2>1 DEF PInv, StrangerInv, PatientInv
<1> QED BY <1>1, <1>2

LEMMA CommandKeepsPatience ==
  ASSUME IInv, TInv, PInv, NEW k \in Commands, Accept(k) \/ Finished(k)
  PROVE  PInv'
<1>1. CASE Accept(k)
  <2>1. /\ stage' = [stage EXCEPT ![k] = "queued"] /\ mine' = mine \cup {k} /\ idle' = Off
        /\ UNCHANGED <<transfer, aborting>>
    BY <1>1 DEF Accept, TransferUnchanged
  <2>2. \A j \in Commands: stage'[j] = "done" => stage[j] = "done" /\ j # k
    BY <2>1 DEF TInv, TimerTypes
  <2>3. StrangerInv'
    BY <2>1, <2>2 DEF PInv, StrangerInv
  <2>4. PatientInv'
    BY <2>1 DEF PatientInv, Off
  <2> QED BY <2>3, <2>4 DEF PInv
<1>2. CASE Finished(k)
  <2>1. /\ stage[k] = "done" /\ stage' = [stage EXCEPT ![k] = "free"]
        /\ quiet' = 0 /\ UNCHANGED <<transfer, startTick, age, aborting>>
    BY <1>2 DEF Finished, TransferUnchanged
  <2>2. \A j \in Commands: stage'[j] = "done" => stage[j] = "done" /\ j # k
    BY <2>1 DEF TInv, TimerTypes
  <2>3. CASE k \in expired \cap mine
    <3>1. transfer = "none"
      BY <2>3 DEF TInv, ExpiredInv
    <3> QED BY <2>1, <3>1 DEF PInv, StrangerInv, PatientInv
  <2>4. CASE k \notin expired \cap mine
    <3>1. mine' = mine \ {k} /\ idle' = IF k \in mine THEN Delay ELSE idle
      BY <1>2, <2>4 DEF Finished
    <3>2. StrangerInv'
      BY <2>1, <2>2, <3>1 DEF PInv, StrangerInv
    <3>3. CASE transfer # "active" \/ aborting
      BY <2>1, <3>2, <3>3 DEF PInv, PatientInv
    <3>4. CASE transfer = "active" /\ ~aborting
      <4>1. k \in mine
        BY <2>1, <3>4 DEF PInv, StrangerInv
      <4>2. /\ age \in Nat /\ startTick \in Nat /\ Wrap \in Nat /\ TransferTicks \in Nat
            /\ QuietIdle \in Nat
        BY TimersAssumption DEF TInv, TimerTypes, TimersAssumption, TransferTicks, QuietIdle
      <4>3. Delay \in Nat
        BY DelayBound DEF TInv
      <4>4. age + Delay >= TransferTicks \/ startTick + age + Delay >= Wrap \/ Delay >= QuietIdle
        <5>1. CASE Wrapped
          BY <4>2, <4>3, <5>1 DEF Wrapped
        <5>2. CASE ~Wrapped
          BY <3>4, <5>2, DelayPatient DEF TInv
        <5> QED BY <5>1, <5>2
      <4>5. age' = age /\ startTick' = startTick /\ quiet' = 0 /\ idle' = Delay
        BY <2>1, <3>1, <4>1
      <4>6. PatientInv'
        <5>1. TransferTicks' = TransferTicks /\ QuietIdle' = QuietIdle
          BY DEF TransferTicks, QuietIdle
        <5>2. \/ age' + idle' >= TransferTicks
              \/ startTick' + age' + idle' >= Wrap
              \/ quiet' + idle' >= QuietIdle
          BY <4>2, <4>3, <4>4, <4>5
        <5> QED BY <5>1, <5>2 DEF PatientInv
      <4> QED BY <3>2, <4>6 DEF PInv
    <3> QED BY <3>3, <3>4
  <2> QED BY <2>3, <2>4
<1> QED BY <1>1, <1>2

LEMMA ExpireKeepsPatience ==
  ASSUME IInv, TInv, PInv, ExpireBusy \/ ExpireIdle
  PROVE  PInv'
<1>1. CASE ExpireBusy
  <2>1. /\ idle = 0 /\ idle' = Second /\ Second \in Nat
        /\ UNCHANGED <<stage, mine, transfer, startTick, age, aborting, quiet>>
    BY <1>1, AdvertisingAssumption
    DEF ExpireBusy, TransferUnchanged, SlotsUnchanged, AdvertisingAssumption
  <2>2. /\ age \in Nat /\ startTick \in Nat /\ Wrap \in Nat /\ TransferTicks \in Nat
        /\ QuietIdle \in Nat /\ quiet \in Nat
    BY TimersAssumption DEF TInv, TimerTypes, TimersAssumption, TransferTicks, QuietIdle
  <2>3. PatientInv'
    BY <2>1, <2>2 DEF PInv, PatientInv, Off, TransferTicks, QuietIdle
  <2> QED BY <2>1, <2>3 DEF PInv, StrangerInv
<1>2. CASE ExpireIdle
  <2>1. aborting' = TRUE
    BY <1>2 DEF ExpireIdle
  <2> QED BY <2>1 DEF PInv, StrangerInv, PatientInv
<1> QED BY <1>1, <1>2

LEMMA DisplayKeepsPatience ==
  ASSUME IInv, TInv, PInv, AbortWork \/ Start \/ Started \/ Ends \/ Writes
  PROVE  PInv'
<1>1. /\ UNCHANGED <<stage, mine, idle, quiet>> /\ \A k \in Commands: stage[k] # "done"
  BY DEF AbortWork, Start, Started, Ends, Writes, SlotsUnchanged, timerVars, HostIdle
<1>2. StrangerInv'
  BY <1>1 DEF StrangerInv
<1>3. CASE AbortWork \/ Start \/ Ends
  <2>1. transfer' # "active"
    BY <1>3 DEF AbortWork, Start, Ends, NoTransfer
  <2> QED BY <1>2, <2>1 DEF PInv, PatientInv
<1>4. CASE Started
  <2>1. aborting \/ mine # {}
    BY <1>4 DEF Started, TInv, RunningInv
  <2> QED BY <1>1, <1>2, <1>4, <2>1 DEF Started, PInv, PatientInv
<1>5. CASE Writes
  <2>1. UNCHANGED <<transfer, startTick, age, aborting>>
    BY <1>5 DEF Writes, timerVars
  <2> QED BY <1>1, <1>2, <2>1 DEF PInv, PatientInv, Off, TransferTicks, QuietIdle
<1> QED BY <1>3, <1>4, <1>5

LEMMA WorkKeepsPatience ==
  ASSUME IInv, TInv, PInv, NEW k \in Commands, Work(k) \/ CommandEnds(k)
  PROVE  PInv'
<1>1. /\ UNCHANGED <<mine, idle, quiet, aborting>> /\ \A j \in Commands: stage[j] # "done"
  BY DEF Work, CommandEnds, HostIdle
<1>2. PICK new \in {"running", "done"}: stage' = [stage EXCEPT ![k] = new]
  BY DEF Work, CommandEnds
<1>3. \A j \in Commands: stage'[j] = "done" => j = k
  BY <1>1, <1>2 DEF TInv, TimerTypes
<1>4. CASE CommandEnds(k)
  <2>1. UNCHANGED <<transfer, startTick, age>> /\ stage[k] = "running"
    BY <1>4 DEF CommandEnds, TransferUnchanged
  <2>2. k \in mine \/ aborting
    BY <2>1 DEF TInv, RunningInv, Running
  <2>3. StrangerInv'
    BY <1>1, <1>3, <2>2 DEF StrangerInv
  <2> QED BY <1>1, <2>1, <2>3 DEF PInv, PatientInv, Off, TransferTicks, QuietIdle
<1>5. CASE Work(k) /\ k \in mine /\ ~Over
  <2>1. UNCHANGED <<transfer, startTick, age>>
    BY <1>5 DEF Work, TransferUnchanged
  <2>2. StrangerInv'
    BY <1>1, <1>3, <1>5 DEF StrangerInv
  <2> QED BY <1>1, <2>1, <2>2 DEF PInv, PatientInv, Off, TransferTicks, QuietIdle
<1>6. CASE Work(k) /\ ~(k \in mine /\ ~Over)
  <2>1. transfer' = "none"
    BY <1>6 DEF Work, NoTransfer
  <2> QED BY <2>1 DEF PInv, StrangerInv, PatientInv
<1> QED BY <1>4, <1>5, <1>6

LEMMA AirsKeepsPatience == ASSUME PInv, Airs PROVE PInv'
BY DEF Airs, timerVars, PInv, StrangerInv, PatientInv, Off, TransferTicks, QuietIdle

LEMMA TimeKeepsPatience ==
  ASSUME IInv, TInv, PInv, Time
  PROVE  PInv'
<1>1. /\ UNCHANGED <<stage, mine, transfer, startTick, aborting>>
      /\ idle' = IF idle = Off THEN Off ELSE idle - 1
      /\ quiet' = IF quiet < QuietIdle THEN quiet + 1 ELSE quiet
      /\ transfer = "active" => age' = age + 1
      /\ idle # 0
  BY DEF Time, HostIdle, SlotsUnchanged
<1>2. /\ age \in Nat /\ startTick \in Nat /\ Wrap \in Nat /\ TransferTicks \in Nat
      /\ QuietIdle \in Nat /\ quiet \in Nat /\ idle \in Nat \cup {Off}
  BY TimersAssumption DEF TInv, TimerTypes, TimersAssumption, TransferTicks, QuietIdle
<1>3. PatientInv'
  <2> SUFFICES ASSUME transfer = "active", ~aborting, idle' # Off, mine = {}
               PROVE  \/ age' + idle' >= TransferTicks
                      \/ startTick' + age' + idle' >= Wrap
                      \/ quiet' + idle' >= QuietIdle
    BY <1>1 DEF PatientInv, Off, TransferTicks, QuietIdle
  <2>1. /\ idle \in Nat \ {0} /\ idle' = idle - 1 /\ age' = age + 1 /\ startTick' = startTick
    BY <1>1, <1>2 DEF Off
  <2>2. \/ age + idle >= TransferTicks
        \/ startTick + age + idle >= Wrap
        \/ quiet + idle >= QuietIdle
    BY <2>1 DEF PInv, PatientInv, Off
  <2>3. quiet' = quiet + 1 \/ (quiet' = quiet /\ quiet >= QuietIdle)
    BY <1>1, <1>2
  <2> QED BY <1>2, <2>1, <2>2, <2>3
<1> QED BY <1>1, <1>3 DEF PInv, StrangerInv

LEMMA PatienceStepKeeps == IInv /\ TInv /\ PInv /\ [TimersNext]_allVars => PInv'
<1> SUFFICES ASSUME IInv, TInv, PInv, [TimersNext]_allVars PROVE PInv'
  OBVIOUS
<1>1. CASE LinkUp \/ LinkDown \/ Unsubscribe BY <1>1, LinkKeepsPatience
<1>2. CASE \E k \in Commands: Accept(k) \/ Finished(k) \/ Work(k) \/ CommandEnds(k)
  BY <1>2, CommandKeepsPatience, WorkKeepsPatience
<1>3. CASE ExpireBusy \/ ExpireIdle BY <1>3, ExpireKeepsPatience
<1>4. CASE AbortWork \/ Start \/ Started \/ Ends \/ Writes BY <1>4, DisplayKeepsPatience
<1>5. CASE Airs BY <1>5, AirsKeepsPatience
<1>6. CASE Time BY <1>6, TimeKeepsPatience
<1>7. CASE UNCHANGED allVars
  BY <1>7 DEF allVars, timerVars, PInv, StrangerInv, PatientInv, Off, TransferTicks, QuietIdle
<1> QED BY <1>1, <1>2, <1>3, <1>4, <1>5, <1>6, <1>7 DEF TimersNext

(* Every wait for the idle callout is at least as long as what is left of the
   transfer or of the 120 seconds, in every state without a command. *)
THEOREM PatienceInvariant == TimersSpec => []PInv
BY PatientInit, PatienceStepKeeps, TimersInvariant, TimersAdvertise, RadioInvariant, PTL
DEF TimersSpec

(* Only a command on a transfer that is over gives one up for its age. *)
LEMMA ExpiresWhenOver ==
  ASSUME TInv, [TimersNext]_allVars, expired' \ expired # {}
  PROVE  age >= TransferTicks \/ Wrapped
<1>1. CASE \E k \in Commands: Work(k)
  <2>1. PICK k \in Commands: Work(k)
    BY <1>1
  <2>2. Over
    BY <2>1 DEF Work
  <2>3. transfer = "active"
    BY <2>2, TimersAssumption DEF Over, Remaining, NoLimit, TimersAssumption
  <2> QED BY <2>2, <2>3, DelayPatient DEF TInv
<1>2. CASE ~\E k \in Commands: Work(k)
  <2>1. expired' \subseteq expired
    BY <1>2 DEF TimersNext, LinkUp, LinkDown, ResetLink, Unsubscribe, Accept, Finished, CommandEnds,
       ExpireBusy, ExpireIdle, AbortWork, Start, Started, Ends, Writes, Airs, Time, SlotsUnchanged,
       timerVars, allVars
  <2> QED BY <2>1
<1> QED BY <1>1, <1>2

(* Only the idle callout aborts a transfer while the connection goes on. *)
LEMMA AbortsWhenDue ==
  ASSUME TInv, PInv, [TimersNext]_allVars, idle = 0, idle' # 0, connected', ~aborting, aborting',
         transfer = "active"
  PROVE  age >= TransferTicks \/ Wrapped \/ (quiet >= QuietIdle /\ working = {})
<1>1. ExpireIdle
  <2>1. ~LinkDown
    BY DEF LinkDown, OnReset, Disconnected
  <2> QED BY <2>1
    DEF TimersNext, LinkUp, Unsubscribe, Accept, Finished, CommandEnds, Work,
        ExpireBusy, AbortWork, Start, Started, Ends, Writes, Airs, Time, timerVars, allVars
<1>2. working = {} /\ mine = {}
  BY <1>1 DEF ExpireIdle, TInv, SlotInv
<1>3. /\ age \in Nat /\ startTick \in Nat /\ quiet \in Nat
  BY TimersAssumption DEF TInv, TimerTypes, TimersAssumption
<1>4. \/ age + 0 >= TransferTicks \/ startTick + age + 0 >= Wrap \/ quiet + 0 >= QuietIdle
  BY <1>2 DEF PInv, PatientInv, Off
<1> QED BY <1>2, <1>3, <1>4 DEF Wrapped

(* A transfer is given up for its age only at 15 minutes, or when os_time has
   wrapped, and for want of commands only after 120 seconds without one, for
   any times and any start on the wrapping clock (main.c:110-114, 158-170). *)
THEOREM NeverCutShort == TimersSpec => NotCutShort
<1>1. TInv /\ PInv /\ [TimersNext]_allVars =>
        [/\ (expired' \ expired # {}) => (age >= TransferTicks \/ Wrapped)
         /\ (idle = 0 /\ idle' # 0 /\ connected' /\ ~aborting /\ aborting' /\ transfer = "active") =>
              (age >= TransferTicks \/ Wrapped \/ (quiet >= QuietIdle /\ working = {}))]_allVars
  BY ExpiresWhenOver, AbortsWhenDue
<1> QED BY <1>1, TimersInvariant, PatienceInvariant, PTL DEF TimersSpec, NotCutShort
=============================================================================

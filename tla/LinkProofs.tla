----------------------------- MODULE LinkProofs -----------------------------
(***************************************************************************)
(* Theorems about Link, for any number of command slots, tries of a        *)
(* notification and responses of a command.                                *)
(***************************************************************************)
EXTENDS Link, SequenceTheorems, FiniteSetTheorems, TLAPS

-----------------------------------------------------------------------------
(* Every non-empty set of natural numbers has a least element. *)
LEMMA NatHasMin ==
  ASSUME NEW S \in SUBSET Nat, S # {}
  PROVE  \E x \in S: \A y \in S: x <= y
<1> DEFINE less == {ss \in Nat \X Nat: ss[1] < ss[2]}
<1>1. IsWellFoundedOn(less, Nat)
  BY NatLessThanWellFounded, Zenon DEF OpToRel
<1>2. PICK x \in S: \A y \in S: ~(<<y, x>> \in less)
  <2> HIDE DEF less
  <2> QED BY <1>1, WFMin
<1>3. \A y \in S: ~(y < x)
  BY <1>2
<1> QED BY <1>3

LEMMA MinIsLeast ==
  ASSUME NEW S \in SUBSET Nat, S # {}
  PROVE  Min(S) \in S /\ \A y \in S: Min(S) <= y
BY NatHasMin DEF Min

-----------------------------------------------------------------------------
(***************************************************************************)
(* The event queues: what a put, a removal and the next event do to the    *)
(* events a queue contains.                                                *)
(***************************************************************************)
QueueOK(q) == q \in Seq(Events) /\ IsInjective(q)

LEMMA EmptyQueue == QueueOK(<<>>) /\ \A e: ~Contains(<<>>, e)
BY DEF QueueOK, IsInjective, Contains

LEMMA PutQueue ==
  ASSUME NEW q, QueueOK(q), NEW e \in Events
  PROVE  QueueOK(Put(q, e)) /\ \A f: Contains(Put(q, e), f) <=> f = e \/ Contains(q, f)
<1>1. CASE Contains(q, e)
  BY <1>1 DEF Put
<1>2. CASE ~Contains(q, e)
  <2> DEFINE p == Append(q, e)
  <2>1. /\ p \in Seq(Events) /\ Len(p) = Len(q) + 1 /\ Len(q) \in Nat
        /\ \A k \in 1..Len(q): p[k] = q[k]
        /\ p[Len(q) + 1] = e
        /\ DOMAIN p = 1..Len(p) /\ DOMAIN q = 1..Len(q)
    BY AppendProperties, LenProperties DEF QueueOK
  <2>2. \A k \in 1..Len(q): q[k] # e
    BY <1>2 DEF Contains
  <2> HIDE DEF p
  <2>3. IsInjective(p)
    BY <2>1, <2>2 DEF IsInjective, QueueOK
  <2>4. \A f: Contains(p, f) <=> f = e \/ Contains(q, f)
    BY <2>1 DEF Contains
  <2> QED BY <1>2, <2>1, <2>3, <2>4 DEF Put, QueueOK, p
<1> QED BY <1>1, <1>2

LEMMA TailQueue ==
  ASSUME NEW q, QueueOK(q), q # <<>>
  PROVE  /\ QueueOK(Tail(q)) /\ Contains(q, Head(q))
         /\ \A f: Contains(Tail(q), f) <=> Contains(q, f) /\ f # Head(q)
<1> DEFINE t == Tail(q)
<1>1. /\ t \in Seq(Events) /\ Len(t) = Len(q) - 1 /\ Len(q) \in Nat \ {0}
      /\ \A k \in 1..Len(t): t[k] = q[k + 1]
      /\ DOMAIN t = 1..Len(t) /\ DOMAIN q = 1..Len(q)
      /\ Head(q) = q[1]
  BY HeadTailProperties, LenProperties, EmptySeq DEF QueueOK
<1> HIDE DEF t
<1>2. IsInjective(t)
  <2> SUFFICES ASSUME NEW j \in 1..Len(t), NEW k \in 1..Len(t), t[j] = t[k] PROVE j = k
    BY <1>1 DEF IsInjective
  <2>1. /\ j + 1 \in 1..Len(q) /\ k + 1 \in 1..Len(q)
        /\ q[j + 1] = q[k + 1]
    BY <1>1
  <2>2. \A a, b \in 1..Len(q): q[a] = q[b] => a = b
    BY <1>1 DEF IsInjective, QueueOK
  <2>3. j + 1 = k + 1
    BY <2>1, <2>2
  <2> QED BY <2>3
<1>3. ASSUME NEW f PROVE Contains(t, f) <=> Contains(q, f) /\ f # Head(q)
  <2>1. ASSUME Contains(t, f) PROVE Contains(q, f) /\ f # Head(q)
    BY <2>1, <1>1 DEF Contains, QueueOK, IsInjective
  <2>2. ASSUME Contains(q, f), f # Head(q) PROVE Contains(t, f)
    <3>1. PICK k \in 1..Len(q): q[k] = f
      BY <2>2 DEF Contains
    <3>2. k - 1 \in 1..Len(t) /\ t[k - 1] = f
      BY <3>1, <2>2, <1>1
    <3> QED BY <3>2 DEF Contains
  <2> QED BY <2>1, <2>2
<1> QED BY <1>1, <1>2, <1>3 DEF QueueOK, Contains, t

LEMMA CancelQueue ==
  ASSUME NEW q, QueueOK(q), NEW e
  PROVE  QueueOK(Cancel(q, e)) /\ \A f: Contains(Cancel(q, e), f) <=> Contains(q, f) /\ f # e
<1>1. CASE ~Contains(q, e)
  BY <1>1 DEF Cancel
<1>2. CASE Contains(q, e)
  <2> DEFINE k == CHOOSE n \in 1..Len(q): q[n] = e
             a == SubSeq(q, 1, k - 1)
             b == SubSeq(q, k + 1, Len(q))
             r == a \o b
  <2>1. k \in 1..Len(q) /\ q[k] = e
    BY <1>2 DEF Contains
  <2>2. q \in Seq(Events) /\ Len(q) \in Nat /\ DOMAIN q = 1..Len(q)
        /\ \A j \in 1..Len(q): q[j] \in Events
    BY LenProperties DEF QueueOK
  <2>3. Cancel(q, e) = r
    BY <1>2 DEF Cancel, RemoveAt
  <2> HIDE DEF k
  <2>4. /\ a \in Seq(Events) /\ Len(a) = k - 1
        /\ \A j \in 1..k - 1: a[j] = q[j]
    BY <2>1, <2>2, SubSeqProperties
  <2>5. /\ b \in Seq(Events) /\ Len(b) = Len(q) - k
        /\ \A j \in 1..Len(q) - k: b[j] = q[j + k]
    <3>1. /\ b \in Seq(Events)
          /\ Len(b) = IF k + 1 <= Len(q) THEN Len(q) - (k + 1) + 1 ELSE 0
          /\ \A j \in 1..Len(q) - (k + 1) + 1: b[j] = q[k + 1 + j - 1]
      <4>1. k + 1 \in Int /\ Len(q) \in Int /\ \A j \in k + 1..Len(q): q[j] \in Events
        BY <2>1, <2>2
      <4> QED BY <4>1, SubSeqProperties
    <3> HIDE DEF b
    <3>2. ASSUME NEW j \in 1..Len(q) - k PROVE b[j] = q[j + k]
      <4>1. j \in 1..Len(q) - (k + 1) + 1 /\ k + 1 + j - 1 = j + k
        BY <2>1, <2>2
      <4>2. b[j] = q[k + 1 + j - 1]
        BY <3>1, <4>1
      <4> QED BY <4>1, <4>2
    <3>3. Len(b) = Len(q) - k
      <4>1. k \in Int /\ Len(q) \in Int /\ k <= Len(q)
        BY <2>1, <2>2
      <4> QED BY <4>1, <3>1
    <3> QED BY <3>1, <3>2, <3>3
  <2> HIDE DEF a, b
  <2>6. /\ r \in Seq(Events) /\ Len(r) = Len(q) - 1 /\ DOMAIN r = 1..Len(q) - 1
        /\ \A j \in 1..Len(q) - 1: r[j] = IF j < k THEN q[j] ELSE q[j + 1]
    <3>1. /\ r \in Seq(Events) /\ Len(r) = Len(a) + Len(b)
          /\ \A j \in 1..Len(a) + Len(b): r[j] = IF j <= Len(a) THEN a[j] ELSE b[j - Len(a)]
      BY <2>4, <2>5, ConcatProperties
    <3>2. DOMAIN r = 1..Len(r) /\ Len(r) = Len(q) - 1
      BY <3>1, <2>1, <2>2, <2>4, <2>5, LenProperties
    <3> HIDE DEF r
    <3>3. ASSUME NEW j \in 1..Len(q) - 1, j < k PROVE r[j] = q[j]
      <4>1. j \in 1..Len(a) + Len(b) /\ j <= Len(a) /\ j \in 1..k - 1
        BY <3>3, <2>1, <2>2, <2>4, <2>5
      <4>2. r[j] = a[j]
        BY <3>1, <4>1
      <4> QED BY <4>1, <4>2, <2>4
    <3>4. ASSUME NEW j \in 1..Len(q) - 1, j >= k PROVE r[j] = q[j + 1]
      <4>1. j - (k - 1) \in 1..Len(q) - k /\ j - (k - 1) + k = j + 1
        BY <3>4, <2>1, <2>2
      <4>2. r[j] = b[j - (k - 1)]
        BY <3>1, <3>2, <3>4, <2>1, <2>2, <2>4, <2>5
      <4> QED BY <4>1, <4>2, <2>5
    <3> QED BY <3>1, <3>2, <3>3, <3>4, <2>1, <2>2
  <2> HIDE DEF r
  <2>7. IsInjective(r)
    <3> DEFINE Old(j) == IF j < k THEN j ELSE j + 1
    <3>1. \A x, y \in 1..Len(q): q[x] = q[y] => x = y
      BY <2>2 DEF IsInjective, QueueOK
    <3>2. \A j \in 1..Len(q) - 1: Old(j) \in 1..Len(q) /\ r[j] = q[Old(j)]
      BY <2>1, <2>2, <2>6
    <3>3. \A i, j \in 1..Len(q) - 1: Old(i) = Old(j) => i = j
      BY <2>1, <2>2
    <3> HIDE DEF Old
    <3> QED BY <2>6, <3>1, <3>2, <3>3 DEF IsInjective
  <2>8. ASSUME NEW f PROVE Contains(r, f) <=> Contains(q, f) /\ f # e
    <3>1. ASSUME Contains(r, f) PROVE Contains(q, f) /\ f # e
      BY <3>1, <2>1, <2>2, <2>6 DEF Contains, QueueOK, IsInjective
    <3>2. ASSUME Contains(q, f), f # e PROVE Contains(r, f)
      <4>1. PICK j \in 1..Len(q): q[j] = f
        BY <3>2 DEF Contains
      <4>2. CASE j < k
        BY <4>1, <4>2, <2>1, <2>2, <2>6 DEF Contains
      <4>3. CASE j > k
        <5>1. j - 1 \in 1..Len(r) /\ r[j - 1] = f
          BY <4>1, <4>3, <2>1, <2>2, <2>6
        <5> QED BY <5>1 DEF Contains
      <4> QED BY <4>1, <4>2, <4>3, <2>1, <3>2
    <3> QED BY <3>1, <3>2
  <2> QED BY <2>3, <2>6, <2>7, <2>8 DEF QueueOK
<1> QED BY <1>1, <1>2

-----------------------------------------------------------------------------
(***************************************************************************)
(* The invariant.                                                          *)
(***************************************************************************)
(* The display task holds a slot exactly while it works, and only a command,
   not a sample, is executed or sends. *)
WorkerInv == /\ current = None <=> pc = "queue"
             /\ pc \in {"run", "wait"} => commands[current].kind = "command"

(* A used slot is in one of three places, a free one in none. *)
SlotInv == \A i \in Slot:
  /\ commands[i].used <=> \/ Contains(displayQueue, Work(i))
                          \/ current = i
                          \/ Contains(hostQueue, Done(i))
  /\ ~(Contains(displayQueue, Work(i)) /\ current = i)
  /\ ~(Contains(displayQueue, Work(i)) /\ Contains(hostQueue, Done(i)))
  /\ ~(current = i /\ Contains(hostQueue, Done(i)))

(* One response is on its way while the display task waits: at one of the
   three places of a try, or told to have ended.  Until then its generation is
   that of the command. *)
Trying == Contains(hostQueue, TxEvent) \/ Contains(hostQueue, TxRetryEvent) \/ txRetry = "armed"

TokenInv ==
  /\ finished = 1 \/ Trying <=> pc = "wait"
  /\ Trying => /\ finished = 0 /\ tx.retries < MaxRetries
               /\ tx.generation = commands[current].generation
  /\ ~(Contains(hostQueue, TxEvent) /\ Contains(hostQueue, TxRetryEvent))
  /\ txRetry = "armed" => ~Contains(hostQueue, TxEvent) /\ ~Contains(hostQueue, TxRetryEvent)

(* A command is of the subscription that is current exactly if its generation
   is. *)
GenerationInv == \A i \in Slot:
  /\ commands[i].used => (commands[i].mine <=> commands[i].generation = generation)
  /\ commands[i].mine => commands[i].used

(* The command that will start the idle callout again, where it is needed. *)
IdleInv ==
  (connected /\ ~closing /\ ~lapsed) =>
     \/ idleTimeout = "armed"
     \/ Contains(hostQueue, IdleTimeoutEvent)
     \/ \E i \in Slot: commands[i].mine /\ commands[i].kind = "command"

IInv == TypeOK /\ WorkerInv /\ SlotInv /\ TokenInv /\ GenerationInv /\ IdleInv

(* Under priority.  Nothing runs between the end of an expired transfer and
   the end of its subscription. *)
DropInv == \A i \in Slot:
  (commands[i].used /\ commands[i].disconnectAfter) =>
     /\ Contains(hostQueue, Done(i)) /\ pc = "queue"
     /\ \A k \in Component: held[k] = "none"

(* Without a connection nothing is of the current subscription but a sample. *)
ApartInv == ~connected => /\ \A k \in Component: held[k] # "mine"
                          /\ \A i \in Slot: commands[i].mine => commands[i].kind = "telemetry"

(* What an earlier subscription left behind, or a command of it may still
   leave, is cleared before a command of the current one is executed. *)
Leftover == \/ \E k \in Component: held[k] = "foreign"
            \/ pc \in {"run", "wait"} /\ ~commands[current].mine

AbortAhead(q, c) ==
  \E p \in 1..Len(q):
     /\ q[p] = AbortEvent
     /\ \A j \in 1..p - 1, i \in Slot: q[j] = Work(i) => ~c[i].mine

LeftoverInv == Leftover => /\ AbortAhead(displayQueue, commands)
                           /\ current # None => ~commands[current].mine

PriorityInv == DropInv /\ ApartInv /\ LeftoverInv

-----------------------------------------------------------------------------
(***************************************************************************)
(* Lemmas about the operators of Link.                                     *)
(***************************************************************************)
LEMMA EventTypes ==
  /\ \A i \in Slot: Work(i) \in Events /\ Done(i) \in Events
  /\ {AbortEvent, IdleAbortEvent, TxEvent, TxRetryEvent, IdleTimeoutEvent} \subseteq Events
BY DEF Events

LEMMA EventsDiffer ==
  /\ \A i, j \in Slot: Work(i) = Work(j) => i = j
  /\ \A i, j \in Slot: Done(i) = Done(j) => i = j
  /\ \A i, j \in Slot: Work(i) # Done(j)
  /\ \A e \in {AbortEvent, IdleAbortEvent, TxEvent, TxRetryEvent, IdleTimeoutEvent}, i \in Slot:
       e # Work(i) /\ e # Done(i)
  /\ AbortEvent # IdleAbortEvent /\ TxEvent # TxRetryEvent
  /\ IdleTimeoutEvent # TxEvent /\ IdleTimeoutEvent # TxRetryEvent
BY DEF Work, Done, AbortEvent, IdleAbortEvent, TxEvent, TxRetryEvent, IdleTimeoutEvent

Command == [used : BOOLEAN, kind : {"command", "telemetry"}, mine : BOOLEAN,
            generation : Generation, disconnectAfter : BOOLEAN]

Types ==
  /\ generation \in Generation
  /\ connected \in BOOLEAN /\ subscribed \in BOOLEAN /\ closing \in BOOLEAN /\ lapsed \in BOOLEAN
  /\ commands \in [Slot -> Command]
  /\ idleTimeout \in {"off", "armed"} /\ txRetry \in {"off", "armed"}
  /\ tx \in [generation : Generation, retries : 0..MaxRetries,
             result : {"ok", "busy", "failed", "notConnected"}]
  /\ finished \in 0..1
  /\ pc \in {"queue", "check", "run", "wait"}
  /\ current \in Slot \cup {None}
  /\ sends \in 0..MaxSends
  /\ held \in [Component -> Owner]

LEMMA TypeParts == TypeOK <=> Types /\ QueueOK(displayQueue) /\ QueueOK(hostQueue)
BY DEF TypeOK, Types, Command, QueueOK

LEMMA SlotNumbers == Slot \subseteq Nat /\ None \notin Slot
BY LinkAssumption DEF LinkAssumption, None

LEMMA GenerationMin == Generation # {} /\ Min(Generation) \in Generation
<1>1. Generation # {}
  BY LinkAssumption, FS_EmptySet, FS_CardinalityType DEF LinkAssumption
<1> QED BY <1>1, MinIsLeast, LinkAssumption DEF LinkAssumption

LEMMA FreeSlotType == FreeSlot \in Command /\ ~FreeSlot.used /\ ~FreeSlot.mine
BY GenerationMin DEF FreeSlot, Command

LEMMA IdleTxType == IdleTx \in [generation : Generation, retries : 0..MaxRetries,
                               result : {"ok", "busy", "failed", "notConnected"}]
BY GenerationMin, LinkAssumption DEF IdleTx, LinkAssumption

(* There is always a generation that no command still has. *)
LEMMA BumpIsFresh ==
  ASSUME Types, Bump
  PROVE  /\ generation' \in Generation /\ generation' # generation
         /\ \A i \in Slot: commands[i].used => commands[i].generation # generation'
<1> DEFINE copies == {commands[i].generation : i \in Slot}
<1>1. IsFiniteSet(copies) /\ Cardinality(copies) <= Cardinality(Slot)
  <2> DEFINE f == [i \in Slot |-> commands[i].generation]
  <2>1. f \in Surjection(Slot, copies)
    BY DEF Surjection
  <2> HIDE DEF f
  <2> QED BY <2>1, FS_Surjection, LinkAssumption DEF LinkAssumption
<1>2. IsFiniteSet(copies \cup {generation})
      /\ Cardinality(copies \cup {generation}) <= Cardinality(Slot) + 1
  <2>1. Cardinality(copies) \in Nat /\ Cardinality(Slot) \in Nat
    BY <1>1, FS_CardinalityType, LinkAssumption DEF LinkAssumption
  <2> HIDE DEF copies
  <2>2. /\ IsFiniteSet(copies \cup {generation})
        /\ Cardinality(copies \cup {generation}) =
             IF generation \in copies THEN Cardinality(copies) ELSE Cardinality(copies) + 1
    BY <1>1, FS_AddElement
  <2> QED BY <1>1, <2>1, <2>2
<1>3. ~(Generation \subseteq copies \cup {generation})
  <2>1. Cardinality(copies \cup {generation}) \in Nat /\ Cardinality(Slot) \in Nat
        /\ Cardinality(Generation) \in Nat
    BY <1>2, FS_CardinalityType, LinkAssumption DEF LinkAssumption
  <2> HIDE DEF copies
  <2>2. ASSUME Generation \subseteq copies \cup {generation}
        PROVE  Cardinality(Generation) <= Cardinality(copies \cup {generation})
    BY <1>2, <2>2, FS_Subset
  <2> QED BY <1>2, <2>1, <2>2, LinkAssumption DEF LinkAssumption
<1>4. LiveGenerations \subseteq copies \cup {generation}
  BY DEF LiveGenerations
<1>5. generation' \in Generation \ LiveGenerations
  BY <1>3, <1>4, MinIsLeast, LinkAssumption DEF Bump, LinkAssumption
<1> QED BY <1>5 DEF LiveGenerations

LEMMA OutdateType ==
  ASSUME NEW c \in [Slot -> Command]
  PROVE  /\ Outdate(c) \in [Slot -> Command]
         /\ \A i \in Slot: /\ ~Outdate(c)[i].mine
                           /\ Outdate(c)[i].used = c[i].used /\ Outdate(c)[i].kind = c[i].kind
                           /\ Outdate(c)[i].generation = c[i].generation
                           /\ Outdate(c)[i].disconnectAfter = c[i].disconnectAfter
BY DEF Outdate, Command

LEMMA OutdateHeldType ==
  ASSUME held \in [Component -> Owner], OutdateHeld
  PROVE  /\ held' \in [Component -> Owner]
         /\ \A k \in Component: /\ held'[k] # "mine"
                                /\ held'[k] = "none" <=> held[k] = "none"
BY DEF OutdateHeld, Owner

LEMMA ClearType ==
  ASSUME held \in [Component -> Owner], NEW ks, Clear(ks)
  PROVE  /\ held' \in [Component -> Owner]
         /\ \A k \in Component: held'[k] = IF k \in ks THEN "none" ELSE held[k]
BY DEF Clear, Owner

LEMMA FirstFree == FreeSlots # {} => Min(FreeSlots) \in FreeSlots /\ Min(FreeSlots) \in Slot
BY MinIsLeast, SlotNumbers DEF FreeSlots

-----------------------------------------------------------------------------
(***************************************************************************)
(* Every action keeps the invariant.                                       *)
(***************************************************************************)
LEMMA InvParts ==
  IInv <=> /\ Types /\ QueueOK(displayQueue) /\ QueueOK(hostQueue)
           /\ WorkerInv /\ SlotInv /\ TokenInv /\ GenerationInv /\ IdleInv
BY TypeParts DEF IInv

LEMMA InvPartsNext ==
  IInv' <=> /\ Types' /\ QueueOK(displayQueue') /\ QueueOK(hostQueue')
            /\ WorkerInv' /\ SlotInv' /\ TokenInv' /\ GenerationInv' /\ IdleInv'
BY DEF IInv, TypeOK, Types, Command, QueueOK

USE DEF linkVars, txVars, workerVars

(* A command or a sample takes a free slot. *)
LEMMA ClaimKeeps ==
  ASSUME IInv, NEW i \in Slot, ~commands[i].used, NEW kind \in {"command", "telemetry"},
         Claim(i, kind), UNCHANGED <<linkVars, txVars, workerVars>>,
         \/ kind = "command" /\ StopIdle
         \/ ~connected /\ UNCHANGED <<hostQueue, idleTimeout>>
  PROVE  IInv'
<1>1. /\ Types /\ QueueOK(displayQueue) /\ QueueOK(hostQueue)
      /\ WorkerInv /\ SlotInv /\ TokenInv /\ GenerationInv /\ IdleInv
  BY InvParts
<1>2. /\ commands' = [commands EXCEPT ![i] = [used |-> TRUE, kind |-> kind, mine |-> TRUE,
                                   generation |-> generation, disconnectAfter |-> FALSE]]
      /\ displayQueue' = Put(displayQueue, Work(i))
      /\ idleTimeout' \in {"off", idleTimeout}
  BY DEF Claim, StopIdle
<1>3. /\ QueueOK(displayQueue')
      /\ \A e: Contains(displayQueue', e) <=> e = Work(i) \/ Contains(displayQueue, e)
  BY <1>1, <1>2, PutQueue, EventTypes
<1>4. /\ QueueOK(hostQueue')
      /\ \A e: e # IdleTimeoutEvent => (Contains(hostQueue', e) <=> Contains(hostQueue, e))
  BY <1>1, CancelQueue DEF StopIdle
<1>5. Types'
  BY <1>1, <1>2 DEF Types, Command
<1>6. WorkerInv'
  BY <1>1, <1>2, SlotNumbers DEF WorkerInv, SlotInv, Types, Command
<1>7. SlotInv'
  BY <1>1, <1>2, <1>3, <1>4, EventsDiffer DEF SlotInv, Types, Command
<1>8. TokenInv'
  BY <1>1, <1>2, <1>3, <1>4, EventsDiffer, SlotNumbers
     DEF TokenInv, WorkerInv, SlotInv, Trying, Types, Command
<1>9. GenerationInv'
  BY <1>1, <1>2 DEF GenerationInv, Types, Command
<1>10. IdleInv'
  BY <1>1, <1>2 DEF IdleInv, Types, Command
<1> QED BY <1>3, <1>4, <1>5, <1>6, <1>7, <1>8, <1>9, <1>10, InvPartsNext

(* The subscription ends: the generation changes, what is there becomes
   foreign; the display task may be told. *)
LEMMA OutdateKeeps ==
  ASSUME IInv, Bump, commands' = Outdate(commands), OutdateHeld,
         UNCHANGED <<txVars, pc, current, sends>>,
         connected' \in BOOLEAN, subscribed' \in BOOLEAN, closing' \in BOOLEAN, lapsed' \in BOOLEAN,
         displayQueue' \in {displayQueue, Put(displayQueue, AbortEvent)},
         hostQueue' \in {hostQueue, Cancel(hostQueue, IdleTimeoutEvent)},
         idleTimeout' \in {"off", "armed"},
         IdleInv'
  PROVE  IInv'
<1>1. /\ Types /\ QueueOK(displayQueue) /\ QueueOK(hostQueue)
      /\ WorkerInv /\ SlotInv /\ TokenInv /\ GenerationInv
  BY InvParts
<1>2. /\ generation' \in Generation
      /\ \A i \in Slot: commands[i].used => commands[i].generation # generation'
  BY <1>1, BumpIsFresh
<1>3. /\ commands' \in [Slot -> Command]
      /\ \A i \in Slot: /\ ~commands'[i].mine
                        /\ commands'[i].used = commands[i].used
                        /\ commands'[i].kind = commands[i].kind
                        /\ commands'[i].generation = commands[i].generation
  BY <1>1, OutdateType DEF Types
<1>4. /\ QueueOK(displayQueue')
      /\ \A e: e # AbortEvent => (Contains(displayQueue', e) <=> Contains(displayQueue, e))
  BY <1>1, PutQueue, EventTypes
<1>5. /\ QueueOK(hostQueue')
      /\ \A e: e # IdleTimeoutEvent => (Contains(hostQueue', e) <=> Contains(hostQueue, e))
  BY <1>1, CancelQueue
<1>6. Types'
  BY <1>1, <1>2, <1>3, OutdateHeldType DEF Types
<1>7. WorkerInv'
  BY <1>1, <1>3, SlotNumbers DEF WorkerInv, Types
<1>8. SlotInv'
  BY <1>1, <1>3, <1>4, <1>5, EventsDiffer DEF SlotInv
<1>9. TokenInv'
  BY <1>1, <1>3, <1>5, EventsDiffer DEF TokenInv, WorkerInv, Trying, Types
<1>10. GenerationInv'
  BY <1>2, <1>3 DEF GenerationInv
<1> QED BY <1>4, <1>5, <1>6, <1>7, <1>8, <1>9, <1>10, InvPartsNext

LEMMA ClientKeeps == ASSUME IInv, Client \/ SampleTelemetry PROVE IInv'
<1>1. TypeOK
  BY DEF IInv
<1>2. CASE Connect
  <2>1. IdleInv'
    BY <1>2 DEF Connect, ArmIdle, IdleInv
  <2> QED BY <1>2, <2>1, OutdateKeeps DEF Connect, ArmIdle
<1>3. CASE ResetLink
  <2>1. IdleInv'
    BY <1>3 DEF ResetLink, IdleInv
  <2> QED BY <1>3, <2>1, OutdateKeeps DEF ResetLink, StopIdle
<1>4. CASE Subscribe
  <2>1. Types' BY <1>4, InvParts DEF Subscribe, Types
  <2>2. /\ QueueOK(displayQueue') /\ QueueOK(hostQueue')
        /\ WorkerInv' /\ SlotInv' /\ TokenInv' /\ GenerationInv' /\ IdleInv'
    BY <1>4, InvParts
       DEF Subscribe, WorkerInv, SlotInv, TokenInv, Trying, GenerationInv, IdleInv
  <2> QED BY <2>1, <2>2, InvPartsNext
<1>5. CASE Unsubscribe
  <2>1. IdleInv'
    BY <1>1, <1>5 DEF Unsubscribe, IdleInv, TypeOK
  <2>2. lapsed' \in BOOLEAN
    BY <1>5 DEF Unsubscribe
  <2> QED BY <1>1, <1>5, <2>1, <2>2, OutdateKeeps DEF Unsubscribe, TypeOK
<1>6. CASE AccessValue
  <2>1. Min(FreeSlots) \in Slot /\ ~commands[Min(FreeSlots)].used
    BY <1>6, FirstFree DEF AccessValue, FreeSlots
  <2> QED BY <1>6, <2>1, ClaimKeeps DEF AccessValue
<1>7. CASE SampleTelemetry
  <2>1. Min(Slot) \in Slot /\ ~commands[Min(Slot)].used
    BY <1>7, MinIsLeast, LinkAssumption DEF SampleTelemetry, FreeSlots, LinkAssumption
  <2> QED BY <1>7, <2>1, ClaimKeeps DEF SampleTelemetry
<1> QED BY <1>2, <1>3, <1>4, <1>5, <1>6, <1>7 DEF Client

(* The host takes the event of a response: another try is due, or none. *)
LEMMA NotifyKeeps == ASSUME IInv, Notify PROVE IInv'
<1>1. /\ Types /\ QueueOK(displayQueue) /\ QueueOK(hostQueue)
      /\ WorkerInv /\ SlotInv /\ TokenInv /\ GenerationInv /\ IdleInv
  BY InvParts
<1>2. PICK e \in {TxEvent, TxRetryEvent}, rc \in {"ok", "busy", "failed", "notConnected"}:
        /\ HostHead(e)
        /\ hostQueue' = Tail(hostQueue)
        /\ IF rc = "busy" /\ tx.retries + 1 < MaxRetries
           THEN /\ txRetry' = "armed"
                /\ tx' = [tx EXCEPT !.retries = @ + 1]
                /\ UNCHANGED finished
           ELSE /\ tx' = [tx EXCEPT !.retries = IF rc = "busy" THEN @ + 1 ELSE @, !.result = rc]
                /\ finished' = finished + 1
                /\ UNCHANGED txRetry
        /\ UNCHANGED <<linkVars, commands, displayQueue, idleTimeout, workerVars>>
  BY DEF Notify
<1>3. /\ QueueOK(hostQueue') /\ Contains(hostQueue, e)
      /\ \A f: Contains(hostQueue', f) <=> Contains(hostQueue, f) /\ f # e
  BY <1>1, <1>2, TailQueue DEF HostHead
<1>4. /\ tx.retries < MaxRetries /\ tx.retries \in Nat /\ MaxRetries \in Nat
      /\ finished = 0 /\ pc = "wait"
  BY <1>1, <1>2, <1>3, LinkAssumption DEF TokenInv, Trying, Types, LinkAssumption
<1>5. Types'
  <2>1. tx' \in [generation : Generation, retries : 0..MaxRetries,
                 result : {"ok", "busy", "failed", "notConnected"}]
    <3>1. CASE rc = "busy" /\ tx.retries + 1 < MaxRetries
      BY <1>1, <1>2, <1>4, <3>1 DEF Types
    <3>2. CASE rc = "busy" /\ ~(tx.retries + 1 < MaxRetries)
      <4>1. tx' = [tx EXCEPT !.retries = @ + 1, !.result = rc]
        BY <1>2, <3>2
      <4>2. tx.retries + 1 \in 0..MaxRetries
        BY <1>4
      <4> QED BY <1>1, <4>1, <4>2 DEF Types
    <3>3. CASE rc # "busy"
      <4>1. tx' = [tx EXCEPT !.retries = @, !.result = rc]
        BY <1>2, <3>3
      <4> QED BY <1>1, <4>1 DEF Types
    <3> QED BY <3>1, <3>2, <3>3
  <2> QED BY <1>1, <1>2, <1>4, <2>1 DEF Types
<1>6. WorkerInv' /\ GenerationInv'
  BY <1>1, <1>2 DEF WorkerInv, GenerationInv
<1>7. SlotInv'
  BY <1>1, <1>2, <1>3, EventsDiffer DEF SlotInv
<1>8. TokenInv'
  BY <1>1, <1>2, <1>3, <1>4, EventsDiffer DEF TokenInv, Trying, Types
<1>9. IdleInv'
  BY <1>1, <1>2, <1>3, EventsDiffer DEF IdleInv
<1> QED BY <1>1, <1>2, <1>3, <1>5, <1>6, <1>7, <1>8, <1>9, InvPartsNext

LEMMA CommandDoneKeeps == ASSUME IInv, CommandDone PROVE IInv'
<1>1. /\ Types /\ QueueOK(displayQueue) /\ QueueOK(hostQueue)
      /\ WorkerInv /\ SlotInv /\ TokenInv /\ GenerationInv /\ IdleInv
  BY InvParts
<1>2. PICK i \in Slot:
        /\ HostHead(Done(i))
        /\ \/ DisconnectAfter(i)
           \/ /\ ~(commands[i].disconnectAfter /\ commands[i].generation = generation)
              /\ commands' = [commands EXCEPT ![i] = FreeSlot]
              /\ IF /\ commands[i].kind = "command"
                    /\ commands[i].generation = generation
                    /\ connected
                 THEN ArmIdle(Tail(hostQueue))
                 ELSE hostQueue' = Tail(hostQueue) /\ UNCHANGED <<idleTimeout, lapsed>>
              /\ UNCHANGED <<generation, connected, subscribed, closing, held>>
        /\ UNCHANGED <<displayQueue, txVars, pc, current, sends>>
  BY DEF CommandDone
<1>3. /\ QueueOK(Tail(hostQueue)) /\ Contains(hostQueue, Done(i))
      /\ \A e: Contains(Tail(hostQueue), e) <=> Contains(hostQueue, e) /\ e # Done(i)
  BY <1>1, <1>2, TailQueue DEF HostHead
<1>4. hostQueue' \in {Tail(hostQueue), Cancel(Tail(hostQueue), IdleTimeoutEvent)}
  BY <1>2 DEF DisconnectAfter, ArmIdle
<1>5. /\ QueueOK(hostQueue')
      /\ \A e: e # IdleTimeoutEvent =>
             (Contains(hostQueue', e) <=> Contains(hostQueue, e) /\ e # Done(i))
  <2> DEFINE t == Tail(hostQueue)
  <2>1. /\ QueueOK(Cancel(t, IdleTimeoutEvent))
        /\ \A e: Contains(Cancel(t, IdleTimeoutEvent), e) <=> Contains(t, e) /\ e # IdleTimeoutEvent
    <3> HIDE DEF t
    <3> QED BY <1>3, CancelQueue DEF t
  <2> QED BY <1>3, <1>4, <2>1
<1>6. current # i /\ ~Contains(displayQueue, Work(i))
  BY <1>1, <1>3 DEF SlotInv
<1>7. CASE DisconnectAfter(i)
  <2> DEFINE freed == [commands EXCEPT ![i] = FreeSlot]
  <2>1. /\ freed \in [Slot -> Command]
        /\ \A j \in Slot: freed[j] = IF j = i THEN FreeSlot ELSE commands[j]
    BY <1>1, FreeSlotType DEF Types
  <2>2. commands' = Outdate(freed)
    BY <1>7 DEF DisconnectAfter
  <2> HIDE DEF freed
  <2>3. /\ commands' \in [Slot -> Command] /\ ~commands'[i].used
        /\ \A j \in Slot: ~commands'[j].mine
        /\ \A j \in Slot \ {i}: /\ commands'[j].used = commands[j].used
                               /\ commands'[j].kind = commands[j].kind
                               /\ commands'[j].generation = commands[j].generation
    BY <2>1, <2>2, OutdateType, FreeSlotType
  <2>4. /\ generation' \in Generation
        /\ \A j \in Slot: commands[j].used => commands[j].generation # generation'
    BY <1>1, <1>7, BumpIsFresh DEF DisconnectAfter
  <2>5. Types'
    <3>1. held' \in [Component -> Owner]
      BY <1>1, <1>7, OutdateHeldType DEF DisconnectAfter, Types
    <3>2. closing' \in BOOLEAN /\ lapsed' \in BOOLEAN /\ idleTimeout' \in {"off", "armed"}
          /\ connected' = connected /\ subscribed' = FALSE
      BY <1>1, <1>7 DEF DisconnectAfter, ArmIdle, Types
    <3> QED BY <1>1, <1>2, <2>3, <2>4, <3>1, <3>2 DEF Types
  <2>6. WorkerInv'
    BY <1>1, <1>2, <1>6, <2>3, SlotNumbers DEF WorkerInv, Types
  <2>7. SlotInv'
    BY <1>1, <1>2, <1>3, <1>5, <1>6, <2>3, EventsDiffer DEF SlotInv
  <2>8. TokenInv'
    BY <1>1, <1>2, <1>5, <1>6, <2>3, EventsDiffer DEF TokenInv, WorkerInv, Trying, Types
  <2>9. GenerationInv'
    BY <2>3, <2>4 DEF GenerationInv
  <2>10. IdleInv'
    BY <1>7 DEF DisconnectAfter, ArmIdle, IdleInv
  <2> QED BY <1>1, <1>2, <1>5, <2>5, <2>6, <2>7, <2>8, <2>9, <2>10, InvPartsNext
<1>8. CASE ~DisconnectAfter(i)
  <2>1. /\ commands' \in [Slot -> Command]
        /\ \A j \in Slot: commands'[j] = IF j = i THEN FreeSlot ELSE commands[j]
    BY <1>1, <1>2, <1>8, FreeSlotType DEF Types
  <2>2. Types'
    <3>1. idleTimeout' \in {"off", "armed"}
      BY <1>1, <1>2, <1>8 DEF ArmIdle, Types
    <3>2. lapsed' \in BOOLEAN
      BY <1>1, <1>2, <1>8, Zenon DEF ArmIdle, Types
    <3>3. UNCHANGED <<generation, connected, subscribed, closing, held>>
      BY <1>2, <1>8, Zenon
    <3>4. UNCHANGED <<txVars, pc, current, sends>>
      BY <1>2, Zenon
    <3> QED BY <1>1, <2>1, <3>1, <3>2, <3>3, <3>4 DEF Types
  <2>3. WorkerInv'
    BY <1>1, <1>2, <1>6, <2>1 DEF WorkerInv, Types
  <2>4. SlotInv'
    BY <1>1, <1>2, <1>3, <1>5, <1>6, <2>1, EventsDiffer, FreeSlotType DEF SlotInv
  <2>5. TokenInv'
    BY <1>1, <1>2, <1>5, <1>6, <2>1, EventsDiffer DEF TokenInv, WorkerInv, Trying, Types
  <2>6. GenerationInv'
    BY <1>1, <1>2, <1>8, <2>1, FreeSlotType DEF GenerationInv
  <2>7. IdleInv'
    <3>1. CASE commands[i].kind = "command" /\ commands[i].generation = generation /\ connected
      BY <1>2, <1>8, <3>1 DEF IdleInv, ArmIdle
    <3>2. CASE ~(commands[i].kind = "command" /\ commands[i].generation = generation /\ connected)
      <4>1. hostQueue' = Tail(hostQueue)
            /\ UNCHANGED <<idleTimeout, lapsed, connected, closing>>
        BY <1>2, <1>8, <3>2
      <4>2. Contains(hostQueue, IdleTimeoutEvent) => Contains(hostQueue', IdleTimeoutEvent)
        BY <1>3, <4>1, EventsDiffer
      <4>3. ASSUME NEW j \in Slot, commands[j].mine, commands[j].kind = "command", connected
            PROVE  commands'[j].mine /\ commands'[j].kind = "command"
        BY <1>1, <2>1, <3>2, <4>3 DEF GenerationInv
      <4> QED BY <1>1, <4>1, <4>2, <4>3 DEF IdleInv
    <3> QED BY <3>1, <3>2
  <2> QED BY <1>1, <1>2, <1>5, <2>2, <2>3, <2>4, <2>5, <2>6, <2>7, InvPartsNext
<1> QED BY <1>7, <1>8

LEMMA ExpireKeeps == ASSUME IInv, Expire PROVE IInv'
<1>1. /\ Types /\ QueueOK(displayQueue) /\ QueueOK(hostQueue)
      /\ WorkerInv /\ SlotInv /\ TokenInv /\ GenerationInv /\ IdleInv
  BY InvParts
<1>2. /\ QueueOK(hostQueue')
      /\ \A e: e # IdleTimeoutEvent => (Contains(hostQueue', e) <=> Contains(hostQueue, e))
  BY <1>1, TailQueue DEF Expire, HostHead
<1>3. displayQueue' \in {displayQueue, Put(displayQueue, IdleAbortEvent)}
  BY DEF Expire
<1>4. /\ QueueOK(displayQueue')
      /\ \A e: e # IdleAbortEvent => (Contains(displayQueue', e) <=> Contains(displayQueue, e))
  BY <1>1, <1>3, PutQueue, EventTypes
<1>5. Types'
  <2>1. idleTimeout' \in {"off", "armed"}
    BY <1>1 DEF Expire, Types
  <2>2. closing' \in BOOLEAN
    BY <1>1, Zenon DEF Expire, Types
  <2>3. UNCHANGED <<generation, connected, subscribed, lapsed, commands, txVars, workerVars>>
    BY Zenon DEF Expire
  <2> QED BY <1>1, <2>1, <2>2, <2>3 DEF Types
<1>6. WorkerInv' /\ GenerationInv'
  BY <1>1 DEF Expire, WorkerInv, GenerationInv
<1>7. SlotInv'
  BY <1>1, <1>2, <1>4, EventsDiffer DEF Expire, SlotInv
<1>8. TokenInv'
  BY <1>1, <1>2, EventsDiffer DEF Expire, TokenInv, Trying
<1>9. IdleInv'
  BY <1>1 DEF Expire, IdleInv
<1> QED BY <1>2, <1>4, <1>5, <1>6, <1>7, <1>8, <1>9, InvPartsNext

LEMMA TimersKeep == ASSUME IInv, Timers PROVE IInv'
<1>1. /\ Types /\ QueueOK(displayQueue) /\ QueueOK(hostQueue)
      /\ WorkerInv /\ SlotInv /\ TokenInv /\ GenerationInv /\ IdleInv
  BY InvParts
<1>2. PICK e \in {IdleTimeoutEvent, TxRetryEvent}: hostQueue' = Put(hostQueue, e)
        /\ (IF e = IdleTimeoutEvent THEN IdleFires ELSE TxRetryFires)
  BY EventsDiffer DEF Timers, IdleFires, TxRetryFires
<1>3. /\ QueueOK(hostQueue')
      /\ \A f: Contains(hostQueue', f) <=> f = e \/ Contains(hostQueue, f)
  BY <1>1, <1>2, PutQueue, EventTypes
<1>4. Types' /\ QueueOK(displayQueue')
  BY <1>1, <1>2 DEF IdleFires, TxRetryFires, Types
<1>5. WorkerInv' /\ GenerationInv'
  BY <1>1, <1>2 DEF IdleFires, TxRetryFires, WorkerInv, GenerationInv
<1>6. SlotInv'
  BY <1>1, <1>2, <1>3, EventsDiffer DEF IdleFires, TxRetryFires, SlotInv
<1>7. TokenInv'
  BY <1>1, <1>2, <1>3, EventsDiffer DEF IdleFires, TxRetryFires, TokenInv, Trying
<1>8. IdleInv'
  BY <1>1, <1>2, <1>3 DEF IdleFires, TxRetryFires, IdleInv
<1> QED BY <1>3, <1>4, <1>5, <1>6, <1>7, <1>8, InvPartsNext

(* The display task takes its next event. *)
LEMMA DequeueKeeps == ASSUME IInv, Dequeue PROVE IInv'
<1>1. /\ Types /\ QueueOK(displayQueue) /\ QueueOK(hostQueue)
      /\ WorkerInv /\ SlotInv /\ TokenInv /\ GenerationInv /\ IdleInv
  BY InvParts
<1>2. /\ displayQueue # <<>> /\ displayQueue' = Tail(displayQueue) /\ pc = "queue"
      /\ UNCHANGED <<linkVars, commands, hostQueue, idleTimeout, txVars, sends>>
  BY DEF Dequeue, TakeWork, AbortWork, IdleAbortWork
<1>3. /\ QueueOK(displayQueue') /\ Contains(displayQueue, Head(displayQueue))
      /\ \A e: Contains(displayQueue', e) <=> Contains(displayQueue, e) /\ e # Head(displayQueue)
  BY <1>1, <1>2, TailQueue
<1>4. current = None
  BY <1>1, <1>2 DEF WorkerInv
<1>5. GenerationInv' /\ IdleInv'
  BY <1>1, <1>2 DEF GenerationInv, IdleInv
<1>6. CASE TakeWork
  <2>1. PICK i \in Slot: Head(displayQueue) = Work(i) /\ current' = i
    BY <1>6 DEF TakeWork
  <2>2. Types'
    BY <1>1, <1>2, <1>6, <2>1 DEF TakeWork, Types
  <2>3. WorkerInv'
    BY <1>6, <2>1, SlotNumbers DEF TakeWork, WorkerInv
  <2>4. SlotInv'
    BY <1>1, <1>2, <1>3, <1>4, <2>1, EventsDiffer, SlotNumbers DEF SlotInv
  <2>5. TokenInv'
    BY <1>1, <1>2, <1>6 DEF TakeWork, TokenInv, Trying
  <2> QED BY <1>1, <1>2, <1>3, <1>5, <2>2, <2>3, <2>4, <2>5, InvPartsNext
<1>7. CASE AbortWork \/ IdleAbortWork
  <2>1. /\ Head(displayQueue) \in {AbortEvent, IdleAbortEvent}
        /\ UNCHANGED <<pc, current>> /\ \E ks \in SUBSET Component: Clear(ks)
    BY <1>7 DEF AbortWork, IdleAbortWork, Component
  <2>2. Types'
    BY <1>1, <1>2, <2>1, ClearType DEF Types
  <2>3. WorkerInv' /\ TokenInv'
    BY <1>1, <1>2, <2>1 DEF WorkerInv, TokenInv, Trying
  <2>4. SlotInv'
    BY <1>1, <1>2, <1>3, <2>1, EventsDiffer DEF SlotInv
  <2> QED BY <1>1, <1>2, <1>3, <1>5, <2>2, <2>3, <2>4, InvPartsNext
<1> QED BY <1>6, <1>7 DEF Dequeue

(* The display task is done with a slot and gives it back to the host. *)
LEMMA FinishKeeps ==
  ASSUME IInv, Finish, pc # "queue", ~Trying, finished' = 0, txRetry' = txRetry,
         tx' \in {tx, IdleTx}, UNCHANGED <<linkVars, displayQueue, idleTimeout>>,
         commands' \in {commands, [commands EXCEPT ![current].disconnectAfter = TRUE]},
         held' = held \/ \E ks: Clear(ks)
  PROVE  IInv'
<1>1. /\ Types /\ QueueOK(displayQueue) /\ QueueOK(hostQueue)
      /\ WorkerInv /\ SlotInv /\ TokenInv /\ GenerationInv /\ IdleInv
  BY InvParts
<1>2. current \in Slot
  BY <1>1 DEF WorkerInv, Types
<1>3. /\ hostQueue' = Put(hostQueue, Done(current))
      /\ pc' = "queue" /\ current' = None /\ sends' = 0
  BY DEF Finish
<1>4. /\ QueueOK(hostQueue')
      /\ \A e: Contains(hostQueue', e) <=> e = Done(current) \/ Contains(hostQueue, e)
  BY <1>1, <1>2, <1>3, PutQueue, EventTypes
<1>5. /\ commands' \in [Slot -> Command]
      /\ \A i \in Slot: /\ commands'[i].used = commands[i].used
                        /\ commands'[i].kind = commands[i].kind
                        /\ commands'[i].mine = commands[i].mine
                        /\ commands'[i].generation = commands[i].generation
  <2>1. CASE commands' = commands
    BY <1>1, <2>1 DEF Types
  <2>2. CASE commands' = [commands EXCEPT ![current].disconnectAfter = TRUE]
    <3> DEFINE c == [commands[current] EXCEPT !.disconnectAfter = TRUE]
    <3>1. /\ c \in Command
          /\ c.used = commands[current].used /\ c.kind = commands[current].kind
          /\ c.mine = commands[current].mine /\ c.generation = commands[current].generation
      BY <1>1, <1>2 DEF Types, Command
    <3>2. commands' = [commands EXCEPT ![current] = c]
      BY <2>2
    <3> HIDE DEF c
    <3> QED BY <1>1, <1>2, <3>1, <3>2 DEF Types
  <2> QED BY <2>1, <2>2
<1>6. Types'
  <2>1. held' \in [Component -> Owner]
    BY <1>1, ClearType DEF Types
  <2> QED BY <1>1, <1>3, <1>5, <2>1, IdleTxType, LinkAssumption DEF Types, LinkAssumption
<1>7. WorkerInv' /\ GenerationInv'
  BY <1>1, <1>3, <1>5 DEF WorkerInv, GenerationInv
<1>8. SlotInv'
  BY <1>1, <1>2, <1>3, <1>4, <1>5, EventsDiffer, SlotNumbers DEF SlotInv
<1>9. TokenInv'
  BY <1>1, <1>2, <1>3, <1>4, EventsDiffer DEF TokenInv, Trying
<1>10. IdleInv'
  BY <1>1, <1>4, <1>5 DEF IdleInv
<1> QED BY <1>1, <1>4, <1>6, <1>7, <1>8, <1>9, <1>10, InvPartsNext

LEMMA LeaveKeeps == ASSUME IInv, Leave PROVE IInv'
<1>1. /\ Types /\ QueueOK(displayQueue) /\ QueueOK(hostQueue)
      /\ WorkerInv /\ SlotInv /\ TokenInv /\ GenerationInv /\ IdleInv
  BY InvParts
<1>2. ASSUME pc \in {"check", "run"}
      PROVE  ~Trying /\ finished = 0
  BY <1>1, <1>2 DEF TokenInv, Types
<1>3. CASE CheckTelemetry
  BY <1>2, <1>3, FinishKeeps DEF CheckTelemetry
<1>4. CASE CheckStale
  BY <1>2, <1>4, FinishKeeps DEF CheckStale
<1>5. CASE CheckExpired
  BY <1>2, <1>5, FinishKeeps DEF CheckExpired
<1>6. CASE CommandEnds
  BY <1>2, <1>6, FinishKeeps DEF CommandEnds
<1>7. CASE CheckOk
  <2>1. Types' /\ WorkerInv' /\ SlotInv'
    BY <1>1, <1>7 DEF CheckOk, Types, WorkerInv, SlotInv
  <2>2. TokenInv' /\ GenerationInv' /\ IdleInv'
    BY <1>1, <1>7 DEF CheckOk, TokenInv, Trying, GenerationInv, IdleInv
  <2> QED BY <1>1, <1>7, <2>1, <2>2, InvPartsNext DEF CheckOk
<1>8. CASE SendResponse
  <2>1. /\ pc = "run" /\ current \in Slot
        /\ hostQueue' = Put(hostQueue, TxEvent)
    BY <1>1, <1>8 DEF SendResponse, WorkerInv, Types
  <2>2. /\ QueueOK(hostQueue')
        /\ \A e: Contains(hostQueue', e) <=> e = TxEvent \/ Contains(hostQueue, e)
    BY <1>1, <2>1, PutQueue, EventTypes
  <2>3. /\ tx' \in [generation : Generation, retries : 0..MaxRetries,
                     result : {"ok", "busy", "failed", "notConnected"}]
        /\ tx'.generation = commands[current].generation /\ tx'.retries = 0
    <3>1. commands[current].generation \in Generation /\ 0 \in 0..MaxRetries
      BY <1>1, <2>1, LinkAssumption DEF Types, Command, LinkAssumption
    <3>2. tx' = [tx EXCEPT !.generation = commands[current].generation, !.retries = 0]
      BY <1>8 DEF SendResponse
    <3> QED BY <1>1, <3>1, <3>2 DEF Types
  <2>4. Types'
    BY <1>1, <1>8, <2>3, LinkAssumption DEF SendResponse, Types, LinkAssumption
  <2>5. WorkerInv' /\ GenerationInv'
    BY <1>1, <1>8 DEF SendResponse, WorkerInv, GenerationInv
  <2>6. SlotInv'
    BY <1>1, <1>8, <2>2, EventsDiffer DEF SendResponse, SlotInv
  <2>7. TokenInv'
    BY <1>1, <1>2, <1>8, <2>1, <2>2, <2>3, EventsDiffer, LinkAssumption
       DEF SendResponse, TokenInv, Trying, LinkAssumption
  <2>8. IdleInv'
    BY <1>1, <1>8, <2>2 DEF SendResponse, IdleInv
  <2> QED BY <1>1, <1>8, <2>2, <2>4, <2>5, <2>6, <2>7, <2>8, InvPartsNext DEF SendResponse
<1>9. CASE ResponseSent
  <2>1. /\ ~Trying /\ finished = 1 /\ finished' = 0 /\ tx' = IdleTx /\ pc = "wait"
    BY <1>1, <1>9 DEF ResponseSent, TokenInv, Types
  <2>2. CASE tx.result = "ok"
    <3>1. Types'
      BY <1>1, <1>9, <2>1, <2>2, IdleTxType DEF ResponseSent, Types
    <3>2. WorkerInv' /\ SlotInv' /\ GenerationInv'
      BY <1>1, <1>9, <2>2 DEF ResponseSent, WorkerInv, SlotInv, GenerationInv
    <3>3. TokenInv' /\ IdleInv'
      BY <1>1, <1>9, <2>1, <2>2 DEF ResponseSent, TokenInv, Trying, IdleInv
    <3> QED BY <1>1, <1>9, <2>2, <3>1, <3>2, <3>3, InvPartsNext DEF ResponseSent
  <2>3. CASE tx.result # "ok"
    BY <1>9, <2>1, <2>3, FinishKeeps DEF ResponseSent
  <2> QED BY <2>2, <2>3
<1> QED BY <1>3, <1>4, <1>5, <1>6, <1>7, <1>8, <1>9 DEF Leave

LEMMA ExecuteKeeps == ASSUME IInv, Execute PROVE IInv'
<1>1. /\ Types /\ QueueOK(displayQueue) /\ QueueOK(hostQueue)
      /\ WorkerInv /\ SlotInv /\ TokenInv /\ GenerationInv /\ IdleInv
  BY InvParts
<1>2. Types'
  BY <1>1 DEF Execute, Types, Owner
<1>3. WorkerInv' /\ SlotInv' /\ TokenInv' /\ GenerationInv' /\ IdleInv'
  BY <1>1 DEF Execute, WorkerInv, SlotInv, TokenInv, Trying, GenerationInv, IdleInv
<1> QED BY <1>1, <1>2, <1>3, InvPartsNext DEF Execute

LEMMA InitHolds == Init => IInv
<1> SUFFICES ASSUME Init PROVE IInv
  OBVIOUS
<1>1. QueueOK(displayQueue) /\ QueueOK(hostQueue)
      /\ \A e: ~Contains(displayQueue, e) /\ ~Contains(hostQueue, e)
  BY EmptyQueue DEF Init
<1>2. Types
  <2>1. commands \in [Slot -> Command] /\ held \in [Component -> Owner]
    BY FreeSlotType DEF Init, Owner
  <2>2. 0 \in 0..MaxSends /\ 0 \in 0..1
    BY LinkAssumption DEF LinkAssumption
  <2> QED BY <2>1, <2>2, GenerationMin, IdleTxType DEF Init, Types
<1>3. WorkerInv /\ SlotInv /\ TokenInv /\ GenerationInv /\ IdleInv
  BY <1>1, FreeSlotType, SlotNumbers
     DEF Init, WorkerInv, SlotInv, TokenInv, Trying, GenerationInv, IdleInv
<1> QED BY <1>1, <1>2, <1>3, InvParts

LEMMA StepKeeps == IInv /\ [Next]_vars => IInv'
<1> SUFFICES ASSUME IInv, [Next]_vars PROVE IInv'
  OBVIOUS
<1>1. CASE Client \/ SampleTelemetry BY <1>1, ClientKeeps
<1>2. CASE HostStep BY <1>2, NotifyKeeps, CommandDoneKeeps, ExpireKeeps DEF HostStep
<1>3. CASE Timers BY <1>3, TimersKeep
<1>4. CASE Worker BY <1>4, DequeueKeeps, LeaveKeeps, ExecuteKeeps DEF Worker
<1>5. CASE UNCHANGED vars
  BY <1>5, InvParts, InvPartsNext
     DEF vars, Types, WorkerInv, SlotInv, TokenInv, Trying, GenerationInv, IdleInv
<1> QED BY <1>1, <1>2, <1>3, <1>4, <1>5 DEF Next

-----------------------------------------------------------------------------
(***************************************************************************)
(* What follows for every number of slots, tries and responses.            *)
(***************************************************************************)
(* Every access of the host's callbacks and of the display task to what they
   share keeps the slots, the tokens, the generations and the idle callout
   consistent, in any order. *)
THEOREM LinkInvariant == Spec => []IInv
BY InitHolds, StepKeeps, PTL DEF Spec

(* Every variable keeps its type, and an event is in a queue at most once,
   whichever callback put it there. *)
THEOREM LinkTypes == Spec => []TypeOK
<1>1. IInv => TypeOK
  BY DEF IInv
<1> QED BY <1>1, LinkInvariant, PTL

(* A command slot in use is waiting, being executed or waiting to be freed,
   and only one of these; a free slot is nowhere. *)
THEOREM SlotsAccounted == Spec => []SlotAccounting
<1>1. ASSUME IInv PROVE SlotAccounting
  <2> SUFFICES ASSUME NEW i \in Slot
               PROVE  Cardinality(Holders(i)) = IF commands[i].used THEN 1 ELSE 0
    BY DEF SlotAccounting
  <2>1. SlotInv
    BY <1>1 DEF IInv
  <2>2. \A h: h \in Holders(i) <=> \/ h = "displayQueue" /\ Contains(displayQueue, Work(i))
                                   \/ h = "worker" /\ current = i
                                   \/ h = "hostQueue" /\ Contains(hostQueue, Done(i))
    BY DEF Holders
  <2>3. CASE commands[i].used
    <3>1. \E h: Holders(i) = {h}
      <4>1. CASE Contains(displayQueue, Work(i))
        <5>1. Holders(i) = {"displayQueue"}
          BY <2>1, <2>2, <4>1 DEF SlotInv
        <5> QED BY <5>1
      <4>2. CASE current = i
        <5>1. Holders(i) = {"worker"}
          BY <2>1, <2>2, <4>2 DEF SlotInv
        <5> QED BY <5>1
      <4>3. CASE Contains(hostQueue, Done(i))
        <5>1. Holders(i) = {"hostQueue"}
          BY <2>1, <2>2, <4>3 DEF SlotInv
        <5> QED BY <5>1
      <4> QED BY <2>1, <2>3, <4>1, <4>2, <4>3 DEF SlotInv
    <3> QED BY <2>3, <3>1, FS_Singleton
  <2>4. CASE ~commands[i].used
    <3>1. Holders(i) = {}
      BY <2>1, <2>2, <2>4 DEF SlotInv
    <3> QED BY <2>4, <3>1, FS_EmptySet
  <2> QED BY <2>3, <2>4
<1> QED BY <1>1, LinkInvariant, PTL

(* The semaphore and the places of a try together hold one token exactly
   while the display task waits for a response. *)
THEOREM OneToken == Spec => []TokenDiscipline
<1>1. ASSUME IInv PROVE TokenDiscipline
  <2> DEFINE tries == {e \in {TxEvent, TxRetryEvent}: Contains(hostQueue, e)}
  <2>1. TokenInv /\ finished \in 0..1
    BY <1>1 DEF IInv, TypeOK
  <2>2. \A e: e \in tries <=> \/ e = TxEvent /\ Contains(hostQueue, TxEvent)
                              \/ e = TxRetryEvent /\ Contains(hostQueue, TxRetryEvent)
    OBVIOUS
  <2>3. TokenDiscipline <=>
          finished + Cardinality(tries) + (IF txRetry = "armed" THEN 1 ELSE 0)
            = IF pc = "wait" THEN 1 ELSE 0
    BY DEF TokenDiscipline
  <2> HIDE DEF tries
  <2>4. CASE Contains(hostQueue, TxEvent) \/ Contains(hostQueue, TxRetryEvent)
    <3>1. tries = {TxEvent} \/ tries = {TxRetryEvent}
      BY <2>1, <2>2, <2>4 DEF TokenInv
    <3>2. Cardinality(tries) = 1
      BY <3>1, FS_Singleton
    <3> QED BY <2>1, <2>3, <2>4, <3>2 DEF TokenInv, Trying
  <2>5. CASE ~(Contains(hostQueue, TxEvent) \/ Contains(hostQueue, TxRetryEvent))
    <3>1. tries = {}
      BY <2>2, <2>5
    <3>2. Cardinality(tries) = 0
      BY <3>1, FS_EmptySet
    <3> QED BY <2>1, <2>3, <2>5, <3>2 DEF TokenInv, Trying
  <2> QED BY <2>4, <2>5
<1> QED BY <1>1, LinkInvariant, PTL

(* A connection the host does not end by itself is always under the idle
   callout, or under a command that will set it again. *)
THEOREM IdleDeadlineKept == Spec => []IdleKept
<1>1. ASSUME IInv PROVE IdleKept
  <2>1. IdleInv /\ GenerationInv /\ TypeOK
    BY <1>1 DEF IInv
  <2> QED BY <2>1 DEF IdleKept, IdleDeadline, IdleInv, GenerationInv, TypeOK
<1> QED BY <1>1, LinkInvariant, PTL

(* A response reaches the subscription that asked for it, or nobody. *)
THEOREM RepliesAreCurrent == Spec => NoStaleReply
<1>1. ASSUME IInv, [Next]_vars
      PROVE  [(finished' > finished /\ tx'.result = "ok") =>
                pc = "wait" /\ commands[current].mine /\ subscribed]_vars
  <2> SUFFICES ASSUME Next, finished' > finished, tx'.result = "ok"
               PROVE  pc = "wait" /\ commands[current].mine /\ subscribed
    BY <1>1
  <2>1. /\ Types /\ QueueOK(hostQueue) /\ WorkerInv /\ SlotInv /\ TokenInv /\ GenerationInv
    BY <1>1, InvParts
  <2>2. Notify
    <3>1. ~(finished' > finished) \/ Notify
      BY <2>1 DEF Next, Client, Connect, ResetLink, Subscribe, Unsubscribe, AccessValue,
         SampleTelemetry, HostStep, CommandDone, Expire, Timers, IdleFires, TxRetryFires,
         Worker, Dequeue, TakeWork, AbortWork, IdleAbortWork, Leave, CheckTelemetry,
         CheckStale, CheckExpired, CheckOk, SendResponse, ResponseSent, CommandEnds, Execute,
         Types
    <3> QED BY <3>1
  <2>3. PICK e \in {TxEvent, TxRetryEvent}, rc \in {"ok", "busy", "failed", "notConnected"}:
          /\ HostHead(e)
          /\ rc = "notConnected" <=> ~(tx.generation = generation /\ subscribed /\ connected)
          /\ IF rc = "busy" /\ tx.retries + 1 < MaxRetries
             THEN UNCHANGED finished
             ELSE tx' = [tx EXCEPT !.retries = IF rc = "busy" THEN @ + 1 ELSE @, !.result = rc]
    BY <2>2 DEF Notify
  <2>4. Trying
    BY <2>1, <2>3, TailQueue DEF HostHead, Trying
  <2>5. pc = "wait" /\ current \in Slot /\ commands[current].used
        /\ tx.generation = commands[current].generation
    BY <2>1, <2>4 DEF TokenInv, WorkerInv, SlotInv, Types
  <2>6. rc # "notConnected"
    <3>1. tx' = [tx EXCEPT !.retries = IF rc = "busy" THEN @ + 1 ELSE @, !.result = rc]
      BY <2>1, <2>3 DEF Types
    <3>2. tx'.result = rc
      BY <2>1, <3>1 DEF Types
    <3> QED BY <3>2
  <2> QED BY <2>1, <2>3, <2>5, <2>6 DEF GenerationInv
<1> QED BY <1>1, LinkInvariant, PTL DEF Spec, NoStaleReply

-----------------------------------------------------------------------------
(***************************************************************************)
(* Under priority: what is left behind is cleared before the next command. *)
(***************************************************************************)
(* An abort stays ahead when an event joins the queue, and when another event
   leaves it. *)
LEMMA AheadAfterPut ==
  ASSUME NEW q, QueueOK(q), NEW e \in Events, NEW c, NEW d, AbortAhead(q, c),
         \A i \in Slot: Contains(q, Work(i)) /\ d[i].mine => c[i].mine
  PROVE  AbortAhead(Put(q, e), d)
<1>1. PICK p \in 1..Len(q): /\ q[p] = AbortEvent
                            /\ \A j \in 1..p - 1, i \in Slot: q[j] = Work(i) => ~c[i].mine
  BY DEF AbortAhead
<1>2. Len(q) \in Nat
  BY LenProperties DEF QueueOK
<1> DEFINE r == Put(q, e)
<1>3. Len(q) \in Nat /\ Len(r) \in Nat /\ Len(r) >= Len(q) /\ \A j \in 1..Len(q): r[j] = q[j]
  BY AppendProperties, LenProperties DEF Put, QueueOK
<1> HIDE DEF r
<1>4. ASSUME NEW j \in 1..p - 1, NEW i \in Slot, r[j] = Work(i) PROVE ~d[i].mine
  <2>1. j \in 1..Len(q) /\ q[j] = Work(i)
    BY <1>1, <1>3, <1>4
  <2>2. Contains(q, Work(i))
    BY <2>1 DEF Contains
  <2> QED BY <1>1, <2>1, <2>2
<1>5. p \in 1..Len(r) /\ r[p] = AbortEvent
  BY <1>1, <1>3
<1> QED BY <1>4, <1>5 DEF AbortAhead, r

LEMMA AheadAfterTail ==
  ASSUME NEW q, QueueOK(q), q # <<>>, Head(q) # AbortEvent, NEW c, AbortAhead(q, c)
  PROVE  /\ AbortAhead(Tail(q), c)
         /\ \A i \in Slot: Head(q) = Work(i) => ~c[i].mine
<1> DEFINE t == Tail(q)
<1>1. /\ Len(t) = Len(q) - 1 /\ Len(q) \in Nat \ {0}
      /\ \A k \in 1..Len(t): t[k] = q[k + 1]
      /\ Head(q) = q[1]
  BY HeadTailProperties, LenProperties, EmptySeq DEF QueueOK
<1> HIDE DEF t
<1>2. PICK p \in 1..Len(q): /\ q[p] = AbortEvent
                            /\ \A j \in 1..p - 1, i \in Slot: q[j] = Work(i) => ~c[i].mine
  BY DEF AbortAhead
<1>3. p # 1
  BY <1>1, <1>2
<1>4. p - 1 \in 1..Len(t) /\ t[p - 1] = AbortEvent
  <2>1. p - 1 \in 1..Len(t) /\ (p - 1) + 1 = p
    BY <1>1, <1>2, <1>3
  <2> QED BY <2>1, <1>1, <1>2
<1>5. ASSUME NEW j \in 1..(p - 1) - 1, NEW i \in Slot, t[j] = Work(i) PROVE ~c[i].mine
  <2>1. j \in 1..Len(t) /\ j + 1 \in 1..p - 1
    BY <1>1, <1>2
  <2> QED BY <2>1, <1>1, <1>2, <1>5
<1>6. \A i \in Slot: Head(q) = Work(i) => ~c[i].mine
  <2>1. 1 \in 1..p - 1
    BY <1>2, <1>3
  <2> QED BY <2>1, <1>1, <1>2
<1> QED BY <1>4, <1>5, <1>6 DEF AbortAhead, t

LEMMA AheadOfNothing ==
  ASSUME NEW q, Contains(q, AbortEvent), NEW c, \A i \in Slot: ~c[i].mine
  PROVE  AbortAhead(q, c)
BY DEF AbortAhead, Contains

LEMMA AheadOfLess ==
  ASSUME NEW q, NEW c, NEW d, AbortAhead(q, c), \A i \in Slot: d[i].mine => c[i].mine
  PROVE  AbortAhead(q, d)
BY DEF AbortAhead

(* The end of a subscription, or the start of a connection: nothing is of the
   current one. *)
LEMMA OutdatePriority ==
  ASSUME IInv, PriorityInv, Connect \/ ResetLink \/ Unsubscribe
  PROVE  PriorityInv'
<1>1. /\ Types /\ QueueOK(displayQueue) /\ QueueOK(hostQueue) /\ WorkerInv
      /\ DropInv /\ ApartInv /\ LeftoverInv
  BY InvParts DEF PriorityInv
<1>2. /\ commands' = Outdate(commands) /\ OutdateHeld /\ UNCHANGED <<pc, current>>
      /\ hostQueue' \in {hostQueue, Cancel(hostQueue, IdleTimeoutEvent)}
  BY DEF Connect, ResetLink, Unsubscribe, ArmIdle, StopIdle
<1>3. /\ \A i \in Slot: /\ ~commands'[i].mine
                        /\ commands'[i].used = commands[i].used
                        /\ commands'[i].disconnectAfter = commands[i].disconnectAfter
      /\ held' \in [Component -> Owner]
      /\ \A k \in Component: held'[k] # "mine" /\ (held'[k] = "none" <=> held[k] = "none")
  BY <1>1, <1>2, OutdateType, OutdateHeldType DEF Types
<1>4. \A i \in Slot: Contains(hostQueue, Done(i)) => Contains(hostQueue', Done(i))
  BY <1>1, <1>2, CancelQueue, EventsDiffer
<1>5. DropInv'
  BY <1>1, <1>2, <1>3, <1>4 DEF DropInv
<1>6. ApartInv'
  BY <1>3 DEF ApartInv
<1>7. current' # None => ~commands'[current'].mine
  BY <1>1, <1>2, <1>3 DEF Types
<1>8. LeftoverInv'
  <2>1. CASE Connect
    <3>1. displayQueue' = displayQueue /\ ~connected
      BY <2>1 DEF Connect
    <3>2. Leftover' => Leftover
      BY <1>1, <1>2, <1>3, <3>1 DEF Leftover, ApartInv, WorkerInv, Types, Owner
    <3>3. AbortAhead(displayQueue, commands) => AbortAhead(displayQueue, commands')
      BY <1>3, AheadOfLess
    <3> QED BY <1>1, <1>7, <3>1, <3>2, <3>3 DEF LeftoverInv
  <2>2. CASE ResetLink \/ Unsubscribe
    <3>1. displayQueue' = Put(displayQueue, AbortEvent)
      BY <2>2 DEF ResetLink, Unsubscribe
    <3>2. Contains(displayQueue', AbortEvent)
      BY <1>1, <3>1, PutQueue, EventTypes
    <3>3. AbortAhead(displayQueue', commands')
      BY <1>3, <3>2, AheadOfNothing
    <3> QED BY <1>7, <3>3 DEF LeftoverInv
  <2> QED BY <2>1, <2>2
<1> QED BY <1>5, <1>6, <1>8 DEF PriorityInv

LEMMA ClaimPriority ==
  ASSUME IInv, PriorityInv, NEW i \in Slot, ~commands[i].used,
         NEW kind \in {"command", "telemetry"}, Claim(i, kind),
         UNCHANGED <<linkVars, workerVars>>, connected \/ kind = "telemetry",
         hostQueue' \in {hostQueue, Cancel(hostQueue, IdleTimeoutEvent)}
  PROVE  PriorityInv'
<1>1. /\ Types /\ QueueOK(displayQueue) /\ QueueOK(hostQueue) /\ WorkerInv /\ SlotInv
      /\ DropInv /\ ApartInv /\ LeftoverInv
  BY InvParts DEF PriorityInv
<1> DEFINE c == [used |-> TRUE, kind |-> kind, mine |-> TRUE,
                 generation |-> generation, disconnectAfter |-> FALSE]
<1>2. /\ \A j \in Slot: commands'[j] = IF j = i THEN c ELSE commands[j]
      /\ displayQueue' = Put(displayQueue, Work(i))
  BY <1>1 DEF Claim, Types
<1>3. c.mine /\ c.kind = kind /\ ~c.disconnectAfter
  OBVIOUS
<1> HIDE DEF c
<1>4. \A j \in Slot: Contains(hostQueue, Done(j)) => Contains(hostQueue', Done(j))
  BY <1>1, CancelQueue, EventsDiffer
<1>5. DropInv'
  BY <1>1, <1>2, <1>3, <1>4 DEF DropInv
<1>6. ApartInv'
  BY <1>1, <1>2, <1>3 DEF ApartInv
<1>7. current # i /\ ~Contains(displayQueue, Work(i))
  BY <1>1 DEF SlotInv
<1>8. ASSUME AbortAhead(displayQueue, commands) PROVE AbortAhead(displayQueue', commands')
  <2>1. \A j \in Slot: Contains(displayQueue, Work(j)) /\ commands'[j].mine => commands[j].mine
    BY <1>2, <1>7
  <2>2. Work(i) \in Events
    BY EventTypes
  <2> QED BY <1>1, <1>2, <1>8, <2>1, <2>2, AheadAfterPut
<1>9. (current' # None => commands'[current'] = commands[current]) /\ (Leftover' => Leftover)
  BY <1>1, <1>2, <1>7 DEF Types, Leftover, WorkerInv
<1> QED BY <1>1, <1>5, <1>6, <1>8, <1>9 DEF PriorityInv, LeftoverInv

LEMMA ClientPriority ==
  ASSUME IInv, PriorityInv, Client \/ SampleTelemetry
  PROVE  PriorityInv'
<1>1. CASE Connect \/ ResetLink \/ Unsubscribe
  BY <1>1, OutdatePriority
<1>2. CASE Subscribe
  BY <1>2 DEF Subscribe, PriorityInv, DropInv, ApartInv, LeftoverInv, Leftover
<1>3. CASE AccessValue
  <2>1. Min(FreeSlots) \in Slot /\ ~commands[Min(FreeSlots)].used
    BY <1>3, FirstFree DEF AccessValue, FreeSlots
  <2> QED BY <1>3, <2>1, ClaimPriority DEF AccessValue, StopIdle
<1>4. CASE SampleTelemetry
  <2>1. Min(Slot) \in Slot /\ ~commands[Min(Slot)].used
    BY <1>4, MinIsLeast, LinkAssumption DEF SampleTelemetry, FreeSlots, LinkAssumption
  <2> QED BY <1>4, <2>1, ClaimPriority DEF SampleTelemetry
<1> QED BY <1>1, <1>2, <1>3, <1>4 DEF Client

(* The events and callouts of the host that free no slot. *)
LEMMA HostPriority ==
  ASSUME IInv, PriorityInv, Notify \/ Expire \/ Timers
  PROVE  PriorityInv'
<1>1. /\ QueueOK(displayQueue) /\ QueueOK(hostQueue)
      /\ DropInv /\ ApartInv /\ LeftoverInv
  BY InvParts DEF PriorityInv
<1>2. /\ UNCHANGED <<connected, commands, workerVars>>
      /\ displayQueue' \in {displayQueue, Put(displayQueue, IdleAbortEvent)}
  BY DEF Notify, Expire, Timers, IdleFires, TxRetryFires
<1>3. \A i \in Slot: Contains(hostQueue, Done(i)) => Contains(hostQueue', Done(i))
  <2>1. CASE Notify \/ Expire
    <3>1. /\ hostQueue # <<>> /\ hostQueue' = Tail(hostQueue)
          /\ Head(hostQueue) \in {TxEvent, TxRetryEvent, IdleTimeoutEvent}
      BY <2>1 DEF Notify, Expire, HostHead
    <3> QED BY <1>1, <3>1, TailQueue, EventsDiffer
  <2>2. CASE Timers
    <3>1. PICK e \in {IdleTimeoutEvent, TxRetryEvent}: hostQueue' = Put(hostQueue, e)
      BY <2>2 DEF Timers, IdleFires, TxRetryFires
    <3> QED BY <1>1, <3>1, PutQueue, EventTypes
  <2> QED BY <2>1, <2>2
<1>4. AbortAhead(displayQueue, commands) => AbortAhead(displayQueue', commands)
  BY <1>1, <1>2, AheadAfterPut, EventTypes
<1> QED BY <1>1, <1>2, <1>3, <1>4 DEF PriorityInv, DropInv, ApartInv, LeftoverInv, Leftover

LEMMA DonePriority ==
  ASSUME IInv, PriorityInv, CommandDone
  PROVE  PriorityInv'
<1>1. /\ Types /\ QueueOK(displayQueue) /\ QueueOK(hostQueue) /\ WorkerInv /\ SlotInv
      /\ DropInv /\ ApartInv /\ LeftoverInv
  BY InvParts DEF PriorityInv
<1>2. PICK i \in Slot:
        /\ HostHead(Done(i))
        /\ \/ DisconnectAfter(i)
           \/ /\ commands' = [commands EXCEPT ![i] = FreeSlot]
              /\ IF /\ commands[i].kind = "command"
                    /\ commands[i].generation = generation
                    /\ connected
                 THEN ArmIdle(Tail(hostQueue))
                 ELSE hostQueue' = Tail(hostQueue)
              /\ UNCHANGED <<connected, held>>
        /\ UNCHANGED <<displayQueue, pc, current>>
  BY DEF CommandDone
<1>3. /\ QueueOK(Tail(hostQueue)) /\ Contains(hostQueue, Done(i))
      /\ \A e: Contains(Tail(hostQueue), e) <=> Contains(hostQueue, e) /\ e # Done(i)
  BY <1>1, <1>2, TailQueue DEF HostHead
<1>4. hostQueue' \in {Tail(hostQueue), Cancel(Tail(hostQueue), IdleTimeoutEvent)}
  BY <1>2 DEF DisconnectAfter, ArmIdle
<1>5. \A j \in Slot \ {i}: Contains(hostQueue, Done(j)) => Contains(hostQueue', Done(j))
  <2> DEFINE t == Tail(hostQueue)
  <2>1. \A e: Contains(Cancel(t, IdleTimeoutEvent), e) <=> Contains(t, e) /\ e # IdleTimeoutEvent
    <3> HIDE DEF t
    <3> QED BY <1>3, CancelQueue DEF t
  <2> HIDE DEF t
  <2>2. ASSUME NEW j \in Slot \ {i}, Contains(hostQueue, Done(j)) PROVE Contains(hostQueue', Done(j))
    <3>1. Done(j) # Done(i) /\ Done(j) # IdleTimeoutEvent
      BY EventsDiffer
    <3>2. Contains(t, Done(j)) /\ Contains(Cancel(t, IdleTimeoutEvent), Done(j))
      BY <1>3, <2>1, <2>2, <3>1 DEF t
    <3> QED BY <1>4, <3>2 DEF t
  <2> QED BY <2>2
<1>6. current # i /\ commands[i].used
  BY <1>1, <1>3 DEF SlotInv
<1>7. CASE DisconnectAfter(i)
  <2> DEFINE freed == [commands EXCEPT ![i] = FreeSlot]
  <2>1. /\ freed \in [Slot -> Command]
        /\ \A j \in Slot: freed[j] = IF j = i THEN FreeSlot ELSE commands[j]
        /\ commands' = Outdate(freed)
    BY <1>1, <1>7, FreeSlotType DEF Types, DisconnectAfter
  <2> HIDE DEF freed
  <2>2. /\ ~commands'[i].used
        /\ \A j \in Slot: ~commands'[j].mine
        /\ \A j \in Slot \ {i}: /\ commands'[j].used = commands[j].used
                               /\ commands'[j].disconnectAfter = commands[j].disconnectAfter
    BY <2>1, OutdateType, FreeSlotType
  <2>3. pc = "queue" /\ \A k \in Component: held[k] = "none"
    BY <1>1, <1>6, <1>7 DEF DisconnectAfter, DropInv
  <2>4. \A k \in Component: held'[k] = "none"
    BY <1>1, <1>7, <2>3, OutdateHeldType DEF DisconnectAfter, Types
  <2>5. DropInv'
    BY <1>1, <1>2, <1>5, <2>2, <2>3, <2>4 DEF DropInv
  <2>6. ApartInv' /\ LeftoverInv'
    BY <1>2, <2>2, <2>3, <2>4 DEF ApartInv, LeftoverInv, Leftover
  <2> QED BY <2>5, <2>6 DEF PriorityInv
<1>8. CASE ~DisconnectAfter(i)
  <2>1. \A j \in Slot: commands'[j] = IF j = i THEN FreeSlot ELSE commands[j]
    BY <1>1, <1>2, <1>8 DEF Types
  <2>2. DropInv'
    BY <1>1, <1>2, <1>5, <1>8, <2>1, FreeSlotType DEF DropInv
  <2>3. ApartInv'
    BY <1>1, <1>2, <1>8, <2>1, FreeSlotType DEF ApartInv
  <2>4. AbortAhead(displayQueue, commands) => AbortAhead(displayQueue, commands')
    BY <2>1, FreeSlotType, AheadOfLess
  <2>5. LeftoverInv'
    BY <1>1, <1>2, <1>6, <1>8, <2>1, <2>4 DEF LeftoverInv, Leftover, Types, WorkerInv
  <2> QED BY <2>2, <2>3, <2>5 DEF PriorityInv
<1> QED BY <1>7, <1>8

(* The display task only runs when the host has nothing to do. *)
LEMMA WorkerPriority ==
  ASSUME HostFirst, IInv, PriorityInv, Worker
  PROVE  PriorityInv'
<1>1. /\ Types /\ QueueOK(displayQueue) /\ QueueOK(hostQueue) /\ WorkerInv /\ SlotInv
      /\ GenerationInv /\ DropInv /\ ApartInv /\ LeftoverInv
  BY InvParts DEF PriorityInv
<1>2. hostQueue = <<>> /\ UNCHANGED <<generation, connected>>
  BY DEF Worker, Dequeue, TakeWork, AbortWork, IdleAbortWork, Leave, CheckTelemetry, CheckStale,
     CheckExpired, CheckOk, SendResponse, ResponseSent, CommandEnds, Execute, MayRun
<1>3. \A i \in Slot: ~(commands[i].used /\ commands[i].disconnectAfter)
  BY <1>1, <1>2, EmptyQueue DEF DropInv
<1>4. CASE Dequeue
  <2>1. /\ displayQueue # <<>> /\ displayQueue' = Tail(displayQueue) /\ pc = "queue"
        /\ UNCHANGED commands /\ current = None
    BY <1>1, <1>4 DEF Dequeue, TakeWork, AbortWork, IdleAbortWork, WorkerInv
  <2>2. DropInv'
    BY <1>3, <2>1 DEF DropInv
  <2>3. CASE TakeWork
    <3>1. PICK i \in Slot: Head(displayQueue) = Work(i) /\ current' = i /\ pc' = "check"
                           /\ UNCHANGED held
      BY <2>3 DEF TakeWork
    <3>2. ApartInv'
      BY <1>1, <1>2, <2>1, <3>1 DEF ApartInv
    <3>3. ASSUME AbortAhead(displayQueue, commands)
          PROVE  AbortAhead(displayQueue', commands) /\ ~commands[i].mine
      BY <1>1, <2>1, <3>1, <3>3, AheadAfterTail, EventsDiffer
    <3>4. LeftoverInv'
      BY <1>1, <2>1, <3>1, <3>3 DEF LeftoverInv, Leftover
    <3> QED BY <2>2, <3>2, <3>4 DEF PriorityInv
  <2>4. CASE AbortWork
    <3>1. pc' = pc /\ current' = current /\ \A k \in Component: held'[k] = "none"
      BY <1>1, <2>4, ClearType DEF AbortWork, Types
    <3>2. ApartInv' /\ LeftoverInv'
      BY <1>1, <1>2, <2>1, <3>1 DEF ApartInv, LeftoverInv, Leftover
    <3> QED BY <2>2, <3>2 DEF PriorityInv
  <2>5. CASE IdleAbortWork
    <3>1. /\ pc' = pc /\ current' = current /\ Head(displayQueue) = IdleAbortEvent
          /\ \A k \in Component: held'[k] \in {"none", held[k]}
      BY <1>1, <2>5, ClearType DEF IdleAbortWork, Types
    <3>2. ApartInv'
      BY <1>1, <1>2, <2>1, <3>1 DEF ApartInv
    <3>3. AbortAhead(displayQueue, commands) => AbortAhead(displayQueue', commands)
      BY <1>1, <2>1, <3>1, AheadAfterTail, EventsDiffer
    <3>4. LeftoverInv'
      BY <1>1, <2>1, <3>1, <3>3 DEF LeftoverInv, Leftover
    <3> QED BY <2>2, <3>2, <3>4 DEF PriorityInv
  <2> QED BY <1>4, <2>3, <2>4, <2>5 DEF Dequeue
<1>5. CASE Leave \/ Execute
  <2>1. displayQueue' = displayQueue /\ current \in Slot /\ commands[current].used
        /\ pc \in {"check", "run", "wait"}
    BY <1>1, <1>5 DEF Leave, CheckTelemetry, CheckStale, CheckExpired, CheckOk, SendResponse,
       ResponseSent, CommandEnds, Execute, WorkerInv, SlotInv, Types
  <2>2. \A i \in Slot: commands'[i].mine = commands[i].mine /\ commands'[i].kind = commands[i].kind
    BY <1>1, <1>5 DEF Leave, CheckTelemetry, CheckStale, CheckExpired, CheckOk, SendResponse,
       ResponseSent, CommandEnds, Execute, Types, Command
  <2>3. AbortAhead(displayQueue, commands) => AbortAhead(displayQueue', commands')
    BY <2>1, <2>2, AheadOfLess
  <2>4. CASE Execute
    <3>1. PICK k \in Component:
                \/ held' = [held EXCEPT ![k] = IF commands[current].mine THEN "mine" ELSE "foreign"]
                \/ held' = [held EXCEPT ![k] = "none"]
      BY <2>4 DEF Execute
    <3>2. \A j \in Component: held'[j] \in {"none", held[j],
                                 IF commands[current].mine THEN "mine" ELSE "foreign"}
      BY <1>1, <3>1 DEF Types
    <3>3. pc = "run" /\ UNCHANGED <<commands, pc, current>> /\ commands[current].kind = "command"
      BY <1>1, <2>4 DEF Execute, WorkerInv
    <3>4. DropInv'
      BY <1>3, <3>3 DEF DropInv
    <3>5. ApartInv'
      BY <1>1, <1>2, <2>1, <3>2, <3>3 DEF ApartInv
    <3>6. LeftoverInv'
      BY <1>1, <2>3, <3>2, <3>3 DEF LeftoverInv, Leftover
    <3> QED BY <3>4, <3>5, <3>6 DEF PriorityInv
  <2>5. CASE Leave
    <3>1. /\ \A k \in Component: held'[k] \in {"none", held[k]}
          /\ current' \in {current, None} /\ (pc' = "queue" <=> current' = None)
      BY <1>1, <2>1, <2>5, ClearType, SlotNumbers
         DEF Leave, CheckTelemetry, CheckStale, CheckExpired, CheckOk, SendResponse,
             ResponseSent, CommandEnds, Finish, Types
    <3>2. ApartInv'
      BY <1>1, <1>2, <2>2, <3>1 DEF ApartInv
    <3>3. DropInv'
      <4>1. CASE CheckExpired
        <5>1. /\ hostQueue' = Put(hostQueue, Done(current)) /\ pc' = "queue"
              /\ commands' = [commands EXCEPT ![current].disconnectAfter = TRUE]
              /\ \A k \in Component: held'[k] = "none"
          BY <1>1, <4>1, ClearType DEF CheckExpired, Finish, Types
        <5>2. Contains(hostQueue', Done(current))
          BY <1>1, <2>1, <5>1, PutQueue, EventTypes
        <5>3. \A i \in Slot \ {current}: commands'[i] = commands[i]
          BY <1>1, <5>1 DEF Types
        <5> QED BY <1>3, <5>1, <5>2, <5>3 DEF DropInv
      <4>2. CASE ~CheckExpired
        <5>1. commands' = commands
          BY <2>5, <4>2 DEF Leave, CheckTelemetry, CheckStale, CheckOk, SendResponse,
             ResponseSent, CommandEnds
        <5> QED BY <1>3, <5>1 DEF DropInv
      <4> QED BY <4>1, <4>2
    <3>4. pc' \in {"run", "wait"} /\ pc \notin {"run", "wait"} => commands[current].mine
      BY <1>1, <2>1, <2>5 DEF Leave, CheckTelemetry, CheckStale, CheckExpired, CheckOk,
         SendResponse, ResponseSent, CommandEnds, Finish, GenerationInv
    <3>5. current' = current \/ current' = None
      BY <3>1
    <3>6. LeftoverInv'
      <4>1. Leftover' => Leftover
        BY <2>1, <2>2, <3>1, <3>4 DEF Leftover
      <4> QED BY <1>1, <2>1, <2>2, <2>3, <3>5, <4>1 DEF LeftoverInv
    <3> QED BY <3>2, <3>3, <3>6 DEF PriorityInv
  <2> QED BY <1>5, <2>4, <2>5
<1> QED BY <1>4, <1>5 DEF Worker

LEMMA PriorityHolds == Init => PriorityInv
<1> SUFFICES ASSUME Init PROVE PriorityInv
  OBVIOUS
<1>1. \A k \in Component: held[k] = "none"
  BY DEF Init
<1>2. \A i \in Slot: ~commands[i].used /\ ~commands[i].mine
  BY FreeSlotType DEF Init
<1>3. pc = "queue"
  BY DEF Init
<1> QED BY <1>1, <1>2, <1>3 DEF PriorityInv, DropInv, ApartInv, LeftoverInv, Leftover

LEMMA PriorityKept ==
  ASSUME HostFirst
  PROVE  IInv /\ PriorityInv /\ [Next]_vars => PriorityInv'
<1> SUFFICES ASSUME IInv, PriorityInv, [Next]_vars PROVE PriorityInv'
  OBVIOUS
<1>1. CASE Client \/ SampleTelemetry BY <1>1, ClientPriority
<1>2. CASE HostStep BY <1>2, HostPriority, DonePriority DEF HostStep
<1>3. CASE Timers BY <1>3, HostPriority
<1>4. CASE Worker BY <1>4, WorkerPriority
<1>5. CASE UNCHANGED vars
  BY <1>5 DEF vars, PriorityInv, DropInv, ApartInv, LeftoverInv, Leftover
<1> QED BY <1>1, <1>2, <1>3, <1>4, <1>5 DEF Next

(* A host task that is never overtaken leaves an abort in the queue before the
   display task can look for another command. *)
THEOREM PriorityInvariant ==
  ASSUME HostFirst
  PROVE  Spec => []PriorityInv
BY LinkInvariant, PriorityHolds, PriorityKept, PTL DEF Spec

(* With the host's task at the higher priority, a command of the current
   subscription never runs on a transfer, a config upload or an
   authentication that an earlier one left behind. *)
THEOREM NoForeignSessionUsed ==
  ASSUME HostFirst
  PROVE  Spec => []NoForeignSession
<1>1. IInv /\ PriorityInv => NoForeignSession
  BY DEF IInv, WorkerInv, PriorityInv, LeftoverInv, Leftover, NoForeignSession
<1> QED BY <1>1, LinkInvariant, PriorityInvariant, PTL

(* Nor is any command executed between the end of an expired transfer and the
   end of its subscription. *)
THEOREM ExpiredTransferDrops ==
  ASSUME HostFirst
  PROVE  Spec => []ExpiredDropsQueue
<1>1. PriorityInv => ExpiredDropsQueue
  BY DEF PriorityInv, DropInv, ExpiredDropsQueue
<1> QED BY <1>1, PriorityInvariant, PTL
=============================================================================

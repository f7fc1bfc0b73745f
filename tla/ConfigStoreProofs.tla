------------------------- MODULE ConfigStoreProofs -------------------------
(***************************************************************************)
(* Proofs about ConfigStore for every choice of its constants.             *)
(***************************************************************************)
EXTENDS ConfigStore, SequenceTheorems, TLAPS

CoreInv == TypeOK /\ UpdateInv /\ ActiveIntact

IInv == CoreInv /\ OneStepApart

USE DEF Slots, Slot0, Slot1, NoSlot, BusyPc

LEMMA EmptySeqType == \A S: <<>> \in Seq(S)
OBVIOUS

(* The slot an update works on is never the one in use. *)
LEMMA TargetIsSpare ==
  ASSUME TypeOK, UpdateInv, pc \in BusyPc
  PROVE  Target = Spare /\ Target \in Slots /\ Target # active
BY DEF TypeOK, UpdateInv, EraseInv, StagedInv, CallInv, Target, Spare

LEMMA ErasedType ==
  ASSUME NEW f \in FlashSlot, NEW p
  PROVE  ErasedPage(f, p) \in FlashSlot /\ TornPage(f, p) \in FlashSlot
BY DEF FlashSlot, ErasedPage, TornPage

LEMMA WrittenBodyType ==
  ASSUME TypeOK, UpdateInv, pc = "write", NEW f \in FlashSlot
  PROVE  WrittenBody(f) \in FlashSlot /\ SpoiltBody(f) \in FlashSlot
<1>1. \A i \in Cells: Written(i) => chunk[i - received] \in Unit
  BY ImageAssumption DEF TypeOK, UpdateInv, CallInv, Written, Cells
<1> QED BY <1>1 DEF FlashSlot, WrittenBody, SpoiltBody

LEMMA SuccType == \A n \in SeqNumbers: Succ(n) \in SeqNumbers
BY SeqAssumption DEF SeqNumbers, Succ, SeqSpan

(* What the flash write of each step leaves is a slot. *)
LEMMA HeaderType ==
  ASSUME TypeOK, UpdateInv, pc = "header", NEW f \in FlashSlot
  PROVE  WrittenHeader(f) \in FlashSlot /\ SpoiltHeader(f) \in FlashSlot
BY SuccType DEF WrittenHeader, SpoiltHeader, FlashSlot, TypeOK, UpdateInv, StagedInv, CallInv

LEMMA MagicType ==
  ASSUME NEW f \in FlashSlot
  PROVE  WrittenMagic(f) \in FlashSlot /\ SpoiltMagic(f) \in FlashSlot
BY DEF WrittenMagic, SpoiltMagic, FlashSlot

LEMMA BrokenType ==
  ASSUME TypeOK, UpdateInv, pc \in BusyPc, NEW f \in Broken
  PROVE  f \in FlashSlot
<1>1. flash[Target] \in FlashSlot
  BY TargetIsSpare DEF TypeOK
<1>2. CASE pc = "erase"
  BY <1>1, <1>2, ErasedType DEF Broken, Target
<1>3. CASE pc = "write"
  BY <1>1, <1>3, WrittenBodyType DEF Broken, Target
<1>4. CASE pc = "header"
  BY <1>1, <1>4, HeaderType DEF Broken, Target
<1>5. CASE pc = "magic"
  BY <1>1, <1>5, MagicType DEF Broken, Target
<1> QED BY <1>2, <1>3, <1>4, <1>5

(* The slot in use is safe in every step that writes only the spare one and
   leaves active and sequence alone. *)
LEMMA ActiveFrame ==
  ASSUME TypeOK, ActiveIntact, UNCHANGED <<active, sequence>>,
         active # NoSlot => flash'[active] = flash[active]
  PROVE  ActiveIntact'
BY DEF TypeOK, ActiveIntact, ValidSlot, SlotImage

(* An update that is given up leaves nothing to state about it. *)
LEMMA AbortFrame ==
  ASSUME TypeOK, Abort, Return
  PROVE  UpdateInv'
BY DEF Abort, Return, UpdateInv, OffInv, EraseInv, StagedInv, CallInv

LEMMA AbortType ==
  ASSUME Abort, Return
  PROVE  /\ staging' = NoSlot /\ next' = NoSlot
         /\ expected' \in 0..MaxImage /\ received' \in 0..MaxImage /\ page' \in 0..Pages - 1
         /\ chunk' \in Seq(Unit)
         /\ pc' = "idle"
BY EmptySeqType, ImageAssumption, PageAssumption DEF Abort, Return

-----------------------------------------------------------------------------

LEMMA InitInv == Init => CoreInv
<1> SUFFICES ASSUME Init PROVE CoreInv
  OBVIOUS
<1>1. BlankSlot \in FlashSlot
  BY DEF BlankSlot, FlashSlot
<1>2. TypeOK
  BY <1>1, EmptySeqType, ImageAssumption, PageAssumption, SeqAssumption
     DEF Init, TypeOK, SeqNumbers, SeqSpan
<1>3. UpdateInv
  BY DEF Init, UpdateInv, OffInv, EraseInv, StagedInv, CallInv
<1>4. ActiveIntact
  BY DEF Init, ActiveIntact
<1> QED BY <1>2, <1>3, <1>4 DEF CoreInv

LEMMA BeginInv ==
  ASSUME CoreInv, NEW n \in Nat, NEW first \in Seq(Unit), Begin(n, first),
         Len(first) \in 1..n
  PROVE  CoreInv'
<1> USE DEF CoreInv
<1>1. UNCHANGED <<flash, active, sequence>> /\ upload' = <<>>
  BY DEF Begin
<1>2. CASE n \in MinImage..MaxImage
  <2>1. TypeOK'
    BY <1>1, <1>2, EmptySeqType, ImageAssumption, PageAssumption DEF Begin, TypeOK
  <2>2. UpdateInv'
    BY <1>1, <1>2, ImageAssumption, PageAssumption
       DEF Begin, TypeOK, UpdateInv, OffInv, EraseInv, StagedInv, CallInv, Spare, Cells
  <2> QED BY <1>1, <2>1, <2>2, ActiveFrame
<1>3. CASE n \notin MinImage..MaxImage
  <2>1. Abort /\ Return
    BY <1>3 DEF Begin
  <2> QED BY <1>1, <2>1, AbortFrame, AbortType, ActiveFrame, EmptySeqType DEF TypeOK
<1> QED BY <1>2, <1>3

LEMMA ErasePageInv ==
  ASSUME CoreInv, ErasePage
  PROVE  CoreInv'
<1> USE DEF CoreInv
<1> DEFINE f == ErasedPage(flash[next], page)
<1>1. pc = "erase" /\ next \in Slots /\ next # active /\ next = Spare
  BY TargetIsSpare DEF ErasePage, Target
<1>2. f \in FlashSlot
  BY <1>1, ErasedType DEF TypeOK
<1>3. flash' \in [Slots -> FlashSlot] /\ flash'[next] = f
  BY <1>1, <1>2 DEF ErasePage, TypeOK
<1>4. f.magic = "blank" /\ f.seq = Blank /\ f.len = Blank
  BY <1>1, PageAssumption DEF ErasedPage, TypeOK, UpdateInv, EraseInv
<1>5. \A i \in Cells: PageOf[i] < page + 1 => f.body[i] = Blank
  <2> SUFFICES ASSUME NEW i \in Cells, PageOf[i] < page + 1
               PROVE  f.body[i] = Blank
    OBVIOUS
  <2>1. PageOf[i] = page \/ PageOf[i] < page
    BY ImageAssumption, PageAssumption DEF TypeOK, Cells
  <2>2. f.body[i] = IF PageOf[i] = page THEN Blank ELSE flash[next].body[i]
    BY DEF ErasedPage
  <2>3. PageOf[i] < page => flash[next].body[i] = Blank
    BY <1>1 DEF UpdateInv, EraseInv
  <2> QED BY <2>1, <2>2, <2>3
<1>6. ActiveIntact'
  BY <1>1, ActiveFrame DEF ErasePage, TypeOK
<1>7. CASE page + 1 < Pages
  <2>1. TypeOK'
    BY <1>3, <1>7, PageAssumption DEF ErasePage, TypeOK
  <2>2. UpdateInv'
    BY <1>1, <1>3, <1>4, <1>5, <1>7
       DEF ErasePage, TypeOK, UpdateInv, OffInv, EraseInv, StagedInv, CallInv, Spare
  <2> QED BY <1>6, <2>1, <2>2
<1>8. CASE ~(page + 1 < Pages)
  <2>1. TypeOK'
    BY <1>1, <1>3, <1>8, PageAssumption DEF ErasePage, TypeOK
  <2>2. \A i \in Cells: f.body[i] = Blank
    BY <1>5, <1>8, ImageAssumption, PageAssumption DEF TypeOK, Cells
  <2>3. UpdateInv'
    BY <1>1, <1>3, <1>4, <1>8, <2>2, ImageAssumption
       DEF ErasePage, TypeOK, UpdateInv, OffInv, EraseInv, StagedInv, CallInv, Spare
  <2> QED BY <1>6, <2>1, <2>3
<1> QED BY <1>7, <1>8

LEMMA Append1Inv ==
  ASSUME CoreInv, NEW data \in Seq(Unit), Append1(data)
  PROVE  CoreInv'
<1> USE DEF CoreInv
<1>1. UNCHANGED <<flash, active, sequence, upload>> /\ pc = "idle"
  BY DEF Append1
<1>2. CASE staging = NoSlot \/ data = <<>> \/ Len(data) > expected - received
  <2>1. Abort /\ Return
    BY <1>2 DEF Append1
  <2> QED BY <1>1, <2>1, AbortFrame, AbortType, ActiveFrame DEF TypeOK
<1>3. CASE ~(staging = NoSlot \/ data = <<>> \/ Len(data) > expected - received)
  <2>1. Len(data) \in 1..expected - received
    BY <1>3 DEF TypeOK
  <2>2. TypeOK'
    BY <1>1, <1>3 DEF Append1, TypeOK
  <2>3. UpdateInv'
    BY <1>1, <1>3, <2>1
       DEF Append1, TypeOK, UpdateInv, OffInv, EraseInv, StagedInv, CallInv, Spare
  <2> QED BY <1>1, <2>2, <2>3, ActiveFrame
<1> QED BY <1>2, <1>3

(* A finished write of image data: the cells hold what was sent. *)
LEMMA WriteDataCells ==
  ASSUME CoreInv, WriteData
  PROVE  /\ staging \in Slots /\ staging # active /\ staging = Spare /\ pc = "write"
         /\ flash' \in [Slots -> FlashSlot]
         /\ flash'[staging] = WrittenBody(flash[staging])
         /\ \A s \in Slots: s # staging => flash'[s] = flash[s]
         /\ upload' \in Seq(Unit)
         /\ Len(upload') = received + Len(chunk)
         /\ received + Len(chunk) \in 0..expected
         /\ \A i \in 1..received + Len(chunk): flash'[staging].body[i] = upload'[i]
         /\ \A i \in Cells: i > received + Len(chunk) => flash'[staging].body[i] = Blank
<1> USE DEF CoreInv
<1> DEFINE f == WrittenBody(flash[staging])
<1>1. pc = "write" /\ staging \in Slots /\ staging # active /\ staging = Spare
  BY TargetIsSpare DEF WriteData, Target
<1>2. f \in FlashSlot
  BY <1>1, WrittenBodyType DEF TypeOK
<1>3. /\ flash' \in [Slots -> FlashSlot] /\ flash'[staging] = f
      /\ \A s \in Slots: s # staging => flash'[s] = flash[s]
  BY <1>1, <1>2 DEF WriteData, TypeOK
<1>4. /\ received \in 0..expected /\ Len(chunk) \in 1..expected - received
      /\ expected \in 1..MaxImage /\ chunk \in Seq(Unit) /\ upload \in Seq(Unit)
      /\ Len(upload) = received
  BY <1>1, ImageAssumption DEF TypeOK, UpdateInv, StagedInv, CallInv
<1>5. received + Len(chunk) \in 0..expected
  BY <1>4
<1>6. /\ upload' \in Seq(Unit) /\ Len(upload') = received + Len(chunk)
      /\ \A i \in 1..received + Len(chunk):
            upload'[i] = IF i <= received THEN upload[i] ELSE chunk[i - received]
  BY <1>4, ConcatProperties DEF WriteData
<1>7. \A i \in Cells: f.body[i] = IF Written(i)
                                 THEN IF flash[staging].body[i] = Blank
                                      THEN chunk[i - received] ELSE Junk
                                 ELSE flash[staging].body[i]
  BY <1>1 DEF WrittenBody, TypeOK, FlashSlot
<1>8. /\ \A i \in Cells: i > received => flash[staging].body[i] = Blank
      /\ \A i \in 1..received: flash[staging].body[i] = upload[i]
  BY <1>1 DEF UpdateInv, StagedInv
<1>9. \A i \in 1..received + Len(chunk): f.body[i] = upload'[i]
  <2> SUFFICES ASSUME NEW i \in 1..received + Len(chunk)
               PROVE  f.body[i] = upload'[i]
    OBVIOUS
  <2>1. i \in Cells
    BY <1>4, <1>5, ImageAssumption DEF Cells
  <2>2. CASE i <= received
    <3>1. ~Written(i)
      BY <1>4, <1>5, <2>1, <2>2 DEF Written
    <3>2. f.body[i] = flash[staging].body[i]
      BY <1>7, <2>1, <3>1
    <3>3. i \in 1..received
      BY <1>4, <1>5, <2>2
    <3> QED BY <1>6, <1>8, <2>2, <3>2, <3>3
  <2>3. CASE i > received
    <3>1. Written(i) /\ flash[staging].body[i] = Blank
      BY <1>4, <1>5, <1>8, <2>1, <2>3 DEF Written
    <3>2. f.body[i] = chunk[i - received]
      BY <1>7, <2>1, <3>1
    <3>3. upload'[i] = chunk[i - received]
      BY <1>4, <1>6, <2>3
    <3> QED BY <3>2, <3>3
  <2> QED BY <1>4, <2>2, <2>3
<1>10. \A i \in Cells: i > received + Len(chunk) => f.body[i] = Blank
  BY <1>4, <1>7, <1>8 DEF Written, Cells
<1> QED BY <1>1, <1>3, <1>5, <1>6, <1>9, <1>10

(* The image validated is the one the client sent. *)
LEMMA WriteDataImage ==
  ASSUME CoreInv, WriteData, received + Len(chunk) = expected
  PROVE  SlotImage([flash'[staging] EXCEPT !.len = expected]) = upload'
<1> DEFINE g == [flash'[staging] EXCEPT !.len = expected]
<1>1. g.len = expected /\ g.body = flash'[staging].body
  BY WriteDataCells DEF FlashSlot
<1>2. SlotImage(g) = [i \in 1..expected |-> flash'[staging].body[i]]
  BY <1>1 DEF SlotImage
<1>3. upload' = [i \in 1..expected |-> upload'[i]]
  BY WriteDataCells, LenProperties
<1> QED BY <1>2, <1>3, WriteDataCells

LEMMA WriteDataInv ==
  ASSUME CoreInv, WriteData
  PROVE  CoreInv'
<1> USE DEF CoreInv
<1>1. UNCHANGED <<active, sequence>>
  BY DEF WriteData
<1>2. ActiveIntact'
  BY <1>1, WriteDataCells, ActiveFrame DEF TypeOK
<1>3. /\ flash'[staging].magic = "blank"
      /\ flash'[staging].seq = Blank /\ flash'[staging].len = Blank
      /\ expected \in MinImage..MaxImage
  <2>1. flash[staging] \in FlashSlot /\ flash'[staging] = WrittenBody(flash[staging])
    BY WriteDataCells DEF TypeOK
  <2>2. /\ flash'[staging].magic = flash[staging].magic
        /\ flash'[staging].seq = flash[staging].seq
        /\ flash'[staging].len = flash[staging].len
    BY <2>1 DEF WrittenBody, FlashSlot
  <2> QED BY <2>2, WriteDataCells DEF UpdateInv, StagedInv
<1>4. CASE received + Len(chunk) # expected
  <2>1. received' = received + Len(chunk) /\ Return /\ UNCHANGED <<staging, expected>>
    BY <1>4 DEF WriteData
  <2>2. TypeOK'
    BY <1>1, <2>1, WriteDataCells, EmptySeqType, PageAssumption, ImageAssumption
       DEF TypeOK, Return
  <2>3. UpdateInv'
    BY <1>1, <1>3, <2>1, WriteDataCells
       DEF Return, UpdateInv, OffInv, EraseInv, StagedInv, CallInv, Spare
  <2> QED BY <1>2, <2>2, <2>3
<1>5. CASE received + Len(chunk) = expected /\ upload' \in ValidImages
  <2>1. /\ received' = expected /\ pc' = "header" /\ chunk' = <<>>
        /\ UNCHANGED <<next, page, staging, expected>>
    BY <1>5, WriteDataImage DEF WriteData
  <2>2. TypeOK'
    BY <1>1, <2>1, WriteDataCells, EmptySeqType DEF TypeOK
  <2>3. UpdateInv'
    BY <1>1, <1>3, <1>5, <2>1, WriteDataCells, ImageAssumption
       DEF UpdateInv, OffInv, EraseInv, StagedInv, CallInv, Spare
  <2> QED BY <1>2, <2>2, <2>3
<1>6. CASE received + Len(chunk) = expected /\ upload' \notin ValidImages
  <2>1. Abort /\ Return
    BY <1>6, WriteDataImage DEF WriteData
  <2> QED BY <1>1, <1>2, <2>1, WriteDataCells, AbortFrame, AbortType DEF TypeOK
<1> QED BY <1>4, <1>5, <1>6

LEMMA WriteHeaderInv ==
  ASSUME CoreInv, WriteHeader
  PROVE  CoreInv'
<1> USE DEF CoreInv
<1> DEFINE f == WrittenHeader(flash[staging])
<1>1. pc = "header" /\ staging \in Slots /\ staging # active /\ staging = Spare
  BY TargetIsSpare DEF WriteHeader, Target
<1>2. f \in FlashSlot
  BY <1>1, HeaderType DEF TypeOK
<1>3. flash' \in [Slots -> FlashSlot] /\ flash'[staging] = f
  BY <1>1, <1>2 DEF WriteHeader, TypeOK
<1>4. /\ f.magic = flash[staging].magic /\ f.body = flash[staging].body
      /\ f.seq = Succ(sequence) /\ f.len = expected
  BY <1>1 DEF WrittenHeader, TypeOK, FlashSlot
<1>5. TypeOK'
  BY <1>3 DEF WriteHeader, TypeOK, ramVars
<1>6. UpdateInv'
  BY <1>1, <1>3, <1>4
     DEF WriteHeader, ramVars, UpdateInv, OffInv, EraseInv, StagedInv, CallInv, Spare
<1>7. ActiveIntact'
  BY <1>1, ActiveFrame DEF WriteHeader, ramVars, TypeOK
<1> QED BY <1>5, <1>6, <1>7

(* The last write makes the spare slot a valid one holding what was sent. *)
LEMMA WriteMagicSlot ==
  ASSUME TypeOK, UpdateInv, pc = "magic"
  PROVE  LET f == WrittenMagic(flash[staging])
         IN  ValidSlot(f) /\ SlotImage(f) = upload /\ f.seq = Succ(sequence)
<1> DEFINE f == WrittenMagic(flash[staging])
<1>1. staging \in Slots /\ flash[staging] \in FlashSlot
  BY TargetIsSpare DEF Target, TypeOK
<1>2. /\ f.magic = "set" /\ f.seq = flash[staging].seq
      /\ f.len = flash[staging].len /\ f.body = flash[staging].body
  BY <1>1 DEF WrittenMagic, FlashSlot
<1>3. /\ f.len = expected /\ f.seq = Succ(sequence) /\ upload \in ValidImages
      /\ Len(upload) = expected /\ \A i \in 1..expected: f.body[i] = upload[i]
  BY <1>2 DEF UpdateInv, StagedInv, CallInv
<1>4. SlotImage(f) = [i \in 1..expected |-> upload[i]]
  BY <1>3 DEF SlotImage
<1>5. upload = [i \in 1..expected |-> upload[i]]
  BY <1>3, LenProperties DEF TypeOK
<1> QED BY <1>3, <1>2, <1>4, <1>5 DEF ValidSlot, TypeOK

LEMMA WriteMagicInv ==
  ASSUME CoreInv, WriteMagic
  PROVE  CoreInv'
<1> USE DEF CoreInv
<1> DEFINE f == WrittenMagic(flash[staging])
<1>1. pc = "magic" /\ staging \in Slots
  BY TargetIsSpare DEF WriteMagic, Target
<1>2. f \in FlashSlot
  BY <1>1, MagicType DEF TypeOK
<1>3. /\ flash' \in [Slots -> FlashSlot] /\ flash'[staging] = f
      /\ active' = staging /\ sequence' = Succ(sequence) /\ UNCHANGED upload
      /\ Abort /\ Return
  BY <1>1, <1>2 DEF WriteMagic, TypeOK
<1>4. TypeOK'
  BY <1>1, <1>3, SuccType, AbortType DEF TypeOK
<1>5. ActiveIntact'
  BY <1>1, <1>3, WriteMagicSlot DEF ActiveIntact, ValidSlot, SlotImage
<1> QED BY <1>3, <1>4, <1>5, AbortFrame

(* A broken operation touches the spare slot only. *)
LEMMA BrokenFlash ==
  ASSUME CoreInv, pc \in BusyPc, NEW f \in Broken, flash' = [flash EXCEPT ![Target] = f]
  PROVE  /\ flash' \in [Slots -> FlashSlot]
         /\ active # NoSlot => flash'[active] = flash[active]
BY TargetIsSpare, BrokenType DEF CoreInv, TypeOK

LEMMA FlashFailsInv ==
  ASSUME CoreInv, FlashFails
  PROVE  CoreInv'
<1> USE DEF CoreInv
<1>1. UNCHANGED <<active, sequence, upload>> /\ Abort /\ Return
  BY DEF FlashFails
<1>2. flash' \in [Slots -> FlashSlot] /\ (active # NoSlot => flash'[active] = flash[active])
  BY BrokenFlash DEF FlashFails
<1>3. TypeOK'
  BY <1>1, <1>2, AbortType DEF TypeOK
<1> QED BY <1>1, <1>2, <1>3, AbortFrame, ActiveFrame

LEMMA CancelInv ==
  ASSUME CoreInv, Cancel
  PROVE  CoreInv'
<1> USE DEF CoreInv
<1>1. /\ UNCHANGED <<flash, active, sequence, callVars, upload>>
      /\ pc = "idle" /\ staging' = NoSlot /\ expected' = 0 /\ received' = 0
  BY DEF Cancel, Abort
<1>2. TypeOK'
  BY <1>1, ImageAssumption DEF TypeOK, callVars
<1>3. UpdateInv'
  BY <1>1 DEF callVars, UpdateInv, OffInv, EraseInv, StagedInv, CallInv
<1> QED BY <1>1, <1>2, <1>3, ActiveFrame

LEMMA PowerFailsInv ==
  ASSUME CoreInv, PowerFails
  PROVE  CoreInv'
<1> USE DEF CoreInv
<1>1. /\ pc' = "off" /\ next' = NoSlot /\ page' = 0 /\ chunk' = <<>>
      /\ active' = NoSlot /\ sequence' = 0 /\ UNCHANGED upload
      /\ staging' = NoSlot /\ expected' = 0 /\ received' = 0
  BY DEF PowerFails, Abort
<1>2. flash' \in [Slots -> FlashSlot]
  BY BrokenFlash DEF PowerFails, TypeOK
<1>3. TypeOK'
  BY <1>1, <1>2, EmptySeqType, ImageAssumption, PageAssumption, SeqAssumption
     DEF TypeOK, SeqNumbers, SeqSpan
<1>4. UpdateInv' /\ ActiveIntact'
  BY <1>1 DEF UpdateInv, OffInv, EraseInv, StagedInv, CallInv, ActiveIntact
<1> QED BY <1>3, <1>4

LEMMA PickValid ==
  ASSUME NEW slots
  PROVE  /\ PickSlot(slots) \in Slots \cup {NoSlot}
         /\ PickSlot(slots) # NoSlot => ValidSlot(slots[PickSlot(slots)])
BY DEF PickSlot

LEMMA BootInv ==
  ASSUME IInv, Boot
  PROVE  CoreInv'
<1> USE DEF IInv, CoreInv
<1>1. /\ UNCHANGED <<flash, upload>> /\ active' = PickSlot(flash) /\ Abort /\ Return
      /\ sequence' = IF active' = NoSlot THEN 0 ELSE flash[active'].seq
  BY DEF Boot
<1>2. sequence' \in SeqNumbers
  BY <1>1, PickValid, SeqAssumption DEF OneStepApart, SeqNumbers, SeqSpan
<1>3. active' \in Slots \cup {NoSlot}
  BY <1>1, PickValid
<1>4. TypeOK'
  BY <1>1, <1>2, <1>3, AbortType DEF TypeOK
<1>5. ActiveIntact'
  BY <1>1, PickValid DEF ActiveIntact, ValidSlot, SlotImage
<1> QED BY <1>1, <1>4, <1>5, AbortFrame

-----------------------------------------------------------------------------
(***************************************************************************)
(* What a step does to the flash.                                          *)
(***************************************************************************)

(* Every step leaves the flash alone or leaves in the slot under way one of
   the outcomes a broken operation can have. *)
LEMMA StepFlash ==
  ASSUME CoreInv, Next
  PROVE  \/ UNCHANGED flash
         \/ /\ pc \in BusyPc
            /\ \E f \in Broken: flash' = [flash EXCEPT ![Target] = f]
<1>1. CASE BeginUpdate \/ ClearConfig \/ AppendChunk \/ Cancel \/ Boot
  BY <1>1 DEF BeginUpdate, ClearConfig, AppendChunk, Begin, Append1, Cancel, Boot
<1>2. CASE ErasePage
  BY <1>2 DEF ErasePage, Broken, Target
<1>3. CASE WriteData
  BY <1>3 DEF WriteData, Broken, Target
<1>4. CASE WriteHeader
  BY <1>4 DEF WriteHeader, Broken, Target
<1>5. CASE WriteMagic
  BY <1>5 DEF WriteMagic, Broken, Target
<1>6. CASE FlashFails \/ PowerFails
  BY <1>6 DEF FlashFails, PowerFails
<1> QED BY <1>1, <1>2, <1>3, <1>4, <1>5, <1>6 DEF Next

(* A valid image has no junk and no blank in its first cell. *)
LEMMA ValidFirstCell ==
  ASSUME NEW f, ValidSlot(f)
  PROVE  f.body[1] \in Unit
<1>1. SlotImage(f) \in Seq(Unit) /\ Len(SlotImage(f)) \in MinImage..MaxImage
  BY ImageAssumption DEF ValidSlot
<1>2. f.len \in Nat /\ SlotImage(f) = [i \in 1..f.len |-> f.body[i]]
  BY ImageAssumption DEF ValidSlot, SlotImage
<1>3. DOMAIN SlotImage(f) = 1..f.len /\ DOMAIN SlotImage(f) = 1..Len(SlotImage(f))
  BY <1>1, <1>2, LenProperties
<1>4. Len(SlotImage(f)) = f.len
  BY <1>1, <1>2, <1>3, ImageAssumption
<1>5. 1 \in 1..Len(SlotImage(f))
  BY <1>1, ImageAssumption
<1>6. SlotImage(f)[1] \in Unit
  BY <1>1, <1>5, ElementOfSeq
<1> QED BY <1>2, <1>4, <1>5, <1>6

(* The slot under way becomes valid in no other way than by the last write of
   an update, and then it holds what the client sent. *)
LEMMA BrokenValid ==
  ASSUME CoreInv, pc \in BusyPc, NEW f \in Broken, ValidSlot(f)
  PROVE  \/ f = flash[Target]
         \/ /\ pc = "magic" /\ f = WrittenMagic(flash[staging])
            /\ SlotImage(f) = upload /\ f.seq = Succ(sequence) /\ Len(upload) = expected
<1> USE DEF CoreInv
<1>0. flash[Target] \in FlashSlot /\ f.magic = "set"
  BY TargetIsSpare DEF TypeOK, ValidSlot
<1>1. CASE pc = "erase"
  <2>1. CASE f = ErasedPage(flash[next], page)
    <3>1. f.magic = "blank"
      BY <1>1, <2>1, PageAssumption DEF ErasedPage, UpdateInv, EraseInv, TypeOK
    <3> QED BY <3>1, <1>0
  <2>2. CASE f = TornPage(flash[next], page)
    <3>1. CASE page = 0
      <4>1. f.body[1] = Junk
        BY <1>0, <1>1, <2>2, <3>1, ImageAssumption, PageAssumption
           DEF TornPage, Cells, Target, FlashSlot
      <4> QED BY <4>1, ValidFirstCell, ImageAssumption
    <3>2. CASE page # 0
      <4>1. flash[next].magic = "blank"
        BY <1>1, <3>2, PageAssumption DEF UpdateInv, EraseInv, TypeOK
      <4>2. f.magic = "blank"
        BY <1>0, <1>1, <2>2, <4>1 DEF TornPage, Target, FlashSlot
      <4> QED BY <4>2, <1>0
    <3> QED BY <3>1, <3>2
  <2> QED BY <1>1, <2>1, <2>2 DEF Broken, Target
<1>2. CASE pc = "write" \/ pc = "header"
  <2>1. flash[staging].magic = "blank" /\ flash[staging] \in FlashSlot
    BY <1>0, <1>2 DEF UpdateInv, StagedInv, CallInv, Target
  <2>2. f.magic = "blank"
    BY <1>2, <2>1
       DEF Broken, WrittenBody, SpoiltBody, WrittenHeader, SpoiltHeader, FlashSlot
  <2> QED BY <2>2, <1>0
<1>3. CASE pc = "magic"
  <2>1. f # SpoiltMagic(flash[staging])
    BY <1>0, <1>3 DEF SpoiltMagic, Target, FlashSlot
  <2>2. CASE f = flash[staging]
    BY <1>3, <2>2 DEF Target
  <2>3. CASE f = WrittenMagic(flash[staging])
    BY <1>3, <2>3, WriteMagicSlot DEF UpdateInv, StagedInv, CallInv
  <2> QED BY <1>3, <2>1, <2>2, <2>3 DEF Broken
<1> QED BY <1>1, <1>2, <1>3

(* Before that write the slot an update has begun to change is not valid. *)
LEMMA OtherIsTarget ==
  ASSUME CoreInv, pc \in BusyPc, active # NoSlot
  PROVE  Slots = {active, Target} /\ Other(active) = Target /\ Other(Target) = active
BY TargetIsSpare DEF CoreInv, TypeOK, Other, Spare

LEMMA OneStepApartStep ==
  ASSUME IInv, Next
  PROVE  OneStepApart'
<1> USE DEF IInv
<1>1. CASE UNCHANGED flash
  <2>1. \A s \in Slots: ValidSlot(flash[s])' = ValidSlot(flash[s])
    BY <1>1 DEF ValidSlot, SlotImage
  <2>2. (pc' # "off" /\ active' = NoSlot) => ~ValidSlot(flash[Slot1])
    <3>1. CASE Boot
      BY <3>1 DEF Boot, PickSlot
    <3>2. CASE ~Boot
      <4>1. pc' = "off" \/ active' = active \/ active' # NoSlot
        BY <3>2, TargetIsSpare DEF Next, BeginUpdate, ClearConfig, AppendChunk, Begin, Append1,
           Cancel, ErasePage, WriteData, WriteHeader, WriteMagic, FlashFails, PowerFails,
           ramVars, CoreInv, Target
      <4>2. pc' = "off" \/ pc # "off"
        BY <3>2 DEF Next, BeginUpdate, ClearConfig, AppendChunk, Begin, Append1,
           Cancel, ErasePage, WriteData, WriteHeader, WriteMagic, FlashFails, PowerFails
      <4> QED BY <4>1, <4>2 DEF OneStepApart
    <3> QED BY <3>1, <3>2
  <2> QED BY <1>1, <2>1, <2>2 DEF OneStepApart
<1>2. CASE pc \in BusyPc /\ \E f \in Broken: flash' = [flash EXCEPT ![Target] = f]
  <2>1. PICK f \in Broken: flash' = [flash EXCEPT ![Target] = f]
    BY <1>2
  <2>2. /\ Target \in Slots /\ flash'[Target] = f
        /\ \A s \in Slots: s # Target => flash'[s] = flash[s]
    BY <1>2, <2>1, TargetIsSpare DEF CoreInv, TypeOK
  <2>3. \A s \in Slots: ValidSlot(flash[s])' = ValidSlot(flash'[s])
    BY DEF ValidSlot, SlotImage
  <2>4. \A s \in Slots: ValidSlot(flash'[s]) => flash'[s].seq \in SeqNumbers
    BY <1>2, <2>2, BrokenValid, SuccType DEF OneStepApart, CoreInv, TypeOK
  <2>5. ASSUME \A s \in Slots: ValidSlot(flash'[s])
        PROVE  \E s \in Slots: flash'[Other(s)].seq = Succ(flash'[s].seq)
    <3>1. ValidSlot(f)
      BY <2>2, <2>5
    <3>2. CASE f = flash[Target]
      BY <2>2, <2>5, <3>2 DEF OneStepApart, Other
    <3>3. CASE f.seq = Succ(sequence) /\ pc = "magic"
      <4>1. active # NoSlot
        BY <1>2, <2>2, <2>5, TargetIsSpare, <3>3 DEF OneStepApart, CoreInv, Spare
      <4>2. flash'[active].seq = sequence /\ flash'[Other(active)].seq = Succ(sequence)
        BY <1>2, <2>2, <3>3, <4>1, OtherIsTarget, TargetIsSpare
           DEF CoreInv, ActiveIntact, TypeOK
      <4> QED BY <4>1, <4>2 DEF CoreInv, TypeOK
    <3> QED BY <1>2, <3>1, <3>2, <3>3, BrokenValid
  <2>6. (pc' # "off" /\ active' = NoSlot) => ~ValidSlot(flash'[Slot1])
    <3>1. pc' = "off" \/ active' = active \/ active' # NoSlot
      BY <1>2, TargetIsSpare DEF Next, BeginUpdate, ClearConfig, AppendChunk, Begin, Append1,
         Cancel, ErasePage, WriteData, WriteHeader, WriteMagic, FlashFails, PowerFails,
         ramVars, CoreInv, Target, Boot
    <3> QED BY <1>2, <2>2, <3>1, TargetIsSpare DEF OneStepApart, CoreInv, Spare
  <2> QED BY <2>3, <2>4, <2>5, <2>6 DEF OneStepApart
<1> QED BY <1>1, <1>2, StepFlash

LEMMA StutterInv ==
  ASSUME IInv, UNCHANGED vars
  PROVE  IInv'
<1> USE DEF vars, ramVars, callVars, IInv, CoreInv
<1>1. TypeOK'
  BY DEF TypeOK
<1>2. UpdateInv'
  BY DEF UpdateInv, OffInv, EraseInv, StagedInv, CallInv, Spare
<1>3. ActiveIntact' /\ OneStepApart'
  BY DEF ActiveIntact, OneStepApart, ValidSlot, SlotImage
<1> QED BY <1>1, <1>2, <1>3

LEMMA NextInv ==
  ASSUME IInv, [Next]_vars
  PROVE  IInv'
<1>1. CASE BeginUpdate
  <2>1. PICK n \in Totals, first \in Chunks:
          /\ n > 0 /\ Len(first) = IF n <= MaxChunk THEN n ELSE MaxChunk
          /\ Begin(n, first)
    BY <1>1 DEF BeginUpdate
  <2>2. n \in Nat /\ first \in Seq(Unit) /\ Len(first) \in 1..n
    BY <2>1, InputAssumption, ImageAssumption
  <2> QED BY <2>1, <2>2, BeginInv, OneStepApartStep, <1>1 DEF IInv, Next
<1>2. CASE ClearConfig
  <2>1. Factory \in Seq(Unit) /\ Len(Factory) \in Nat \ {0}
    BY ImageAssumption
  <2> QED BY <1>2, <2>1, BeginInv, OneStepApartStep DEF IInv, Next, ClearConfig
<1>3. CASE AppendChunk
  BY <1>3, InputAssumption, Append1Inv, OneStepApartStep DEF IInv, Next, AppendChunk
<1>4. CASE Cancel
  BY <1>4, CancelInv, OneStepApartStep DEF IInv, Next
<1>5. CASE ErasePage
  BY <1>5, ErasePageInv, OneStepApartStep DEF IInv, Next
<1>6. CASE WriteData
  BY <1>6, WriteDataInv, OneStepApartStep DEF IInv, Next
<1>7. CASE WriteHeader
  BY <1>7, WriteHeaderInv, OneStepApartStep DEF IInv, Next
<1>8. CASE WriteMagic
  BY <1>8, WriteMagicInv, OneStepApartStep DEF IInv, Next
<1>9. CASE FlashFails
  BY <1>9, FlashFailsInv, OneStepApartStep DEF IInv, Next
<1>10. CASE PowerFails
  BY <1>10, PowerFailsInv, OneStepApartStep DEF IInv, Next
<1>11. CASE Boot
  BY <1>11, BootInv, OneStepApartStep DEF IInv, Next
<1>12. CASE UNCHANGED vars
  BY <1>12, StutterInv
<1> QED BY <1>1, <1>2, <1>3, <1>4, <1>5, <1>6, <1>7, <1>8, <1>9, <1>10, <1>11, <1>12 DEF Next

LEMMA InitIInv == Init => IInv
<1> SUFFICES ASSUME Init PROVE OneStepApart
  BY InitInv DEF IInv
<1>1. \A s \in Slots: ~ValidSlot(flash[s])
  BY DEF Init, BlankSlot, ValidSlot
<1> QED BY <1>1 DEF OneStepApart

(* The inductive invariant: at every step of every call, and after every power
   loss, the slots and the RAM copy of their state agree. *)
THEOREM StoreInvariant == Spec => []IInv
<1>1. IInv /\ [Next]_vars => IInv'
  BY NextInv
<1> QED BY <1>1, InitIInv, PTL DEF Spec

(* Types hold: the sequence number stays a uint32_t, the counters stay inside
   the slot (storage.c:95-132). *)
THEOREM StoreTypes == Spec => []TypeOK
<1>1. IInv => TypeOK
  BY DEF IInv, CoreInv
<1> QED BY <1>1, StoreInvariant, PTL

(* The slot od_store_data and od_store_record read is never disturbed by an
   update of the other one, for any number of pages, image sizes and flash
   failures (storage.c:79-132). *)
THEOREM RunningSlotIntact == Spec => []ActiveIntact
<1>1. IInv => ActiveIntact
  BY DEF IInv, CoreInv
<1> QED BY <1>1, StoreInvariant, PTL

(* Every flash write lands on cells its own od_store_begin erased
   (storage.c:100-104, 112, 124). *)
THEOREM WritesOnErasedFlash == Spec => []EraseBeforeWrite
<1>1. IInv => EraseBeforeWrite
  <2> SUFFICES ASSUME IInv PROVE EraseBeforeWrite
    OBVIOUS
  <2> USE DEF IInv, CoreInv, UpdateInv, StagedInv, CallInv
  <2>1. ASSUME pc = "write", NEW i \in Cells, Written(i)
        PROVE  flash[staging].body[i] = Blank
    BY <2>1 DEF Written
  <2> QED BY <2>1 DEF EraseBeforeWrite
<1> QED BY <1>1, StoreInvariant, PTL

(* Two valid slots are always one sequence step apart, across the wrap of the
   uint32_t and across every power loss (storage.c:73-75, 123-129). *)
THEOREM SlotsOneStepApart == Spec => []OneStepApart
<1>1. IInv => OneStepApart
  BY DEF IInv
<1> QED BY <1>1, StoreInvariant, PTL

-----------------------------------------------------------------------------
(***************************************************************************)
(* The store implements ConfigRegister.                                    *)
(***************************************************************************)

(* The wrapped comparison orders neighbours. *)
LEMMA NewerSucc ==
  ASSUME NEW n \in SeqNumbers
  PROVE  Newer(Succ(n), n) /\ ~Newer(n, Succ(n))
BY SeqAssumption DEF SeqNumbers, SeqSpan, Succ, Newer

(* With slot a in use the next start picks the other slot exactly when it is
   valid and one step ahead. *)
LEMMA PickIs ==
  ASSUME NEW slots, NEW a \in Slots \cup {NoSlot}, NEW spare \in Slots,
         NEW n \in SeqNumbers,
         spare = IF a = Slot0 THEN Slot1 ELSE Slot0,
         a # NoSlot => ValidSlot(slots[a]) /\ slots[a].seq = n,
         a = NoSlot => ~ValidSlot(slots[Slot1]),
         (a # NoSlot /\ ValidSlot(slots[spare])) =>
            /\ slots[spare].seq \in SeqNumbers
            /\ slots[spare].seq = Succ(n) \/ n = Succ(slots[spare].seq)
  PROVE  /\ (ValidSlot(slots[spare]) /\ (a # NoSlot => slots[spare].seq = Succ(n)))
              => PickSlot(slots) = spare
         /\ ~ValidSlot(slots[spare]) => PickSlot(slots) = a
<1>1. CASE a = NoSlot
  BY <1>1 DEF PickSlot
<1>2. CASE a = Slot0
  BY <1>2, NewerSucc DEF PickSlot
<1>3. CASE a = Slot1
  BY <1>3, NewerSucc DEF PickSlot
<1> QED BY <1>1, <1>2, <1>3

(* What one flash operation, finished or broken, does to the durable image. *)
LEMMA DurableStep ==
  ASSUME IInv, pc \in BusyPc, NEW f \in Broken, flash' = [flash EXCEPT ![Target] = f]
  PROVE  /\ StoreData(flash', active) = StoreData(flash, active)
         /\ \/ flash' = flash
            \/ ~ValidSlot(f) /\ StoreData(flash', PickSlot(flash')) = StoreData(flash, active)
            \/ /\ pc = "magic" /\ upload \in ValidImages /\ Len(upload) = expected
               /\ StoreData(flash, PickSlot(flash)) = StoreData(flash, active)
               /\ StoreData(flash', PickSlot(flash')) = upload
               /\ StoreData(flash', Target) = upload
<1> USE DEF IInv, CoreInv
<1>1. Target = Spare /\ Target \in Slots /\ Target # active /\ pc # "off"
  BY TargetIsSpare
<1>2. /\ flash'[Target] = f /\ flash \in [Slots -> FlashSlot]
      /\ active # NoSlot => flash'[active] = flash[active]
      /\ \A s \in Slots: s # Target => flash'[s] = flash[s]
  BY <1>1 DEF TypeOK
<1>3. StoreData(flash', active) = StoreData(flash, active)
  BY <1>2 DEF StoreData
<1>4. CASE f = flash[Target]
  BY <1>1, <1>2, <1>3, <1>4
<1> DEFINE ok(slots) ==
      /\ active # NoSlot => ValidSlot(slots[active]) /\ slots[active].seq = sequence
      /\ active = NoSlot => ~ValidSlot(slots[Slot1])
<1>5. ok(flash')
  <2>1. CASE active # NoSlot
    BY <1>2, <2>1 DEF ActiveIntact
  <2>2. CASE active = NoSlot
    <3>1. Target = Slot0 /\ ~ValidSlot(flash[Slot1])
      BY <1>1, <2>2 DEF Spare, OneStepApart
    <3> QED BY <1>2, <2>2, <3>1
  <2> QED BY <2>1, <2>2
<1>6. active \in Slots \cup {NoSlot} /\ sequence \in SeqNumbers
  BY DEF TypeOK
<1>7. CASE ~ValidSlot(f)
  <2>1. PickSlot(flash') = active
    BY <1>1, <1>2, <1>5, <1>6, <1>7, PickIs DEF Spare
  <2> QED BY <1>3, <1>7, <2>1
<1>8. CASE /\ pc = "magic" /\ f = WrittenMagic(flash[staging])
           /\ SlotImage(f) = upload /\ f.seq = Succ(sequence) /\ Len(upload) = expected
           /\ ValidSlot(f)
  <2>1. ~ValidSlot(flash[Target]) /\ upload \in ValidImages
    BY <1>8 DEF UpdateInv, StagedInv, CallInv, ValidSlot, Target
  <2>2. ok(flash)
    BY <1>1 DEF ActiveIntact, OneStepApart
  <2>3. PickSlot(flash) = active
    BY <1>1, <1>6, <2>1, <2>2, PickIs DEF Spare
  <2>4. PickSlot(flash') = Target
    <3>1. /\ ValidSlot(flash'[Target]) /\ flash'[Target].seq = Succ(sequence)
          /\ Succ(sequence) \in SeqNumbers
      BY <1>2, <1>6, <1>8, SuccType
    <3>2. Target = IF active = Slot0 THEN Slot1 ELSE Slot0
      BY <1>1 DEF Spare
    <3> HIDE DEF ok
    <3>3. /\ active # NoSlot => ValidSlot(flash'[active]) /\ flash'[active].seq = sequence
          /\ active = NoSlot => ~ValidSlot(flash'[Slot1])
      BY <1>5 DEF ok
    <3> QED BY <1>1, <1>6, <3>1, <3>2, <3>3, PickIs
  <2>5. StoreData(flash', Target) = upload
    BY <1>1, <1>2, <1>8 DEF StoreData
  <2> QED BY <1>3, <1>8, <2>1, <2>3, <2>4, <2>5
<1> QED BY <1>4, <1>7, <1>8, BrokenValid

LEMMA RegisterInit == Init => Register!Init
<1> SUFFICES ASSUME Init PROVE Register!Init
  OBVIOUS
<1>1. \A s \in Slots: ~ValidSlot(flash[s])
  BY DEF Init, BlankSlot, ValidSlot
<1>2. PickSlot(flash) = NoSlot
  BY <1>1 DEF PickSlot
<1> QED BY <1>2, ImageAssumption DEF Init, Register!Init, Durable, Running, StoreData

LEMMA RegisterStep ==
  ASSUME IInv, [Next]_vars
  PROVE  [Register!Next]_Register!regVars
<1> USE DEF IInv, CoreInv
<1>0. SUFFICES \/ UNCHANGED <<Durable, Running>>
               \/ \E img \in ValidImages: Register!Commit(img) \/ Register!LandUnreported(img)
               \/ Register!Retract \/ Register!Restart
  BY DEF Register!Next, Register!regVars
<1>1. CASE BeginUpdate \/ ClearConfig \/ AppendChunk \/ Cancel
  <2>1. UNCHANGED <<flash, active>> /\ pc # "off" /\ pc' # "off"
    BY <1>1 DEF BeginUpdate, ClearConfig, AppendChunk, Begin, Append1, Cancel, Return, callVars
  <2> QED BY <2>1 DEF Durable, Running
<1>2. CASE Boot
  BY <1>2 DEF Boot, Return, Durable, Running
<1>3. CASE ErasePage \/ WriteData \/ WriteHeader \/ FlashFails
  <2>1. UNCHANGED active /\ pc \in BusyPc /\ pc' # "off"
    BY <1>3 DEF ErasePage, WriteData, WriteHeader, FlashFails, Return, ramVars
  <2>2. PICK f \in Broken: flash' = [flash EXCEPT ![Target] = f]
    BY <1>3 DEF ErasePage, WriteData, WriteHeader, FlashFails, Broken, Target
  <2>3. Running = StoreData(flash, active) /\ Running' = StoreData(flash', active)
    BY <2>1 DEF Running
  <2>4. CASE flash' = flash
    BY <2>1, <2>3, <2>4 DEF Durable
  <2>5. CASE StoreData(flash', PickSlot(flash')) = StoreData(flash, active)
    BY <2>1, <2>2, <2>3, <2>5, DurableStep DEF Durable, Register!Retract
  <2>6. CASE /\ upload \in ValidImages
             /\ StoreData(flash, PickSlot(flash)) = StoreData(flash, active)
             /\ StoreData(flash', PickSlot(flash')) = upload
    <3>1. Register!LandUnreported(upload)
      BY <2>1, <2>2, <2>3, <2>6, DurableStep DEF Durable, Register!LandUnreported
    <3> QED BY <3>1, <2>6
  <2> QED BY <2>1, <2>2, <2>4, <2>5, <2>6, DurableStep
<1>4. CASE WriteMagic
  <2>1. active' = staging /\ pc = "magic" /\ pc' # "off" /\ Target = staging
    BY <1>4 DEF WriteMagic, Return, Target
  <2>2. PICK f \in Broken: f = WrittenMagic(flash[staging]) /\ flash' = [flash EXCEPT ![Target] = f]
    BY <1>4 DEF WriteMagic, Broken, Target
  <2>3. ValidSlot(f) /\ flash[Target].magic = "blank"
    BY <2>1, <2>2, WriteMagicSlot DEF UpdateInv, StagedInv, CallInv
  <2>4. flash' # flash
    BY <2>1, <2>2, <2>3, TargetIsSpare DEF ValidSlot, TypeOK
  <2>5. /\ upload \in ValidImages
        /\ StoreData(flash, PickSlot(flash)) = StoreData(flash, active)
        /\ StoreData(flash', PickSlot(flash')) = upload
        /\ StoreData(flash', Target) = upload
    BY <2>1, <2>2, <2>3, <2>4, DurableStep
  <2>6. Register!Commit(upload)
    BY <2>1, <2>5 DEF Durable, Running, Register!Commit
  <2> QED BY <2>5, <2>6
<1>5. CASE PowerFails
  <2>1. pc # "off" /\ pc' = "off" /\ Running' = Durable'
    BY <1>5 DEF PowerFails, Running
  <2>2. CASE flash' = flash
    BY <2>1, <2>2 DEF Durable, Register!Restart
  <2>3. CASE flash' # flash
    <3>1. pc \in BusyPc /\ \E f \in Broken: flash' = [flash EXCEPT ![Target] = f]
      BY <1>5, <2>3 DEF PowerFails
    <3>2. PICK f \in Broken: flash' = [flash EXCEPT ![Target] = f]
      BY <3>1
    <3>3. CASE StoreData(flash', PickSlot(flash')) = StoreData(flash, active)
      BY <2>1, <3>3 DEF Durable, Running, Register!Retract
    <3>4. CASE /\ upload \in ValidImages
               /\ StoreData(flash, PickSlot(flash)) = StoreData(flash, active)
               /\ StoreData(flash', PickSlot(flash')) = upload
      <4>1. Register!Commit(upload)
        BY <2>1, <3>4 DEF Durable, Running, Register!Commit
      <4> QED BY <3>4, <4>1
    <3> QED BY <2>3, <3>1, <3>2, <3>3, <3>4, DurableStep
  <2> QED BY <2>2, <2>3
<1>6. CASE UNCHANGED vars
  BY <1>6 DEF vars, callVars, ramVars, Durable, Running
<1> QED BY <1>1, <1>2, <1>3, <1>4, <1>5, <1>6 DEF Next

(* The store implements the atomic register of ConfigRegister: whatever fails
   wherever, a start loads a complete valid image, the last one committed or
   one whose last write landed (storage.c:68-132). *)
THEOREM StoreIsRegister == Spec => RegisterSpec
<1>1. IInv /\ [Next]_vars => [Register!Next]_Register!regVars
  BY RegisterStep
<1> QED BY <1>1, RegisterInit, StoreInvariant, PTL DEF Spec, RegisterSpec, Register!Spec

(* What the next start loads changes only to the complete image the client
   sent, when its last write lands, or back to the running one
   (storage.c:117-132; docs/protocol-coverage.md:49). *)
THEOREM DurableChanges == Spec => DurableOnlyFromUpload
<1> DEFINE Allowed == Durable' # Durable => \/ /\ pc = "magic"
                                               /\ Durable' = upload
                                               /\ Len(upload) = expected
                                            \/ Durable' = Running
<1>1. ASSUME IInv, [Next]_vars
      PROVE  [Allowed]_vars
  <2>1. CASE UNCHANGED flash
    BY <2>1 DEF Durable
  <2>2. CASE pc \in BusyPc /\ \E f \in Broken: flash' = [flash EXCEPT ![Target] = f]
    <3>1. PICK f \in Broken: flash' = [flash EXCEPT ![Target] = f]
      BY <2>2
    <3>2. Running = StoreData(flash, active)
      BY <2>2 DEF Running
    <3> QED BY <1>1, <2>2, <3>1, <3>2, DurableStep DEF Durable
  <2>3. CASE UNCHANGED vars
    BY <2>3
  <2> QED BY <1>1, <2>1, <2>2, <2>3, StepFlash DEF IInv
<1> QED BY <1>1, StoreInvariant, PTL DEF Spec, DurableOnlyFromUpload
=============================================================================

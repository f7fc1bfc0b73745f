----------------------------- MODULE ConfigStore -----------------------------
(***************************************************************************)
(* The two-slot configuration store of apps/opendisplay/src/storage.c, one *)
(* action per flash operation, so that power may fail between any two of   *)
(* them and inside each.  All calls come from the display task (and        *)
(* od_store_init from mynewt_main before that task runs), so operations    *)
(* never overlap: "pc" is the place the one running call has reached.      *)
(*                                                                         *)
(* Contents are abstract.  A flash cell of the image area holds one unit   *)
(* of an image, Blank after an erase, or Junk: a torn erase, a torn write  *)
(* or a write over a cell that was not blank.  The CRC and record checks   *)
(* of od_config_validate are the set ValidImages; they are taken to reject *)
(* any image with a Blank or Junk cell.                                    *)
(***************************************************************************)
EXTENDS Integers, Sequences

CONSTANTS Unit,        \* what a cell of an image can hold
          Blank, Junk, \* an erased cell, a spoilt one
          ValidImages, \* the images od_config_validate accepts
          Factory,     \* the generated od_config, used when no slot is valid
          MinImage,    \* 5 bytes
          MaxImage,    \* OD_CONFIG_MAX
          MaxChunk,    \* 200 bytes of a 0x41 or 0x42 command
          Pages,       \* OD_SLOT_BYTES / 1024
          PageOf,      \* the page of each cell; the slot header is on page 0
          SeqHalf      \* 2^31: sequence numbers are uint32_t

ASSUME ImageAssumption ==
  /\ MinImage \in Nat \ {0}
  /\ MaxImage \in Nat \ {0}
  /\ MaxChunk \in Nat \ {0}
  /\ ValidImages \subseteq Seq(Unit)
  /\ \A img \in ValidImages: Len(img) \in MinImage..MaxImage
  /\ Factory \in ValidImages
  /\ Blank \notin Unit /\ Junk \notin Unit /\ Blank # Junk

ASSUME PageAssumption ==
  /\ Pages \in Nat \ {0}
  /\ PageOf \in [1..MaxImage -> 0..Pages - 1]
  /\ PageOf[1] = 0 \* the header and the first byte share a page

ASSUME SeqAssumption == SeqHalf \in Nat /\ SeqHalf > 1

VARIABLES
  flash,     \* the two slots
  active, sequence,           \* the slot in use and its sequence number
  staging, expected, received, \* the update being received
  pc,        \* where the running call stands; "off" without power
  next,      \* the slot od_store_begin is erasing
  page,      \* its loop counter
  chunk,     \* data of the call, not yet written
  upload     \* history: what the client has sent since the last begin

ramVars == <<active, sequence, staging, expected, received>>
callVars == <<pc, next, page, chunk>>
vars == <<flash, ramVars, callVars, upload>>

(* OD_SLOT0 and OD_SLOT1; as in the source, 0 is no slot. *)
Slot0 == 1
Slot1 == 2
Slots == {Slot0, Slot1}
NoSlot == 0
SeqSpan == 2 * SeqHalf
SeqNumbers == 0..SeqSpan - 1
Cells == 1..MaxImage

Other(s) == IF s = Slot0 THEN Slot1 ELSE Slot0
SuccNoWrap(n) == n + 1   \* mutant of Succ: a wider counter
Succ(n) == IF n = SeqSpan - 1 THEN 0 ELSE n + 1

NewerUnsigned(a, b) == a > b   \* mutant of Newer: no wrap

(* (int32_t)(a - b) > 0 *)
Newer(a, b) == LET d == IF a >= b THEN a - b ELSE a - b + SeqSpan
               IN  0 < d /\ d < SeqHalf

(***************************************************************************)
(* Reading a slot.                                                         *)
(***************************************************************************)
SlotImage(f) == [i \in 1..f.len |-> f.body[i]]

ValidByCrcOnly(f) == \* mutant of ValidSlot: the magic is not looked at
  f.len \in 0..MaxImage /\ SlotImage(f) \in ValidImages

ValidSlot(f) == /\ f.magic = "set"
                /\ f.len \in 0..MaxImage
                /\ SlotImage(f) \in ValidImages

(* The slot od_store_init picks. *)
PickSlot(slots) ==
  LET ok(s) == ValidSlot(slots[s])
  IN  IF ok(Slot1) /\ (ok(Slot0) => Newer(slots[Slot1].seq, slots[Slot0].seq))
      THEN Slot1
      ELSE IF ok(Slot0) THEN Slot0 ELSE NoSlot

(* od_store_data when slot s is in use. *)
StoreData(slots, s) == IF s = NoSlot THEN Factory ELSE SlotImage(slots[s])

(***************************************************************************)
(* What an erase or a write may leave behind when it fails or power is     *)
(* lost inside it: nothing, all of it, or junk.                            *)
(***************************************************************************)
ErasedPage(f, p) ==
  [magic |-> IF p = 0 THEN "blank" ELSE f.magic,
   seq   |-> IF p = 0 THEN Blank ELSE f.seq,
   len   |-> IF p = 0 THEN Blank ELSE f.len,
   body  |-> [i \in Cells |-> IF PageOf[i] = p THEN Blank ELSE f.body[i]]]

(* The worst torn erase: the magic and the length survive it, the sequence
   number and the image do not. *)
TornPage(f, p) ==
  [f EXCEPT !.seq = IF p = 0 THEN Junk ELSE @,
            !.body = [i \in Cells |-> IF PageOf[i] = p THEN Junk ELSE f.body[i]]]

Written(i) == i > received /\ i <= received + Len(chunk)

WrittenBody(f) ==
  [f EXCEPT !.body = [i \in Cells |->
     IF Written(i) THEN IF f.body[i] = Blank THEN chunk[i - received] ELSE Junk
     ELSE f.body[i]]]

SpoiltBody(f) ==
  [f EXCEPT !.body = [i \in Cells |-> IF Written(i) THEN Junk ELSE f.body[i]]]

WrittenHeaderOld(f) == [f EXCEPT !.seq = sequence, !.len = expected] \* mutant: sequence, not sequence + 1
WrittenHeader(f) == [f EXCEPT !.seq = Succ(sequence), !.len = expected]
SpoiltHeader(f) == [f EXCEPT !.seq = Junk, !.len = Junk]
WrittenMagic(f) == [f EXCEPT !.magic = "set"]
SpoiltMagic(f) == [f EXCEPT !.magic = "junk"]

(* The contents the slot under way may have after a broken operation. *)
Broken ==
  CASE pc = "erase"  -> {flash[next], ErasedPage(flash[next], page),
                         TornPage(flash[next], page)}
    [] pc = "write"  -> {flash[staging], WrittenBody(flash[staging]), SpoiltBody(flash[staging])}
    [] pc = "header" -> {flash[staging], WrittenHeader(flash[staging]), SpoiltHeader(flash[staging])}
    [] pc = "magic"  -> {flash[staging], WrittenMagic(flash[staging]), SpoiltMagic(flash[staging])}

Target == IF pc = "erase" THEN next ELSE staging

BusyPc == {"erase", "write", "header", "magic"}

-----------------------------------------------------------------------------

(* od_store_abort *)
Abort == /\ staging' = NoSlot
         /\ expected' = 0
         /\ received' = 0

(* The call returns. *)
Return == /\ pc' = "idle"
          /\ chunk' = <<>>
          /\ next' = NoSlot
          /\ page' = 0

(* mutant of Begin: the next slot is the one not staged last *)
BeginByStaging(n, first) ==
  /\ pc = "idle"
  /\ IF n \in MinImage..MaxImage
     THEN /\ staging' = NoSlot /\ expected' = n /\ received' = 0
          /\ pc' = "erase" /\ chunk' = first
          /\ next' = IF staging = Slot0 THEN Slot1 ELSE Slot0
          /\ page' = 0
     ELSE Abort /\ Return
  /\ upload' = <<>>
  /\ UNCHANGED <<flash, active, sequence>>

(***************************************************************************)
(* od_store_begin and the append that always follows it: command 0x41      *)
(* sends the whole image or the first full chunk of a longer one, command  *)
(* 0x45 (od_store_clear) the factory image.                                *)
(***************************************************************************)
Begin(n, first) ==
  /\ pc = "idle"
  /\ IF n \in MinImage..MaxImage
     THEN /\ staging' = NoSlot /\ expected' = n /\ received' = 0
          /\ pc' = "erase" /\ chunk' = first
          /\ next' = IF active = Slot0 THEN Slot1 ELSE Slot0
          /\ page' = 0
     ELSE Abort /\ Return
  /\ upload' = <<>>
  /\ UNCHANGED <<flash, active, sequence>>

(* mutant of ErasePage: the loop stops one page early *)
ErasePageShort ==
  /\ pc = "erase"
  /\ flash' = [flash EXCEPT ![next] = ErasedPage(flash[next], page)]
  /\ IF page + 2 < Pages
     THEN page' = page + 1 /\ UNCHANGED <<staging, pc, next>>
     ELSE /\ staging' = next
          /\ pc' = "write" /\ next' = NoSlot /\ page' = 0
  /\ UNCHANGED <<active, sequence, expected, received, chunk, upload>>

ErasePage ==
  /\ pc = "erase"
  /\ flash' = [flash EXCEPT ![next] = ErasedPage(flash[next], page)]
  /\ IF page + 1 < Pages
     THEN page' = page + 1 /\ UNCHANGED <<staging, pc, next>>
     ELSE /\ staging' = next
          /\ pc' = "write" /\ next' = NoSlot /\ page' = 0
  /\ UNCHANGED <<active, sequence, expected, received, chunk, upload>>

(* od_store_append up to its first flash write. *)
Append1(data) ==
  /\ pc = "idle"
  /\ IF staging = NoSlot \/ data = <<>> \/ Len(data) > expected - received
     THEN Abort /\ Return
     ELSE /\ pc' = "write" /\ chunk' = data
          /\ UNCHANGED <<staging, expected, received, next, page>>
  /\ UNCHANGED <<flash, active, sequence, upload>>

(* The data is in flash; when it was the last, validate the whole image. *)
WriteData ==
  /\ pc = "write"
  /\ flash' = [flash EXCEPT ![staging] = WrittenBody(flash[staging])]
  /\ LET now == received + Len(chunk)
         image == SlotImage([flash'[staging] EXCEPT !.len = expected])
     IN  \/ /\ now # expected
            /\ received' = now
            /\ Return /\ UNCHANGED <<staging, expected>>
         \/ /\ now = expected /\ image \in ValidImages
            /\ received' = now
            /\ pc' = "header" /\ chunk' = <<>>
            /\ UNCHANGED <<next, page, staging, expected>>
         \/ /\ now = expected /\ image \notin ValidImages
            /\ Abort /\ Return
  /\ upload' = upload \o chunk
  /\ UNCHANGED <<active, sequence>>

(* Sequence number and length, everything of the header but the magic. *)
WriteHeader ==
  /\ pc = "header"
  /\ flash' = [flash EXCEPT ![staging] = WrittenHeader(flash[staging])]
  /\ pc' = "magic"
  /\ UNCHANGED <<ramVars, next, page, chunk, upload>>

WriteMagic ==
  /\ pc = "magic"
  /\ flash' = [flash EXCEPT ![staging] = WrittenMagic(flash[staging])]
  /\ active' = staging
  /\ sequence' = Succ(sequence)
  /\ Abort /\ Return
  /\ UNCHANGED upload

(* od_flash_erase or od_flash_write returns an error: the update is off. *)
FlashFails ==
  /\ pc \in BusyPc
  /\ \E f \in Broken: flash' = [flash EXCEPT ![Target] = f]
  /\ Abort /\ Return
  /\ UNCHANGED <<active, sequence, upload>>

(* od_store_abort from a disconnect, a timeout, a reboot command or a
   malformed 0x42. *)
Cancel == /\ pc = "idle"
          /\ staging # NoSlot
          /\ Abort
          /\ UNCHANGED <<flash, active, sequence, callVars, upload>>

(* Power loss or a watchdog reset, at any point of any call. *)
PowerFails ==
  /\ pc # "off"
  /\ IF pc \in BusyPc THEN \E f \in Broken: flash' = [flash EXCEPT ![Target] = f]
                      ELSE UNCHANGED flash
  /\ pc' = "off" /\ next' = NoSlot /\ page' = 0 /\ chunk' = <<>>
  /\ active' = NoSlot /\ sequence' = 0 /\ Abort
  /\ UNCHANGED upload

(* od_store_init *)
Boot ==
  /\ pc = "off"
  /\ active' = PickSlot(flash)
  /\ sequence' = IF active' = NoSlot THEN 0 ELSE flash[active'].seq
  /\ Abort /\ Return
  /\ UNCHANGED <<flash, upload>>

BlankSlot == [magic |-> "blank", seq |-> Blank, len |-> Blank, body |-> [i \in Cells |-> Blank]]

(* A device as flashed: nothing in the slots. *)
Init ==
  /\ flash = [s \in Slots |-> BlankSlot]
  /\ active = NoSlot /\ sequence = 0
  /\ staging = NoSlot /\ expected = 0 /\ received = 0
  /\ pc = "off" /\ next = NoSlot /\ page = 0 /\ chunk = <<>>
  /\ upload = <<>>

(* Inputs: chunks and total lengths a client may send. *)
CONSTANTS Chunks, Totals

ASSUME InputAssumption == /\ Chunks \subseteq Seq(Unit)
                          /\ Totals \subseteq Nat

BeginUpdate == \E n \in Totals, first \in Chunks:
                 /\ n > 0
                 /\ Len(first) = IF n <= MaxChunk THEN n ELSE MaxChunk
                 /\ Begin(n, first)
ClearConfig == Begin(Len(Factory), Factory)
AppendChunk == \E data \in Chunks: Append1(data)

Next == \/ BeginUpdate \/ ClearConfig \/ AppendChunk \/ Cancel
        \/ ErasePage \/ WriteData \/ WriteHeader \/ WriteMagic
        \/ FlashFails \/ PowerFails \/ Boot

Spec == Init /\ [][Next]_vars
-----------------------------------------------------------------------------
(***************************************************************************)
(* Properties.                                                             *)
(***************************************************************************)
FlashSlot == [magic : {"blank", "set", "junk"},
              seq   : SeqNumbers \cup {Blank, Junk},
              len   : MinImage..MaxImage \cup {Blank, Junk},
              body  : [Cells -> Unit \cup {Blank, Junk}]]

(* Types, and that sequence stays a uint32_t and page inside the slot. *)
TypeOK ==
  /\ flash \in [Slots -> FlashSlot]
  /\ active \in Slots \cup {NoSlot}
  /\ sequence \in SeqNumbers
  /\ staging \in Slots \cup {NoSlot}
  /\ expected \in 0..MaxImage
  /\ received \in 0..MaxImage
  /\ pc \in BusyPc \cup {"idle", "off"}
  /\ next \in Slots \cup {NoSlot}
  /\ page \in 0..Pages - 1
  /\ chunk \in Seq(Unit)
  /\ upload \in Seq(Unit)

(* The slot in use stays a valid image with the sequence number the RAM copy
   says, whatever an update, a failed flash operation or a cancelled transfer
   does to the other slot: od_store_data and od_store_record dereference it at
   any time (storage.c:79-94). *)
ActiveIntact ==
  active # NoSlot => /\ ValidSlot(flash[active])
                     /\ flash[active].seq = sequence

(* A flash word is programmed only over erased cells: every page an update
   writes to was erased by its own od_store_begin (storage.c:100-104), also
   when an earlier update left data there. *)
EraseBeforeWrite ==
  /\ pc = "write" => \A i \in Cells: Written(i) => flash[staging].body[i] = Blank
  /\ pc = "header" => flash[staging].seq = Blank /\ flash[staging].len = Blank
  /\ pc \in {"header", "magic"} => flash[staging].magic = "blank"

(* When both slots are valid one holds the image after the other, so the
   signed comparison of od_store_init (storage.c:74) never has to order
   numbers that are further apart, and it stays right when the sequence number
   wraps.  While the factory image runs only slot0, the one the next update
   erases, can have become valid. *)
OneStepApart ==
  /\ \A s \in Slots: ValidSlot(flash[s]) => flash[s].seq \in SeqNumbers
  /\ (\A s \in Slots: ValidSlot(flash[s])) =>
        \E s \in Slots: flash[Other(s)].seq = Succ(flash[s].seq)
  /\ (pc # "off" /\ active = NoSlot) => ~ValidSlot(flash[Slot1])

(* The slot an update may touch: never the one in use. *)
Spare == IF active = Slot0 THEN Slot1 ELSE Slot0

(* Where an update stands.  Everything the other invariants need to hold by
   induction: the spare slot alone is touched, its magic is blank from the
   first erase to the last write, the cells before "received" hold what was
   sent and those after it are erased, and the header is written only over a
   complete valid image. *)
OffInv == pc = "off" => active = NoSlot /\ sequence = 0 /\ staging = NoSlot

EraseInv ==
  pc = "erase" =>
    /\ next = Spare /\ staging = NoSlot /\ received = 0 /\ upload = <<>>
    /\ expected \in MinImage..MaxImage
    /\ Len(chunk) \in 1..expected
    /\ page > 0 => /\ flash[next].magic = "blank"
                   /\ flash[next].seq = Blank
                   /\ flash[next].len = Blank
    /\ \A i \in Cells: PageOf[i] < page => flash[next].body[i] = Blank

StagedInv ==
  staging # NoSlot =>
    /\ staging = Spare
    /\ expected \in MinImage..MaxImage
    /\ received <= expected
    /\ flash[staging].magic = "blank"
    /\ pc # "magic" => flash[staging].seq = Blank /\ flash[staging].len = Blank
    /\ \A i \in Cells: i > received => flash[staging].body[i] = Blank
    /\ Len(upload) = received
    /\ \A i \in 1..received: flash[staging].body[i] = upload[i]

CallInv ==
  /\ pc \in {"write", "header", "magic"} => staging # NoSlot
  /\ pc = "write" => Len(chunk) \in 1..expected - received
  /\ pc \in {"header", "magic"} => received = expected /\ upload \in ValidImages
  /\ pc = "magic" => /\ flash[staging].seq = Succ(sequence)
                     /\ flash[staging].len = expected

UpdateInv == OffInv /\ EraseInv /\ StagedInv /\ CallInv

Durable == StoreData(flash, PickSlot(flash))
Running == IF pc = "off" THEN Durable ELSE StoreData(flash, active)

(* What the next start loads changes only when the last flash write of a
   complete, validated upload lands, and then to exactly the bytes the client
   sent; or back to what is running (docs/protocol-coverage.md:49). *)
DurableOnlyFromUpload ==
  [][Durable' # Durable => \/ /\ pc = "magic"
                             /\ Durable' = upload
                             /\ Len(upload) = expected
                          \/ Durable' = Running]_vars

Register == INSTANCE ConfigRegister WITH Images <- ValidImages,
                                         durable <- Durable, running <- Running

(* The store implements the atomic register: a start always loads a complete
   valid image, the last one committed or one whose commit landed. *)
RegisterSpec == Register!Spec
=============================================================================

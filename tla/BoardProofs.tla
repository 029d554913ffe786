---------------------------- MODULE BoardProofs -----------------------------
(***************************************************************************)
(* The two programs of the board.                                          *)
(*                                                                         *)
(* Bootloader, for images, sectors and flash of any size: the copy writes  *)
(* erased units only, and the version in system.cfg is installed, wherever *)
(* the power fails.                                                        *)
(*                                                                         *)
(* Panel, for any set of commands, any number of frames and any window:    *)
(* the settings of mega32u4_uart reach thread_sensor; and, when at most    *)
(* one byte is lost, the parser finds the frames and the thread executes   *)
(* them as they were sent.                                                 *)
(***************************************************************************)
EXTENDS Bootloader, Panel, TLAPS
INSTANCE SequenceTheorems

\* The progress of an update that the next steps rely on.
Installing == stage \in {"erase", "copy", "record"}

Progress ==
    /\ Installing => Newer /\ update.fits
    /\ stage = "erase" =>
        /\ cur_size < Sectors(ImageSize[update.version])
        /\ \A i \in Unit : i \div SectorSize < cur_size => flash[i] = Blank
    /\ stage = "copy" =>
        /\ cur_size < ImageSize[update.version]
        /\ \A i \in 0 .. cur_size - 1 : flash[i] = update.version
    /\ stage = "record" /\ "program" \notin failed => Whole(update.version)

\* The inductive invariant.
Inv == Consistent /\ RecordedIsInstalled /\ Progress

\* BootsWholeImage, from the decision to load on.
LoadsWholeImage ==
    /\ stage \in {"load", "app"} /\ failed \subseteq {"config"}
    /\ system # None
    /\ update.version > system => update.fits
    => Whole(system) \/ (Newer /\ Whole(update.version))

-----------------------------------------------------------------------------
\* An address before the end of the image is in a sector before its last one.
LEMMA SectorOrder ==
    ASSUME NEW s \in Nat \ {0}, NEW a \in Nat, NEW b \in Nat, a <= b
    PROVE  /\ a \div s \in Nat /\ b \div s \in Nat
           /\ a \div s <= b \div s
           /\ b \div s <= b
  OBVIOUS

\* What the constants and the type invariant say of an update in progress.
LEMMA ImageFits ==
    ASSUME BootTypeOK, Newer
    PROVE  /\ update.version \in Version /\ system \in Version
           /\ update.version \in Int /\ system \in Int
           /\ ImageSize[update.version] \in 1 .. FlashSize - 1
           /\ update.version # Blank /\ update.version # Torn
  <1>1. update.version \in Version \cup {None} /\ system \in Version
    BY DEF BootTypeOK, Newer, Update
  <1>2. Version \subseteq Nat /\ None = -1 /\ Blank = -1 /\ Torn = -2
    BY BootloaderAssumption DEF None, Blank, Torn
  <1>3. system \in Nat /\ update.version > system
    BY <1>1, <1>2 DEF Newer
  <1>4. update.version \in Version
    BY <1>1, <1>2, <1>3
  <1>5. ImageSize[update.version] \in 1 .. FlashSize - 1
    BY <1>4, BootloaderAssumption, ZenonT(60)
  <1>6. update.version \in Nat
    BY <1>2, <1>4, ZenonT(60)
  <1>7. update.version # Blank /\ update.version # Torn
    BY <1>2, <1>6
  <1> QED
    BY <1>1, <1>3, <1>4, <1>5, <1>6, <1>7

\* The invariant holds initially.
LEMMA InitInv == BootInit => Inv
  <1> SUFFICES ASSUME BootInit PROVE Inv
    OBVIOUS
  <1> USE BootloaderAssumption DEF BootInit, None, Blank, Torn
  <1>1. PICK v \in Version :
          /\ system = v
          /\ flash = [i \in Unit |-> IF i < ImageSize[v] THEN v ELSE Blank]
    OBVIOUS
  <1>2. ImageSize[v] \in 1 .. FlashSize - 1
    OBVIOUS
  <1>3. BootTypeOK
    BY <1>1, <1>2 DEF BootTypeOK, Unit, Addr, Update, NoUpdate
  <1>4. Whole(system)
    BY <1>1, <1>2 DEF Whole, Unit
  <1> QED
    BY <1>3, <1>4 DEF Inv, Consistent, RecordedIsInstalled, RecordedAfterUpdate, Progress,
                      Installing

\* One step per action; under it what the action can disturb.
LEMMA NextInv == Inv /\ [BootNext]_bootVars => Inv'
  <1> SUFFICES ASSUME Inv, [BootNext]_bootVars PROVE Inv'
    OBVIOUS
  <1> USE BootloaderAssumption DEF Inv, Consistent
  <1> DEFINE v == update.version
  <1>1. CASE UNCHANGED bootVars
    BY <1>1 DEF bootVars, BootTypeOK, RecordedIsInstalled, RecordedAfterUpdate, Progress, Installing,
                Newer, Whole
  \* Steps that change neither flash nor files, and enter no update.
  <1>2. ASSUME UNCHANGED <<flash, system, update>>, BootTypeOK', stage' \notin {"erase", "copy", "record"},
               failed \subseteq failed'
        PROVE  Inv'
    BY <1>2 DEF RecordedIsInstalled, RecordedAfterUpdate, Progress, Installing, Whole
  <1>3. CASE NothingToDo \/ Unusable \/ Load \/ OpenUsb \/ GotoApplication \/ PowerCycle
    <2>1. BootTypeOK'
      BY <1>3, ZenonT(60) DEF NothingToDo, Unusable, Load, OpenUsb, GotoApplication, PowerCycle, BootTypeOK,
                  files, history, Addr, Update
    <2> QED
      BY <1>2, <1>3, <2>1 DEF NothingToDo, Unusable, Load, OpenUsb, GotoApplication,
                              PowerCycle, files, history
  <1>4. CASE KeyHeld \/ EraseFails \/ RecordFails
    <2>1. failed' \subseteq Failures /\ faults' \in 0 .. MaxFaults
      <3>1. faults' \in 0 .. MaxFaults
        BY <1>4 DEF KeyHeld, EraseFails, RecordFails, Fault, Failure, BootTypeOK
      <3>2. failed' = failed \/ \E op \in Failures : failed' = failed \cup {op}
        BY <1>4 DEF KeyHeld, EraseFails, RecordFails, Failure
      <3> QED
        BY <3>1, <3>2, ZenonT(60) DEF BootTypeOK
    <2>2. BootTypeOK'
      BY <1>4, <2>1 DEF KeyHeld, EraseFails, RecordFails, BootTypeOK, files
    <2> QED
      BY <1>2, <1>4, <2>2 DEF KeyHeld, EraseFails, RecordFails, Fault, Failure, files
  <1>5. CASE Format
    <2>1. BootTypeOK'
      BY <1>5 DEF Format, Fault, BootTypeOK, NoUpdate, Update, Addr
    <2> QED
      BY <1>5, <2>1 DEF Format, RecordedIsInstalled, RecordedAfterUpdate, Progress, Installing
  <1>6. CASE Begin
    <2>1. BootTypeOK'
      BY <1>6 DEF Begin, BootTypeOK, files, history, Addr, Update, Unit
    <2>2. RecordedIsInstalled'
      BY <1>6 DEF Begin, files, history, RecordedIsInstalled, RecordedAfterUpdate, Whole
    <2>3. Progress'
      <3>1. v \in Version /\ ImageSize[v] \in 1 .. FlashSize - 1
        BY <1>6, ImageFits DEF Begin
      <3>2. 0 < Sectors(ImageSize[v]) /\ \A i \in Unit : i \div SectorSize \in Nat
        BY <3>1, SectorOrder DEF Sectors, Unit
      <3> QED
        BY <1>6, <3>2 DEF Begin, files, history, Progress, Installing, Newer, Sectors
    <2> QED
      BY <1>6, <2>1, <2>2, <2>3 DEF Begin
  <1>7. CASE Erase
    <2>1. /\ stage = "erase" /\ Newer /\ update.fits /\ v \in Version
          /\ ImageSize[v] \in 1 .. FlashSize - 1 /\ v > system
      BY <1>7, ImageFits DEF Erase, Progress, Installing, Newer
    <2>2. \A i \in Unit : i \div SectorSize \in Nat
      BY SectorOrder DEF Unit
    <2>3. \A i \in 0 .. ImageSize[v] : i \div SectorSize <= ImageSize[v] \div SectorSize
      BY <2>1, SectorOrder
    <2>4. ImageSize[v] \div SectorSize \in Nat /\ ImageSize[v] \div SectorSize <= ImageSize[v]
      BY <2>1, SectorOrder
    <2>5. \A i \in Unit : i \div SectorSize < cur_size + 1 => flash'[i] = Blank
      <3> SUFFICES ASSUME NEW i \in Unit, i \div SectorSize < cur_size + 1
                   PROVE  flash'[i] = Blank
        OBVIOUS
      <3>1. i \div SectorSize = cur_size \/ i \div SectorSize < cur_size
        BY <2>2 DEF BootTypeOK, Unit
      <3>2. i \div SectorSize < cur_size => flash[i] = Blank
        BY <2>1 DEF Progress
      <3>3. flash'[i] = IF InSector(i, cur_size) THEN Blank ELSE flash[i]
        BY <1>7 DEF Erase
      <3> QED
        BY <3>1, <3>2, <3>3 DEF InSector
    <2>6. BootTypeOK'
      <3>1. flash' \in [Unit -> Version \cup {Blank, Torn}]
        BY <1>7 DEF Erase, BootTypeOK
      <3>2. cur_size' \in Unit
        <4>1. cur_size \in Nat /\ (cur_size' = 0 \/ (cur_size' = cur_size + 1
              /\ cur_size + 1 < ImageSize[v] \div SectorSize + 1))
          BY <1>7 DEF Erase, Sectors, BootTypeOK, Unit
        <4> QED
          BY <2>1, <2>4, <4>1 DEF Unit
      <3>3. stage' \in {"erase", "copy"} /\ UNCHANGED <<system, update, boot_addr, failed, faults>>
        BY <1>7 DEF Erase, files, history
      <3> QED
        BY <3>1, <3>2, <3>3 DEF BootTypeOK
    <2>7. stage' = "copy" => \A i \in 0 .. ImageSize[v] - 1 : flash'[i] = Blank
      <3> SUFFICES ASSUME stage' = "copy", NEW i \in 0 .. ImageSize[v] - 1
                   PROVE  flash'[i] = Blank
        OBVIOUS
      <3>1. ~(cur_size + 1 < ImageSize[v] \div SectorSize + 1)
        BY <1>7, <2>1 DEF Erase, Sectors
      <3>2. i \in Unit /\ i \in 0 .. ImageSize[v] /\ cur_size \in Nat
        BY <2>1 DEF Unit, BootTypeOK
      <3>3. i \div SectorSize < cur_size + 1
        BY <2>2, <2>3, <2>4, <3>1, <3>2
      <3> QED
        BY <2>5, <3>2, <3>3
    <2>8. RecordedIsInstalled'
      BY <1>7, <2>1 DEF Erase, files, history, RecordedIsInstalled, RecordedAfterUpdate
    <2>9. Progress'
      <3>1. CASE cur_size + 1 < Sectors(ImageSize[v])
        BY <1>7, <2>1, <2>5, <3>1 DEF Erase, files, history, Progress, Installing, Newer
      <3>2. CASE ~(cur_size + 1 < Sectors(ImageSize[v]))
        BY <1>7, <2>1, <3>2 DEF Erase, files, history, Progress, Installing, Newer
      <3> QED
        BY <3>1, <3>2
    <2>10. update' = update /\ (stage' = "copy" => cur_size' = 0)
      BY <1>7, <2>1 DEF Erase, files
    <2> QED
      BY <2>6, <2>7, <2>8, <2>9, <2>10
  <1>8. CASE CopyUnit
    <2>1. /\ stage = "copy" /\ Newer /\ update.fits /\ v \in Version /\ v > system
          /\ ImageSize[v] \in 1 .. FlashSize - 1 /\ cur_size < ImageSize[v]
          /\ cur_size \in Unit /\ flash \in [Unit -> Version \cup {Blank, Torn}]
      BY <1>8, ImageFits DEF CopyUnit, Progress, Installing, Newer, BootTypeOK
    <2>2. BootTypeOK'
      BY <1>8, <2>1 DEF CopyUnit, BootTypeOK, files, history, Unit
    <2>3. \A i \in 0 .. cur_size : flash'[i] = v
      BY <1>8, <2>1 DEF CopyUnit, Progress, Unit
    <2>4. \A i \in cur_size + 1 .. ImageSize[v] - 1 : flash'[i] = Blank
      BY <1>8, <2>1 DEF CopyUnit, Unit
    <2>5. RecordedIsInstalled'
      BY <1>8, <2>1 DEF CopyUnit, files, history, RecordedIsInstalled, RecordedAfterUpdate
    <2>6. Progress'
      BY <1>8, <2>1, <2>3 DEF CopyUnit, files, history, Progress, Installing, Newer, Whole, Unit
    <2> QED
      BY <1>8, <2>2, <2>4, <2>5, <2>6 DEF CopyUnit, files
  <1>9. CASE CopyFails
    <2>1. Newer /\ update.fits /\ v > system
      BY <1>9 DEF CopyFails, Progress, Installing, Newer
    <2>2. BootTypeOK'
      BY <1>9 DEF CopyFails, Failure, Fault, BootTypeOK, files, Unit
    <2>3. "program" \in failed'
      BY <1>9 DEF CopyFails, Failure
    <2> QED
      BY <1>9, <2>1, <2>2, <2>3 DEF CopyFails, files, RecordedIsInstalled, Progress, Installing,
                                    Newer
  <1>10. CASE Record
    <2>1. BootTypeOK'
      BY <1>10, ImageFits DEF Record, BootTypeOK, history, Progress, Installing
    <2> QED
      BY <1>10, <2>1 DEF Record, history, RecordedIsInstalled, RecordedAfterUpdate, Progress,
                         Installing, Whole
  <1>11. CASE PowerLoss
    <2>1. BootTypeOK'
      BY <1>11 DEF PowerLoss, Fault, BootTypeOK, files, Unit
    <2>2. CASE Installing
      BY <1>11, <2>1, <2>2 DEF PowerLoss, files, RecordedIsInstalled, RecordedAfterUpdate,
                               Progress, Installing, Newer
    <2>3. CASE ~Installing
      <3>1. flash' = flash
        BY <1>11, <2>3 DEF PowerLoss, Interrupted, Installing, BootTypeOK
      <3> QED
        BY <1>2, <1>11, <2>1, <3>1 DEF PowerLoss, files
    <2> QED
      BY <2>2, <2>3
  <1>12. ASSUME NEW w \in Version, NEW addr \in Addr, NEW fits \in BOOLEAN, Import(w, addr, fits)
         PROVE  Inv'
    <2>1. BootTypeOK' /\ update'.version = w /\ w > update.version
      BY <1>12 DEF Import, BootTypeOK, Update, history
    <2>2. w \in Int /\ update.version \in Int /\ system \in Int
      <3>1. Version \subseteq Int /\ None \in Int
        BY DEF None
      <3>2. update.version \in Version \cup {None} /\ system \in Version \cup {None}
        BY DEF BootTypeOK, Update
      <3> QED
        BY <3>1, <3>2, ZenonT(60)
    <2>3. RecordedIsInstalled'
      BY <1>12, <2>1, <2>2 DEF Import, history, RecordedIsInstalled, RecordedAfterUpdate, Whole
    <2> QED
      BY <1>12, <2>1, <2>3 DEF Import, Progress, Installing
  <1> QED
    BY <1>1, <1>3, <1>4, <1>5, <1>6, <1>7, <1>8, <1>9, <1>10, <1>11, <1>12 DEF BootNext, Boot

\* The inductive invariant holds in every state of the update, whatever fails.
THEOREM Invariance == BootSpec => []Inv
  BY InitInv, NextInv, PTL DEF BootSpec

\* Only a boot with nothing to do, a recorded or a failed update, or an
\* image that is not usable come to "load".
LEMMA NextLoads == Inv /\ LoadsWholeImage /\ [BootNext]_bootVars => LoadsWholeImage'
  <1> SUFFICES ASSUME Inv, LoadsWholeImage, [BootNext]_bootVars PROVE LoadsWholeImage'
    OBVIOUS
  <1> USE BootloaderAssumption DEF LoadsWholeImage
  <1>1. ASSUME UNCHANGED <<flash, system, update, failed>>, stage \in {"load", "app"}
        PROVE  LoadsWholeImage'
    BY <1>1 DEF Whole, Newer
  <1>2. CASE UNCHANGED bootVars
    BY <1>2 DEF bootVars, Whole, Newer
  <1>3. CASE Load
    BY <1>1, <1>3 DEF Load, files, history
  <1>4. CASE NothingToDo
    <2>1. system \in Int /\ update.version \in Int
      <3>1. Version \subseteq Int /\ None \in Int
        BY DEF None
      <3>2. update.version \in Version \cup {None} /\ system \in Version \cup {None}
        BY DEF Inv, Consistent, BootTypeOK, Update
      <3> QED
        BY <3>1, <3>2, ZenonT(60)
    <2> QED
      BY <1>4, <2>1 DEF NothingToDo, files, history, Inv, RecordedIsInstalled,
                        RecordedAfterUpdate, Whole
  <1>5. CASE Unusable
    BY <1>5 DEF Unusable, Newer, files, history
  <1>6. CASE EraseFails
    BY <1>6 DEF EraseFails, Failure
  <1>7. CASE Record
    BY <1>7 DEF Record, history, Inv, Progress, Whole
  <1>8. CASE RecordFails
    <2>1. Newer /\ ("program" \notin failed => Whole(update.version))
      BY <1>8 DEF RecordFails, Inv, Progress, Installing
    <2>2. failed \subseteq failed'
      BY <1>8 DEF RecordFails, Failure
    <2> QED
      BY <1>8, <2>1, <2>2 DEF RecordFails, files, Newer, Whole
  <1>9. CASE Format
    BY <1>9 DEF Format
  <1>10. CASE Begin \/ Erase \/ CopyUnit \/ CopyFails \/ OpenUsb \/ KeyHeld
              \/ GotoApplication \/ PowerCycle \/ PowerLoss
    BY <1>10 DEF Begin, Erase, CopyUnit, CopyFails, OpenUsb, KeyHeld, GotoApplication,
                 PowerCycle, PowerLoss
  <1>11. ASSUME NEW w \in Version, NEW addr \in Addr, NEW fits \in BOOLEAN, Import(w, addr, fits)
         PROVE  LoadsWholeImage'
    BY <1>11 DEF Import
  <1> QED
    BY <1>2, <1>3, <1>4, <1>5, <1>6, <1>7, <1>8, <1>9, <1>10, <1>11 DEF BootNext, Boot

\* The flash is written only where it is erased, also after power losses and
\* failed erases (Consistent), for sectors and images of any size.
THEOREM WritesErasedFlash == BootSpec => []Consistent
  <1>1. Inv => Consistent
    BY DEF Inv
  <1> QED
    BY Invariance, <1>1, PTL

\* As long as no write fails, the version in system.cfg is installed, all of
\* it, or a newer update is waiting, wherever the power fails.
THEOREM RecordedVersionIsInstalled == BootSpec => []RecordedIsInstalled
  <1>1. Inv => RecordedIsInstalled
    BY DEF Inv
  <1> QED
    BY Invariance, <1>1, PTL

\* The application that the bootloader jumps to is whole, though only its
\* first word is looked at, wherever the power failed before.
THEOREM BootedImageIsWhole == BootSpec => []BootsWholeImage
  <1>1. BootInit => LoadsWholeImage
    BY DEF BootInit, LoadsWholeImage
  <1>2. LoadsWholeImage => BootsWholeImage
    BY DEF LoadsWholeImage, BootsWholeImage
  <1> QED
    BY Invariance, NextLoads, <1>1, <1>2, PTL DEF BootSpec

-----------------------------------------------------------------------------
(* The parser against the frame that is being sent.                        *)

FrameLen == Len(frame.data) + 6

\* The byte at place k of the frame, from 0 on.
ByteAt(k) ==
    IF k = 0 THEN PROTO_HEAD
    ELSE IF k = 1 THEN FrameLen
    ELSE IF k = 2 THEN TYPE
    ELSE IF k = 3 THEN frame.cmd
    ELSE IF k < FrameLen - 2 THEN frames
    ELSE IF k = FrameLen - 2 THEN SUM ELSE PROTO_TAIL

\* The first n bytes after the type are in the receive buffer.
Received(n) == \A i \in 0 .. 2 : i < n => recvbuf[i] = ByteAt(i + 3)

\* The parser has read the first pos bytes of the frame.
InStep ==
    \/ state = 0 /\ pos = 0
    \/ state = 1 /\ pos = 1 /\ recvbuf_index = 0
    \/ state = 2 /\ pos = 2 /\ recvbuf_index = 0 /\ byte_length = FrameLen
    \/ /\ state = 3 /\ pos \in 3 .. FrameLen - 3 /\ recvbuf_index = pos - 3
       /\ byte_length = FrameLen /\ Received(pos - 3)
    \/ state = 4 /\ pos = FrameLen - 2 /\ Received(FrameLen - 5)
    \/ state = 5 /\ pos = FrameLen - 1 /\ Received(FrameLen - 5)
    \/ state = 0 /\ pos = FrameLen

\* It missed one byte of this frame, and takes each byte for the one before
\* it or has given the frame up.
Behind ==
    \/ state = 0 /\ pos > 0
    \/ state = 1 /\ pos = 2 /\ recvbuf_index = 0
    \/ state = 2 /\ pos = 3 /\ recvbuf_index = 0 /\ byte_length \in {FrameLen, TYPE}
    \/ /\ state = 3 /\ pos \in 4 .. FrameLen - 2 /\ recvbuf_index = pos - 4
       /\ byte_length = FrameLen
    \/ state = 3 /\ pos = 4 /\ FrameLen = 8 /\ recvbuf_index = 0 /\ byte_length = TYPE
    \/ state = 4 /\ pos = FrameLen - 1
    \/ state = 4 /\ pos = 5 /\ FrameLen = 8
    \/ state = 5 /\ pos = FrameLen

\* It missed the tail of the frame before this one, and skips this one.
Skipping ==
    \/ state = 5 /\ pos = 0
    \/ state = 0 /\ pos > 0

ParserInv ==
    /\ damaged \/ damagedBefore => lost = 1
    /\ damaged => Behind
    /\ ~damaged /\ damagedBefore => InStep \/ Skipping
    /\ ~damaged /\ ~damagedBefore => InStep

-----------------------------------------------------------------------------
(* The command slot against the frame.                                     *)

\* The frame has been found and is in the slot.
InSlot ==
    /\ frames > 0 /\ pos = FrameLen /\ found = frame
    /\ realcmd = frame.cmd
    /\ \A i \in 1 .. FrameLen - 6 : recvbuf[i] = frames

\* The thread executes the frame in the slot, or is about to.
Executing ==
    /\ InSlot
    /\ pc \in {"data", "clear", "reply"} =>
          /\ cmd = frame.cmd
          /\ used \in Seq({frames}) /\ Len(used) <= FrameLen - 6
          /\ pc # "data" => Len(used) = FrameLen - 6

\* A peer that waits for the reply.
WaitInv ==
    window = 1 =>
        /\ pos < FrameLen => waiting = 1
        /\ value = 0 /\ pc = "take" => done = found
        /\ value > 0 => value = 1 /\ pc = "take" /\ waiting = 1 /\ InSlot
        /\ pc # "take" => waiting = 1 /\ Executing

\* A peer that does not wait, when no byte is lost.
LastInv ==
    lost = 0 /\ pos = FrameLen =>
        /\ found = frame
        /\ value > 0 => InSlot
        /\ value = 0 /\ pc = "take" => done = found
        /\ value = 0 /\ pc # "take" => Executing

PanelTypes ==
    /\ frames \in 0 .. MaxFrames
    /\ frame = Nothing \/ \E c \in Commands : frame = FrameOf(c, frames)
    /\ frames = 0 => frame = Nothing /\ pos = FrameLen
    /\ frames > 0 => frame # Nothing
    /\ pos \in 0 .. FrameLen
    /\ value \in Nat /\ waiting \in Nat /\ window \in Nat \ {0} /\ waiting <= window
    /\ lost \in 0 .. MaxLost /\ damaged \in BOOLEAN /\ damagedBefore \in BOOLEAN
    /\ pc \in {"take", "cmd", "data", "clear", "reply"}
    /\ state \in 0 .. 5 /\ byte_length \in Nat /\ recvbuf_index \in Nat
    /\ DOMAIN recvbuf = 0 .. 2

PanelIndInv == PanelTypes /\ ParserInv /\ WaitInv /\ LastInv

-----------------------------------------------------------------------------
(* Frames.                                                                 *)

\* What a frame is made of.
IsFrame(f, c, n) ==
    /\ f.cmd = c /\ c \in 1 .. 21 /\ f.data \in Seq({n})
    /\ Len(f.data) = DataLen(c) /\ DataLen(c) \in 0 .. 2 /\ (c = 1 => DataLen(c) = 2)
    /\ \A i \in 1 .. DataLen(c) : f.data[i] = n
    /\ f = [cmd |-> c, data |-> f.data]
    /\ f # Nothing

LEMMA FrameShape ==
    ASSUME NEW c \in Commands, NEW n \in 1 .. 89
    PROVE  IsFrame(FrameOf(c, n), c, n)
<1> DEFINE f == FrameOf(c, n)
<1>1. c \in {1, 5, 6, 19, 20, 21}
  BY PanelAssumption DEF RGB_LED, MOTOR, DZP, Dial, traffic_light, GUI_clear
<1>2. DataLen(c) \in 0 .. 2 /\ (c = 1 => DataLen(c) = 2)
  BY <1>1 DEF DataLen, RGB_LED, MOTOR, DZP, Dial, traffic_light, GUI_clear
<1>3. f = [cmd |-> c, data |-> [i \in 1 .. DataLen(c) |-> n]]
  BY DEF FrameOf
<1>4. /\ [i \in 1 .. DataLen(c) |-> n] \in Seq({n})
      /\ Len([i \in 1 .. DataLen(c) |-> n]) = DataLen(c)
  BY <1>2
<1>5. f # Nothing
  BY <1>1, <1>3 DEF Nothing
<1> HIDE DEF f
<1>6. IsFrame(f, c, n)
  BY <1>1, <1>2, <1>3, <1>4, <1>5 DEF IsFrame
<1> QED
  BY <1>6 DEF f

LEMMA FrameFacts ==
    ASSUME PanelTypes
    PROVE  /\ frame.data \in Seq({frames}) /\ Len(frame.data) = FrameLen - 6
           /\ FrameLen \in 6 .. 8 /\ frames \in 0 .. 89
           /\ frame.cmd \in 0 .. 21 /\ (frame.cmd = 1 => FrameLen = 8)
           /\ frames > 0 => FrameLen - 6 = DataLen(frame.cmd)
           /\ \A i \in 1 .. FrameLen - 6 : frame.data[i] = frames
           /\ frame = [cmd |-> frame.cmd, data |-> frame.data]
<1>1. frames \in 0 .. 89
  BY PanelAssumption DEF PanelTypes
<1>2. CASE frame = Nothing
  <2>1. frame.data = <<>> /\ frame.cmd = 0 /\ frames = 0
        /\ frame = [cmd |-> frame.cmd, data |-> frame.data]
    BY <1>1, <1>2 DEF PanelTypes, Nothing
  <2> QED
    BY <1>1, <2>1 DEF FrameLen
<1>3. CASE frame # Nothing
  <2>1. PICK c \in Commands : frame = FrameOf(c, frames)
    BY <1>3 DEF PanelTypes
  <2>2. frames \in 1 .. 89
    BY <1>1, <1>3 DEF PanelTypes
  <2>3. IsFrame(frame, c, frames)
    BY <2>1, <2>2, FrameShape
  <2>4. FrameLen = DataLen(c) + 6
    BY <2>3 DEF FrameLen, IsFrame
  <2> QED
    BY <1>1, <2>3, <2>4 DEF IsFrame
<1> QED
  BY <1>2, <1>3

\* The places of a concatenation.
LEMMA ConcatAt ==
    ASSUME NEW a \in Seq(Nat), NEW b \in Seq(Nat)
    PROVE  /\ a \o b \in Seq(Nat) /\ Len(a \o b) = Len(a) + Len(b)
           /\ \A j \in 1 .. Len(a) + Len(b) :
                 (a \o b)[j] = IF j <= Len(a) THEN a[j] ELSE b[j - Len(a)]
OBVIOUS

\* The bytes that are sent.
LEMMA SentByte ==
    ASSUME PanelTypes
    PROVE  Len(Bytes) = FrameLen /\ \A k \in 0 .. FrameLen - 1 : Bytes[k + 1] = ByteAt(k)
<1> DEFINE d == frame.data
           h == <<PROTO_HEAD, Len(d) + 6, TYPE, frame.cmd>>
           t == <<SUM, PROTO_TAIL>>
<1>1. /\ d \in Seq(Nat) /\ Len(d) = FrameLen - 6 /\ FrameLen \in 6 .. 8 /\ frame.cmd \in Nat
      /\ frames \in Nat /\ \A i \in 1 .. FrameLen - 6 : d[i] = frames
  <2>1. /\ d \in Seq({frames}) /\ Len(d) = FrameLen - 6 /\ FrameLen \in 6 .. 8
        /\ frame.cmd \in 0 .. 21 /\ frames \in 0 .. 89
        /\ \A i \in 1 .. FrameLen - 6 : d[i] = frames
    BY FrameFacts
  <2>2. {frames} \subseteq Nat
    BY <2>1
  <2>3. d \in Seq(Nat)
    BY <2>1, <2>2
  <2>4. 0 .. 21 \subseteq Nat /\ 0 .. 89 \subseteq Nat
    OBVIOUS
  <2> QED
    BY <2>1, <2>3, <2>4, Zenon
<1>2. Bytes = h \o d \o t
  BY DEF Bytes, Frame
<1>3. h \in Seq(Nat) /\ Len(h) = 4 /\ t \in Seq(Nat) /\ Len(t) = 2
  BY <1>1 DEF PROTO_HEAD, TYPE, SUM, PROTO_TAIL
<1>4. h[1] = PROTO_HEAD /\ h[2] = FrameLen /\ h[3] = TYPE /\ h[4] = frame.cmd
      /\ t[1] = SUM /\ t[2] = PROTO_TAIL
  BY <1>1
<1> HIDE DEF d, h, t
<1>5. PICK g \in Seq(Nat) :
          /\ g = h \o d /\ Len(g) = Len(h) + Len(d)
          /\ \A j \in 1 .. Len(h) + Len(d) : g[j] = IF j <= Len(h) THEN h[j] ELSE d[j - Len(h)]
  BY <1>1, <1>3, ConcatAt, Zenon
<1>6. /\ Len(Bytes) = Len(g) + Len(t)
      /\ \A j \in 1 .. Len(g) + Len(t) : Bytes[j] = IF j <= Len(g) THEN g[j] ELSE t[j - Len(g)]
  BY <1>2, <1>3, <1>5, ConcatAt, Zenon
<1>7. ASSUME NEW k \in 0 .. FrameLen - 1
      PROVE  Bytes[k + 1] = ByteAt(k)
  <2>1. CASE k <= 3
    <3>1. Bytes[k + 1] = h[k + 1]
      <4>1. /\ k + 1 \in 1 .. Len(h) + Len(d) /\ k + 1 <= Len(h) /\ k + 1 <= Len(g)
            /\ k + 1 \in 1 .. Len(g) + Len(t)
        BY <1>1, <1>3, <1>5, <2>1
      <4> QED
        BY <1>5, <1>6, <4>1, Zenon
    <3>2. k = 0 \/ k = 1 \/ k = 2 \/ k = 3
      BY <1>1, <2>1
    <3>3. 0 + 1 = 1 /\ 1 + 1 = 2 /\ 2 + 1 = 3 /\ 3 + 1 = 4
      OBVIOUS
    <3> QED
      BY <1>4, <3>1, <3>2, <3>3 DEF ByteAt
  <2>2. CASE k > 3 /\ k < FrameLen - 2
    <3>1. /\ k - 3 \in 1 .. FrameLen - 6 /\ k + 1 \in 1 .. Len(h) + Len(d)
          /\ (k + 1) - Len(h) = k - 3 /\ ~(k + 1 <= Len(h)) /\ k + 1 <= Len(g)
          /\ k + 1 \in 1 .. Len(g) + Len(t)
      BY <1>1, <1>3, <1>5, <2>2
    <3>2. Bytes[k + 1] = d[k - 3]
      BY <1>5, <1>6, <3>1, Zenon
    <3>3. d[k - 3] = frames
      BY <1>1, <3>1, Zenon
    <3>4. k # 0 /\ k # 1 /\ k # 2 /\ k # 3
      BY <2>2
    <3> QED
      BY <2>2, <3>2, <3>3, <3>4, Zenon DEF ByteAt
  <2>3. CASE k > 3 /\ k >= FrameLen - 2
    <3>1. /\ ~(k + 1 <= Len(g)) /\ k + 1 \in 1 .. Len(g) + Len(t)
          /\ k # 0 /\ k # 1 /\ k # 2 /\ k # 3 /\ ~(k < FrameLen - 2)
      BY <1>1, <1>3, <1>5, <2>3
    <3>2. Bytes[k + 1] = t[(k + 1) - Len(g)]
      BY <1>6, <3>1, Zenon
    <3>3. \/ k = FrameLen - 2 /\ (k + 1) - Len(g) = 1
          \/ k # FrameLen - 2 /\ (k + 1) - Len(g) = 2
      BY <1>1, <1>3, <1>5, <2>3
    <3> QED
      BY <1>4, <3>1, <3>2, <3>3, Zenon DEF ByteAt
  <2> QED
    BY <1>1, <2>1, <2>2, <2>3
<1> QED
  BY <1>1, <1>3, <1>5, <1>6, <1>7

-----------------------------------------------------------------------------
(* The parser.                                                             *)

\* The frame stays the same: so do its length and its bytes.
LEMMA SameFrame ==
    ASSUME UNCHANGED <<frame, frames>>
    PROVE  FrameLen' = FrameLen /\ \A k : ByteAt(k)' = ByteAt(k)
BY DEF FrameLen, ByteAt

\* The bytes of a frame, for the parser.
LEMMA ByteFacts ==
    ASSUME PanelTypes
    PROVE  /\ FrameLen \in 6 .. 8
           /\ ByteAt(0) = 90 /\ ByteAt(1) = FrameLen /\ ByteAt(2) = 1 /\ ByteAt(3) = frame.cmd
           /\ ByteAt(FrameLen - 2) = 255 /\ ByteAt(FrameLen - 1) = 165
           /\ \A k \in 4 .. FrameLen - 3 : ByteAt(k) = frames
           /\ \A k \in 0 .. FrameLen - 1 : ByteAt(k) \in 0 .. 255
           /\ \A k \in 1 .. FrameLen - 1 : ByteAt(k) # 90
           /\ \A k \in 0 .. FrameLen - 2 : ByteAt(k) # 165
           /\ \A k \in 0 .. FrameLen - 3 : ByteAt(k) # 255
           /\ ByteAt(3) = 1 => FrameLen = 8
<1>1. /\ FrameLen \in 6 .. 8 /\ frames \in 0 .. 89 /\ frame.cmd \in 0 .. 21
      /\ frame.cmd = 1 => FrameLen = 8
  BY FrameFacts
<1> QED
  BY <1>1 DEF ByteAt, PROTO_HEAD, TYPE, SUM, PROTO_TAIL

\* One byte for a parser that is in step: it finds the frame at its last byte.
LEMMA InStepByte ==
    ASSUME PanelTypes, InStep, pos < FrameLen, NEW b, b = ByteAt(pos), AnalyzeByte(b),
           pos' = pos + 1, UNCHANGED <<frame, frames>>
    PROVE  /\ InStep'
           /\ Finds(b) <=> pos' = FrameLen
           /\ Finds(b) => /\ realcmd' = frame.cmd
                          /\ \A i \in 1 .. FrameLen - 6 : recvbuf'[i] = frames
<1>1. /\ FrameLen' = FrameLen /\ FrameLen \in 6 .. 8 /\ pos \in 0 .. FrameLen
      /\ DOMAIN recvbuf = 0 .. 2
      /\ \A k : ByteAt(k)' = ByteAt(k)
  BY SameFrame, ByteFacts DEF PanelTypes
<1>2. CASE state = 0
  BY <1>1, <1>2, ByteFacts DEF InStep, AnalyzeByte, InHead, InLength, InType, InData, InSum, InTail,
        PROTO_HEAD, PROTO_TAIL, Finds
<1>3. CASE state = 1
  BY <1>1, <1>3, ByteFacts DEF InStep, AnalyzeByte, InHead, InLength, InType, InData, InSum, InTail,
        Finds
<1>4. CASE state = 2
  BY <1>1, <1>4, ByteFacts DEF InStep, AnalyzeByte, InHead, InLength, InType, InData, InSum, InTail,
        Finds, TYPE, Received
<1>5. CASE state = 3
  <2>1. /\ pos \in 3 .. FrameLen - 3 /\ recvbuf_index = pos - 3
        /\ byte_length = FrameLen /\ Received(pos - 3)
    BY <1>5 DEF InStep
  <2>2. /\ recvbuf' = [recvbuf EXCEPT ![recvbuf_index] = b]
        /\ recvbuf_index' = recvbuf_index + 1
        /\ state' = IF recvbuf_index + 1 >= byte_length - 5 THEN 4 ELSE 3
        /\ byte_length' = byte_length
    BY <1>5 DEF AnalyzeByte, InHead, InLength, InType, InData, InSum, InTail
  <2>3. Received(pos - 3)'
    <3> SUFFICES ASSUME NEW i \in 0 .. 2, i < pos' - 3
                 PROVE  recvbuf'[i] = ByteAt(i + 3)'
      BY DEF Received
    <3>1. CASE i = recvbuf_index
      <4>1. recvbuf'[i] = b /\ i + 3 = pos
        BY <1>1, <2>1, <2>2, <3>1
      <4> QED
        BY <1>1, <4>1
    <3>2. CASE i # recvbuf_index
      <4>1. recvbuf'[i] = recvbuf[i] /\ i < pos - 3
        BY <1>1, <2>1, <2>2, <3>2
      <4> QED
        BY <1>1, <2>1, <4>1 DEF Received
    <3> QED
      BY <3>1, <3>2
  <2>4. FrameLen \in 6 .. 8 /\ FrameLen' = FrameLen /\ ~Finds(b)
    BY <1>1, <1>5 DEF Finds
  <2>5. CASE pos = FrameLen - 3
    <3>1. state' = 4 /\ pos' = FrameLen - 2 /\ pos' - 3 = FrameLen - 5
      BY <2>1, <2>2, <2>4, <2>5
    <3>2. Received(FrameLen - 5)'
      BY <2>3, <2>4, <3>1
    <3> QED
      BY <2>4, <3>1, <3>2 DEF InStep
  <2>6. CASE pos # FrameLen - 3
    <3>1. /\ state' = 3 /\ pos' \in 3 .. FrameLen - 3 /\ recvbuf_index' = pos' - 3
          /\ byte_length' = FrameLen
      BY <2>1, <2>2, <2>4, <2>6
    <3> QED
      BY <2>3, <2>4, <3>1 DEF InStep
  <2> QED
    BY <2>5, <2>6
<1>6. CASE state = 4
  BY <1>1, <1>6, ByteFacts DEF InStep, AnalyzeByte, InHead, InLength, InType, InData, InSum, InTail,
        Finds, SUM, Received
<1>7. CASE state = 5
  <2>1. pos = FrameLen - 1 /\ Received(FrameLen - 5) /\ b = PROTO_TAIL
    BY <1>1, <1>7, ByteFacts DEF InStep, PROTO_TAIL
  <2>2. state' = 0 /\ realcmd' = recvbuf[0] /\ recvbuf' = recvbuf
    BY <1>7, <2>1 DEF AnalyzeByte, InHead, InLength, InType, InData, InSum, InTail
  <2>3. FrameLen \in 6 .. 8 /\ FrameLen' = FrameLen /\ pos' = FrameLen
    BY <1>1, <2>1
  <2>4. recvbuf[0] = frame.cmd
    BY <2>1, <2>3, ByteFacts DEF Received
  <2>5. ASSUME NEW i \in 1 .. FrameLen - 6
        PROVE  recvbuf[i] = frames
    <3>1. i \in 0 .. 2 /\ i < FrameLen - 5 /\ i + 3 \in 4 .. FrameLen - 3
      BY <2>3
    <3>2. recvbuf[i] = ByteAt(i + 3)
      BY <2>1, <3>1 DEF Received
    <3> QED
      BY <3>1, <3>2, ByteFacts
  <2>6. InStep'
    BY <2>2, <2>3 DEF InStep
  <2>7. Finds(b)
    BY <1>7, <2>1 DEF Finds
  <2> QED
    BY <2>2, <2>3, <2>4, <2>5, <2>6, <2>7, ZenonT(60)
<1> QED
  BY <1>2, <1>3, <1>4, <1>5, <1>6, <1>7 DEF InStep

\* One byte for a parser that missed one: it does not find the frame.
LEMMA BehindByte ==
    ASSUME PanelTypes, Behind, pos < FrameLen, NEW b, b = ByteAt(pos), AnalyzeByte(b),
           pos' = pos + 1, UNCHANGED <<frame, frames>>
    PROVE  Behind' /\ ~Finds(b)
<1>1. FrameLen' = FrameLen /\ FrameLen \in 6 .. 8 /\ pos \in 0 .. FrameLen
  BY SameFrame, ByteFacts DEF PanelTypes
<1>2. CASE state = 0
  BY <1>1, <1>2, ByteFacts DEF Behind, AnalyzeByte, InHead, InLength, InType, InData, InSum, InTail,
        PROTO_HEAD, Finds
<1>3. CASE state = 1
  BY <1>1, <1>3, ByteFacts DEF Behind, AnalyzeByte, InHead, InLength, InType, InData, InSum, InTail,
        TYPE, Finds
<1>4. CASE state = 2
  BY <1>1, <1>4, ByteFacts DEF Behind, AnalyzeByte, InHead, InLength, InType, InData, InSum, InTail,
        TYPE, Finds
<1>5. CASE state = 3
  BY <1>1, <1>5, ByteFacts DEF Behind, AnalyzeByte, InHead, InLength, InType, InData, InSum, InTail,
        TYPE, Finds
<1>6. CASE state = 4
  BY <1>1, <1>6, ByteFacts DEF Behind, AnalyzeByte, InHead, InLength, InType, InData, InSum, InTail,
        SUM, Finds
<1>7. CASE state = 5
  BY <1>1, <1>7 DEF Behind
<1> QED
  BY <1>2, <1>3, <1>4, <1>5, <1>6, <1>7 DEF Behind

\* One byte for a parser that skips the frame.
LEMMA SkippingByte ==
    ASSUME PanelTypes, Skipping, pos < FrameLen, NEW b, b = ByteAt(pos), AnalyzeByte(b),
           pos' = pos + 1, UNCHANGED <<frame, frames>>
    PROVE  Skipping' /\ ~Finds(b)
<1>1. FrameLen' = FrameLen /\ FrameLen \in 6 .. 8 /\ pos \in 0 .. FrameLen
  BY SameFrame, ByteFacts DEF PanelTypes
<1> QED
  BY <1>1, ByteFacts DEF Skipping, AnalyzeByte, InHead, InLength, InType, InData, InSum, InTail,
        PROTO_HEAD, PROTO_TAIL, Finds

-----------------------------------------------------------------------------
(* The steps.                                                              *)

\* A step that leaves the peer's frame and the parser alone.
LEMMA FrameKept ==
    ASSUME PanelTypes, ParserInv, UNCHANGED <<parserVars, window, frame, pos, frames>>,
           UNCHANGED <<lost, damaged, damagedBefore, found>>,
           value' \in Nat, waiting' \in Nat, waiting' <= window,
           pc' \in {"take", "cmd", "data", "clear", "reply"}
    PROVE  PanelTypes' /\ ParserInv' /\ InSlot' = InSlot /\ FrameLen' = FrameLen
<1>1. /\ FrameLen' = FrameLen /\ ParserInv' = ParserInv /\ InSlot' = InSlot
  BY Zenon DEF ParserInv, InStep, Behind, Skipping, Received, ByteAt, FrameLen, InSlot, parserVars
<1> QED
  BY <1>1 DEF PanelTypes, parserVars

\* Executing says that the data bytes used are those of the frame.
LEMMA UsedData ==
    ASSUME PanelTypes, Executing, pc \in {"clear", "reply"}
    PROVE  cmd = frame.cmd /\ used = frame.data /\ [cmd |-> cmd, data |-> used] = found
<1>1. /\ cmd = frame.cmd /\ used \in Seq({frames}) /\ Len(used) = FrameLen - 6 /\ found = frame
      /\ frame.data \in Seq({frames}) /\ Len(frame.data) = FrameLen - 6
      /\ frame = [cmd |-> frame.cmd, data |-> frame.data]
  BY FrameFacts DEF Executing, InSlot
<1>2. ASSUME NEW i \in 1 .. Len(used)
      PROVE  used[i] = frame.data[i]
  BY <1>1
<1>3. used = frame.data
  BY <1>1, <1>2, SeqEqual
<1> QED
  BY <1>1, <1>3, Zenon

\* A byte arrives: either it is the last one of an undamaged frame, which is
\* found, or nothing is found.
RxFound ==
    /\ value' = value + 1 /\ found' = frame /\ pos' = FrameLen /\ ~damaged
    /\ realcmd' = frame.cmd /\ \A i \in 1 .. FrameLen - 6 : recvbuf'[i] = frames

RxNothing ==
    /\ value' = value /\ found' = found
    /\ damaged \/ damagedBefore \/ pos' # FrameLen

LEMMA RxFacts ==
    ASSUME PanelTypes, ParserInv, RxByte
    PROVE  PanelTypes' /\ ParserInv' /\ pos < FrameLen /\ FrameLen' = FrameLen /\ (RxFound \/ RxNothing)
<1>1. PICK b : b = Bytes[pos + 1]
  OBVIOUS
<1>2. /\ pos \in 0 .. FrameLen - 1 /\ b = ByteAt(pos) /\ b \in 0 .. 255
  <2>1. pos < FrameLen
    BY SentByte DEF RxByte
  <2>2. pos \in 0 .. FrameLen - 1 /\ FrameLen \in 6 .. 8
    BY <2>1, ByteFacts DEF PanelTypes
  <2>3. Bytes[pos + 1] = ByteAt(pos)
    BY <2>2, SentByte
  <2>4. ByteAt(pos) \in 0 .. 255
    BY <2>2, ByteFacts
  <2> QED
    BY <1>1, <2>2, <2>3, <2>4, Zenon
<1>3. /\ AnalyzeByte(b) /\ pos' = pos + 1
      /\ value' = IF Finds(b) THEN value + 1 ELSE value
      /\ found' = IF Finds(b) THEN frame ELSE found
      /\ UNCHANGED <<window, frame, frames, waiting, lost, damaged, damagedBefore, pc>>
  BY <1>1 DEF RxByte, threadVars
<1>4. FrameLen' = FrameLen /\ FrameLen \in 6 .. 8
  BY <1>3, SameFrame, ByteFacts
<1>5. /\ state' \in 0 .. 5 /\ byte_length' \in Nat /\ recvbuf_index' \in Nat
      /\ DOMAIN recvbuf' = 0 .. 2
  BY <1>2, <1>3 DEF PanelTypes, AnalyzeByte, InHead, InLength, InType, InData, InSum, InTail
<1>6. PanelTypes'
  BY <1>2, <1>3, <1>4, <1>5 DEF PanelTypes
<1>7. pos < FrameLen
  BY <1>2, <1>4
<1>8. CASE InStep
  <2>1. /\ InStep' /\ (Finds(b) <=> pos' = FrameLen)
        /\ Finds(b) => realcmd' = frame.cmd /\ \A i \in 1 .. FrameLen - 6 : recvbuf'[i] = frames
    BY <1>2, <1>3, <1>7, <1>8, InStepByte
  <2>2. CASE ~damaged
    BY <1>3, <1>4, <1>6, <1>7, <2>1, <2>2 DEF ParserInv, RxFound, RxNothing
  <2>3. CASE damaged
    BY <1>2, <1>3, <1>4, <1>6, <1>7, <2>3, BehindByte DEF ParserInv, RxNothing
  <2> QED
    BY <2>2, <2>3
<1>9. CASE damaged
  BY <1>2, <1>3, <1>4, <1>6, <1>7, <1>9, BehindByte DEF ParserInv, RxNothing
<1>10. CASE ~damaged /\ damagedBefore /\ Skipping
  BY <1>2, <1>3, <1>4, <1>6, <1>7, <1>10, SkippingByte DEF ParserInv, RxNothing
<1> QED
  BY <1>8, <1>9, <1>10 DEF ParserInv

LEMMA RxStep ==
    ASSUME PanelIndInv, RxByte
    PROVE  PanelIndInv'
<1>1. /\ PanelTypes /\ ParserInv /\ WaitInv /\ LastInv
  BY DEF PanelIndInv
<1>2. /\ PanelTypes' /\ ParserInv' /\ pos < FrameLen /\ FrameLen' = FrameLen
      /\ RxFound \/ RxNothing
  BY <1>1, RxFacts
<1>3. UNCHANGED <<window, frame, frames, waiting, lost, damaged, damagedBefore, pc, cmd, used, done>>
  BY DEF RxByte, threadVars
<1>4. FrameLen \in 6 .. 8 /\ pos \in Nat /\ value \in Nat /\ frames \in Nat /\ frames > 0
  BY <1>1, <1>2, ByteFacts DEF PanelTypes
<1>5. RxFound => InSlot'
  BY <1>2, <1>3, <1>4 DEF RxFound, InSlot
<1>6. WaitInv'
  <2> SUFFICES ASSUME window = 1
               PROVE  WaitInv'
    BY <1>3 DEF WaitInv
  <2>1. ~InSlot /\ ~Executing
    BY <1>2, <1>4 DEF InSlot, Executing
  <2>2. value = 0 /\ pc = "take" /\ waiting = 1 /\ done = found
    BY <1>1, <1>2, <1>4, <2>1 DEF WaitInv
  <2>3. CASE RxFound
    BY <1>3, <1>5, <2>2, <2>3 DEF RxFound, WaitInv
  <2>4. CASE RxNothing
    BY <1>3, <2>2, <2>4 DEF RxNothing, WaitInv
  <2> QED
    BY <1>2, <2>3, <2>4
<1>7. LastInv'
  <2> SUFFICES ASSUME lost' = 0, pos' = FrameLen'
               PROVE  LastInv'
    BY DEF LastInv
  <2>1. ~damaged /\ ~damagedBefore
    BY <1>1, <1>3 DEF ParserInv
  <2>2. RxFound
    BY <1>2, <2>1 DEF RxNothing
  <2>3. ~(value' = 0) /\ found' = frame' /\ InSlot'
    BY <1>3, <1>4, <1>5, <2>2 DEF RxFound
  <2> QED
    BY <2>3, Zenon DEF LastInv
<1> QED
  BY <1>2, <1>6, <1>7 DEF PanelIndInv

LEMMA LoseStep ==
    ASSUME MaxLost <= 1, PanelIndInv, LoseByte
    PROVE  PanelIndInv'
<1>1. /\ PanelTypes /\ ParserInv /\ WaitInv /\ LastInv
  BY DEF PanelIndInv
<1>2. /\ pos < FrameLen /\ lost < MaxLost /\ pos' = pos + 1 /\ lost' = lost + 1 /\ damaged'
      /\ damaged' \in BOOLEAN
      /\ UNCHANGED <<parserVars, window, frame, frames, waiting, damagedBefore, value,
                     pc, cmd, used, found, done>>
  BY <1>1, SentByte DEF LoseByte, threadVars
<1>3. FrameLen' = FrameLen /\ FrameLen \in 6 .. 8 /\ pos \in Nat
  BY <1>1, <1>2, SameFrame, ByteFacts DEF PanelTypes
<1>4. lost = 0 /\ lost' = 1 /\ MaxLost = 1
  BY <1>1, <1>2, PanelAssumption DEF PanelTypes
<1>5. InStep /\ ~damagedBefore
  BY <1>1, <1>4 DEF ParserInv
<1>6. Behind'
  BY <1>2, <1>3, <1>5 DEF InStep, Behind, parserVars
<1>7. ParserInv'
  BY <1>2, <1>4, <1>6 DEF ParserInv
<1>8. PanelTypes'
  BY <1>1, <1>2, <1>3, <1>4 DEF PanelTypes, parserVars
<1>9. ~InSlot /\ ~Executing
  BY <1>2, <1>3 DEF InSlot, Executing
<1>10. WaitInv'
  <2> SUFFICES ASSUME window = 1
               PROVE  WaitInv'
    BY <1>2 DEF WaitInv
  <2>1. value = 0 /\ pc = "take" /\ waiting = 1 /\ done = found
    BY <1>1, <1>2, <1>9 DEF WaitInv, PanelTypes
  <2> QED
    BY <1>2, <2>1 DEF WaitInv
<1> QED
  BY <1>4, <1>7, <1>8, <1>10 DEF PanelIndInv, LastInv

LEMMA NewFrameStep ==
    ASSUME PanelIndInv, NEW c \in Commands, NewFrame(c)
    PROVE  PanelIndInv'
<1>1. /\ PanelTypes /\ ParserInv /\ WaitInv /\ LastInv
  BY DEF PanelIndInv
<1>2. /\ pos = FrameLen /\ frames < MaxFrames /\ waiting < window
      /\ frame' = FrameOf(c, frames + 1) /\ pos' = 0
      /\ frames' = frames + 1 /\ waiting' = waiting + 1
      /\ damaged' = FALSE /\ damagedBefore' = damaged
      /\ UNCHANGED <<parserVars, window, lost, value, pc, found, done>>
  <2>1. pos >= FrameLen /\ pos \in 0 .. FrameLen /\ FrameLen \in 6 .. 8
    <3>1. Len(Bytes) = FrameLen /\ FrameLen \in 6 .. 8
      BY <1>1, SentByte, ByteFacts, Zenon
    <3> QED
      BY <1>1, <3>1, Zenon DEF NewFrame, PanelTypes
  <2>2. pos = FrameLen
    BY <2>1
  <2> QED
    BY <2>2 DEF NewFrame, threadVars
<1>3. frames + 1 \in 1 .. 89 /\ frames + 1 \in 0 .. MaxFrames /\ frames' > 0
  BY <1>1, <1>2, PanelAssumption DEF PanelTypes
<1>4. IsFrame(frame', c, frames + 1)
  BY <1>2, <1>3, FrameShape
<1>5. FrameLen' \in 6 .. 8 /\ frame' # Nothing
  BY <1>4 DEF IsFrame, FrameLen
<1>6. PanelTypes'
  <2>1. frame' = Nothing \/ \E d \in Commands : frame' = FrameOf(d, frames')
    BY <1>2, Zenon
  <2>2. waiting' \in Nat /\ waiting' <= window' /\ pos' \in 0 .. FrameLen'
    BY <1>1, <1>2, <1>5 DEF PanelTypes
  <2>3. frames' \in 0 .. MaxFrames /\ frames' # 0
    BY <1>2, <1>3
  <2>4. damaged' \in BOOLEAN /\ damagedBefore' \in BOOLEAN
    BY <1>1, <1>2, Zenon DEF PanelTypes
  <2> QED
    BY <1>1, <1>2, <1>5, <2>1, <2>2, <2>3, <2>4, ZenonT(60) DEF PanelTypes, parserVars
<1>7. FrameLen \in 6 .. 8
  BY <1>1, ByteFacts
<1>a. state' = state /\ pos' = 0 /\ pos = FrameLen
  BY <1>2, Zenon DEF parserVars
<1>8. InStep \/ Skipping => InStep'
  <2>1. /\ pos # 0 /\ pos # 1 /\ pos # 2 /\ ~(pos \in 3 .. FrameLen - 3)
        /\ pos # FrameLen - 2 /\ pos # FrameLen - 1
    BY <1>7, <1>a
  <2>2. InStep \/ Skipping => state = 0
    BY <2>1, Zenon DEF InStep, Skipping
  <2> QED
    BY <1>a, <2>2, Zenon DEF InStep
<1>9. Behind => (InStep \/ Skipping)'
  <2>1. /\ pos # 2 /\ pos # 3 /\ ~(pos \in 4 .. FrameLen - 2) /\ pos # 4
        /\ pos # FrameLen - 1 /\ ~(pos = 5 /\ FrameLen = 8)
    BY <1>7, <1>a
  <2>2. Behind => state = 0 \/ state = 5
    BY <2>1, Zenon DEF Behind
  <2> QED
    BY <1>a, <2>2, Zenon DEF InStep, Skipping
<1>10. ParserInv'
  BY <1>1, <1>2, <1>8, <1>9 DEF ParserInv, PanelTypes
<1>11. WaitInv'
  <2> SUFFICES ASSUME window = 1
               PROVE  WaitInv'
    BY <1>2 DEF WaitInv
  <2>1. waiting = 0 /\ value \in Nat
    BY <1>1, <1>2 DEF PanelTypes
  <2>2. value = 0 /\ pc = "take" /\ done = found
    BY <1>1, <2>1 DEF WaitInv
  <2> QED
    BY <1>2, <2>1, <2>2 DEF WaitInv
<1>12. LastInv'
  BY <1>2, <1>5 DEF LastInv
<1> QED
  BY <1>6, <1>10, <1>11, <1>12 DEF PanelIndInv

LEMMA GiveUpStep ==
    ASSUME PanelIndInv, GiveUp
    PROVE  PanelIndInv'
<1>1. /\ PanelTypes /\ ParserInv /\ WaitInv /\ LastInv
  BY DEF PanelIndInv
<1>2. /\ pos >= FrameLen /\ value = 0 /\ pc = "take" /\ waiting' = 0
      /\ UNCHANGED <<parserVars, window, frame, pos, frames, lost, damaged, damagedBefore,
                     value, pc, cmd, used, found, done>>
  BY <1>1, SentByte DEF GiveUp, threadVars
<1>3. PanelTypes' /\ ParserInv' /\ InSlot' = InSlot /\ FrameLen' = FrameLen
  <2>1. value' \in Nat /\ waiting' \in Nat /\ waiting' <= window
        /\ pc' \in {"take", "cmd", "data", "clear", "reply"}
    BY <1>1, <1>2 DEF PanelTypes
  <2> QED
    BY <1>1, <1>2, <2>1, FrameKept, Zenon
<1>4. ~(pos < FrameLen)
  <2>1. FrameLen \in 6 .. 8
    BY <1>1, ByteFacts, Zenon
  <2>2. pos \in 0 .. FrameLen /\ pos >= FrameLen
    BY <1>1, <1>2, Zenon DEF PanelTypes
  <2> QED
    BY <2>1, <2>2
<1>5. WaitInv'
  BY <1>1, <1>2, <1>3, <1>4 DEF WaitInv
<1>6. LastInv'
  BY <1>1, <1>2, <1>3 DEF LastInv
<1> QED
  BY <1>3, <1>5, <1>6 DEF PanelIndInv

\* A step of mega32u4_uart between taking the semaphore and the reply.
LEMMA HandlerStep ==
    ASSUME PanelIndInv, pc # "take", pc' \in {"cmd", "data", "clear", "reply"},
           UNCHANGED <<parserVars, peerVars, value, found, done>>,
           Executing => Executing'
    PROVE  PanelIndInv'
<1>1. /\ PanelTypes /\ ParserInv /\ WaitInv /\ LastInv
  BY DEF PanelIndInv
<1>2. PanelTypes' /\ ParserInv' /\ InSlot' = InSlot /\ FrameLen' = FrameLen
  <2>1. value' \in Nat /\ waiting' \in Nat /\ waiting' <= window
        /\ pc' \in {"take", "cmd", "data", "clear", "reply"}
    BY <1>1 DEF PanelTypes, peerVars
  <2> QED
    BY <1>1, <2>1, FrameKept, Zenon DEF peerVars
<1>3. WaitInv'
  BY <1>1, <1>2, ZenonT(60) DEF WaitInv, peerVars
<1>4. LastInv'
  BY <1>1, <1>2 DEF LastInv, peerVars
<1> QED
  BY <1>2, <1>3, <1>4 DEF PanelIndInv

LEMMA TakeStep ==
    ASSUME PanelIndInv, Take
    PROVE  PanelIndInv'
<1>1. /\ PanelTypes /\ ParserInv /\ WaitInv /\ LastInv
  BY DEF PanelIndInv
<1>2. PanelTypes' /\ ParserInv' /\ InSlot' = InSlot /\ FrameLen' = FrameLen
  <2>1. value' \in Nat /\ waiting' \in Nat /\ waiting' <= window
        /\ pc' \in {"take", "cmd", "data", "clear", "reply"}
    BY <1>1 DEF PanelTypes, peerVars, Take
  <2> QED
    BY <1>1, <2>1, FrameKept, Zenon DEF Take, peerVars
<1>3. InSlot => Executing'
  <2>1. pc' = "cmd" /\ pc' \notin {"data", "clear", "reply"}
    BY DEF Take
  <2> QED
    BY <1>2, <2>1, Zenon DEF Executing
<1>a. /\ pc = "take" /\ value > 0 /\ value' = value - 1 /\ pc' = "cmd" /\ pc' # "take"
      /\ UNCHANGED <<window, pos, waiting, lost, found, frame, done>>
  BY DEF Take, peerVars
<1>4. WaitInv'
  <2> SUFFICES ASSUME window = 1
               PROVE  WaitInv'
    BY <1>a, Zenon DEF WaitInv
  <2>1. value = 1 /\ waiting = 1 /\ InSlot
    BY <1>1, <1>a, Zenon DEF WaitInv
  <2>2. ~(value' > 0) /\ waiting' = 1
    BY <1>a, <2>1
  <2> QED
    BY <1>3, <1>a, <2>1, <2>2, Zenon DEF WaitInv
<1>5. LastInv'
  BY <1>1, <1>2, <1>3, <1>a, ZenonT(60) DEF LastInv
<1> QED
  BY <1>2, <1>4, <1>5 DEF PanelIndInv

LEMMA ReadCmdStep ==
    ASSUME PanelIndInv, ReadCmd
    PROVE  PanelIndInv'
<1>1. PanelTypes
  BY DEF PanelIndInv
<1>2. ASSUME Executing
      PROVE  Executing'
  <2>1. InSlot' /\ FrameLen' = FrameLen /\ frame' = frame /\ cmd' = frame.cmd
    BY <1>2, SameFrame DEF Executing, InSlot, ReadCmd, peerVars, parserVars
  <2>2. used' \in Seq({frames'}) /\ Len(used') = 0 /\ pc' = "data" /\ FrameLen \in 6 .. 8
    BY <1>1, ByteFacts DEF ReadCmd
  <2> QED
    BY <2>1, <2>2 DEF Executing
<1> QED
  BY <1>2, HandlerStep DEF ReadCmd

LEMMA UseByteStep ==
    ASSUME PanelIndInv, UseByte
    PROVE  PanelIndInv'
<1>1. PanelTypes
  BY DEF PanelIndInv
<1>2. ASSUME Executing
      PROVE  Executing'
  <2>1. /\ InSlot' /\ FrameLen' = FrameLen /\ frame' = frame /\ frames' = frames
        /\ pc = "data" /\ pc' = "data" /\ cmd' = frame.cmd
    BY <1>2, SameFrame, ZenonT(60) DEF Executing, InSlot, UseByte, peerVars, parserVars
  <2>2. used \in Seq({frames}) /\ Len(used) < FrameLen - 6 /\ FrameLen \in 6 .. 8
    BY <1>1, <1>2, FrameFacts, ZenonT(60) DEF Executing, InSlot, UseByte
  <2>3. Len(used) + 1 \in 1 .. FrameLen - 6
    BY <2>2
  <2>4. recvbuf[Len(used) + 1] = frames
    BY <1>2, <2>3 DEF Executing, InSlot
  <2>5. used' = Append(used, frames)
    BY <2>4, Zenon DEF UseByte
  <2>6. used' \in Seq({frames}) /\ Len(used') = Len(used) + 1
    BY <2>2, <2>5
  <2> QED
    BY <2>1, <2>2, <2>3, <2>6 DEF Executing
<1> QED
  BY <1>2, HandlerStep DEF UseByte

LEMMA RaiseStep ==
    ASSUME PanelIndInv, Raise \/ RaiseClear
    PROVE  PanelIndInv'
<1>1. PanelTypes
  BY DEF PanelIndInv
<1>2. /\ pc \in {"data", "clear"} /\ pc' \in {"clear", "reply"}
      /\ pc = "data" => Len(used) = DataLen(cmd)
      /\ UNCHANGED <<parserVars, peerVars, value, cmd, used, found, done>>
  BY DEF Raise, RaiseClear
<1>3. ASSUME Executing
      PROVE  Executing'
  <2>1. InSlot' /\ FrameLen' = FrameLen /\ frame' = frame /\ frames' = frames
    BY <1>2, <1>3, SameFrame DEF Executing, InSlot, peerVars, parserVars
  <2>2. Len(used) = FrameLen - 6
    BY <1>1, <1>2, <1>3, FrameFacts DEF Executing, InSlot
  <2> QED
    BY <1>2, <1>3, <2>1, <2>2 DEF Executing
<1> QED
  BY <1>2, <1>3, HandlerStep

LEMMA ReplyStep ==
    ASSUME PanelIndInv, Reply
    PROVE  PanelIndInv'
<1>1. /\ PanelTypes /\ ParserInv /\ WaitInv /\ LastInv
  BY DEF PanelIndInv
<1>2. /\ pc = "reply" /\ pc' = "take" /\ done' = [cmd |-> cmd, data |-> used]
      /\ waiting' = IF waiting > 0 THEN waiting - 1 ELSE 0
      /\ UNCHANGED <<parserVars, window, frame, pos, frames, lost, damaged, damagedBefore,
                     value, cmd, used, found>>
  BY DEF Reply
<1>3. PanelTypes' /\ ParserInv' /\ InSlot' = InSlot /\ FrameLen' = FrameLen
  <2>1. value' \in Nat /\ waiting' \in Nat /\ waiting' <= window
        /\ pc' \in {"take", "cmd", "data", "clear", "reply"}
    BY <1>1, <1>2 DEF PanelTypes
  <2> QED
    BY <1>1, <1>2, <2>1, FrameKept, Zenon
<1>4. Executing => done' = found' /\ pos = FrameLen
  BY <1>1, <1>2, UsedData DEF Executing, InSlot
<1>5. WaitInv'
  <2> SUFFICES ASSUME window = 1
               PROVE  WaitInv'
    BY <1>2 DEF WaitInv
  <2>0. ~(value > 0) /\ Executing
    <3>1. pc # "take"
      BY <1>2
    <3> QED
      BY <1>1, <3>1, Zenon DEF WaitInv
  <2>1. value = 0 /\ done' = found' /\ ~(pos < FrameLen)
    <3>1. value \in Nat /\ FrameLen \in 6 .. 8
      BY <1>1, ByteFacts, Zenon DEF PanelTypes
    <3>2. pos = FrameLen /\ done' = found'
      BY <1>4, <2>0, Zenon
    <3> QED
      BY <2>0, <3>1, <3>2
  <2> QED
    BY <1>2, <1>3, <2>1 DEF WaitInv
<1>6. LastInv'
  BY <1>1, <1>2, <1>3, <1>4 DEF LastInv
<1> QED
  BY <1>3, <1>5, <1>6 DEF PanelIndInv

\* thread_sensor changes neither the slot nor what mega32u4_uart works on.
LEMMA SensorStep ==
    ASSUME PanelIndInv, UNCHANGED <<parserVars, peerVars, value, threadVars, found, done>>
    PROVE  PanelIndInv'
<1>1. /\ PanelTypes /\ ParserInv /\ WaitInv /\ LastInv
  BY DEF PanelIndInv
<1>2. PanelTypes' /\ ParserInv' /\ InSlot' = InSlot /\ FrameLen' = FrameLen
  <2>1. value' \in Nat /\ waiting' \in Nat /\ waiting' <= window
        /\ pc' \in {"take", "cmd", "data", "clear", "reply"}
    BY <1>1 DEF PanelTypes, peerVars, threadVars
  <2> QED
    BY <1>1, <2>1, FrameKept, Zenon DEF peerVars
<1>3. Executing' = Executing
  BY <1>2, Zenon DEF Executing, peerVars, threadVars
<1>4. WaitInv'
  BY <1>1, <1>2, <1>3 DEF WaitInv, peerVars, threadVars
<1>5. LastInv'
  BY <1>1, <1>2, <1>3 DEF LastInv, peerVars, threadVars
<1> QED
  BY <1>2, <1>4, <1>5 DEF PanelIndInv

LEMMA PanelInitInv ==
    Init => PanelIndInv
<1> SUFFICES ASSUME Init
             PROVE  PanelIndInv
  OBVIOUS
<1>1. frame.data = <<>> /\ FrameLen = 6
  BY DEF Init, Nothing, FrameLen
<1>2. PanelTypes
  <2>1. /\ 0 \in 0 .. MaxFrames /\ 0 \in 0 .. MaxLost /\ window \in Nat \ {0} /\ 0 <= window
        /\ DOMAIN recvbuf = 0 .. 2
    BY PanelAssumption DEF Init, ParserInit
  <2>2. 6 \in 0 .. FrameLen /\ ~(0 > 0) /\ 0 \in Nat /\ 0 \in 0 .. 5
    BY <1>1
  <2> QED
    BY <1>1, <2>1, <2>2, Zenon DEF Init, ParserInit, PanelTypes
<1>3. ParserInv
  BY <1>1 DEF Init, ParserInit, ParserInv, InStep
<1>4. WaitInv /\ LastInv
  BY <1>1 DEF Init, WaitInv, LastInv
<1> QED
  BY <1>2, <1>3, <1>4 DEF PanelIndInv

LEMMA PanelNextInv ==
    ASSUME MaxLost <= 1, PanelIndInv, [Next]_vars
    PROVE  PanelIndInv'
<1>1. CASE \E c \in Commands : NewFrame(c)
  BY <1>1, NewFrameStep
<1>2. CASE RxByte
  BY <1>2, RxStep
<1>3. CASE LoseByte
  BY <1>3, LoseStep
<1>4. CASE GiveUp
  BY <1>4, GiveUpStep
<1>5. CASE Handler
  BY <1>5, TakeStep, ReadCmdStep, UseByteStep, RaiseStep, ReplyStep DEF Handler
<1>6. CASE Sensor \/ UNCHANGED vars
  BY <1>6, SensorStep DEF Sensor, SensorLoop, SensorDial, SensorRest, vars
<1> QED
  BY <1>1, <1>2, <1>3, <1>4, <1>5, <1>6 DEF Next

LEMMA PanelInductive ==
    ASSUME MaxLost <= 1
    PROVE  Spec => []PanelIndInv
<1>1. Init => PanelIndInv
  BY PanelInitInv
<1>2. PanelIndInv /\ [Next]_vars => PanelIndInv'
  BY PanelNextInv
<1> QED
  BY <1>1, <1>2, PTL DEF Spec

-----------------------------------------------------------------------------
\* A peer that waits for each reply has every command executed as it was sent,
\* also when a byte is lost on the line: the interrupt that parses the next
\* frame does not overwrite the slot and the receive buffer under the thread.
THEOREM CommandsExecutedAsSent ==
    ASSUME MaxLost <= 1
    PROVE  Spec => []ExecutedAsSent
<1>1. PanelIndInv => ExecutedAsSent
  <2> SUFFICES ASSUME PanelIndInv, window = 1, pc = "reply"
               PROVE  cmd = frame.cmd /\ used = frame.data
    BY DEF ExecutedAsSent
  <2>1. PanelTypes /\ Executing
    BY DEF PanelIndInv, WaitInv
  <2> QED
    BY <2>1, UsedData
<1> QED
  BY <1>1, PanelInductive, PTL

\* The last frame that was found is the last command that is executed, however
\* many the peer sends before it waits.
THEOREM LastCommandWins ==
    ASSUME MaxLost <= 1
    PROVE  Spec => []LastFrameWins
<1>1. PanelIndInv => LastFrameWins
  BY SentByte DEF LastFrameWins, PanelIndInv, WaitInv, LastInv
<1> QED
  BY <1>1, PanelInductive, PTL

\* The parser finds undamaged frames only, each with its own command and data,
\* and misses none but the frame with the lost byte and the one after it.
THEOREM ParserFindsFrames ==
    ASSUME MaxLost <= 1
    PROVE  Spec => FramesFound
<1> DEFINE Found ==
        pos < Len(Bytes) /\ pos' = pos + 1 =>
        /\ value' = value + 1 =>
            /\ pos' = Len(Bytes) /\ ~damaged'
            /\ realcmd' = frame.cmd
            /\ \A i \in 1 .. Len(frame.data) : recvbuf'[i] = frame.data[i]
        /\ pos' = Len(Bytes) /\ ~damaged' /\ ~damagedBefore => value' = value + 1
<1>1. ASSUME PanelIndInv, [Next]_vars
      PROVE  [Found]_vars
  <2> SUFFICES ASSUME Next, pos < Len(Bytes), pos' = pos + 1
               PROVE  Found
    BY <1>1, Zenon
  <2>1. /\ PanelTypes /\ ParserInv /\ Len(Bytes) = FrameLen /\ pos \in Nat /\ value \in Nat
        /\ FrameLen \in 6 .. 8
    <3>1. PanelTypes /\ ParserInv
      BY <1>1, Zenon DEF PanelIndInv
    <3>2. Len(Bytes) = FrameLen
      BY <3>1, SentByte, Zenon
    <3>3. FrameLen \in 6 .. 8
      BY <3>1, ByteFacts, Zenon
    <3>4. pos \in Nat /\ value \in Nat
      BY <3>1, <3>3 DEF PanelTypes
    <3> QED
      BY <3>1, <3>2, <3>3, <3>4, Zenon
  <2>2. CASE RxByte
    <3>1. (RxFound \/ RxNothing) /\ damaged' = damaged
      BY <2>1, <2>2, RxFacts DEF RxByte
    <3>2. Len(frame.data) = FrameLen - 6 /\ \A i \in 1 .. FrameLen - 6 : frame.data[i] = frames
      BY <2>1, FrameFacts
    <3>3. CASE RxFound
      BY <2>1, <3>1, <3>2, <3>3, ZenonT(60) DEF RxFound
    <3>4. CASE RxNothing
      <4>1. value' # value + 1
        BY <2>1, <3>4 DEF RxNothing
      <4>2. ~(pos' = Len(Bytes) /\ ~damaged' /\ ~damagedBefore)
        BY <2>1, <3>1, <3>4, Zenon DEF RxNothing
      <4> QED
        BY <4>1, <4>2, Zenon
    <3> QED
      BY <3>1, <3>3, <3>4, ZenonT(60)
  <2>5. value # value + 1 /\ pos # pos + 1 /\ 0 # pos + 1
    <3>1. pos \in Nat /\ value \in Nat
      BY <2>1, Zenon
    <3> QED
      BY <3>1
  <2>3. CASE LoseByte
    <3>1. value' = value /\ damaged' = TRUE
      BY <2>3, Zenon DEF LoseByte
    <3> QED
      BY <2>5, <3>1, ZenonT(60)
  <2>4. CASE ~RxByte /\ ~LoseByte
    <3>1. pos' = 0 \/ pos' = pos
      BY <2>4, ZenonT(60) DEF Next, NewFrame, GiveUp, Handler, Take, ReadCmd, UseByte, Raise, RaiseClear, Reply,
                  Sensor, SensorLoop, SensorDial, SensorRest, peerVars
    <3> QED
      BY <2>5, <3>1, ZenonT(60)
  <2> QED
    BY <2>2, <2>3, <2>4, ZenonT(60)
<1> QED
  BY <1>1, PanelInductive, PTL DEF Spec, FramesFound

-----------------------------------------------------------------------------
(* The settings.                                                           *)

SettingsInv ==
    /\ flag \in [Commands -> BOOLEAN] /\ DOMAIN set = Commands /\ DOMAIN shown = Commands
    /\ SettingsApplied

\* What thread_sensor applies when it lowers the flags of low and applies the
\* settings of show.
LEMMA SensorApplies ==
    ASSUME SettingsInv, UNCHANGED <<set, pc, cmd>>,
           NEW show, NEW low, shown' = Shown(show), flag' = Lowered(low),
           \A c \in {MOTOR, DZP, traffic_light} : c \in low => c \in show
    PROVE  SettingsInv'
BY ZenonT(60) DEF SettingsInv, SettingsApplied, Shown, Lowered

LEMMA SettingsInit ==
    Init => SettingsInv
BY DEF Init, SettingsInv, SettingsApplied

LEMMA SettingsNext ==
    ASSUME SettingsInv, [Next]_vars
    PROVE  SettingsInv'
<1>1. CASE UNCHANGED <<set, flag, shown, pc, cmd>>
  BY <1>1, Zenon DEF SettingsInv, SettingsApplied
<1>2. CASE Take \/ ReadCmd \/ RaiseClear \/ Reply
  <2>1. UNCHANGED <<set, flag, shown>> /\ (pc = "data" => FALSE)
    BY <1>2, ZenonT(60) DEF Take, ReadCmd, RaiseClear, Reply, setVars, outVars
  <2> QED
    BY <2>1 DEF SettingsInv, SettingsApplied
<1>3. CASE UseByte
  <2>1. /\ pc = "data" /\ pc' = "data" /\ cmd' = cmd /\ flag' = flag
        /\ DOMAIN set' = Commands /\ DOMAIN shown' = Commands
        /\ \A c \in Commands : c # cmd => set'[c] = set[c]
        /\ \A c \in Commands : c # cmd => shown'[c] = shown[c]
    BY <1>3 DEF UseByte, SettingsInv
  <2> QED
    BY <2>1, ZenonT(60) DEF SettingsInv, SettingsApplied
<1>4. CASE Raise
  <2>1. /\ pc = "data" /\ UNCHANGED <<set, shown, cmd>>
        /\ flag' = IF cmd = RGB_LED THEN flag ELSE [flag EXCEPT ![cmd] = TRUE]
    BY <1>4 DEF Raise, outVars
  <2>2. flag' \in [Commands -> BOOLEAN]
    BY <2>1, Zenon DEF SettingsInv
  <2>3. ASSUME NEW c \in Commands \cap {MOTOR, DZP, traffic_light}, ~flag'[c]
        PROVE  ~flag[c] /\ c # cmd
    <3>1. c # RGB_LED /\ c \in Commands
      BY DEF RGB_LED, MOTOR, DZP, traffic_light
    <3> QED
      BY <2>1, <2>3, <3>1, Zenon DEF SettingsInv
  <2>4. SettingsApplied'
    BY <2>1, <2>3, Zenon DEF SettingsInv, SettingsApplied
  <2> QED
    BY <2>1, <2>2, <2>4, Zenon DEF SettingsInv
<1>5. CASE Sensor
  <2>1. CASE SensorLoop
    BY <2>1, SensorApplies DEF SensorLoop, threadVars
  <2>2. CASE SensorDial
    BY <2>2, SensorApplies DEF SensorDial, threadVars, DZP, MOTOR, Dial, traffic_light
  <2>3. CASE SensorRest
    BY <2>3, SensorApplies DEF SensorRest, threadVars, DZP, MOTOR, Dial, traffic_light
  <2> QED
    BY <1>5, <2>1, <2>2, <2>3 DEF Sensor
<1>6. CASE (\E c \in Commands : NewFrame(c)) \/ RxByte \/ LoseByte \/ GiveUp
  BY <1>1, <1>6, ZenonT(60) DEF NewFrame, RxByte, LoseByte, GiveUp, threadVars, setVars, outVars
<1> QED
  BY <1>1, <1>2, <1>3, <1>4, <1>5, <1>6 DEF Next, Handler, vars, threadVars, setVars, outVars

\* A setting whose flag is down has been applied, wherever thread_sensor
\* preempts the copy of a new one, for any number of frames and lost bytes.
THEOREM SettingsNotLost ==
    Spec => []SettingsApplied
<1>1. Init => SettingsInv
  BY SettingsInit
<1>2. SettingsInv /\ [Next]_vars => SettingsInv'
  BY SettingsNext
<1>3. SettingsInv => SettingsApplied
  BY DEF SettingsInv
<1> QED
  BY <1>1, <1>2, <1>3, PTL DEF Spec
=============================================================================

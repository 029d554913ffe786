----------------------------- MODULE Bootloader -----------------------------
(***************************************************************************)
(* The bootloader (src/bsp/stm32f4xx-HAL-bootloader/applications/main.c    *)
(* 165-402): at power-on it compares the version in system.cfg with the    *)
(* one in update.cfg, both files on an SPI flash, and if the update is     *)
(* newer it erases the application in the program flash, copies the        *)
(* update's image over it, records the new version in system.cfg and       *)
(* jumps to the application.                                               *)
(*                                                                         *)
(* The power may fail between any two steps and in the middle of an erase  *)
(* or of a write.  The program flash, update.cfg and the image file        *)
(* survive; system.cfg changes on the medium when it is closed.  Sizes     *)
(* are in units of the copy loop (buff, 128 bytes).                        *)
(***************************************************************************)
EXTENDS Integers

CONSTANTS Version,      \* the versions of the application
          ImageSize,    \* ImageSize[v]: the size of the file v.bin
          FlashSize,    \* the size of the program flash from USER_APP_ADDRESS on
          SectorSize,   \* the size of a sector
          Failures,     \* the operations that may fail
          MaxFaults     \* bound: power losses, failures and times the key is held

None == -1              \* a file that is missing or cannot be parsed
Blank == -1             \* an erased unit of the flash
Torn == -2              \* a unit whose erase or write was interrupted

ASSUME BootloaderAssumption ==
    /\ Version \subseteq Nat
    /\ FlashSize \in Nat /\ SectorSize \in Nat \ {0} /\ MaxFaults \in Nat
    /\ ImageSize \in [Version -> 1 .. FlashSize - 1]
    /\ Failures \subseteq {"erase", "program", "config"}

VARIABLES stage,        \* what the board is doing
          flash,        \* flash[i]: the version whose i-th unit is there
          system,       \* the version in system.cfg, or None
          update,       \* update.cfg and its image file
          boot_addr,    \* the local variables of bootloader()
          cur_size,
          failed,       \* history: the operations that have failed
          faults        \* history: how many faults there were

bootVars == <<stage, flash, system, update, boot_addr, cur_size, failed, faults>>
history == <<failed, faults>>
files == <<system, update>>

Unit == 0 .. FlashSize - 1

\* USER_APP_ADDRESS, the start of the bootloader, and an erased address.
Addr == {"app", "boot", "blank"}

\* What the two files say: "fits" when the image is there and has bin_size.
Update == [version : Version \cup {None}, addr : Addr, fits : BOOLEAN]
NoUpdate == [version |-> None, addr |-> "app", fits |-> FALSE]

Whole(v) == \A i \in 0 .. ImageSize[v] - 1 : flash[i] = v

\* Mutant of Sectors: one too few.
SectorsShort(size) == IF size < SectorSize THEN 1 ELSE size \div SectorSize

\* ef_port_erase: from the first sector to the one that holds the address
\* behind the image.
Sectors(size) == size \div SectorSize + 1
InSector(i, s) == i \div SectorSize = s

BootInit ==
    /\ stage = "start"
    /\ \E v \in Version :
        /\ system = v
        /\ flash = [i \in Unit |-> IF i < ImageSize[v] THEN v ELSE Blank]
    /\ update = NoUpdate
    /\ boot_addr = "app" /\ cur_size = 0
    /\ failed = {} /\ faults = 0

\* Something goes wrong; the bound says how often.
Fault == faults < MaxFaults /\ faults' = faults + 1

Failure(op) ==
    /\ op \in Failures
    /\ Fault
    /\ failed' = failed \cup {op}

-----------------------------------------------------------------------------
\* main.c:212-217: the key is held.
KeyHeld ==
    /\ stage = "start"
    /\ stage' = "usb"
    /\ Fault
    /\ UNCHANGED <<flash, files, boot_addr, cur_size, failed>>

\* 225-242: the file system cannot be mounted and is made anew; all files
\* are gone.
Format ==
    /\ stage = "start"
    /\ system' = None /\ update' = NoUpdate
    /\ boot_addr' = "app"
    /\ stage' = "load"
    /\ Fault
    /\ UNCHANGED <<flash, cur_size, failed>>

\* Mutant of NothingToDo: an image that has been begun is taken for whole.
NothingToDoBegun ==
    /\ stage = "start"
    /\ system = None \/ update.version <= system \/ flash[0] = update.version
    /\ boot_addr' = "app"
    /\ stage' = "load"
    /\ UNCHANGED <<flash, files, cur_size, history>>

\* 237-291: there is no newer version.
NothingToDo ==
    /\ stage = "start"
    /\ system = None \/ update.version <= system
    /\ boot_addr' = "app"
    /\ stage' = "load"
    /\ UNCHANGED <<flash, files, cur_size, history>>

Newer == system # None /\ update.version > system

\* 331-350: the image is missing or its size is not bin_size.
Unusable ==
    /\ stage = "start"
    /\ Newer /\ ~update.fits
    /\ boot_addr' = update.addr
    /\ stage' = "load"
    /\ UNCHANGED <<flash, files, cur_size, history>>

Begin ==
    /\ stage = "start"
    /\ Newer /\ update.fits
    /\ boot_addr' = update.addr
    /\ cur_size' = 0
    /\ stage' = "erase"
    /\ UNCHANGED <<flash, files, history>>

-----------------------------------------------------------------------------
\* 353-358, one sector at a time; cur_size counts the erased ones.
Erase ==
    /\ stage = "erase"
    /\ flash' = [i \in Unit |-> IF InSector(i, cur_size) THEN Blank ELSE flash[i]]
    /\ IF cur_size + 1 < Sectors(ImageSize[update.version])
       THEN cur_size' = cur_size + 1 /\ UNCHANGED stage
       ELSE cur_size' = 0 /\ stage' = "copy"
    /\ UNCHANGED <<files, boot_addr, history>>

\* A sector cannot be erased: go to the application.
EraseFails ==
    /\ stage = "erase"
    /\ stage' = "load"
    /\ Failure("erase")
    /\ UNCHANGED <<flash, files, boot_addr, cur_size>>

\* Mutant of CopyUnit: the last unit is not written.
CopyUnitShort ==
    /\ stage = "copy"
    /\ flash' = [flash EXCEPT ![cur_size] = update.version]
    /\ cur_size' = cur_size + 1
    /\ stage' = IF cur_size + 2 < ImageSize[update.version] THEN "copy" ELSE "record"
    /\ UNCHANGED <<files, boot_addr, history>>

\* 361-369: read the file, write the flash.
CopyUnit ==
    /\ stage = "copy"
    /\ flash' = [flash EXCEPT ![cur_size] = update.version]
    /\ cur_size' = cur_size + 1
    /\ stage' = IF cur_size + 1 < ImageSize[update.version] THEN "copy" ELSE "record"
    /\ UNCHANGED <<files, boot_addr, history>>

\* A write fails: leave the loop, and go on.
CopyFails ==
    /\ stage = "copy"
    /\ flash' = [flash EXCEPT ![cur_size] = Torn]
    /\ stage' = "record"
    /\ Failure("program")
    /\ UNCHANGED <<files, boot_addr, cur_size>>

\* Mutant of Record: the old version is written.
RecordOld ==
    /\ stage = "record"
    /\ stage' = "load"
    /\ UNCHANGED <<flash, files, boot_addr, cur_size, history>>

\* 371-383: write the new version and close the file ...
Record ==
    /\ stage = "record"
    /\ system' = update.version
    /\ stage' = "load"
    /\ UNCHANGED <<flash, update, boot_addr, cur_size, history>>

\* ... or fail to.
RecordFails ==
    /\ stage = "record"
    /\ stage' = "load"
    /\ Failure("config")
    /\ UNCHANGED <<flash, files, boot_addr, cur_size>>

-----------------------------------------------------------------------------
\* iap_load_app: the first word must look like a stack address.
Loads(addr) ==
    \/ addr = "boot"
    \/ addr = "app" /\ flash[0] # Blank

Refuses(addr) ==
    \/ addr = "blank"
    \/ addr = "app" /\ flash[0] \in {Blank, Torn}

\* 391: jump to the application, or start the bootloader again,
Load ==
    /\ stage = "load"
    /\ Loads(boot_addr)
    /\ stage' = IF boot_addr = "app" THEN "app" ELSE "start"
    /\ UNCHANGED <<flash, files, boot_addr, cur_size, history>>

\* 393-400: or become a USB disk.
OpenUsb ==
    /\ stage = "load"
    /\ Refuses(boot_addr)
    /\ stage' = "usb"
    /\ UNCHANGED <<flash, files, boot_addr, cur_size, history>>

\* The shell command gotoApplication.
GotoApplication ==
    /\ stage = "usb"
    /\ Loads("app")
    /\ stage' = "manual"
    /\ UNCHANGED <<flash, files, boot_addr, cur_size, history>>

\* The user copies a newer update to the disk, perhaps not all of it.
Import(v, addr, fits) ==
    /\ stage = "usb"
    /\ v > update.version
    /\ update' = [version |-> v, addr |-> addr, fits |-> fits]
    /\ UNCHANGED <<stage, flash, system, boot_addr, cur_size, history>>

\* The board is switched off and on.
PowerCycle ==
    /\ stage \in {"app", "manual", "usb"}
    /\ stage' = "start"
    /\ UNCHANGED <<flash, files, boot_addr, cur_size, history>>

\* The unit or the sector that an interrupted step was about to change.
Interrupted ==
    {i \in Unit : \/ stage = "erase" /\ InSector(i, cur_size)
                  \/ stage = "copy" /\ i = cur_size}

\* The power fails in the bootloader, before a step or in the middle of it.
PowerLoss ==
    /\ stage \in {"erase", "copy", "record", "load"}
    /\ \/ UNCHANGED flash
       \/ flash' = [i \in Unit |-> IF i \in Interrupted THEN Torn ELSE flash[i]]
    /\ stage' = "start"
    /\ Fault
    /\ UNCHANGED <<files, boot_addr, cur_size, failed>>

Boot == \/ NothingToDo \/ Unusable \/ Begin \/ Erase \/ CopyUnit \/ Record
        \/ Load \/ OpenUsb

BootNext ==
    \/ Boot
    \/ KeyHeld \/ Format \/ EraseFails \/ CopyFails \/ RecordFails \/ PowerLoss
    \/ GotoApplication \/ PowerCycle
    \/ \E v \in Version, addr \in Addr, fits \in BOOLEAN : Import(v, addr, fits)

\* The bootloader goes on while there is power, and whoever switches the
\* board off switches it on again.
BootFairness == WF_bootVars(Boot) /\ WF_bootVars(PowerCycle)

BootSpec == BootInit /\ [][BootNext]_bootVars
FairBootSpec == BootSpec /\ BootFairness

-----------------------------------------------------------------------------
BootTypeOK ==
    /\ stage \in {"start", "erase", "copy", "record", "load", "app", "manual", "usb"}
    /\ flash \in [Unit -> Version \cup {Blank, Torn}]
    /\ system \in Version \cup {None}
    /\ update \in Update
    /\ boot_addr \in Addr
    /\ cur_size \in Unit
    /\ failed \subseteq Failures
    /\ faults \in 0 .. MaxFaults

\* The flash is written only where it is erased: the sectors that are erased
\* cover the image, its last unit included, and after an interruption the
\* copy starts over (the note of ef_port_write asks for this).
Consistent ==
    /\ BootTypeOK
    /\ stage = "copy" =>
        \A i \in cur_size .. ImageSize[update.version] - 1 : flash[i] = Blank

\* The version in system.cfg is the one that is installed, all of it, unless
\* a newer update is waiting (main.c:74-75: "update the firmware", then
\* "update the version number").  A failed write breaks this.
RecordedAfterUpdate == system # None => Whole(system) \/ update.version > system

\* No write failed: then an update that a power loss or an erase error
\* interrupts is never recorded, and is done again.
RecordedIsInstalled == "program" \notin failed => RecordedAfterUpdate

\* iap_load_app looks at one word of the image only; yet the bootloader jumps
\* to no half-written application, wherever the power failed before, as long
\* as the update on the disk is usable and erase and write work.  It is the
\* recorded version or, if that could not be written, the newer one.
BootsWholeImage ==
    /\ stage = "app" /\ failed \subseteq {"config"}
    /\ system # None
    /\ update.version > system => update.fits
    => Whole(system) \/ (Newer /\ Whole(update.version))

\* A usable update is installed in the end, however often the power fails on
\* the way, unless the user replaces it or the disk is formatted.
UpdateCompletes ==
    \A v \in Version :
        update.version = v /\ update.fits
            ~> \/ system # None /\ system >= v
               \/ system = None
               \/ update.version # v
=============================================================================

-------------------------------- MODULE Board --------------------------------
(***************************************************************************)
(* The machine's memory map, as initializeEmulator of the main window and  *)
(* main of the command line build it: a bus with the devices of Wiring,    *)
(* the main memory behind them, and the PROM, attached when its file has   *)
(* been loaded. The software then reads and writes words.                  *)
(***************************************************************************)
EXTENDS Bus, Memory, PROM

CONSTANTS
    Probes,      \* Addresses the software uses, of any segment.
    MemorySizes  \* Megabytes the user may ask for.

ASSUME BoardAssumption ==
    /\ Probes \subseteq Nat
    /\ Words = {ToPhysical(a) : a \in Probes}

(* The devices in the order in which they are attached. *)
Wiring == <<
    Entry("CRIME", \h05000000, \h4000),
    Entry("MRE", \h05400000, \h4000),
    Entry("ICE", \h05C00000, \h4000),
    Entry("GBE", \h0580C000, \h4000),
    Entry("MACE", \h07C00000, \h400000),
    Entry("PS2", \h07CC8000, \h4),
    Entry("UART1", \h07CE4000, \h2),
    Entry("UART2", \h07CE6000, \h2),
    Entry("RTC", \h07CE8000, \h400),
    Entry("SCSI", \h30000000, \h4000) >>

(* PROMDevice *)
PromEntry == Entry("PROM", \h07F00000, \h100000)

(* The adapters of CRIME and of the render engine refer to objects of the  *)
(* memory that nothing makes.                                              *)
NullBacked == {"CRIME", "MRE"}

VARIABLES
    crashed,  \* An access went through a null reference.
    stored    \* Auxiliary: the last value stored to each word of memory.

boardVars == <<entries, ramSize, ram, promVars, crashed, stored>>

BoardTypeOK ==
    /\ BusTypeOK /\ MemoryTypeOK /\ PROMTypeOK
    /\ crashed \in BOOLEAN
    /\ stored \in [Words -> Values]

-----------------------------------------------------------------------------
BoardInit ==
    /\ BusInit /\ PROMInit
    /\ \E megabytes \in MemorySizes : MemoryInit(megabytes)
    /\ crashed = FALSE
    /\ stored = [w \in Words |-> "zero"]

Built == Len(entries) >= Len(Wiring)

Running == Built /\ ~crashed

AttachNext ==
    /\ ~Built
    /\ Attach(Wiring[Len(entries) + 1])
    /\ UNCHANGED <<ramSize, ram, promVars, crashed, stored>>

(* The firmware's first word goes to 16 MB, if there is memory. *)
FirmwareTarget == \h20400000

InRam(a) ==
    FindDevice(a) = NoDevice /\ ToPhysical(a) < ramSize

StoreWords(words, value) ==
    LET inRam == {ToPhysical(a) : a \in {b \in words : InRam(b)}}
    IN  /\ WriteWords(inRam, value)
        /\ stored' = [w \in Words |->
                         IF w \in inRam THEN value ELSE stored[w]]

(* load_prom: the ROM is attached once, and then the firmware is copied *)
(* over the bus.                                                        *)
LoadPROM(file) ==
    /\ Running
    /\ LoadImage(file)
    /\ IF rom = NoImage THEN Attach(PromEntry) ELSE UNCHANGED entries
    /\ IF Preloads(file) THEN StoreWords({FirmwareTarget}, "firmware")
                         ELSE UNCHANGED <<ram, stored>>
    /\ UNCHANGED <<ramSize, crashed>>

LoadPROMFails(file) ==
    /\ Running
    /\ LoadFails(file)
    /\ UNCHANGED <<entries, ramSize, ram, crashed, stored>>

ExecuteBootstrap ==
    /\ Running
    /\ Execute
    /\ UNCHANGED <<entries, ramSize, ram, crashed, stored>>

PROMReset ==
    /\ Running
    /\ ResetPROM
    /\ IF Preloads(image) THEN StoreWords({FirmwareTarget}, "firmware")
                          ELSE UNCHANGED <<ram, stored>>
    /\ UNCHANGED <<entries, ramSize, crashed>>

(* read32 of the bus, as far as what answers does not change by it. The    *)
(* last word of the ROM's window is behind the data of every file.         *)
Answer(a) ==
    LET device == FindDevice(a)
    IN  IF device = PromEntry
        THEN RomWord(ToPhysical(a) < device.base + device.size - 1)
        ELSE IF device # NoDevice THEN device.name
        ELSE IF ToPhysical(a) < ramSize THEN ReadWord(ToPhysical(a))
        ELSE "ones"

(* write32 and write64 of the bus. The registers of the devices are those  *)
(* of their own modules, and the ROM takes no notice.                      *)
WriteBus(words) ==
    /\ Running
    /\ {FindDevice(a).name : a \in words} \intersect NullBacked = {}
    /\ StoreWords(words, "data")
    /\ UNCHANGED <<entries, ramSize, promVars, crashed>>

(* Any access to a device without an object behind it. *)
AccessNull(a) ==
    /\ Running
    /\ FindDevice(a).name \in NullBacked
    /\ crashed' = TRUE
    /\ UNCHANGED <<entries, ramSize, ram, promVars, stored>>

BoardNext ==
    \/ AttachNext \/ ExecuteBootstrap \/ PROMReset
    \/ \E file \in Files : LoadPROM(file) \/ LoadPROMFails(file)
    \/ \E a \in Probes : WriteBus({a}) \/ AccessNull(a)
    \/ \E a \in {b \in Probes : b + 1 \in Probes} : WriteBus({a, a + 1})

BoardSpec == BoardInit /\ [][BoardNext]_boardVars

-----------------------------------------------------------------------------
(* However the devices were attached, an address belongs to the innermost  *)
(* window around it, so the devices and the ROM that lie within MACE's     *)
(* window all answer at their own base.                                    *)
DecodesInnermost ==
    /\ \A a \in Probes :
          LET found == FindDevice(a)
              around == {e \in Range(entries) : Covers(e, ToPhysical(a))}
          IN  IF around = {} THEN found = NoDevice
              ELSE found \in around /\ \A e \in around : e.base <= found.base
    /\ \A e \in Range(entries) : FindDevice(e.base) = e

(* A word of memory that no device covers reads as what was last stored to *)
(* it, through whichever segment, by the software or the PROM's loading.   *)
(* This needs a size that is a power of two: with any other size, which    *)
(* both front ends allow, some words share a cell.                         *)
RamReads ==
    PowerOfTwo(ramSize) =>
        \A a \in Probes : InRam(a) => Answer(a) = stored[ToPhysical(a)]

(* Once the CPU has been started into the PROM, the reset vector belongs   *)
(* to the ROM and not to MACE, whose window is around it, or to memory,    *)
(* and shows the image that was loaded last.                               *)
ResetVector == \h2FF00000
RomAnswers ==
    started => /\ FindDevice(ResetVector) = PromEntry
               /\ Answer(ResetVector) = rom

(* No access of the software stops the emulator. *)
AccessesAnswered == ~crashed
=============================================================================

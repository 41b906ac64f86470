-------------------------------- MODULE PROM --------------------------------
(***************************************************************************)
(* The firmware image and the ROM it becomes (firmware/prom.cpp,           *)
(* prom_loader.cpp and prom_device.cpp). A file is its size and, for each  *)
(* place a section may start at, what its header says.                     *)
(***************************************************************************)
EXTENDS Naturals, Sequences

CONSTANTS Files  \* Files a path may name.

(* A header has no magic, tells of more data than there are, or is that of *)
(* data, of code that is loaded, or of such code with the name "firmware". *)
(* As the length of the name is read together with the byte after it, only *)
(* a header that gives a length of 0 and then the name's has that name.    *)
SectionKinds == {"data", "code", "firmware"}
HeaderKinds == SectionKinds \union {"noMagic", "tooLong"}
FileSizes == {"missing", "empty", "short", "whole"}

ASSUME FilesAssumption ==
    \A file \in Files : /\ file.size \in FileSizes
                        /\ file.headers \in Seq(HeaderKinds)

NoImage == [size |-> "missing", headers |-> <<>>]

VARIABLES
    image,    \* image_
    loaded,   \* loaded_
    rom,      \* rom_data_ of the device, or NoImage before there is one.
    started   \* The CPU has been reset to begin in the PROM.

promVars == <<image, loaded, rom, started>>

PROMTypeOK ==
    /\ image \in Files \union {NoImage} /\ rom \in Files \union {NoImage}
    /\ loaded \in BOOLEAN /\ started \in BOOLEAN

PROMInit ==
    /\ image = NoImage /\ loaded = FALSE
    /\ rom = NoImage /\ started = FALSE

(* PROMImage::parse_shdr_sections: bad headers are passed over. *)
Sections(file) ==
    {i \in DOMAIN file.headers : file.headers[i] \in SectionKinds}

(* PROMImage::load. What parse_elf finds is only shown to the user. *)
Loads(file) == file.size = "whole" /\ Sections(file) # {}

(* The loadable section that map_to_memory looks for has to have the name. *)
Preloads(file) == \E i \in Sections(file) : file.headers[i] = "firmware"

(* Mutant of MapToMemory: a device that is there already keeps its data. *)
MapToMemoryOnce(file) == rom' = IF rom = NoImage THEN file ELSE rom

(* map_to_memory, without the preloading: the device is made or updated. *)
MapToMemory(file) == rom' = file

(* PROM::load_image. A file that does not load leaves the device as it is, *)
(* and loaded_, which execute and reset then find without an image.        *)
LoadImage(file) ==
    /\ Loads(file)
    /\ image' = file /\ loaded' = TRUE
    /\ MapToMemory(file)
    /\ UNCHANGED started

LoadFails(file) ==
    /\ ~Loads(file)
    /\ image' = NoImage
    /\ UNCHANGED <<loaded, rom, started>>

(* PROM::execute, by execute_bootstrap and init_cpu_for_prom: the CPU      *)
(* begins at the reset vector, wherever the image says its entry is.       *)
Execute ==
    /\ loaded /\ image # NoImage
    /\ started' = TRUE
    /\ UNCHANGED <<image, loaded, rom>>

(* PROM::reset *)
ResetPROM ==
    /\ loaded /\ image # NoImage
    /\ MapToMemory(image)
    /\ started' = TRUE
    /\ UNCHANGED <<image, loaded>>

PROMNext ==
    \/ \E file \in Files : LoadImage(file) \/ LoadFails(file)
    \/ Execute \/ ResetPROM

PROMSpec == PROMInit /\ [][PROMNext]_promVars

(* PROMDevice::read32 and its like: zeros follow the data. *)
RomWord(inData) == IF inData THEN rom ELSE "zero"

-----------------------------------------------------------------------------
(* The ROM shows the image that was loaded last, also when one was loaded  *)
(* before it, and the CPU is only started into a ROM that shows one.       *)
RomIsImage ==
    /\ image # NoImage => loaded /\ Loads(image) /\ rom = image
    /\ started => rom # NoImage
    /\ loaded <=> rom # NoImage
=============================================================================

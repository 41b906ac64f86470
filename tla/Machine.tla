-------------------------------- MODULE Machine --------------------------------
(***************************************************************************)
(* The life cycle of the emulated machine in the main window               *)
(* (gui/mainwindow.cpp).  The window owns the machine's parts, the widgets *)
(* hold plain pointers to some of them, and the handlers of its menus      *)
(* build, stop, pause, reset, save, load and reconfigure the machine       *)
(* between two turns of the emulation loop.  A handler is one step: while  *)
(* a dialog of its is open only the loop can run.                          *)
(*                                                                         *)
(* A pointer is the identity of the machine the part was made for; stale   *)
(* pointers keep it after the part is gone.  The parts of a machine are    *)
(* made in one handler, so an identity stands for all of them.             *)
(***************************************************************************)
EXTENDS Integers, FiniteSets

CONSTANTS
    Machines,  \* Identities; one that something still points to is not reused.
    Types,     \* CPUType
    Sizes,     \* Memory sizes.
    Targets,   \* SCSI targets: 0 to 6 in the source.
    Images,    \* Paths of media images.
    OnDisk,    \* Those that name a regular file.
    None       \* nullptr, the empty path, and no file.

ASSUME DiskAssumption == OnDisk \subseteq Images

(* What initializeEmulator makes. The standalone engines outlive onStop;   *)
(* the rest is what it resets. The audio output is host I/O and left out,  *)
(* and so is mre_: it is the address of an MRE that Memory never makes, a  *)
(* null pointer that every user tests first.                               *)
Kept == {"engines"}
Cleared == {"cpu", "memory", "bus", "prom", "gbe", "mace", "ps2", "scsi"}
Parts == Kept \union Cleared

(* What the widgets are given: FramebufferWidget's other pointers and      *)
(* DebuggerWidget's two.                                                   *)
Links == {"memory", "gbe", "ps2", "cpu", "debuggerCpu", "debuggerMemory"}

Media == [Targets -> Images \union {None}]
Attachable == [Targets -> OnDisk \union {None}]

(* The settings: cpu_type_, ram_mb_, scsi_images_, network_config_.        *)
Configs == [type : Types, ram : Sizes, images : Media, network : BOOLEAN]

(* A machine: the configuration it has, where its core is and what its     *)
(* memory holds.                                                           *)
Progress == {"reset", "ran"}
Hardware == [type : Types, ram : Sizes, media : Attachable, ethernet : BOOLEAN,
             core : Progress, memory : Progress]

(* What a state file is there to bring back.                               *)
Essences == [type : Types, ram : Sizes, media : Attachable, memory : Progress]
Essence(hw) ==
    [type |-> hw.type, ram |-> hw.ram, media |-> hw.media, memory |-> hw.memory]

(* A state file: the settings' CPU and memory size, the machine's memory   *)
(* size and contents, the images. A write that fails is not noticed and    *)
(* cuts the file short; what is missing then reads as zero or empty. of is *)
(* auxiliary: the machine in a whole file that was saved when it was as    *)
(* the settings describe it.                                               *)
Files == [type : Types, ram : Sizes, size : Sizes \union {0}, images : Media,
          memory : Progress, of : Essences \union {None}]

ASSUME NoneAssumption ==
    /\ None \notin Machines
    /\ None \notin Images
    /\ None \notin Hardware
    /\ None \notin Files

VARIABLES
    part,     \* The window's pointers.
    link,     \* The widgets' pointers.
    running,  \* running_
    ticking,  \* emulation_timer_ is active.
    loaded,   \* loaded_ of the loader's PROM.
    hw,       \* The machine itself.
    cfg,      \* The settings.
    file,     \* The state file on disk.
    crashed,  \* A widget used a part that was gone, and the process died.
    stale     \* Auxiliary: a settings dialog left with an error has changed
              \* the settings of a machine that was not told.

window == <<part, link, running, ticking, loaded>>
disk == <<cfg, file>>
vars == <<window, hw, disk, crashed, stale>>

TypeOK ==
    /\ part \in [Parts -> Machines \union {None}]
    /\ link \in [Links -> Machines \union {None}]
    /\ running \in BOOLEAN /\ ticking \in BOOLEAN /\ loaded \in BOOLEAN
    /\ hw \in Hardware \union {None}
    /\ cfg \in Configs
    /\ file \in Files \union {None}
    /\ crashed \in BOOLEAN
    /\ stale \in BOOLEAN

-----------------------------------------------------------------------------
(* The window as it is constructed. Settings come from QSettings and the   *)
(* command line; images they name may have been moved since.               *)
Init ==
    /\ part = [p \in Parts |-> None]
    /\ link = [l \in Links |-> None]
    /\ running = FALSE /\ ticking = FALSE /\ loaded = FALSE
    /\ hw = None
    /\ cfg \in Configs
    /\ file = None
    /\ crashed = FALSE
    /\ stale = FALSE

HasCpu == part["cpu"] # None

(* A widget's pointer that leads to the machine, and one to what is gone.  *)
Live(l) == link[l] # None /\ link[l] = part["cpu"]
Dangling(l) == link[l] # None /\ link[l] # part["cpu"]

Unused ==
    Machines \ ({part[p] : p \in Parts} \union {link[l] : l \in Links})

(* Mutant of Attached: a path that is no file is attached as well. *)
AttachedUnchecked(images) == images

(* updateSlotConfiguration: SCSIController::attach_device leaves the       *)
(* target empty when the path is no file.                                  *)
Attached(images) == [t \in Targets |-> IF images[t] \in OnDisk
                                       THEN images[t] ELSE None]

(* applyNetworkConfiguration: not when a host network has the addresses.   *)
Ethernet(c) == {FALSE, c.network}

(* The machines that settings c may give. *)
NewHardware(c) ==
    {[type |-> c.type, ram |-> c.ram, media |-> Attached(c.images),
      ethernet |-> ethernet, core |-> "reset", memory |-> "reset"] :
         ethernet \in Ethernet(c)}

(* Mutant of Build: the widgets are connected before the PROM is loaded. *)
BuildConnectsFirst(wasRunning, wasTicking) ==
    \E m \in Unused, prom \in BOOLEAN :
        /\ part' = [p \in Parts |-> m]
        /\ loaded' = prom
        /\ link' = [l \in Links |-> m]
        /\ running' = (wasRunning \/ prom)
        /\ ticking' = (wasTicking \/ prom)

(* initializeEmulator, apart from the machine itself. Without a PROM it    *)
(* returns before the widgets are connected and the timer is started.      *)
Build(wasRunning, wasTicking) ==
    \E m \in Unused, prom \in BOOLEAN :
        /\ part' = [p \in Parts |-> m]
        /\ loaded' = prom
        /\ link' = IF prom THEN [l \in Links |-> m] ELSE link
        /\ running' = (wasRunning \/ prom)
        /\ ticking' = (wasTicking \/ prom)

(* Reading through a dangling pointer ends the process, or goes unnoticed. *)
MayCrash(used) ==
    crashed' \in IF \E l \in used : Dangling(l)' THEN BOOLEAN ELSE {FALSE}

-----------------------------------------------------------------------------
(* The slots *)

(* onStart: builds a machine, or resumes the one there is.                 *)
Start ==
    /\ \/ /\ ~HasCpu
          /\ Build(running, ticking)
          /\ hw' \in NewHardware(cfg)
          /\ stale' = FALSE
       \/ /\ HasCpu /\ ~running
          /\ running' = TRUE /\ ticking' = TRUE
          /\ UNCHANGED <<part, link, loaded, hw, stale>>
    /\ UNCHANGED <<disk, crashed>>

Pause ==
    /\ running
    /\ running' = FALSE /\ ticking' = FALSE
    /\ UNCHANGED <<part, link, loaded, hw, disk, crashed, stale>>

(* Mutant of Stop: the SCSI controller is not forgotten. *)
StopKeepsScsi ==
    /\ running' = FALSE /\ ticking' = FALSE
    /\ part' = [p \in Parts |->
                   IF p \in Cleared \ {"scsi"} THEN None ELSE part[p]]
    /\ loaded' = FALSE
    /\ hw' = None
    /\ stale' = FALSE
    /\ UNCHANGED <<link, disk, crashed>>

(* onStop and shutdownEmulator. The widgets' clear() blanks what they show *)
(* and leaves their pointers.                                              *)
Stop ==
    /\ running' = FALSE /\ ticking' = FALSE
    /\ part' = [p \in Parts |-> IF p \in Cleared THEN None ELSE part[p]]
    /\ loaded' = FALSE
    /\ hw' = None
    /\ stale' = FALSE
    /\ UNCHANGED <<link, disk, crashed>>

(* onStop, which halts the machine there is, and a new one for settings c. *)
Restart(c) ==
    /\ Build(FALSE, FALSE)
    /\ hw' \in NewHardware(c)
    /\ stale' = FALSE

(* onReset: the core alone starts again; PROM::execute does the same once  *)
(* more if the image was loaded.                                           *)
Reset ==
    /\ HasCpu
    /\ hw' = [hw EXCEPT !.core = "reset"]
    /\ UNCHANGED <<window, disk, crashed, stale>>

(* What the core does when it is given cycles. *)
Work == hw' = [hw EXCEPT !.core = "ran", !.memory = "ran"]

(* onStep and onRunCycles; the loop need not run. *)
Step ==
    /\ HasCpu
    /\ Work
    /\ UNCHANGED <<window, disk, crashed, stale>>

(* emulationLoop, the timeout of emulation_timer_. It draws what the       *)
(* widgets have, and updates the debugger when that is visible.            *)
Loop ==
    /\ ticking
    /\ HasCpu /\ running
    /\ Work
    /\ UNCHANGED <<window, disk, stale>>
    /\ MayCrash({"memory", "gbe", "debuggerCpu", "debuggerMemory"})

(* A key, the mouse, or a button of the debugger, whose onStep gives its   *)
(* core a cycle.                                                           *)
WidgetEvent ==
    /\ UNCHANGED <<window, disk, stale>>
    /\ \E l \in {"ps2", "debuggerCpu", "debuggerMemory"} :
        /\ link[l] # None
        /\ \/ UNCHANGED hw
           \/ l = "debuggerCpu" /\ Live(l) /\ Work
        /\ MayCrash({l})

(* onOpenProm with another image, in a machine that runs. Otherwise only   *)
(* the path changes, and the next machine reads the new one.               *)
OpenProm ==
    /\ running
    /\ Restart(cfg)
    /\ UNCHANGED <<disk, crashed>>

(* onOpenDisk and attachMedia: a path that is no file is turned down.      *)
OpenDisk ==
    /\ \E t \in Targets, i \in OnDisk :
        /\ cfg' = [cfg EXCEPT !.images = [@ EXCEPT ![t] = i]]
        /\ hw' = IF HasCpu THEN [hw EXCEPT !.media = [@ EXCEPT ![t] = i]] ELSE hw
    /\ UNCHANGED <<window, file, crashed, stale>>

(* The three ways out of onSettings with new settings c. An invalid        *)
(* network address or mask is reported after the settings have changed,    *)
(* and the machine is left as it was.                                      *)
SettingsRefused(c) ==
    /\ stale' = (stale \/ (HasCpu /\ c # cfg))
    /\ UNCHANGED <<window, hw>>

(* Another CPU or memory size than the settings had: a new machine.        *)
SettingsRestart(c) ==
    /\ HasCpu /\ (c.type # cfg.type \/ c.ram # cfg.ram)
    /\ Restart(c)

(* The machine there is gets the media and the network switch.             *)
Reconfigure(c) ==
    IF HasCpu
    THEN \E ethernet \in Ethernet(c) :
             hw' = [hw EXCEPT !.media = Attached(c.images), !.ethernet = ethernet]
    ELSE UNCHANGED hw

(* Mutant of SettingsApplied: onSettings compares its values with settings *)
(* it has already overwritten, and never restarts.                         *)
SettingsAppliedAlways(c) ==
    /\ Reconfigure(c)
    /\ UNCHANGED <<window, stale>>

(* Otherwise there is no new machine. *)
SettingsApplied(c) ==
    /\ HasCpu => c.type = cfg.type /\ c.ram = cfg.ram
    /\ Reconfigure(c)
    /\ UNCHANGED <<window, stale>>

(* onSettings, accepted. Typed images that are no files are cleared. *)
Settings ==
    /\ \E t \in Types, r \in Sizes, images \in Attachable, network \in BOOLEAN :
        LET c == [type |-> t, ram |-> r, images |-> images, network |-> network]
        IN  /\ cfg' = c
            /\ SettingsRefused(c) \/ SettingsRestart(c) \/ SettingsApplied(c)
    /\ UNCHANGED <<file, crashed>>

(* What a save leaves on disk; one cut within its header is no state file. *)
Saved(memory, images, size, of) ==
    [type |-> cfg.type, ram |-> cfg.ram, size |-> size, images |-> images,
     memory |-> memory, of |-> of]

NoMedia == [t \in Targets |-> None]

(* onSaveState. The core's state is written too, but see Restored. *)
Save ==
    /\ HasCpu
    /\ file' \in
         {None,
          Saved("reset", NoMedia, 0, None),
          Saved("ran", NoMedia, hw.ram, None),
          Saved(hw.memory, cfg.images, hw.ram,
                IF stale THEN None ELSE Essence(hw))}
    /\ UNCHANGED <<window, hw, cfg, crashed, stale>>

(* Mutant of Restored: the drives are not told of the images in the file. *)
RestoredNoMedia(h) == [h EXCEPT !.memory = file.memory]

(* What the file makes of a new machine h. Registers are read into the     *)
(* copy that the adapter's state() hands out: the core stays where reset   *)
(* has put it.                                                             *)
Restored(h) ==
    [h EXCEPT !.memory = file.memory, !.media = Attached(file.images)]

(* onLoadState. The machine is replaced as soon as the header is read, and *)
(* kept as new when the memory sizes differ. The widget is redrawn at the  *)
(* end, also when it is connected to an older machine.                     *)
Load ==
    /\ file # None
    /\ Build(FALSE, FALSE)
    /\ LET c == [cfg EXCEPT !.type = file.type, !.ram = file.ram]
       IN  \E h \in NewHardware(c) :
             \/ /\ file.size = h.ram
                /\ hw' = Restored(h)
                /\ cfg' = [c EXCEPT !.images = file.images]
                /\ MayCrash({"memory", "gbe"})
             \/ /\ file.size # h.ram
                /\ hw' = h
                /\ cfg' = c
                /\ crashed' = FALSE
    /\ stale' = FALSE
    /\ UNCHANGED file

(* closeEvent, ~MainWindow and the next launch, with the settings from     *)
(* QSettings.                                                              *)
Close ==
    /\ part' = [p \in Parts |-> None]
    /\ link' = [l \in Links |-> None]
    /\ running' = FALSE /\ ticking' = FALSE /\ loaded' = FALSE
    /\ hw' = None
    /\ stale' = FALSE
    /\ UNCHANGED <<disk, crashed>>

Next ==
    /\ ~crashed
    /\ \/ Start \/ Pause \/ Stop \/ Reset \/ Step \/ Loop \/ WidgetEvent
       \/ OpenProm \/ OpenDisk \/ Settings \/ Save \/ Load \/ Close

Spec == Init /\ [][Next]_vars

-----------------------------------------------------------------------------
(* The window never mixes the parts of two machines, and its loop has one  *)
(* to run: the handlers that build one have cleared all of the old one,    *)
(* also after a PROM that did not load.                                    *)
OneMachine ==
    /\ \A p \in Cleared : part[p] = part["cpu"]
    /\ HasCpu => part["engines"] = part["cpu"]
    /\ running = ticking
    /\ running => HasCpu

(* The widgets are connected to the machine exactly when its PROM loaded.  *)
(* Of a machine without one they show another, or what is left of it.      *)
WidgetsFollowProm ==
    HasCpu => \A l \in Links : Live(l) <=> loaded

(* The machine is the one the settings describe, unless a settings dialog  *)
(* was left with an error since it was built (onSettings returns early).   *)
ConfigApplied ==
    HasCpu /\ ~stale =>
        /\ hw.type = cfg.type
        /\ hw.ram = cfg.ram
        /\ hw.media = Attached(cfg.images)
        /\ hw.ethernet => cfg.network

(* Loading a whole file that was saved from a machine as its settings      *)
(* describe it gives that machine back: its configuration, its memory, its *)
(* media. (Not its registers: onLoadState writes them to a copy.)          *)
LoadRestores ==
    [][Load /\ file.of # None => Essence(hw') = file.of]_vars

(* docs/prom.md: "The PROM is the first code the emulator must execute".   *)
PromFirst == running => loaded
=============================================================================

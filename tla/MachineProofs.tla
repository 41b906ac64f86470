----------------------------- MODULE MachineProofs -----------------------------
(***************************************************************************)
(* What holds of the main window's machine for all CPU types, memory       *)
(* sizes, targets and images: its parts belong together, it is the machine *)
(* the settings describe, and a state file gives it back.                  *)
(***************************************************************************)
EXTENDS Machine, TLAPS

(* There is hardware exactly when there is a core. *)
HardwareHasCpu == HasCpu <=> hw # None

(* A whole file holds what it is to bring back. *)
FileWhole ==
    file # None /\ file.of # None =>
        /\ file.type = file.of.type /\ file.ram = file.of.ram
        /\ file.size = file.of.ram /\ file.memory = file.of.memory
        /\ Attached(file.images) = file.of.media

(* The part of the invariant that is about the pointers. *)
Wired == OneMachine /\ WidgetsFollowProm

IInv == TypeOK /\ Wired /\ HardwareHasCpu /\ ConfigApplied /\ FileWhole

-----------------------------------------------------------------------------
LEMMA AttachedType == \A images \in Media : Attached(images) \in Attachable
    BY DEF Attached, Attachable, Media

LEMMA AttachedSame ==
    ASSUME NEW images \in Attachable
    PROVE  images \in Media /\ Attached(images) = images
<1>1. images \in Media
    BY DiskAssumption DEF Attachable, Media
<1>2. \A t \in Targets :
          (IF images[t] \in OnDisk THEN images[t] ELSE None) = images[t]
    BY DEF Attachable
<1>3. Attached(images) = [t \in Targets |-> images[t]]
    BY <1>2 DEF Attached
<1> QED
    BY <1>1, <1>3 DEF Attachable

LEMMA AttachOne ==
    ASSUME NEW images \in Media, NEW t \in Targets, NEW i \in OnDisk
    PROVE  /\ [images EXCEPT ![t] = i] \in Media
           /\ Attached([images EXCEPT ![t] = i])
                = [Attached(images) EXCEPT ![t] = i]
    BY DiskAssumption DEF Attached, Media

(* What a machine for settings c is. *)
LEMMA NewHardwareFacts ==
    ASSUME NEW c \in Configs, NEW h \in NewHardware(c)
    PROVE  /\ h \in Hardware
           /\ h.type = c.type /\ h.ram = c.ram
           /\ h.media = Attached(c.images)
           /\ h.ethernet => c.network
<1>1. PICK ethernet \in {FALSE, c.network} :
        h = [type |-> c.type, ram |-> c.ram, media |-> Attached(c.images),
             ethernet |-> ethernet, core |-> "reset", memory |-> "reset"]
    BY DEF NewHardware, Ethernet
<1>2. /\ c.type \in Types /\ c.ram \in Sizes
      /\ c.images \in Media /\ c.network \in BOOLEAN
    BY DEF Configs
<1>3. ethernet \in BOOLEAN /\ (ethernet => c.network)
    BY <1>1, <1>2
<1> QED
    BY <1>1, <1>2, <1>3, AttachedType DEF Hardware, Progress

(* Build leaves one machine behind, in whatever state the window was. *)
LEMMA BuildWired ==
    ASSUME TypeOK, NEW was \in BOOLEAN, was = FALSE, Build(was, was)
    PROVE  /\ part' \in [Parts -> Machines \union {None}]
           /\ link' \in [Links -> Machines \union {None}]
           /\ running' \in BOOLEAN /\ ticking' \in BOOLEAN /\ loaded' \in BOOLEAN
           /\ Wired'
           /\ HasCpu'
<1>1. PICK m \in Unused, prom \in BOOLEAN :
        /\ part' = [p \in Parts |-> m]
        /\ loaded' = prom
        /\ link' = IF prom THEN [l \in Links |-> m] ELSE link
        /\ running' = (was \/ prom)
        /\ ticking' = (was \/ prom)
    BY DEF Build
<1>2. m \in Machines /\ m # None /\ \A l \in Links : link[l] # m
    BY NoneAssumption DEF Unused
<1>3. \A p \in Parts : part'[p] = m
    BY <1>1
<1>4. Cleared \subseteq Parts /\ "cpu" \in Parts /\ "engines" \in Parts
    BY DEF Parts, Cleared, Kept
<1>5. part'["cpu"] = m
    BY <1>3, <1>4
<1>6. OneMachine'
    BY <1>1, <1>2, <1>3, <1>4, <1>5 DEF OneMachine, HasCpu
<1>7. \A l \in Links : link'[l] = m <=> loaded'
    BY <1>1, <1>2
<1>8. WidgetsFollowProm'
    BY <1>2, <1>5, <1>7 DEF WidgetsFollowProm, Live
<1>9. link' \in [Links -> Machines \union {None}]
    BY <1>1, <1>2 DEF TypeOK
<1>10. part' \in [Parts -> Machines \union {None}]
    BY <1>1, <1>2
<1>11. running' \in BOOLEAN /\ ticking' \in BOOLEAN /\ loaded' \in BOOLEAN
    BY <1>1
<1> QED
    BY <1>2, <1>5, <1>6, <1>8, <1>9, <1>10, <1>11 DEF Wired, HasCpu

(* A new machine for the settings there are agrees with them. *)
LEMMA NewAgrees ==
    ASSUME cfg' \in Configs, hw' \in NewHardware(cfg'), HasCpu'
    PROVE  hw' \in Hardware /\ HardwareHasCpu' /\ ConfigApplied'
BY NewHardwareFacts, NoneAssumption DEF HardwareHasCpu, ConfigApplied, HasCpu

(* What does not touch the window and its machine leaves them in order. *)
LEMMA WindowKept ==
    ASSUME UNCHANGED window
    PROVE  /\ Wired => Wired'
           /\ HasCpu' <=> HasCpu
BY DEF window, Wired, OneMachine, WidgetsFollowProm, HasCpu, Live

LEMMA FileKept == FileWhole /\ UNCHANGED file => FileWhole'
BY DEF FileWhole, Attached

LEMMA MayCrashType == ASSUME NEW used, MayCrash(used) PROVE crashed' \in BOOLEAN
BY DEF MayCrash

-----------------------------------------------------------------------------
LEMMA InitInv == Init => IInv
<1> SUFFICES ASSUME Init PROVE IInv
    OBVIOUS
<1>1. \A p \in Parts : part[p] = None
    BY DEF Init
<1>2. Cleared \subseteq Parts /\ "cpu" \in Parts
    BY DEF Parts, Cleared
<1>3. ~HasCpu
    BY <1>1, <1>2 DEF HasCpu
<1>4. TypeOK
    BY DEF Init, TypeOK
<1>5. Wired
    BY <1>1, <1>2, <1>3 DEF Init, Wired, OneMachine, WidgetsFollowProm
<1> QED
    BY <1>3, <1>4, <1>5
       DEF Init, IInv, HardwareHasCpu, ConfigApplied, FileWhole

LEMMA StartInv == IInv /\ Start => IInv'
<1> SUFFICES ASSUME IInv, Start PROVE IInv'
    OBVIOUS
<1>0. TypeOK /\ Wired /\ HardwareHasCpu /\ ConfigApplied /\ FileWhole
      /\ UNCHANGED disk /\ UNCHANGED crashed
    BY DEF IInv, Start
<1>1. cfg' \in Configs /\ file' \in Files \union {None}
      /\ crashed' \in BOOLEAN /\ FileWhole'
    BY <1>0, FileKept DEF TypeOK, disk
<1>2. CASE ~HasCpu
  <2>1. running = FALSE /\ ticking = FALSE
      BY <1>0, <1>2 DEF Wired, OneMachine, TypeOK
  <2>2. Build(running, ticking) /\ hw' \in NewHardware(cfg) /\ stale' = FALSE
      BY <1>2 DEF Start
  <2>3. Build(FALSE, FALSE) /\ hw' \in NewHardware(cfg')
      BY <2>1, <2>2, <1>0 DEF disk
  <2>4. Wired' /\ HasCpu'
        /\ part' \in [Parts -> Machines \union {None}]
        /\ link' \in [Links -> Machines \union {None}]
        /\ running' \in BOOLEAN /\ ticking' \in BOOLEAN /\ loaded' \in BOOLEAN
      BY <2>3, <1>0, BuildWired
  <2>5. hw' \in Hardware /\ HardwareHasCpu' /\ ConfigApplied'
      BY <2>3, <2>4, <1>1, NewAgrees
  <2> QED
      BY <1>1, <2>2, <2>4, <2>5 DEF IInv, TypeOK
<1>3. CASE HasCpu
  <2>1. running' = TRUE /\ ticking' = TRUE
        /\ UNCHANGED <<part, link, loaded, hw, stale>>
      BY <1>3 DEF Start
  <2>2. TypeOK'
      BY <2>1, <1>0, <1>1 DEF TypeOK
  <2>3. Wired'
      BY <2>1, <1>0, <1>3 DEF Wired, OneMachine, WidgetsFollowProm, Live, HasCpu
  <2> QED
      BY <2>1, <2>2, <2>3, <1>0, <1>1
         DEF IInv, HardwareHasCpu, ConfigApplied, HasCpu, Attached, disk
<1> QED
    BY <1>2, <1>3

(* onStop is followed by onStart, or by what onLoadState does.             *)
LEMMA RestartInv ==
    ASSUME IInv, Build(FALSE, FALSE), hw' \in NewHardware(cfg'),
           cfg' \in Configs, crashed' \in BOOLEAN, stale' = FALSE,
           UNCHANGED file
    PROVE  IInv'
<1>1. TypeOK /\ FileWhole
    BY DEF IInv
<1>2. Wired' /\ HasCpu'
      /\ part' \in [Parts -> Machines \union {None}]
      /\ link' \in [Links -> Machines \union {None}]
      /\ running' \in BOOLEAN /\ ticking' \in BOOLEAN /\ loaded' \in BOOLEAN
    BY <1>1, BuildWired
<1>3. hw' \in Hardware /\ HardwareHasCpu' /\ ConfigApplied'
    BY <1>2, NewAgrees
<1>4. TypeOK'
    BY <1>1, <1>2, <1>3 DEF TypeOK
<1> QED
    BY <1>1, <1>2, <1>3, <1>4, FileKept DEF IInv

LEMMA PauseInv == IInv /\ Pause => IInv'
<1> SUFFICES ASSUME IInv, Pause PROVE IInv'
    OBVIOUS
<1>0. TypeOK /\ Wired /\ HardwareHasCpu /\ ConfigApplied /\ FileWhole
    BY DEF IInv
<1>1. running' = FALSE /\ ticking' = FALSE
      /\ UNCHANGED <<part, link, loaded, hw, cfg, file, crashed, stale>>
    BY DEF Pause, disk
<1>2. TypeOK'
    BY <1>0, <1>1 DEF TypeOK
<1>3. Wired'
    BY <1>0, <1>1 DEF Wired, OneMachine, WidgetsFollowProm, Live, HasCpu
<1> QED
    BY <1>0, <1>1, <1>2, <1>3, FileKept
       DEF IInv, HardwareHasCpu, ConfigApplied, HasCpu, Attached

(* Without a core the rest of the window's pointers is gone as well. *)
LEMMA NoMachine ==
    ASSUME \A p \in Cleared : part'[p] = None, running' = FALSE,
           ticking' = FALSE, hw' = None
    PROVE  Wired' /\ HardwareHasCpu' /\ ConfigApplied'
<1>1. "cpu" \in Cleared
    BY DEF Cleared
<1>2. part'["cpu"] = None
    BY <1>1
<1> QED
    BY <1>2 DEF Wired, OneMachine, WidgetsFollowProm, HardwareHasCpu,
                ConfigApplied, HasCpu

LEMMA StopInv == IInv /\ Stop => IInv'
<1> SUFFICES ASSUME IInv, Stop PROVE IInv'
    OBVIOUS
<1>0. TypeOK /\ FileWhole
    BY DEF IInv
<1>1. /\ running' = FALSE /\ ticking' = FALSE /\ loaded' = FALSE
      /\ part' = [p \in Parts |-> IF p \in Cleared THEN None ELSE part[p]]
      /\ hw' = None /\ stale' = FALSE
      /\ UNCHANGED <<link, cfg, file, crashed>>
    BY DEF Stop, disk
<1>2. Cleared \subseteq Parts
    BY DEF Parts
<1>3. part' \in [Parts -> Machines \union {None}]
    BY <1>0, <1>1 DEF TypeOK
<1>4. TypeOK'
    BY <1>0, <1>1, <1>3 DEF TypeOK
<1>5. \A p \in Cleared : part'[p] = None
    BY <1>1, <1>2
<1> QED
    BY <1>0, <1>1, <1>4, <1>5, NoMachine, FileKept DEF IInv

LEMMA CloseInv == IInv /\ Close => IInv'
<1> SUFFICES ASSUME IInv, Close PROVE IInv'
    OBVIOUS
<1>0. TypeOK /\ FileWhole
    BY DEF IInv
<1>1. /\ running' = FALSE /\ ticking' = FALSE /\ loaded' = FALSE
      /\ part' = [p \in Parts |-> None] /\ link' = [l \in Links |-> None]
      /\ hw' = None /\ stale' = FALSE
      /\ UNCHANGED <<cfg, file, crashed>>
    BY DEF Close, disk
<1>2. \A p \in Cleared : part'[p] = None
    BY <1>1 DEF Parts
<1>3. TypeOK'
    BY <1>0, <1>1 DEF TypeOK
<1> QED
    BY <1>0, <1>1, <1>2, <1>3, NoMachine, FileKept DEF IInv

(* The core moves; the machine keeps its configuration.                    *)
LEMMA CoreMoves ==
    ASSUME IInv, HasCpu, NEW core \in Progress, NEW memory \in Progress,
           hw' = [hw EXCEPT !.core = core, !.memory = memory],
           UNCHANGED <<window, disk, stale>>, crashed' \in BOOLEAN
    PROVE  IInv'
<1>0. TypeOK /\ Wired /\ HardwareHasCpu /\ ConfigApplied /\ FileWhole
    BY DEF IInv
<1>1. hw \in Hardware
    BY <1>0 DEF HardwareHasCpu, TypeOK
<1>2. /\ hw' \in Hardware
      /\ hw'.type = hw.type /\ hw'.ram = hw.ram /\ hw'.media = hw.media
      /\ hw'.ethernet = hw.ethernet
    BY <1>1 DEF Hardware
<1>3. TypeOK'
    BY <1>0, <1>2 DEF TypeOK, window, disk
<1>4. Wired' /\ HasCpu' /\ UNCHANGED file
    BY <1>0, WindowKept DEF disk
<1>5. HardwareHasCpu' /\ ConfigApplied'
    BY <1>0, <1>2, <1>4, NoneAssumption
       DEF HardwareHasCpu, ConfigApplied, HasCpu, disk
<1> QED
    BY <1>0, <1>3, <1>4, <1>5, FileKept DEF IInv

LEMMA UnchangedInv ==
    ASSUME IInv, UNCHANGED <<window, hw, disk, stale>>, crashed' \in BOOLEAN
    PROVE  IInv'
<1>0. TypeOK /\ Wired /\ HardwareHasCpu /\ ConfigApplied /\ FileWhole
    BY DEF IInv
<1>1. TypeOK'
    BY <1>0 DEF TypeOK, window, disk
<1>2. Wired' /\ (HasCpu' <=> HasCpu) /\ UNCHANGED file
    BY <1>0, WindowKept DEF disk
<1>3. HardwareHasCpu' /\ ConfigApplied'
    BY <1>0, <1>2 DEF HardwareHasCpu, ConfigApplied, disk, Attached
<1> QED
    BY <1>0, <1>1, <1>2, <1>3, FileKept DEF IInv

LEMMA ResetInv == IInv /\ Reset => IInv'
<1> SUFFICES ASSUME IInv, Reset PROVE IInv'
    OBVIOUS
<1>1. hw \in Hardware /\ crashed \in BOOLEAN
    BY DEF IInv, Reset, HardwareHasCpu, TypeOK
<1>2. hw.memory \in Progress /\ "reset" \in Progress
    BY <1>1 DEF Hardware, Progress
<1>3. hw' = [hw EXCEPT !.core = "reset", !.memory = hw.memory]
    BY <1>1 DEF Reset, Hardware
<1> QED
    BY <1>1, <1>2, <1>3, CoreMoves DEF Reset

(* A turn of the loop, a step, a widget's event.                           *)
LEMMA RunInv == IInv /\ (Step \/ Loop \/ WidgetEvent) => IInv'
<1> SUFFICES ASSUME IInv, Step \/ Loop \/ WidgetEvent PROVE IInv'
    OBVIOUS
<1>1. "ran" \in Progress /\ crashed \in BOOLEAN
    BY DEF Progress, IInv, TypeOK
<1>2. CASE Step
    BY <1>1, <1>2, CoreMoves DEF Step, Work
<1>3. CASE Loop
  <2>1. crashed' \in BOOLEAN
      BY <1>3, MayCrashType DEF Loop
  <2> QED
      BY <1>1, <1>3, <2>1, CoreMoves DEF Loop, Work
<1>4. CASE WidgetEvent
  <2>1. PICK l \in {"ps2", "debuggerCpu", "debuggerMemory"} :
            /\ link[l] # None
            /\ UNCHANGED hw \/ (Live(l) /\ Work)
            /\ MayCrash({l})
      BY <1>4 DEF WidgetEvent
  <2>2. crashed' \in BOOLEAN /\ UNCHANGED <<window, disk, stale>>
      BY <1>4, <2>1, MayCrashType DEF WidgetEvent
  <2>3. CASE UNCHANGED hw
      BY <2>2, <2>3, UnchangedInv
  <2>4. CASE Live(l) /\ Work
    <3>1. HasCpu
        BY <2>1, <2>4 DEF Live, HasCpu
    <3> QED
        BY <1>1, <2>2, <2>4, <3>1, CoreMoves DEF Work
  <2> QED
      BY <2>1, <2>3, <2>4
<1> QED
    BY <1>2, <1>3, <1>4

LEMMA OpenPromInv == IInv /\ OpenProm => IInv'
<1> SUFFICES ASSUME IInv, OpenProm PROVE IInv'
    OBVIOUS
<1>1. cfg' = cfg /\ file' = file /\ crashed' = crashed /\ stale' = FALSE
      /\ Build(FALSE, FALSE) /\ hw' \in NewHardware(cfg)
    BY DEF OpenProm, Restart, disk
<1>2. cfg' \in Configs /\ crashed' \in BOOLEAN
    BY <1>1 DEF IInv, TypeOK
<1> QED
    BY <1>1, <1>2, RestartInv

(* A machine whose media and network change with the settings.             *)
LEMMA ReconfiguredInv ==
    ASSUME IInv, HasCpu, NEW media \in Attachable, NEW ethernet \in BOOLEAN,
           hw' = [hw EXCEPT !.media = media, !.ethernet = ethernet],
           cfg' \in Configs, cfg'.type = cfg.type, cfg'.ram = cfg.ram,
           ~stale => media = Attached(cfg'.images),
           ~stale => (ethernet => cfg'.network),
           UNCHANGED <<window, file, crashed, stale>>
    PROVE  IInv'
<1>0. TypeOK /\ Wired /\ HardwareHasCpu /\ ConfigApplied /\ FileWhole
    BY DEF IInv
<1>1. hw \in Hardware
    BY <1>0 DEF HardwareHasCpu, TypeOK
<1>2. /\ hw' \in Hardware
      /\ hw'.type = hw.type /\ hw'.ram = hw.ram
      /\ hw'.media = media /\ hw'.ethernet = ethernet
    BY <1>1 DEF Hardware
<1>3. TypeOK'
    BY <1>0, <1>2 DEF TypeOK, window
<1>4. Wired' /\ HasCpu'
    BY <1>0, WindowKept
<1>5. HardwareHasCpu' /\ ConfigApplied'
    BY <1>0, <1>2, <1>4, NoneAssumption DEF HardwareHasCpu, ConfigApplied
<1> QED
    BY <1>0, <1>3, <1>4, <1>5, FileKept DEF IInv

(* Settings may change freely while there is no machine.                   *)
LEMMA NoMachineInv ==
    ASSUME IInv, ~HasCpu, cfg' \in Configs, stale' \in BOOLEAN,
           UNCHANGED <<window, hw, file, crashed>>
    PROVE  IInv'
<1>0. TypeOK /\ Wired /\ HardwareHasCpu /\ FileWhole
    BY DEF IInv
<1>1. TypeOK'
    BY <1>0 DEF TypeOK, window
<1>2. Wired' /\ ~HasCpu'
    BY <1>0, WindowKept
<1> QED
    BY <1>0, <1>1, <1>2, FileKept DEF IInv, HardwareHasCpu, ConfigApplied

LEMMA OpenDiskInv == IInv /\ OpenDisk => IInv'
<1> SUFFICES ASSUME IInv, OpenDisk PROVE IInv'
    OBVIOUS
<1>0. TypeOK /\ HardwareHasCpu /\ ConfigApplied
    BY DEF IInv
<1>1. PICK t \in Targets, i \in OnDisk :
        /\ cfg' = [cfg EXCEPT !.images = [@ EXCEPT ![t] = i]]
        /\ hw' = IF HasCpu THEN [hw EXCEPT !.media = [@ EXCEPT ![t] = i]] ELSE hw
    BY DEF OpenDisk
<1>2. UNCHANGED <<window, file, crashed, stale>>
    BY DEF OpenDisk
<1>3. cfg \in Configs /\ cfg.images \in Media
    BY <1>0 DEF TypeOK, Configs
<1>4. /\ [cfg.images EXCEPT ![t] = i] \in Media
      /\ Attached([cfg.images EXCEPT ![t] = i])
           = [Attached(cfg.images) EXCEPT ![t] = i]
    BY <1>3, AttachOne
<1>5. /\ cfg' \in Configs
      /\ cfg'.type = cfg.type /\ cfg'.ram = cfg.ram
      /\ cfg'.network = cfg.network
      /\ cfg'.images = [cfg.images EXCEPT ![t] = i]
    BY <1>1, <1>3, <1>4 DEF Configs
<1>6. CASE ~HasCpu
    BY <1>0, <1>1, <1>2, <1>5, <1>6, NoMachineInv DEF TypeOK
<1>7. CASE HasCpu
  <2>1. hw \in Hardware
      BY <1>0, <1>7 DEF HardwareHasCpu, TypeOK
  <2>2. hw.ethernet \in BOOLEAN /\ [hw.media EXCEPT ![t] = i] \in Attachable
      BY <2>1 DEF Hardware, Attachable
  <2>3. hw' = [hw EXCEPT !.media = [hw.media EXCEPT ![t] = i],
                         !.ethernet = hw.ethernet]
      BY <1>1, <1>7, <2>1 DEF Hardware
  <2>4. ~stale => /\ hw.media = Attached(cfg.images)
                  /\ hw.ethernet => cfg.network
      BY <1>0, <1>7 DEF ConfigApplied
  <2>5. ~stale => [hw.media EXCEPT ![t] = i] = Attached(cfg'.images)
      BY <2>4, <1>4, <1>5
  <2> QED
      BY <1>2, <1>5, <1>7, <2>2, <2>3, <2>4, <2>5, ReconfiguredInv
<1> QED
    BY <1>6, <1>7

LEMMA SettingsInv == IInv /\ Settings => IInv'
<1> SUFFICES ASSUME IInv, Settings PROVE IInv'
    OBVIOUS
<1>0. TypeOK /\ Wired /\ HardwareHasCpu /\ ConfigApplied /\ FileWhole
    BY DEF IInv
<1>1. PICK t \in Types, r \in Sizes, images \in Attachable, network \in BOOLEAN :
        LET c == [type |-> t, ram |-> r, images |-> images, network |-> network]
        IN  /\ cfg' = c
            /\ SettingsRefused(c) \/ SettingsRestart(c) \/ SettingsApplied(c)
    BY DEF Settings
<1>2. UNCHANGED <<file, crashed>>
    BY DEF Settings
<1>3. /\ cfg' = [type |-> t, ram |-> r, images |-> images, network |-> network]
      /\ SettingsRefused(cfg') \/ SettingsRestart(cfg') \/ SettingsApplied(cfg')
    BY <1>1
<1>4. images \in Media
    BY AttachedSame
<1>5. /\ cfg' \in Configs
      /\ cfg'.images \in Attachable /\ cfg'.images \in Media
      /\ cfg'.network \in BOOLEAN
      /\ Attached(cfg'.images) \in Attachable
    BY <1>3, <1>4, AttachedType DEF Configs
<1>6. CASE SettingsRefused(cfg')
  <2>1. /\ stale' = (stale \/ (HasCpu /\ cfg' # cfg))
        /\ UNCHANGED <<window, hw>>
      BY <1>6 DEF SettingsRefused
  <2>2. stale' \in BOOLEAN
      BY <2>1, <1>0 DEF TypeOK, HasCpu
  <2>3. TypeOK'
      BY <2>1, <2>2, <1>0, <1>2, <1>5 DEF TypeOK, window
  <2>4. Wired' /\ (HasCpu' <=> HasCpu)
      BY <2>1, <1>0, WindowKept
  <2>5. HardwareHasCpu'
      BY <2>1, <2>4, <1>0 DEF HardwareHasCpu
  <2>6. ConfigApplied'
    <3>1. CASE HasCpu /\ cfg' # cfg
        BY <2>1, <2>4, <3>1 DEF ConfigApplied
    <3>2. CASE HasCpu /\ cfg' = cfg
        BY <2>1, <2>4, <3>2, <1>0 DEF ConfigApplied, Attached
    <3>3. CASE ~HasCpu
        BY <2>4, <3>3 DEF ConfigApplied
    <3> QED
        BY <3>1, <3>2, <3>3
  <2> QED
      BY <2>3, <2>4, <2>5, <2>6, <1>0, <1>2, FileKept DEF IInv
<1>7. CASE SettingsRestart(cfg')
  <2>1. Build(FALSE, FALSE) /\ hw' \in NewHardware(cfg') /\ stale' = FALSE
      BY <1>7 DEF SettingsRestart, Restart
  <2> QED
      BY <2>1, <1>0, <1>2, <1>5, RestartInv DEF TypeOK
<1>8. CASE SettingsApplied(cfg')
  <2>1. UNCHANGED <<window, stale>> /\ stale' \in BOOLEAN
      BY <1>8, <1>0 DEF SettingsApplied, TypeOK
  <2>2. CASE ~HasCpu
    <3>1. UNCHANGED hw
        BY <1>8, <2>2 DEF SettingsApplied, Reconfigure
    <3> QED
        BY <2>1, <2>2, <3>1, <1>2, <1>5, NoMachineInv
  <2>3. CASE HasCpu
    <3>1. PICK ethernet \in {FALSE, cfg'.network} :
            hw' = [hw EXCEPT !.media = Attached(cfg'.images),
                             !.ethernet = ethernet]
        BY <1>8, <2>3 DEF SettingsApplied, Reconfigure, Ethernet
    <3>2. cfg'.type = cfg.type /\ cfg'.ram = cfg.ram
        BY <1>8, <2>3 DEF SettingsApplied
    <3>3. ethernet \in BOOLEAN /\ (ethernet => cfg'.network)
        BY <3>1, <1>5
    <3> QED
        BY <2>1, <2>3, <3>1, <3>2, <3>3, <1>2, <1>5, ReconfiguredInv
  <2> QED
      BY <2>2, <2>3
<1> QED
    BY <1>3, <1>6, <1>7, <1>8

LEMMA SaveInv == IInv /\ Save => IInv'
<1> SUFFICES ASSUME IInv, Save PROVE IInv'
    OBVIOUS
<1>0. TypeOK /\ Wired /\ HardwareHasCpu /\ ConfigApplied /\ FileWhole
    BY DEF IInv
<1>1. HasCpu /\ UNCHANGED <<window, hw, cfg, crashed, stale>>
    BY DEF Save
<1>2. hw \in Hardware /\ cfg \in Configs
    BY <1>0, <1>1 DEF HardwareHasCpu, TypeOK
<1>3. /\ hw.type \in Types /\ hw.ram \in Sizes /\ hw.memory \in Progress
      /\ hw.media \in Attachable
    BY <1>2 DEF Hardware
<1>4. /\ cfg.type \in Types /\ cfg.ram \in Sizes /\ cfg.images \in Media
    BY <1>2 DEF Configs
<1>5. Essence(hw) \in Essences
    BY <1>3 DEF Essence, Essences
<1>6. NoMedia \in Media
    BY DEF NoMedia, Media
<1>7. file' \in Files \union {None} /\ FileWhole'
  <2>1. CASE file' = None
      BY <2>1 DEF FileWhole
  <2>2. CASE file' = Saved("reset", NoMedia, 0, None)
      BY <2>2, <1>4, <1>6 DEF Saved, Files, FileWhole, Progress
  <2>3. CASE file' = Saved("ran", NoMedia, hw.ram, None)
      BY <2>3, <1>3, <1>4, <1>6 DEF Saved, Files, FileWhole, Progress
  <2>4. CASE file' = Saved(hw.memory, cfg.images, hw.ram,
                           IF stale THEN None ELSE Essence(hw))
    <3>1. file' \in Files
        BY <2>4, <1>3, <1>4, <1>5 DEF Saved, Files
    <3>2. /\ file'.type = cfg.type /\ file'.ram = cfg.ram
          /\ file'.size = hw.ram /\ file'.memory = hw.memory
          /\ file'.images = cfg.images
          /\ file'.of = IF stale THEN None ELSE Essence(hw)
        BY <2>4 DEF Saved
    <3>3. CASE stale
        BY <3>1, <3>2, <3>3 DEF FileWhole
    <3>4. CASE ~stale
      <4>1. /\ file'.of.type = hw.type /\ file'.of.ram = hw.ram
            /\ file'.of.memory = hw.memory /\ file'.of.media = hw.media
          BY <3>2, <3>4 DEF Essence
      <4>2. /\ hw.type = cfg.type /\ hw.ram = cfg.ram
            /\ hw.media = Attached(cfg.images)
          BY <3>4, <1>0, <1>1 DEF ConfigApplied
      <4> QED
          BY <3>1, <3>2, <4>1, <4>2 DEF FileWhole, Attached
    <3> QED
        BY <3>3, <3>4
  <2> QED
      BY <2>1, <2>2, <2>3, <2>4 DEF Save
<1>8. TypeOK'
    BY <1>0, <1>1, <1>7 DEF TypeOK, window
<1>9. Wired' /\ HasCpu'
    BY <1>0, <1>1, WindowKept
<1>10. HardwareHasCpu' /\ ConfigApplied'
    BY <1>0, <1>1, <1>9 DEF HardwareHasCpu, ConfigApplied, Attached
<1> QED
    BY <1>7, <1>8, <1>9, <1>10 DEF IInv

(* A load makes a machine for the settings it leaves. *)
LEMMA LoadMakes ==
    ASSUME TypeOK, Load
    PROVE  /\ Build(FALSE, FALSE)
           /\ file \in Files
           /\ stale' = FALSE /\ UNCHANGED file /\ crashed' \in BOOLEAN
           /\ cfg' \in Configs
           /\ hw' \in Hardware
           /\ hw'.type = cfg'.type /\ hw'.ram = cfg'.ram
           /\ hw'.media = Attached(cfg'.images)
           /\ hw'.ethernet => cfg'.network
           /\ cfg'.type = file.type /\ cfg'.ram = file.ram
           /\ file.size = file.ram => /\ hw'.memory = file.memory
                                      /\ cfg'.images = file.images
<1> DEFINE c == [cfg EXCEPT !.type = file.type, !.ram = file.ram]
<1>1. /\ Build(FALSE, FALSE) /\ stale' = FALSE /\ UNCHANGED file
      /\ file \in Files /\ cfg \in Configs
    BY DEF Load, TypeOK
<1>2. PICK h \in NewHardware(c) :
        \/ /\ file.size = h.ram
           /\ hw' = Restored(h)
           /\ cfg' = [c EXCEPT !.images = file.images]
           /\ MayCrash({"memory", "gbe"})
        \/ /\ file.size # h.ram
           /\ hw' = h
           /\ cfg' = c
           /\ crashed' = FALSE
    BY DEF Load
<1>3. /\ file.type \in Types /\ file.ram \in Sizes /\ file.images \in Media
      /\ file.memory \in Progress
    BY <1>1 DEF Files
<1>4. /\ c \in Configs /\ c.type = file.type /\ c.ram = file.ram
    BY <1>1, <1>3 DEF Configs
<1>5. /\ h \in Hardware
      /\ h.type = c.type /\ h.ram = c.ram
      /\ h.media = Attached(c.images)
      /\ h.ethernet => c.network
    BY <1>4, NewHardwareFacts
<1> HIDE DEF c
<1>6. CASE file.size = h.ram
  <2>1. hw' = [h EXCEPT !.memory = file.memory,
                        !.media = Attached(file.images)]
      BY <1>2, <1>6 DEF Restored
  <2>2. cfg' = [c EXCEPT !.images = file.images] /\ crashed' \in BOOLEAN
      BY <1>2, <1>6, MayCrashType
  <2>3. Attached(file.images) \in Attachable
      BY <1>3, AttachedType
  <2>4. /\ hw' \in Hardware
        /\ hw'.type = h.type /\ hw'.ram = h.ram /\ hw'.ethernet = h.ethernet
        /\ hw'.memory = file.memory /\ hw'.media = Attached(file.images)
      BY <1>3, <1>5, <2>1, <2>3 DEF Hardware
  <2>5. /\ cfg' \in Configs
        /\ cfg'.type = c.type /\ cfg'.ram = c.ram /\ cfg'.network = c.network
        /\ cfg'.images = file.images
      BY <1>3, <1>4, <2>2 DEF Configs
  <2> QED
      BY <1>1, <1>4, <1>5, <2>2, <2>4, <2>5
<1>7. CASE file.size # h.ram
    BY <1>1, <1>2, <1>4, <1>5, <1>7
<1> QED
    BY <1>6, <1>7

LEMMA LoadInv == IInv /\ Load => IInv'
<1> SUFFICES ASSUME IInv, Load PROVE IInv'
    OBVIOUS
<1>0. TypeOK /\ FileWhole
    BY DEF IInv
<1>1. /\ Build(FALSE, FALSE) /\ file \in Files
      /\ stale' = FALSE /\ UNCHANGED file /\ crashed' \in BOOLEAN
      /\ cfg' \in Configs /\ hw' \in Hardware
      /\ hw'.type = cfg'.type /\ hw'.ram = cfg'.ram
      /\ hw'.media = Attached(cfg'.images)
      /\ hw'.ethernet => cfg'.network
    BY <1>0, LoadMakes
<1>2. Wired' /\ HasCpu'
      /\ part' \in [Parts -> Machines \union {None}]
      /\ link' \in [Links -> Machines \union {None}]
      /\ running' \in BOOLEAN /\ ticking' \in BOOLEAN /\ loaded' \in BOOLEAN
    BY <1>0, <1>1, BuildWired
<1>3. HardwareHasCpu' /\ ConfigApplied'
    BY <1>1, <1>2, NoneAssumption DEF HardwareHasCpu, ConfigApplied
<1>4. TypeOK'
    BY <1>0, <1>1, <1>2 DEF TypeOK
<1> QED
    BY <1>0, <1>1, <1>2, <1>3, <1>4, FileKept DEF IInv

-----------------------------------------------------------------------------
LEMMA StepInv == IInv /\ [Next]_vars => IInv'
<1> SUFFICES ASSUME IInv, [Next]_vars PROVE IInv'
    OBVIOUS
<1>1. CASE Next
    BY <1>1, StartInv, PauseInv, StopInv, ResetInv, RunInv, OpenPromInv,
       OpenDiskInv, SettingsInv, SaveInv, LoadInv, CloseInv DEF Next
<1>2. CASE UNCHANGED vars
    BY <1>2, UnchangedInv DEF vars, IInv, TypeOK
<1> QED
    BY <1>1, <1>2

LEMMA Inductive == Spec => []IInv
<1> QED
    BY InitInv, StepInv, PTL DEF Spec

(* The window never mixes the parts of two machines, the emulation loop    *)
(* runs only with one, and the widgets are connected to it exactly when    *)
(* its PROM loaded (initializeEmulator, onStop, onStart).                  *)
THEOREM PartsBelongTogether ==
    Spec => [](TypeOK /\ OneMachine /\ WidgetsFollowProm)
<1>1. IInv => TypeOK /\ OneMachine /\ WidgetsFollowProm
    BY DEF IInv, Wired
<1> QED
    BY <1>1, Inductive, PTL

(* The window's parts, its settings and the state file keep their types.   *)
THEOREM MachineTypeCorrect == Spec => []TypeOK
<1>1. IInv => TypeOK
    BY DEF IInv
<1> QED
    BY <1>1, Inductive, PTL

(* The widgets are connected to the machine exactly when its PROM loaded   *)
(* (initializeEmulator returning early, onStop).                           *)
THEOREM WidgetsAreWired == Spec => []WidgetsFollowProm
<1>1. IInv => WidgetsFollowProm
    BY DEF IInv, Wired
<1> QED
    BY <1>1, Inductive, PTL

(* The machine is the one the settings describe, but for a settings dialog *)
(* that was left with an error (onSettings, onLoadState, attachMedia).     *)
THEOREM SettingsApply == Spec => []ConfigApplied
<1>1. IInv => ConfigApplied
    BY DEF IInv
<1> QED
    BY <1>1, Inductive, PTL

(* A whole state file of a machine that was as its settings describe it    *)
(* gives that machine back (onSaveState, onLoadState).                     *)
THEOREM LoadGivesBack == Spec => LoadRestores
<1>1. ASSUME IInv, Load, file.of # None
      PROVE  Essence(hw') = file.of
  <2>1. /\ file \in Files /\ hw' \in Hardware
        /\ hw'.type = cfg'.type /\ hw'.ram = cfg'.ram
        /\ hw'.media = Attached(cfg'.images)
        /\ cfg'.type = file.type /\ cfg'.ram = file.ram
        /\ file.size = file.ram => /\ hw'.memory = file.memory
                                   /\ cfg'.images = file.images
      BY <1>1, LoadMakes DEF IInv
  <2>2. /\ file.type = file.of.type /\ file.ram = file.of.ram
        /\ file.size = file.of.ram /\ file.memory = file.of.memory
        /\ Attached(file.images) = file.of.media
      BY <1>1, <2>1, NoneAssumption DEF IInv, FileWhole
  <2>3. file.of \in Essences
      BY <1>1, <2>1 DEF Files
  <2>4. /\ hw'.type = file.of.type /\ hw'.ram = file.of.ram
        /\ hw'.memory = file.of.memory /\ hw'.media = file.of.media
      BY <2>1, <2>2
  <2> QED
      BY <2>3, <2>4 DEF Essence, Essences
<1>2. IInv /\ [Next]_vars
        => [Load /\ file.of # None => Essence(hw') = file.of]_vars
    BY <1>1
<1> QED
    BY <1>2, Inductive, PTL DEF Spec, LoadRestores
=============================================================================

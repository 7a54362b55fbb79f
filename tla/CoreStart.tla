----------------------------- MODULE CoreStart -----------------------------
(***************************************************************************)
(* Start-up of the ESP32's two cores by the application (start.c): the PRO  *)
(* CPU (core 0) runs __start and start_cpu and releases the APP CPU (core   *)
(* 1), which runs call_start_cpu1. They synchronise through three flags in  *)
(* .bss, memory that keeps its contents over every reset but power-on.      *)
(***************************************************************************)
EXTENDS Naturals

CONSTANT MaxResets   \* bound: resets in one behaviour

ASSUME CoreAssumption == MaxResets \in Nat

VARIABLES
    \* the build and the chip, which no step changes
    SingleCoreMode, \* CONFIG_ESP_SYSTEM_SINGLE_CORE_MODE
    DisAppCpu,      \* the eFuse of the single-core chip variant
    DebuggerClock,  \* OpenOCD has enabled the APP CPU's clock already
    pro,            \* where the PRO CPU is
    app,            \* where the APP CPU is
    s_cpu_up,       \* [core -> it runs]
    s_cpu_inited,   \* [core -> it is ready for SYS_STARTUP_FN]
    s_resume_cores, \* the APP CPU may enter SYS_STARTUP_FN
    bootAddr,       \* the APP CPU's boot address is call_start_cpu1
    mapped,         \* cores whose flash MMU maps the application
    cacheOn,        \* the APP CPU's flash cache is enabled
    routes,         \* [core -> interrupts that the matrix brings to it]
    resets

system == <<SingleCoreMode, DisAppCpu, DebuggerClock>>
flags == <<s_cpu_up, s_cpu_inited, s_resume_cores>>
vars  == <<system, pro, app, flags, bootAddr, mapped, cacheOn, routes, resets>>

Cores == {0, 1}
ProPcs == {"start", "bss", "up", "other", "addr", "wait_up", "init",
           "cleared", "ready", "wait_inited", "startup", "running"}
AppPcs == {"held",         \* clock gated: it does not execute
           "rom",          \* in ROM, polling its boot address
           "entry", "setup", "cache", "routed", "wait_resume", "running"}

\* An interrupt of MCUboot's, the one for cache errors, and those that
\* SYS_STARTUP_FN allocates.
Interrupts == {"boot", "cache_err", "startup"}

MultiCore == ~SingleCoreMode /\ ~DisAppCpu
AppReset  == IF DebuggerClock THEN "rom" ELSE "held"

ProGoto(from, to) == pro = from /\ pro' = to
AppGoto(from, to) == app = from /\ app' = to

-----------------------------------------------------------------------------
(* The PRO CPU: __start and start_cpu *)

\* map_rom_segments sets the flash MMU of both cores.
MapRomSegments ==
    /\ ProGoto("start", "bss")
    /\ mapped' = Cores
    /\ UNCHANGED <<app, flags, bootAddr, cacheOn, routes, resets>>

\* Mutant: the flags are in a section that is not cleared.
ClearBssSkipsFlags ==
    /\ ProGoto("bss", "up")
    /\ UNCHANGED <<app, flags, bootAddr, mapped, cacheOn, routes,
                   resets>>

ClearBss ==
    /\ ProGoto("bss", "up")
    /\ s_cpu_up' = [c \in Cores |-> FALSE]
    /\ s_cpu_inited' = [c \in Cores |-> FALSE]
    /\ s_resume_cores' = FALSE
    /\ UNCHANGED <<app, bootAddr, mapped, cacheOn, routes, resets>>

ProUp ==
    /\ ProGoto("up", "other")
    /\ s_cpu_up' = IF SingleCoreMode THEN s_cpu_up
                                     ELSE [s_cpu_up EXCEPT ![0] = TRUE]
    /\ UNCHANGED <<app, s_cpu_inited, s_resume_cores, bootAddr, mapped,
                   cacheOn, routes, resets>>

\* A single-core build stops the APP CPU's clock instead of starting it.
StopOtherCore ==
    /\ SingleCoreMode
    /\ ProGoto("other", "init")
    /\ app' = "held"
    /\ UNCHANGED <<flags, bootAddr, mapped, cacheOn, routes, resets>>

\* start_other_core: nothing on the single-core variant ...
SkipOtherCore ==
    /\ ~SingleCoreMode /\ DisAppCpu
    /\ ProGoto("other", "init")
    /\ UNCHANGED <<app, flags, bootAddr, mapped, cacheOn, routes,
                   resets>>

\* Mutant: it is done whatever the build and the chip.
ReleaseOtherCoreAlways ==
    /\ ProGoto("other", "addr")
    /\ cacheOn' = TRUE
    /\ app' = IF app = "held" THEN "rom" ELSE app
    /\ UNCHANGED <<flags, bootAddr, mapped, routes, resets>>

\* ... else it enables the APP CPU's cache and, unless a debugger did so
\* before, clocks and resets the core ...
ReleaseOtherCore ==
    /\ MultiCore
    /\ ProGoto("other", "addr")
    /\ cacheOn' = TRUE
    /\ app' = IF app = "held" THEN "rom" ELSE app
    /\ UNCHANGED <<flags, bootAddr, mapped, routes, resets>>

\* ... tells it where to start ...
SetAppBootAddr ==
    /\ ProGoto("addr", "wait_up")
    /\ bootAddr' = TRUE
    /\ UNCHANGED <<app, flags, mapped, cacheOn, routes, resets>>

\* ... and waits until both cores are up.
ProSeesAllUp ==
    /\ ProGoto("wait_up", "init")
    /\ \A c \in Cores : s_cpu_up[c]
    /\ UNCHANGED <<app, flags, bootAddr, mapped, cacheOn, routes,
                   resets>>

\* Mutant: only the entries of the core that clears.
ClearOwnIntrMatrix ==
    /\ ProGoto("init", "cleared")
    /\ routes' = [routes EXCEPT ![0] = {}]
    /\ UNCHANGED <<app, flags, bootAddr, mapped, cacheOn, resets>>

\* The interrupts of both cores are cleared (a single-core build's: of its
\* one), whatever the APP CPU, which is up, has routed in the meantime.
IntrMatrixClear ==
    /\ ProGoto("init", "cleared")
    /\ routes' = [c \in Cores |-> IF c = 1 /\ SingleCoreMode THEN routes[c]
                                                             ELSE {}]
    /\ UNCHANGED <<app, flags, bootAddr, mapped, cacheOn, resets>>

ProCacheErrInit ==
    /\ ProGoto("cleared", "ready")
    /\ routes' = [routes EXCEPT ![0] = @ \cup {"cache_err"}]
    /\ UNCHANGED <<app, flags, bootAddr, mapped, cacheOn, resets>>

ProInited ==
    /\ ProGoto("ready", "wait_inited")
    /\ s_cpu_inited' = IF SingleCoreMode THEN s_cpu_inited
                                         ELSE [s_cpu_inited EXCEPT ![0] = TRUE]
    /\ UNCHANGED <<app, s_cpu_up, s_resume_cores, bootAddr, mapped, cacheOn,
                   routes, resets>>

\* Mutants: it does not wait; a single-core build waits, too.
ProDoesNotWait ==
    /\ ProGoto("wait_inited", "startup")
    /\ UNCHANGED <<app, flags, bootAddr, mapped, cacheOn, routes,
                   resets>>

ProAlwaysWaits ==
    /\ ProGoto("wait_inited", "startup")
    /\ \A c \in Cores : s_cpu_inited[c]
    /\ UNCHANGED <<app, flags, bootAddr, mapped, cacheOn, routes,
                   resets>>

\* The wait for both cores, which a single-core build does not contain.
ProSeesAllInited ==
    /\ ProGoto("wait_inited", "startup")
    /\ SingleCoreMode \/ \A c \in Cores : s_cpu_inited[c]
    /\ UNCHANGED <<app, flags, bootAddr, mapped, cacheOn, routes,
                   resets>>

\* SYS_STARTUP_FN initialises the system and calls startup_resume_other_cores.
StartupResumeOtherCores ==
    /\ ProGoto("startup", "running")
    /\ s_resume_cores' = ~SingleCoreMode
    /\ routes' = [routes EXCEPT ![0] = @ \cup {"startup"}]
    /\ UNCHANGED <<app, s_cpu_up, s_cpu_inited, bootAddr, mapped, cacheOn,
                   resets>>

-----------------------------------------------------------------------------
(* The APP CPU: call_start_cpu1 *)

\* The ROM jumps to the boot address once there is one.
AppLeavesRom ==
    /\ AppGoto("rom", "entry")
    /\ bootAddr
    /\ UNCHANGED <<pro, flags, bootAddr, mapped, cacheOn, routes, resets>>

AppClearsBootAddr ==
    /\ AppGoto("entry", "setup")
    /\ bootAddr' = FALSE
    /\ UNCHANGED <<pro, flags, mapped, cacheOn, routes, resets>>

AppUp ==
    /\ AppGoto("setup", "cache")
    /\ s_cpu_up' = [s_cpu_up EXCEPT ![1] = TRUE]
    /\ UNCHANGED <<pro, s_cpu_inited, s_resume_cores, bootAddr, mapped,
                   cacheOn, routes, resets>>

AppCacheErrInit ==
    /\ AppGoto("cache", "routed")
    /\ routes' = [routes EXCEPT ![1] = @ \cup {"cache_err"}]
    /\ UNCHANGED <<pro, flags, bootAddr, mapped, cacheOn, resets>>

AppInited ==
    /\ AppGoto("routed", "wait_resume")
    /\ s_cpu_inited' = [s_cpu_inited EXCEPT ![1] = TRUE]
    /\ UNCHANGED <<pro, s_cpu_up, s_resume_cores, bootAddr, mapped, cacheOn,
                   routes, resets>>

AppResumes ==
    /\ AppGoto("wait_resume", "running")
    /\ s_resume_cores
    /\ routes' = [routes EXCEPT ![1] = @ \cup {"startup"}]
    /\ UNCHANGED <<pro, flags, bootAddr, mapped, cacheOn, resets>>

-----------------------------------------------------------------------------
\* A reset of the chip at any step. The flags keep what they had, and MCUboot
\* leaves interrupts routed or not.
BootRoutes == [Cores -> SUBSET {"boot"}]

Reset ==
    /\ resets < MaxResets
    /\ resets' = resets + 1
    /\ pro' = "start"
    /\ app' = AppReset
    /\ bootAddr' = FALSE
    /\ mapped' = {}
    /\ cacheOn' = FALSE
    /\ routes' \in BootRoutes
    /\ UNCHANGED <<system, flags>>

\* At power-on the flags hold anything.
Init ==
    /\ SingleCoreMode \in BOOLEAN /\ DisAppCpu \in BOOLEAN
    /\ DebuggerClock \in BOOLEAN
    /\ DisAppCpu => ~DebuggerClock
    /\ pro = "start" /\ app = AppReset
    /\ s_cpu_up \in [Cores -> BOOLEAN]
    /\ s_cpu_inited \in [Cores -> BOOLEAN]
    /\ s_resume_cores \in BOOLEAN
    /\ bootAddr = FALSE /\ mapped = {} /\ cacheOn = FALSE
    /\ routes \in BootRoutes
    /\ resets = 0

ProStep ==
    /\ UNCHANGED system
    /\ \/ MapRomSegments \/ ClearBss \/ ProUp
       \/ StopOtherCore \/ SkipOtherCore \/ ReleaseOtherCore
       \/ SetAppBootAddr \/ ProSeesAllUp
       \/ IntrMatrixClear \/ ProCacheErrInit \/ ProInited
       \/ ProSeesAllInited \/ StartupResumeOtherCores

AppStep ==
    /\ UNCHANGED system
    /\ \/ AppLeavesRom \/ AppClearsBootAddr \/ AppUp
       \/ AppCacheErrInit \/ AppInited \/ AppResumes

Next == ProStep \/ AppStep \/ Reset

\* Each core executes by itself.
Spec == Init /\ [][Next]_vars /\ WF_vars(ProStep) /\ WF_vars(AppStep)

-----------------------------------------------------------------------------
TypeOK ==
    /\ SingleCoreMode \in BOOLEAN /\ DisAppCpu \in BOOLEAN
    /\ DebuggerClock \in BOOLEAN
    /\ pro \in ProPcs /\ app \in AppPcs
    /\ s_cpu_up \in [Cores -> BOOLEAN]
    /\ s_cpu_inited \in [Cores -> BOOLEAN]
    /\ s_resume_cores \in BOOLEAN
    /\ bootAddr \in BOOLEAN
    /\ mapped \in SUBSET Cores
    /\ cacheOn \in BOOLEAN
    /\ routes \in [Cores -> SUBSET Interrupts]
    /\ resets \in 0..MaxResets

BssCleared == pro \notin {"start", "bss"}

\* What a core reads in a flag once .bss is cleared was written in this boot
\* and by the core it speaks for: neither left over from before a reset, nor
\* wiped after it was set.
FlagsAreOfThisBoot ==
    BssCleared =>
        /\ s_cpu_up[1]     <=> app \in {"cache", "routed", "wait_resume", "running"}
        /\ s_cpu_inited[1] <=> app \in {"wait_resume", "running"}
        /\ s_resume_cores  <=> pro = "running" /\ ~SingleCoreMode

\* The APP CPU leaves the ROM only with its cache on and the application
\* mapped, and with .bss cleared; in a single-core system it never does.
AppCpuStartsPrepared ==
    app \notin {"held", "rom"} =>
        /\ ~SingleCoreMode /\ ~DisAppCpu
        /\ cacheOn /\ 1 \in mapped /\ BssCleared

\* No core enters SYS_STARTUP_FN before every core is initialised, and the
\* APP CPU not before the PRO CPU says so.
StartupAfterAllInited ==
    /\ pro \in {"startup", "running"} /\ ~SingleCoreMode =>
           app \in {"wait_resume", "running"}
    /\ app = "running" => pro = "running"

\* A core runs SYS_STARTUP_FN without interrupts of MCUboot's, and what that
\* function routes is not cleared any more, though the PRO CPU clears the
\* matrix of both cores while the APP CPU runs. (The cache-error interrupt is
\* certain for the PRO CPU only: the APP CPU's may be set before the clear.)
StartupRoutesKept ==
    /\ pro \in {"startup", "running"} =>
           "cache_err" \in routes[0] /\ "boot" \notin routes[0]
    /\ pro = "running" => "startup" \in routes[0]
    /\ app = "running" => "startup" \in routes[1] /\ "boot" \notin routes[1]

\* Every core that the chip and the build have gets to SYS_STARTUP_FN, but for
\* a build for two cores on the single-core variant.
CoresStart ==
    SingleCoreMode \/ ~DisAppCpu
        => <>[](pro = "running" /\ (~SingleCoreMode => app = "running"))
=============================================================================

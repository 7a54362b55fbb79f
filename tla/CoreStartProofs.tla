-------------------------- MODULE CoreStartProofs --------------------------
(***************************************************************************)
(* Proofs about CoreStart: the flags of the two cores are never those of an *)
(* earlier boot, and no core runs ahead of the other, for every number of   *)
(* resets and every configuration.                                          *)
(***************************************************************************)
EXTENDS CoreStart, TLAPS

\* Until the PRO CPU tells the APP CPU where to start, that core stays where
\* a reset leaves it.
Early == {"start", "bss", "up", "other", "addr"}
Asleep == app \in {"held", "rom"}

\* The APP CPU is woken after its cache and its flash mapping are set up, and
\* only where there is such a core to wake.
WokenLate ==
    /\ pro \in Early => Asleep /\ ~bootAddr
    /\ pro # "start" => mapped = Cores
    /\ pro \in {"addr", "wait_up"} \/ bootAddr \/ ~Asleep =>
           MultiCore /\ cacheOn

\* Once the PRO CPU has cleared the matrix no interrupt of MCUboot's is in it,
\* and the PRO CPU's own one for cache errors comes after that.
Late == {"ready", "wait_inited", "startup", "running"}
RoutesCleared ==
    /\ pro \in Late \cup {"cleared"} =>
           "boot" \notin routes[0] /\ (SingleCoreMode \/ "boot" \notin routes[1])
    /\ pro \in Late => "cache_err" \in routes[0]

\* The inductive invariant.
CoreInv ==
    /\ TypeOK
    /\ WokenLate
    /\ FlagsAreOfThisBoot
    /\ StartupAfterAllInited
    /\ RoutesCleared
    /\ StartupRoutesKept

\* TypeOK in four parts: Booleans and arithmetic go to different provers.
SystemTypes ==
    /\ SingleCoreMode \in BOOLEAN /\ DisAppCpu \in BOOLEAN
    /\ DebuggerClock \in BOOLEAN

FlagTypes ==
    /\ s_cpu_up \in [Cores -> BOOLEAN]
    /\ s_cpu_inited \in [Cores -> BOOLEAN]
    /\ s_resume_cores \in BOOLEAN
    /\ bootAddr \in BOOLEAN
    /\ cacheOn \in BOOLEAN

RouteTypes == routes \in [Cores -> SUBSET Interrupts]

PlaceTypes ==
    /\ pro \in ProPcs /\ app \in AppPcs
    /\ mapped \in SUBSET Cores
    /\ resets \in 0..MaxResets

\* The types in parts that the provers can do one at a time.
LEMMA TypeParts ==
    /\ TypeOK <=> SystemTypes /\ FlagTypes /\ PlaceTypes /\ RouteTypes
    /\ TypeOK' <=> SystemTypes' /\ FlagTypes' /\ PlaceTypes' /\ RouteTypes'
BY DEF TypeOK, SystemTypes, FlagTypes, PlaceTypes, RouteTypes

\* No step changes the build or the chip.
LEMMA SystemStays == [Next]_vars => UNCHANGED system
BY DEF Next, ProStep, AppStep, Reset, vars

\* A reset device, whatever its .bss holds, satisfies the invariant.
LEMMA CoreInit == Init => CoreInv
<1> SUFFICES ASSUME Init PROVE CoreInv
  OBVIOUS
<1>1. FlagTypes /\ SystemTypes
  BY Zenon DEF Init, FlagTypes, SystemTypes
<1>2. PlaceTypes
  BY CoreAssumption DEF Init, PlaceTypes, AppReset, ProPcs, AppPcs, Cores
<1>3. RouteTypes
  BY DEF Init, BootRoutes, RouteTypes, Cores, Interrupts
<1>4. /\ WokenLate /\ FlagsAreOfThisBoot /\ StartupAfterAllInited
      /\ StartupRoutesKept /\ RoutesCleared
  BY DEF Init, WokenLate, FlagsAreOfThisBoot, StartupAfterAllInited, AppReset,
         BssCleared, Early, Asleep, StartupRoutesKept, RoutesCleared, Late
<1> QED  BY <1>1, <1>2, <1>3, <1>4, TypeParts DEF CoreInv

\* The sleeping core's preparation, which every step but Reset only completes.
LEMMA WokenNext ==
    ASSUME WokenLate, [Next]_vars
    PROVE  WokenLate'
<1> UNCHANGED system
  BY SystemStays
<1> USE DEF WokenLate, Early, Asleep, ProGoto, AppGoto, MultiCore, system
<1>1. ASSUME ProStep PROVE WokenLate'
  BY <1>1 DEF ProStep, MapRomSegments, ClearBss, ProUp, StopOtherCore,
     SkipOtherCore, ReleaseOtherCore, SetAppBootAddr, ProSeesAllUp, IntrMatrixClear,
     ProCacheErrInit, ProInited, ProSeesAllInited, StartupResumeOtherCores
<1>2. ASSUME AppStep PROVE WokenLate'
  BY <1>2 DEF AppStep, AppLeavesRom, AppClearsBootAddr, AppUp,
     AppCacheErrInit, AppInited, AppResumes
<1>3. ASSUME Reset PROVE WokenLate'
  BY <1>3 DEF Reset, AppReset
<1>4. ASSUME UNCHANGED vars PROVE WokenLate'
  BY <1>4 DEF vars
<1> QED  BY <1>1, <1>2, <1>3, <1>4 DEF Next

\* Every step keeps the types of the flags ...
LEMMA FlagTypesNext == ASSUME FlagTypes, [Next]_vars PROVE FlagTypes'
<1> USE DEF FlagTypes, flags
<1>1. ASSUME ClearBss PROVE FlagTypes'
  BY <1>1, Zenon DEF ClearBss
<1>2. ASSUME ProUp PROVE FlagTypes'
  BY <1>2, Zenon DEF ProUp, Cores
<1>3. ASSUME ProInited PROVE FlagTypes'
  BY <1>3, Zenon DEF ProInited, Cores
<1>4. ASSUME StartupResumeOtherCores PROVE FlagTypes'
  <2>1. s_resume_cores' \in BOOLEAN
    BY <1>4, Zenon DEF StartupResumeOtherCores
  <2> QED  BY <1>4, <2>1, Zenon DEF StartupResumeOtherCores
<1>5. ASSUME MapRomSegments \/ StopOtherCore \/ SkipOtherCore \/ ReleaseOtherCore
             \/ SetAppBootAddr \/ ProSeesAllUp \/ IntrMatrixClear
             \/ ProCacheErrInit \/ ProSeesAllInited
      PROVE  FlagTypes'
  BY <1>5, Zenon DEF MapRomSegments, StopOtherCore, SkipOtherCore,
     ReleaseOtherCore, SetAppBootAddr, ProSeesAllUp, IntrMatrixClear,
     ProCacheErrInit, ProSeesAllInited
<1>6. ASSUME AppUp \/ AppInited PROVE FlagTypes'
  BY <1>6, Zenon DEF AppUp, AppInited, Cores
<1>7. ASSUME AppLeavesRom \/ AppClearsBootAddr \/ AppCacheErrInit \/ AppResumes
      PROVE  FlagTypes'
  BY <1>7, Zenon DEF AppLeavesRom, AppClearsBootAddr, AppCacheErrInit, AppResumes
<1>8. ASSUME Reset PROVE FlagTypes'
  BY <1>8, Zenon DEF Reset
<1>9. ASSUME UNCHANGED vars PROVE FlagTypes'
  BY <1>9, Zenon DEF vars
<1> QED
  BY <1>1, <1>2, <1>3, <1>4, <1>5, <1>6, <1>7, <1>8, <1>9
  DEF Next, ProStep, AppStep

\* ... of the places of both cores ...
LEMMA PlaceTypesNext == ASSUME PlaceTypes, [Next]_vars PROVE PlaceTypes'
<1> USE DEF PlaceTypes, ProGoto, AppGoto, ProPcs, AppPcs, Cores
<1>1. ASSUME ProStep PROVE PlaceTypes'
  BY <1>1 DEF ProStep, MapRomSegments, ClearBss, ProUp,
     StopOtherCore, SkipOtherCore, ReleaseOtherCore, SetAppBootAddr,
     ProSeesAllUp, IntrMatrixClear, ProCacheErrInit, ProInited,
     ProSeesAllInited, StartupResumeOtherCores
<1>2. ASSUME AppStep PROVE PlaceTypes'
  BY <1>2 DEF AppStep, AppLeavesRom, AppClearsBootAddr, AppUp,
     AppCacheErrInit, AppInited, AppResumes
<1>3. ASSUME Reset PROVE PlaceTypes'
  BY <1>3, CoreAssumption DEF Reset, AppReset
<1>4. ASSUME UNCHANGED vars PROVE PlaceTypes'
  BY <1>4 DEF vars
<1> QED  BY <1>1, <1>2, <1>3, <1>4 DEF Next

\* ... and of the interrupt routes, ...
LEMMA RouteTypesNext == ASSUME RouteTypes, [Next]_vars PROVE RouteTypes'
<1> USE DEF RouteTypes, Cores, Interrupts
<1>1. ASSUME ProStep PROVE RouteTypes'
  BY <1>1 DEF ProStep, MapRomSegments, ClearBss, ProUp,
     StopOtherCore, SkipOtherCore, ReleaseOtherCore, SetAppBootAddr,
     ProSeesAllUp, IntrMatrixClear, ProCacheErrInit, ProInited,
     ProSeesAllInited, StartupResumeOtherCores
<1>2. ASSUME AppStep PROVE RouteTypes'
  BY <1>2 DEF AppStep, AppLeavesRom, AppClearsBootAddr, AppUp,
     AppCacheErrInit, AppInited, AppResumes
<1>3. ASSUME Reset PROVE RouteTypes'
  BY <1>3 DEF Reset, BootRoutes
<1>4. ASSUME UNCHANGED vars PROVE RouteTypes'
  BY <1>4 DEF vars
<1> QED  BY <1>1, <1>2, <1>3, <1>4 DEF Next

\* ... and so all types.
LEMMA TypeNext == ASSUME TypeOK, [Next]_vars PROVE TypeOK'
<1>1. ASSUME SystemTypes PROVE SystemTypes'
  BY <1>1, SystemStays, Zenon DEF SystemTypes, system
<1> QED
  BY <1>1, FlagTypesNext, PlaceTypesNext, RouteTypesNext, TypeParts

\* The flags that a core waits for are cleared before, and set after, it looks.
LEMMA FlagsNext ==
    ASSUME CoreInv, [Next]_vars
    PROVE  FlagsAreOfThisBoot'
<1> UNCHANGED system
  BY SystemStays
<1> USE DEF system, CoreInv, FlagsAreOfThisBoot, BssCleared, ProGoto, AppGoto, Cores
<1>1. ASSUME MapRomSegments \/ ClearBss PROVE FlagsAreOfThisBoot'
  BY <1>1 DEF MapRomSegments, ClearBss, WokenLate, Early, Asleep, flags
<1>2. ASSUME ProUp \/ ProInited PROVE FlagsAreOfThisBoot'
  BY <1>2 DEF ProUp, ProInited, TypeOK
<1>3. ASSUME StopOtherCore \/ ReleaseOtherCore PROVE FlagsAreOfThisBoot'
  BY <1>3 DEF StopOtherCore, ReleaseOtherCore, WokenLate, Early, Asleep, flags
<1>4. ASSUME SkipOtherCore \/ SetAppBootAddr \/ ProSeesAllUp \/ ProSeesAllInited
             \/ IntrMatrixClear \/ ProCacheErrInit
      PROVE  FlagsAreOfThisBoot'
  BY <1>4 DEF SkipOtherCore, SetAppBootAddr, ProSeesAllUp, ProSeesAllInited,
     IntrMatrixClear, ProCacheErrInit, flags
<1>5. ASSUME StartupResumeOtherCores PROVE FlagsAreOfThisBoot'
  BY <1>5 DEF StartupResumeOtherCores
<1>6. ASSUME AppLeavesRom \/ AppClearsBootAddr \/ AppCacheErrInit
      PROVE  FlagsAreOfThisBoot'
  BY <1>6 DEF AppLeavesRom, AppClearsBootAddr, AppCacheErrInit, flags
<1>7. ASSUME AppUp \/ AppInited PROVE FlagsAreOfThisBoot'
  BY <1>7 DEF AppUp, AppInited, TypeOK
<1>8. ASSUME AppResumes PROVE FlagsAreOfThisBoot'
  BY <1>8 DEF AppResumes, flags
<1>9. ASSUME Reset \/ UNCHANGED vars PROVE FlagsAreOfThisBoot'
  BY <1>9 DEF Reset, vars, flags
<1> QED
  BY <1>1, <1>2, <1>3, <1>4, <1>5, <1>6, <1>7, <1>8, <1>9
  DEF Next, ProStep, AppStep

\* No step takes a core into the start-up of the system before all are initialised.
LEMMA StartupNext ==
    ASSUME CoreInv, [Next]_vars
    PROVE  StartupAfterAllInited'
<1> UNCHANGED system
  BY SystemStays
<1> USE DEF system, CoreInv, StartupAfterAllInited, ProGoto, AppGoto
<1>1. ASSUME ProSeesAllInited PROVE StartupAfterAllInited'
  BY <1>1 DEF ProSeesAllInited, FlagsAreOfThisBoot, BssCleared, Cores
<1>2. ASSUME AppResumes PROVE StartupAfterAllInited'
  BY <1>2 DEF AppResumes, FlagsAreOfThisBoot, BssCleared, WokenLate, Early, Asleep
<1>3. ASSUME ProStep, ~ProSeesAllInited PROVE StartupAfterAllInited'
  BY <1>3 DEF ProStep, MapRomSegments, ClearBss, ProUp, StopOtherCore,
     SkipOtherCore, ReleaseOtherCore, SetAppBootAddr, ProSeesAllUp, IntrMatrixClear,
     ProCacheErrInit, ProInited, StartupResumeOtherCores
<1>4. ASSUME AppStep, ~AppResumes PROVE StartupAfterAllInited'
  BY <1>4 DEF AppStep, AppLeavesRom, AppClearsBootAddr, AppUp, AppCacheErrInit,
     AppInited
<1>5. ASSUME Reset \/ UNCHANGED vars PROVE StartupAfterAllInited'
  BY <1>5 DEF Reset, AppReset, vars
<1> QED  BY <1>1, <1>2, <1>3, <1>4, <1>5 DEF Next

\* No step routes an interrupt of MCUboot to a core, nor takes one of its own.
LEMMA RoutesNext ==
    ASSUME CoreInv, [Next]_vars
    PROVE  RoutesCleared' /\ StartupRoutesKept'
<1> UNCHANGED system
  BY SystemStays
<1> USE DEF system, CoreInv, TypeOK, RoutesCleared, StartupRoutesKept, Late, ProGoto,
            AppGoto, Cores
<1>1. ASSUME IntrMatrixClear PROVE RoutesCleared' /\ StartupRoutesKept'
  BY <1>1 DEF IntrMatrixClear, StartupAfterAllInited
<1>2. ASSUME ProCacheErrInit \/ StartupResumeOtherCores
      PROVE  RoutesCleared' /\ StartupRoutesKept'
  BY <1>2 DEF ProCacheErrInit, StartupResumeOtherCores
<1>3. ASSUME AppCacheErrInit PROVE RoutesCleared' /\ StartupRoutesKept'
  BY <1>3 DEF AppCacheErrInit
<1>4. ASSUME AppResumes PROVE RoutesCleared' /\ StartupRoutesKept'
  BY <1>4 DEF AppResumes, FlagsAreOfThisBoot, BssCleared, WokenLate, Early,
     Asleep
<1>5. ASSUME ProStep, UNCHANGED routes PROVE RoutesCleared' /\ StartupRoutesKept'
  BY <1>5 DEF ProStep, MapRomSegments, ClearBss, ProUp, StopOtherCore,
     SkipOtherCore, ReleaseOtherCore, SetAppBootAddr, ProSeesAllUp,
     IntrMatrixClear, ProCacheErrInit, ProInited, ProSeesAllInited,
     StartupResumeOtherCores
<1>6. ASSUME AppStep, ~AppCacheErrInit, ~AppResumes
      PROVE  RoutesCleared' /\ StartupRoutesKept'
  BY <1>6 DEF AppStep, AppLeavesRom, AppClearsBootAddr, AppUp, AppInited
<1>7. ASSUME Reset PROVE RoutesCleared' /\ StartupRoutesKept'
  BY <1>7 DEF Reset, AppReset
<1>8. ASSUME UNCHANGED vars PROVE RoutesCleared' /\ StartupRoutesKept'
  BY <1>8 DEF vars
<1>9. ASSUME MapRomSegments \/ ClearBss \/ ProUp \/ StopOtherCore
             \/ SkipOtherCore \/ ReleaseOtherCore \/ SetAppBootAddr
             \/ ProSeesAllUp \/ ProInited \/ ProSeesAllInited
      PROVE  UNCHANGED routes
  BY <1>9 DEF MapRomSegments, ClearBss, ProUp, StopOtherCore, SkipOtherCore,
     ReleaseOtherCore, SetAppBootAddr, ProSeesAllUp, ProInited, ProSeesAllInited
<1> QED
  BY <1>1, <1>2, <1>3, <1>4, <1>5, <1>6, <1>7, <1>8, <1>9 DEF Next, ProStep

\* The invariant holds, through any number of resets.
LEMMA CoreInvHolds == Spec => []CoreInv
<1>1. CoreInv /\ [Next]_vars => CoreInv'
  BY WokenNext, TypeNext, FlagsNext, StartupNext, RoutesNext DEF CoreInv
<1> QED  BY <1>1, CoreInit, PTL DEF Spec

\* The variables of CoreStart have their types.
THEOREM CoreTypeCorrect == Spec => []TypeOK
BY CoreInvHolds, PTL DEF CoreInv

\* However often the chip is reset, and whatever the memory of the flags held
\* before, a core sees no flag but those of this boot.
THEOREM FlagsNotStale == Spec => []FlagsAreOfThisBoot
BY CoreInvHolds, PTL DEF CoreInv

\* No core runs ahead of the other.
THEOREM StartupInOrder == Spec => []StartupAfterAllInited
BY CoreInvHolds, PTL DEF CoreInv

\* What start-up code routes on either core is not cleared by the other one,
\* and nothing of MCUboot's is left there.
THEOREM RoutesKept == Spec => []StartupRoutesKept
BY CoreInvHolds, PTL DEF CoreInv

\* The APP CPU is released only where it exists, with its cache on, the
\* application mapped for it and .bss cleared.
THEOREM AppCpuPrepared == Spec => []AppCpuStartsPrepared
<1>1. CoreInv => AppCpuStartsPrepared
  BY DEF CoreInv, WokenLate, AppCpuStartsPrepared, MultiCore,
         BssCleared, Early, Asleep, Cores
<1> QED  BY <1>1, CoreInvHolds, PTL
=============================================================================

--------------------------- MODULE BootFlowProofs ---------------------------
(***************************************************************************)
(* Theorems about BootFlow, for every set of images, every classification   *)
(* of them, every watchdog period and swap length, and without bounds on    *)
(* power failures or operations other than that they are natural numbers.   *)
(***************************************************************************)
EXTENDS BootFlowProps, TLAPS

\* The definitions that every step is made of.
USE DEF At, Alive, Goto, Tick, boot_port_wdt_feed, boot_port_wdt_disable,
        flash, results, history, bounds, vars, MaybeImage

\* The assumptions on images and times, as the types need them.
LEMMA ConstantTypes ==
    /\ WdtTicks \in Nat \ {0} /\ SwapSectors \in Nat \ {0}
    /\ WdtEnable \in BOOLEAN
    /\ MaxPowerFails \in Nat /\ MaxOps \in Nat
    /\ Valid \subseteq Images /\ Factory \in Valid
    /\ NoImage \notin Images
BY ImagesAssumption, TimingAssumption

-----------------------------------------------------------------------------
(* Type correctness *)

\* TypeOK in two parts: arithmetic and Booleans go to different provers.
BoolTypes == wdt \in BOOLEAN /\ fih_rc \in BOOLEAN /\ request \in BOOLEAN /\ trialRan \in BOOLEAN

DataTypes ==
    /\ primary \in MaybeImage /\ secondary \in MaybeImage
    /\ prior \in MaybeImage /\ upload \in MaybeImage
    /\ loaded \in MaybeImage /\ mapped \in MaybeImage
    /\ printed \in MaybeImage \cup {ZeroVersion}
    /\ trailer \in Trailers
    /\ swap \in {"none", "test", "revert"} /\ sector \in 0..SwapSectors
    /\ pc \in Pcs /\ timer \in 0..WdtTicks
    /\ rsp \in Slots
    /\ powerFails \in 0..MaxPowerFails /\ ops \in 0..MaxOps

\* The types in two parts: Booleans, and the rest.
LEMMA TypeParts == TypeOK <=> BoolTypes /\ DataTypes
BY DEF TypeOK, BoolTypes, DataTypes

\* The same for the next state.
LEMMA TypePartsPrime == TypeOK' <=> BoolTypes' /\ DataTypes'
BY DEF TypeOK, BoolTypes, DataTypes

\* A new device has the types.
LEMMA TypeInit == Init => TypeOK
<1> SUFFICES ASSUME Init PROVE BoolTypes /\ DataTypes
  BY TypeParts
<1>1. BoolTypes
  BY Zenon DEF Init, BoolTypes
<1>2. DataTypes
  BY ConstantTypes
  DEF Init, DataTypes, Trailers, Pcs, LoaderPcs, AppPcs, StuckPcs, Slots
<1> QED  BY <1>1, <1>2

-----------------------------------------------------------------------------
(* The Booleans *)

\* Every step keeps the types of the Booleans ...
LEMMA BoolNext ==
    ASSUME BoolTypes, Next
    PROVE  BoolTypes'
<1> USE DEF BoolTypes
<1>1. ASSUME BootPortInit PROVE BoolTypes'
  <2>1. WdtEnable \in BOOLEAN
    BY ConstantTypes
  <2> QED  BY <1>1, <2>1, Zenon DEF BootPortInit
<1>2. ASSUME NEW active \in BOOLEAN, DetectBootPin(active) PROVE BoolTypes'
  BY <1>2, Zenon DEF DetectBootPin
<1>3. ASSUME BootGoBegin PROVE BoolTypes'
  BY <1>3, Zenon DEF BootGoBegin
<1>4. ASSUME BootGoSwapSector PROVE BoolTypes'
  BY <1>4, Zenon DEF BootGoSwapSector
<1>5. ASSUME BootGoSwapEnd PROVE BoolTypes'
  BY <1>5, Zenon DEF BootGoSwapEnd
<1>6. ASSUME BootGoValidate PROVE BoolTypes'
  <2>1. fih_rc' \in BOOLEAN
    BY <1>6, SMT DEF BootGoValidate
  <2> QED  BY <1>6, <2>1, Zenon DEF BootGoValidate
<1>7. ASSUME CheckBootGo PROVE BoolTypes'
  BY <1>7, Zenon DEF CheckBootGo
<1>8. ASSUME BootPortStartup PROVE BoolTypes'
  BY <1>8, Zenon DEF BootPortStartup
<1>9. ASSUME AppMapRomSegments PROVE BoolTypes'
  BY <1>9, Zenon DEF AppMapRomSegments
<1>10. ASSUME AppWdtDisable \/ AppStartCpu PROVE BoolTypes'
  BY <1>10, Zenon DEF AppWdtDisable, AppStartCpu
<1>11. ASSUME NEW written \in BOOLEAN, AppConfirm(written) PROVE BoolTypes'
  BY <1>11, Zenon DEF AppConfirm
<1>12. ASSUME NEW opened \in BOOLEAN, AppPrintVersion(opened) PROVE BoolTypes'
  BY <1>12, Zenon DEF AppPrintVersion
<1>13. ASSUME NEW img \in Images,
              SerialUploadBegin(img) \/ FlashUpgrade(img) \/ FlashPrimary(img)
       PROVE  BoolTypes'
  BY <1>13, Zenon DEF SerialUploadBegin, FlashUpgrade, FlashPrimary
<1>14. ASSUME SerialUploadEnd \/ SerialReset PROVE BoolTypes'
  BY <1>14, Zenon DEF SerialUploadEnd, SerialReset, LoseRam
<1>15. ASSUME Wait \/ WdtReset \/ PowerOn \/ PowerFail PROVE BoolTypes'
  BY <1>15, Zenon DEF Wait, WdtReset, PowerOn, PowerFail, LoseRam
<1> QED
  BY <1>1, <1>2, <1>3, <1>4, <1>5, <1>6, <1>7, <1>8, <1>9, <1>10, <1>11, <1>12,
     <1>13, <1>14, <1>15
  DEF Next, Device, BootloaderStep, AppStep, Host

-----------------------------------------------------------------------------
(* Everything else *)

\* ... and of the rest, ...
LEMMA DataNext ==
    ASSUME BoolTypes, DataTypes, Next
    PROVE  DataTypes'
<1> USE ConstantTypes
    DEF BoolTypes, DataTypes, Pcs, LoaderPcs, AppPcs, StuckPcs, Slots, Trailers
<1>1. ASSUME BootPortInit PROVE DataTypes'
  BY <1>1 DEF BootPortInit
<1>2. ASSUME NEW active \in BOOLEAN, DetectBootPin(active) PROVE DataTypes'
  BY <1>2 DEF DetectBootPin
<1>3. ASSUME BootGoBegin PROVE DataTypes'
  <2>1. SwapType \in {"none", "test", "revert"}
    BY DEF SwapType
  <2> QED  BY <1>3, <2>1 DEF BootGoBegin
<1>4. ASSUME BootGoSwapSector PROVE DataTypes'
  BY <1>4 DEF BootGoSwapSector
<1>5. ASSUME BootGoSwapEnd PROVE DataTypes'
  BY <1>5 DEF BootGoSwapEnd
<1>6. ASSUME BootGoValidate PROVE DataTypes'
  BY <1>6 DEF BootGoValidate
<1>7. ASSUME CheckBootGo PROVE DataTypes'
  BY <1>7 DEF CheckBootGo
<1>8. ASSUME BootPortStartup PROVE DataTypes'
  BY <1>8 DEF BootPortStartup, SlotImage
<1>9. ASSUME AppMapRomSegments PROVE DataTypes'
  BY <1>9 DEF AppMapRomSegments
<1>10. ASSUME AppWdtDisable \/ AppStartCpu PROVE DataTypes'
  BY <1>10 DEF AppWdtDisable, AppStartCpu
<1>11. ASSUME NEW written \in BOOLEAN, AppConfirm(written) PROVE DataTypes'
  BY <1>11 DEF AppConfirm, boot_set_confirmed
<1>12. ASSUME NEW opened \in BOOLEAN, AppPrintVersion(opened) PROVE DataTypes'
  BY <1>12 DEF AppPrintVersion, bReadImageHeader
<1>13. ASSUME NEW img \in Images, SerialUploadBegin(img) PROVE DataTypes'
  BY <1>13 DEF SerialUploadBegin
<1>14. ASSUME NEW img \in Images, FlashUpgrade(img) \/ FlashPrimary(img)
       PROVE  DataTypes'
  BY <1>14 DEF FlashUpgrade, FlashPrimary
<1>15. ASSUME SerialUploadEnd \/ SerialReset PROVE DataTypes'
  BY <1>15 DEF SerialUploadEnd, SerialReset, LoseRam
<1>16. ASSUME Wait \/ WdtReset \/ PowerOn \/ PowerFail PROVE DataTypes'
  BY <1>16 DEF Wait, WdtReset, PowerOn, PowerFail, LoseRam
<1> QED
  BY <1>1, <1>2, <1>3, <1>4, <1>5, <1>6, <1>7, <1>8, <1>9, <1>10, <1>11, <1>12,
     <1>13, <1>14, <1>15, <1>16
  DEF Next, Device, BootloaderStep, AppStep, Host

\* ... and so all types.
LEMMA TypeNext == TypeOK /\ [Next]_vars => TypeOK'
<1> SUFFICES ASSUME BoolTypes, DataTypes, [Next]_vars
             PROVE  BoolTypes' /\ DataTypes'
  BY TypeParts, TypePartsPrime
<1>1. CASE Next
  BY <1>1, BoolNext, DataNext
<1>2. CASE UNCHANGED vars
  BY <1>2 DEF BoolTypes, DataTypes
<1> QED  BY <1>1, <1>2

\* Every reachable state of the device is well typed, and no counter leaves
\* its range.
THEOREM TypeCorrect == Spec => []TypeOK
BY TypeInit, TypeNext, PTL DEF Spec

-----------------------------------------------------------------------------
(* What runs was validated *)

\* RunningImageValidated is not inductive: it rests on what boot_go has
\* established by the time main looks at its result, and on nobody writing the
\* primary slot before the loader has read it.
HandOver ==
    /\ pc = "boot_done" => (fih_rc => rsp = "primary" /\ primary \in Valid)
    /\ pc = "checked" => rsp = "primary" /\ primary \in Valid
    /\ pc \in AppPcs \cup {"hung"} => loaded = primary /\ loaded \in Valid
    /\ pc \in AppPcs \ {"start"} => mapped = loaded
    /\ printed \in {NoImage, ZeroVersion, loaded}
    /\ pc # "loop" => printed = NoImage

\* A device without power is not on the way to the application.
LEMMA HandOverInit == Init => HandOver
BY DEF Init, HandOver, AppPcs

\* Every step on that way keeps the slot and the result of boot_go.
LEMMA HandOverNext ==
    ASSUME HandOver, TypeOK, [Next]_vars
    PROVE  HandOver'
<1> USE DEF HandOver, AppPcs
<1>1. ASSUME BootPortInit PROVE HandOver'
  BY <1>1 DEF BootPortInit
<1>2. ASSUME NEW active \in BOOLEAN, DetectBootPin(active) PROVE HandOver'
  BY <1>2 DEF DetectBootPin
<1>3. ASSUME BootGoBegin PROVE HandOver'
  BY <1>3 DEF BootGoBegin
<1>4. ASSUME BootGoSwapSector \/ BootGoSwapEnd PROVE HandOver'
  BY <1>4 DEF BootGoSwapSector, BootGoSwapEnd
<1>5. ASSUME BootGoValidate PROVE HandOver'
  BY <1>5 DEF BootGoValidate
<1>6. ASSUME CheckBootGo PROVE HandOver'
  BY <1>6 DEF CheckBootGo
<1>7. ASSUME BootPortStartup PROVE HandOver'
  BY <1>7 DEF BootPortStartup, SlotImage
<1>8. ASSUME AppMapRomSegments PROVE HandOver'
  BY <1>8 DEF AppMapRomSegments
<1>9. ASSUME AppWdtDisable \/ AppStartCpu PROVE HandOver'
  BY <1>9 DEF AppWdtDisable, AppStartCpu
<1>10. ASSUME NEW written \in BOOLEAN, AppConfirm(written) PROVE HandOver'
  BY <1>10 DEF AppConfirm
<1>11. ASSUME NEW opened \in BOOLEAN, AppPrintVersion(opened) PROVE HandOver'
  BY <1>11 DEF AppPrintVersion, bReadImageHeader
<1>12. ASSUME NEW img \in Images,
              SerialUploadBegin(img) \/ FlashUpgrade(img) \/ FlashPrimary(img)
       PROVE  HandOver'
  BY <1>12 DEF SerialUploadBegin, FlashUpgrade, FlashPrimary
<1>13. ASSUME SerialUploadEnd \/ SerialReset PROVE HandOver'
  BY <1>13 DEF SerialUploadEnd, SerialReset, LoseRam
<1>14. ASSUME Wait \/ WdtReset \/ PowerOn \/ PowerFail PROVE HandOver'
  BY <1>14 DEF Wait, WdtReset, PowerOn, PowerFail, LoseRam
<1>15. ASSUME UNCHANGED vars PROVE HandOver'
  BY <1>15
<1> QED
  BY <1>1, <1>2, <1>3, <1>4, <1>5, <1>6, <1>7, <1>8, <1>9, <1>10, <1>11, <1>12,
     <1>13, <1>14, <1>15
  DEF Next, Device, BootloaderStep, AppStep, Host

\* What boot_go returned is still so until the application runs.
LEMMA HandOverHolds == Spec => []HandOver
BY TypeCorrect, HandOverInit, HandOverNext, PTL DEF Spec

\* Whatever the images, the crashes and the operator's writes: the application
\* that runs is the image of the primary slot, in RAM, in ROM and in what it
\* prints, and it was validated.
THEOREM OnlyValidatedRuns == Spec => []RunningImageValidated
<1>1. HandOver => RunningImageValidated
  BY DEF HandOver, RunningImageValidated, AppPcs
<1> QED  BY <1>1, HandOverHolds, PTL

-----------------------------------------------------------------------------
(* A trial ends with the next boot, and can be undone until then *)

\* Between boot_go's decision and the hand-over, no image is on trial that
\* was started before: boot_go has swapped it out or made it permanent.
TrialFresh ==
    /\ trialRan => trailer = "trial"
    /\ pc \in {"validate", "boot_done", "checked"} => ~trialRan
    /\ upload # NoImage => pc = "serial" /\ trailer = "unset"

\* Every step keeps the state of the trial, and the prior image.
LEMMA TrialNext ==
    ASSUME TrialFresh, PriorImageKept, TypeOK, [Next]_vars
    PROVE  TrialFresh' /\ PriorImageKept'
<1> USE DEF TrialFresh, PriorImageKept
<1>1. ASSUME BootPortInit \/ BootGoSwapSector \/ BootGoValidate \/ CheckBootGo
      PROVE  TrialFresh' /\ PriorImageKept'
  BY <1>1 DEF BootPortInit, BootGoSwapSector, BootGoValidate, CheckBootGo
<1>2. ASSUME NEW active \in BOOLEAN, DetectBootPin(active)
      PROVE  TrialFresh' /\ PriorImageKept'
  BY <1>2 DEF DetectBootPin
<1>3. ASSUME BootGoBegin PROVE TrialFresh' /\ PriorImageKept'
  BY <1>3 DEF BootGoBegin, SwapType, TypeOK
<1>4. ASSUME BootGoSwapEnd PROVE TrialFresh' /\ PriorImageKept'
  BY <1>4 DEF BootGoSwapEnd
<1>5. ASSUME BootPortStartup PROVE TrialFresh' /\ PriorImageKept'
  BY <1>5 DEF BootPortStartup
<1>6. ASSUME AppMapRomSegments \/ AppWdtDisable \/ AppStartCpu
      PROVE  TrialFresh' /\ PriorImageKept'
  BY <1>6 DEF AppMapRomSegments, AppWdtDisable, AppStartCpu
<1>7. ASSUME NEW written \in BOOLEAN, AppConfirm(written)
      PROVE  TrialFresh' /\ PriorImageKept'
  BY <1>7 DEF AppConfirm, boot_set_confirmed
<1>8. ASSUME NEW opened \in BOOLEAN, AppPrintVersion(opened)
      PROVE  TrialFresh' /\ PriorImageKept'
  BY <1>8 DEF AppPrintVersion
<1>9. ASSUME NEW img \in Images,
             SerialUploadBegin(img) \/ FlashUpgrade(img) \/ FlashPrimary(img)
      PROVE  TrialFresh' /\ PriorImageKept'
  BY <1>9 DEF SerialUploadBegin, FlashUpgrade, FlashPrimary
<1>10. ASSUME SerialUploadEnd PROVE TrialFresh' /\ PriorImageKept'
  BY <1>10 DEF SerialUploadEnd
<1>11. ASSUME SerialReset PROVE TrialFresh' /\ PriorImageKept'
  BY <1>11 DEF SerialReset, LoseRam
<1>12. ASSUME Wait \/ WdtReset \/ PowerOn \/ PowerFail
       PROVE  TrialFresh' /\ PriorImageKept'
  BY <1>12 DEF Wait, WdtReset, PowerOn, PowerFail, LoseRam
<1>13. ASSUME UNCHANGED vars PROVE TrialFresh' /\ PriorImageKept'
  BY <1>13
<1> QED
  BY <1>1, <1>2, <1>3, <1>4, <1>5, <1>6, <1>7, <1>8, <1>9, <1>10, <1>11, <1>12,
     <1>13
  DEF Next, Device, BootloaderStep, AppStep, Host

\* No image is on trial at the start.
LEMMA TrialInit == Init => TrialFresh /\ PriorImageKept
BY DEF Init, TrialFresh, PriorImageKept

\* Both hold through all crashes.
LEMMA TrialHolds == Spec => [](TrialFresh /\ PriorImageKept)
<1>1. TrialFresh /\ PriorImageKept /\ TypeOK /\ [Next]_vars
        => (TrialFresh /\ PriorImageKept)'
  BY TrialNext
<1> QED  BY <1>1, TypeCorrect, TrialInit, PTL DEF Spec

\* As long as an image is on trial and nobody wrote a newer upgrade over it,
\* the image to go back to is in the secondary slot, untouched.
THEOREM RollBackPossible == Spec => []PriorImageKept
BY TrialHolds, PTL

\* However often a device is reset, an unconfirmed image gets one boot.
THEOREM OneBootOnTrial == Spec => TrialRunsOnce
<1>1. ASSUME TrialFresh, [Next]_vars
      PROVE  [(pc # "start" /\ pc' = "start")
                 => ~(trailer = "trial" /\ trialRan)]_vars
  <2> SUFFICES ASSUME Next, pc # "start", pc' = "start"
               PROVE  ~trialRan
    BY <1>1
  <2>1. pc = "checked"
    BY DEF Next, Device, BootloaderStep, AppStep, Host, BootPortInit,
           DetectBootPin, BootGoBegin, BootGoSwapSector, BootGoSwapEnd,
           BootGoValidate, CheckBootGo, BootPortStartup, AppMapRomSegments,
           AppWdtDisable, AppStartCpu, AppConfirm, AppPrintVersion, Wait,
           WdtReset, PowerOn, PowerFail, SerialUploadBegin, SerialUploadEnd,
           SerialReset, FlashUpgrade, FlashPrimary
  <2> QED  BY <1>1, <2>1 DEF TrialFresh
<1> QED  BY <1>1, TrialHolds, PTL DEF Spec, TrialRunsOnce

-----------------------------------------------------------------------------
(* The watchdog bites nobody but the stuck *)

\* While the watchdog runs, it leaves the device time enough to get to the
\* next feed: boot_go's swap feeds it with every sector, and __start feeds it
\* before it disables it. A swap that is resumed with all its sectors moved
\* has no feed of its own, which makes the longest way one of eight steps.
TimeEnough ==
    wdt => \/ pc \in StuckPcs
           \/ pc = "detect" /\ timer >= 8
           \/ pc = "boot_go" /\ timer >= 7
           \/ pc = "swapping" /\ timer >= 6
           \/ pc = "validate" /\ timer >= 5
           \/ pc = "boot_done" /\ timer >= 4
           \/ pc = "checked" /\ timer >= 3
           \/ pc = "start" /\ timer >= 2
           \/ pc = "wdt_off" /\ timer >= 1

\* Initially the device is off, and so is its watchdog.
LEMMA TimeInit == Init => TimeEnough
BY DEF Init, TimeEnough

\* One step takes one tick of a watchdog that runs, and starts none.
LEMMA TickTakesOne == Tick => (wdt' => wdt /\ timer' = timer - 1)
BY Zenon

\* Every step leaves time enough for those that follow it.
LEMMA TimeNext ==
    ASSUME WdtTicks >= 8, TimeEnough, TypeOK, [Next]_vars
    PROVE  TimeEnough'
<1> USE ConstantTypes, TickTakesOne DEF TimeEnough, StuckPcs
<1> HIDE DEF Tick
<1>t. timer \in Nat
  BY DEF TypeOK
<1>1. ASSUME BootPortInit PROVE TimeEnough'
  BY <1>1 DEF BootPortInit
<1>2. ASSUME NEW active \in BOOLEAN, DetectBootPin(active) PROVE TimeEnough'
  BY <1>t, <1>2 DEF DetectBootPin
<1>3. ASSUME BootGoBegin PROVE TimeEnough'
  BY <1>t, <1>3 DEF BootGoBegin
<1>4. ASSUME BootGoSwapSector PROVE TimeEnough'
  BY <1>t, <1>4 DEF BootGoSwapSector
<1>5. ASSUME BootGoSwapEnd \/ BootGoValidate PROVE TimeEnough'
  BY <1>t, <1>5 DEF BootGoSwapEnd, BootGoValidate
<1>6. ASSUME CheckBootGo \/ BootPortStartup PROVE TimeEnough'
  BY <1>t, <1>6 DEF CheckBootGo, BootPortStartup
<1>7. ASSUME AppMapRomSegments PROVE TimeEnough'
  BY <1>t, <1>7 DEF AppMapRomSegments
<1>8. ASSUME AppWdtDisable \/ AppStartCpu PROVE TimeEnough'
  BY <1>t, <1>8 DEF AppWdtDisable, AppStartCpu
<1>9. ASSUME NEW written \in BOOLEAN, AppConfirm(written) PROVE TimeEnough'
  BY <1>9 DEF AppConfirm
<1>10. ASSUME NEW opened \in BOOLEAN, AppPrintVersion(opened) PROVE TimeEnough'
  BY <1>10 DEF AppPrintVersion
<1>11. ASSUME NEW img \in Images,
              SerialUploadBegin(img) \/ FlashUpgrade(img) \/ FlashPrimary(img)
       PROVE  TimeEnough'
  BY <1>11 DEF SerialUploadBegin, FlashUpgrade, FlashPrimary
<1>12. ASSUME SerialUploadEnd \/ SerialReset PROVE TimeEnough'
  BY <1>12 DEF SerialUploadEnd, SerialReset, LoseRam
<1>13. ASSUME Wait PROVE TimeEnough'
  BY <1>t, <1>13 DEF Wait, WaitPcs
<1>14. ASSUME WdtReset \/ PowerOn \/ PowerFail PROVE TimeEnough'
  BY <1>14 DEF WdtReset, PowerOn, PowerFail, LoseRam
<1>15. ASSUME UNCHANGED vars PROVE TimeEnough'
  BY <1>15
<1> QED
  BY <1>1, <1>2, <1>3, <1>4, <1>5, <1>6, <1>7, <1>8, <1>9, <1>10, <1>11, <1>12,
     <1>13, <1>14, <1>15
  DEF Next, Device, BootloaderStep, AppStep, Host

\* With a period no shorter than the longest stretch of the boot without a
\* feed, the watchdog resets nothing but a device that is stuck, whatever the
\* length of the swap, the crashes in it and the time an application runs or a
\* serial session takes.
THEOREM OnlyStuckReset == WdtTicks >= 8 => (Spec => WatchdogResetsOnlyStuck)
<1> SUFFICES ASSUME WdtTicks >= 8 PROVE Spec => WatchdogResetsOnlyStuck
  OBVIOUS
<1>1. Spec => []TimeEnough
  <2>1. TimeEnough /\ TypeOK /\ [Next]_vars => TimeEnough'
    BY TimeNext
  <2> QED  BY <2>1, TimeInit, TypeCorrect, PTL DEF Spec
<1>2. TimeEnough => [(wdt /\ timer = 0) => pc \in StuckPcs]_vars
  BY DEF TimeEnough
<1> QED  BY <1>1, <1>2, PTL DEF Spec, WatchdogResetsOnlyStuck

-----------------------------------------------------------------------------
(* The device keeps the promise of ConfirmedBoot *)

\* A swap that has begun is justified until it ends, through every reset:
\* what it brings in validates, and it is what the trailers still ask for.
SwapJustified ==
    /\ swap = "test" => request /\ secondary \in Valid
    /\ swap = "revert" => trailer = "trial" /\ ~request /\ secondary \in Valid
    /\ swap \in {"none", "test", "revert"}
    /\ pc = "swapping" => swap # "none"
    /\ pc \in {"validate", "boot_done", "checked", "hung"} \cup AppPcs =>
           swap = "none"

\* No swap is in progress at the start.
LEMMA SwapInit == Init => SwapJustified
BY DEF Init, SwapJustified, AppPcs

\* Every step keeps a swap that is in progress justified.
LEMMA SwapNext ==
    ASSUME SwapJustified, TrialFresh, [Next]_vars
    PROVE  SwapJustified'
<1> USE DEF SwapJustified, AppPcs
<1>1. ASSUME BootPortInit \/ BootGoSwapSector \/ BootGoValidate \/ CheckBootGo
      PROVE  SwapJustified'
  BY <1>1 DEF BootPortInit, BootGoSwapSector, BootGoValidate, CheckBootGo
<1>2. ASSUME NEW active \in BOOLEAN, DetectBootPin(active) PROVE SwapJustified'
  BY <1>2 DEF DetectBootPin
<1>3. ASSUME BootGoBegin PROVE SwapJustified'
  BY <1>3 DEF BootGoBegin, SwapType
<1>4. ASSUME BootGoSwapEnd \/ BootPortStartup PROVE SwapJustified'
  BY <1>4 DEF BootGoSwapEnd, BootPortStartup
<1>5. ASSUME AppMapRomSegments \/ AppWdtDisable \/ AppStartCpu
      PROVE  SwapJustified'
  BY <1>5 DEF AppMapRomSegments, AppWdtDisable, AppStartCpu
<1>6. ASSUME NEW written \in BOOLEAN, AppConfirm(written) PROVE SwapJustified'
  BY <1>6 DEF AppConfirm
<1>7. ASSUME NEW opened \in BOOLEAN, AppPrintVersion(opened) PROVE SwapJustified'
  BY <1>7 DEF AppPrintVersion
<1>8. ASSUME NEW img \in Images,
             SerialUploadBegin(img) \/ FlashUpgrade(img) \/ FlashPrimary(img)
      PROVE  SwapJustified'
  BY <1>8 DEF SerialUploadBegin, FlashUpgrade, FlashPrimary
<1>9. ASSUME SerialUploadEnd \/ SerialReset PROVE SwapJustified'
  BY <1>9 DEF SerialUploadEnd, SerialReset, TrialFresh
<1>10. ASSUME Wait \/ WdtReset \/ PowerOn \/ PowerFail PROVE SwapJustified'
  BY <1>10 DEF Wait, WdtReset, PowerOn, PowerFail
<1>11. ASSUME UNCHANGED vars PROVE SwapJustified'
  BY <1>11
<1> QED
  BY <1>1, <1>2, <1>3, <1>4, <1>5, <1>6, <1>7, <1>8, <1>9, <1>10, <1>11
  DEF Next, Device, BootloaderStep, AppStep, Host

\* A swap in progress is always justified.
LEMMA SwapHolds == Spec => []SwapJustified
BY SwapInit, SwapNext, TrialHolds, PTL DEF Spec

\* The initial states are those of the promise.
LEMMA AbstractInit == Init => Abstract!Init
BY ConstantTypes DEF Init, Abstract!Init, AppPcs

\* Every step is one of the promise, or leaves what it is about.
LEMMA AbstractNext ==
    ASSUME HandOver, TrialFresh, SwapJustified, TypeOK, [Next]_vars
    PROVE  [Abstract!Next]_(Abstract!vars)
<1> USE DEF AppPcs, Abstract!vars
<1>1. ASSUME BootPortInit \/ BootGoSwapSector \/ BootGoValidate \/ CheckBootGo
      PROVE  UNCHANGED Abstract!vars
  BY <1>1 DEF BootPortInit, BootGoSwapSector, BootGoValidate, CheckBootGo
<1>2. ASSUME NEW active \in BOOLEAN, DetectBootPin(active)
      PROVE  UNCHANGED Abstract!vars
  BY <1>2 DEF DetectBootPin
<1>3. ASSUME BootGoBegin
      PROVE  UNCHANGED Abstract!vars \/ Abstract!Keep
  BY <1>3 DEF BootGoBegin, SwapType, Abstract!Keep, TypeOK
<1>4. ASSUME BootGoSwapEnd
      PROVE  Abstract!Try \/ Abstract!RollBack
  BY <1>4 DEF BootGoSwapEnd, Abstract!Try, Abstract!RollBack, SwapJustified, TypeOK
<1>5. ASSUME BootPortStartup PROVE Abstract!Run
  BY <1>5 DEF BootPortStartup, SlotImage, Abstract!Run, HandOver, TrialFresh
<1>6. ASSUME AppMapRomSegments \/ AppWdtDisable \/ AppStartCpu
      PROVE  UNCHANGED Abstract!vars
  BY <1>6 DEF AppMapRomSegments, AppWdtDisable, AppStartCpu
<1>7. ASSUME NEW written \in BOOLEAN, AppConfirm(written)
      PROVE  UNCHANGED Abstract!vars \/ Abstract!Confirm
  BY <1>7 DEF AppConfirm, boot_set_confirmed, Abstract!Confirm, HandOver,
              TrialFresh, TypeOK
<1>8. ASSUME NEW opened \in BOOLEAN, AppPrintVersion(opened)
      PROVE  UNCHANGED Abstract!vars
  BY <1>8 DEF AppPrintVersion
<1>9. ASSUME NEW img \in Images, SerialUploadBegin(img)
      PROVE  Abstract!Install(NoImage)
  BY <1>9 DEF SerialUploadBegin, Abstract!Install
<1>10. ASSUME NEW img \in Images, FlashUpgrade(img) PROVE Abstract!Stage(img)
  BY <1>10 DEF FlashUpgrade, Abstract!Stage
<1>11. ASSUME NEW img \in Images, FlashPrimary(img) PROVE Abstract!Install(img)
  BY <1>11 DEF FlashPrimary, Abstract!Install
<1>12. ASSUME SerialUploadEnd PROVE Abstract!Install(upload)
  BY <1>12 DEF SerialUploadEnd, Abstract!Install, TrialFresh
<1>13. ASSUME SerialReset \/ WdtReset \/ PowerFail PROVE Abstract!Stop
  BY <1>13 DEF SerialReset, WdtReset, PowerFail, LoseRam, Abstract!Stop
<1>14. ASSUME Wait \/ PowerOn PROVE UNCHANGED Abstract!vars
  BY <1>14 DEF Wait, PowerOn
<1>15. ASSUME UNCHANGED vars PROVE UNCHANGED Abstract!vars
  BY <1>15
<1>16. upload \in Abstract!MaybeImage /\ NoImage \in Abstract!MaybeImage
  BY DEF TypeOK, Abstract!MaybeImage
<1>17. ASSUME Next PROVE Abstract!Next \/ UNCHANGED Abstract!vars
  BY <1>17, <1>1, <1>2, <1>3, <1>4, <1>5, <1>6, <1>7, <1>8, <1>9, <1>10, <1>11,
     <1>12, <1>13, <1>14, <1>16
  DEF Next, Device, BootloaderStep, AppStep, Host, Abstract!Next, Abstract!MaybeImage
<1> QED  BY <1>15, <1>17

\* What the device does is what the README promises of image reversion.
THEOREM KeepsThePromise == Spec => RefinesConfirmedBoot
<1>1. HandOver /\ TrialFresh /\ SwapJustified /\ TypeOK /\ [Next]_vars
        => [Abstract!Next]_(Abstract!vars)
  BY AbstractNext
<1> QED
  BY <1>1, AbstractInit, HandOverHolds, TrialHolds, SwapHolds, TypeCorrect, PTL
  DEF Spec, RefinesConfirmedBoot, Abstract!Spec
=============================================================================

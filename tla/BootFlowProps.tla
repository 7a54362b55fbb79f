--------------------------- MODULE BootFlowProps ---------------------------
(***************************************************************************)
(* The properties of BootFlow, and the abstract specification it implements.*)
(***************************************************************************)
EXTENDS BootFlow

\* Every variable has its type, and every counter its bound.
TypeOK ==
    /\ primary \in MaybeImage /\ secondary \in MaybeImage
    /\ prior \in MaybeImage /\ upload \in MaybeImage
    /\ loaded \in MaybeImage /\ mapped \in MaybeImage
    /\ printed \in MaybeImage \cup {ZeroVersion}
    /\ trailer \in Trailers
    /\ swap \in {"none", "test", "revert"} /\ sector \in 0..SwapSectors
    /\ pc \in Pcs /\ wdt \in BOOLEAN /\ timer \in 0..WdtTicks
    /\ fih_rc \in BOOLEAN /\ rsp \in Slots
    /\ request \in BOOLEAN /\ trialRan \in BOOLEAN
    /\ powerFails \in 0..MaxPowerFails /\ ops \in 0..MaxOps

\* The application that runs is one validated image and no mixture: the RAM
\* segments the loader copied, the ROM segments __start maps and the header
\* whose version app_main prints are all the primary slot's, and that image
\* validates (main's check of boot_go, boot_port_startup, map_rom_segments,
\* bReadImageHeader).
RunningImageValidated ==
    pc \in AppPcs =>
        /\ loaded = primary /\ loaded \in Valid
        /\ pc # "start" => mapped = loaded
        /\ printed \in {NoImage, ZeroVersion, loaded}

\* While an image is on trial and no newer upgrade was written over it, the
\* secondary slot holds exactly the image that the trial replaced, through
\* every crash between the swap, the trial and the swap back.
PriorImageKept ==
    (trailer = "trial" /\ ~request /\ swap \in {"none", "revert"}) =>
        secondary = prior

\* An image on trial is started at most once: boot_port_startup never hands
\* over to an image on trial that was started before.
TrialRunsOnce ==
    [][(pc # "start" /\ pc' = "start") => ~(trailer = "trial" /\ trialRan)]_vars

\* The watchdog resets only a device that is stuck: never a boot that makes
\* progress, a swap of whatever length, a serial session or a running
\* application.
WatchdogResetsOnlyStuck ==
    [][(wdt /\ timer = 0) => pc \in StuckPcs]_vars

\* BootFlow implements the promise of image reversion: what runs, what is
\* kept, and when one image replaces another.
Abstract == INSTANCE ConfirmedBoot WITH
    current  <- primary,
    fallback <- secondary,
    staged   <- request,
    trial    <- (trailer = "trial"),
    ran      <- trialRan,
    running  <- IF pc \in AppPcs \cup {"hung"} THEN loaded ELSE NoImage

RefinesConfirmedBoot == Abstract!Spec

-----------------------------------------------------------------------------
(* Liveness, once the operator has stopped writing images *)

Healthy == Valid \ (HangsEarly \cup HangsLate)
Recovering == pc = "serial"

\* An upgrade on trial that hangs before it disables the watchdog is swapped
\* out without anybody's help: the image it replaced runs again, unless the
\* boot pin sends the device into serial recovery.
EarlyHangRollsBack ==
    \A img \in Healthy :
        (WdtEnable /\ pc = "hung" /\ loaded \in HangsEarly
            /\ trailer = "trial" /\ ~request /\ secondary = img /\ ops = MaxOps)
        ~> ((pc = "loop" /\ loaded = img) \/ Recovering)

\* Writing a healthy upgrade to a device that runs a healthy image never
\* bricks it: whatever crashes hit the swap, a healthy image runs in the end.
UpgradeNeverBricks ==
    (request /\ secondary \in Healthy /\ primary \in Healthy /\ ops = MaxOps)
        ~> ((pc = "loop" /\ loaded \in Healthy) \/ Recovering)

\* A device with no bootable image panics, but not for good: the watchdog
\* brings it back to where the boot pin is sampled and serial recovery starts.
PanicReachesBootPin == pc = "panic" ~> pc = "detect"

\* "If no valid image is available in any slot, the device bricks itself as a
\* safety precaution" (README.md:10): once main panics with no valid image in
\* either slot, the device runs no application any more.
BricksForGood ==
    [](pc = "panic" /\ {primary, secondary} \cap Valid = {} => [](pc \notin AppPcs))
=============================================================================

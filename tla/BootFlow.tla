------------------------------ MODULE BootFlow ------------------------------
(***************************************************************************)
(* The life of one device: power-on, the bootloader's main(), serial        *)
(* recovery, MCUboot's swap, the loader, the application's __start and      *)
(* app_main, and everything that interrupts them (power failures, the RTC   *)
(* watchdog, a host that reflashes a slot).                                 *)
(*                                                                          *)
(* MCUboot itself (boot_go, boot_set_confirmed, boot_serial_start) is a git *)
(* submodule; its definitions are marked external and say only what the     *)
(* code in this repository relies on.                                       *)
(***************************************************************************)
EXTENDS Integers, FiniteSets

CONSTANTS
    Images,        \* every firmware image an operator may write to a slot
    Valid,         \* the images that pass MCUboot's validation
    HangsEarly,    \* images stuck before __start disables the watchdog
    HangsLate,     \* images stuck after that, before app_main confirms them
    NoImage,       \* an erased, half-written or half-swapped slot
    Factory,       \* the image in the primary slot when the device ships
    WdtEnable,     \* CONFIG_ESP_MCUBOOT_WDT_ENABLE
    WdtTicks,      \* the watchdog period, in steps of this specification
    SwapSectors,   \* sector moves of one swap; each of them feeds the watchdog
    MaxPowerFails, \* bound: power failures in one behaviour
    MaxOps         \* bound: slot writes by the operator in one behaviour

ASSUME ImagesAssumption ==
    /\ Valid \subseteq Images
    /\ HangsEarly \subseteq Images
    /\ HangsLate \subseteq Images
    /\ NoImage \notin Images
    /\ Factory \in Valid

ASSUME TimingAssumption ==
    /\ WdtEnable \in BOOLEAN
    /\ WdtTicks \in Nat \ {0}
    /\ SwapSectors \in Nat \ {0}
    /\ MaxPowerFails \in Nat
    /\ MaxOps \in Nat

VARIABLES
    \* Flash: survives every reset.
    primary,    \* image in the primary slot
    secondary,  \* image in the secondary slot
    trailer,    \* trailer of the primary slot
    request,    \* the secondary slot's trailer asks for a test swap
    swap,       \* the swap in progress, if any
    sector,     \* sectors that swap has moved
    \* Registers and RAM: lost by every reset.
    pc,         \* where the device is
    wdt,        \* the RTC watchdog is enabled
    timer,      \* steps left until it fires
    fih_rc,     \* boot_go's result
    rsp,        \* the slot whose offset boot_go returned in br_image_off
    loaded,     \* image whose RAM segments the loader copied
    mapped,     \* image whose ROM segments the flash MMU maps
    printed,    \* the version app_main printed
    upload,     \* image the host is uploading in serial recovery
    \* History and bounds.
    trialRan,   \* the image on trial was started since it was swapped in
    prior,      \* the image the last test swap moved out of the primary slot
    powerFails, ops

flash   == <<primary, secondary, trailer, request, swap, sector>>
results == <<fih_rc, rsp, loaded, mapped, printed>>
history == <<trialRan, prior>>
bounds  == <<powerFails, ops>>
vars    == <<flash, pc, wdt, timer, results, upload, history, bounds>>

MaybeImage == Images \cup {NoImage}
Slots      == {"none", "primary", "secondary"}
ZeroVersion == "0.0.0"
Trailers   == {"unset",   \* no magic: nothing to confirm
               "padded",  \* magic only: imgtool --pad, flashed directly
               "trial",   \* swapped in, image_ok unset: reverted by the next boot
               "ok"}      \* image_ok set

\* Where the device is. The steps of main(), of MCUboot's boot_go and of the
\* application, in the order in which they run.
LoaderPcs == {"init", "detect", "boot_go", "swapping", "validate", "boot_done",
              "checked", "serial"}
AppPcs    == {"start", "wdt_off", "start_cpu", "app_main", "confirmed", "loop"}
StuckPcs  == {"panic", "hung"}
Pcs       == {"off"} \cup LoaderPcs \cup AppPcs \cup StuckPcs

\* Nothing in these places feeds the watchdog, and the device may stay in
\* them for ever: waiting for mcumgr, printing hello world, or stuck.
WaitPcs == {"serial", "loop"} \cup StuckPcs

-----------------------------------------------------------------------------
(* Time, reset and the watchdog *)

Alive == pc # "off" /\ (wdt => timer > 0)

\* One step of the device: it is at `from`, it goes on at `to`.
At(from)   == pc = from /\ Alive
Goto(to)   == pc' = to
Tick       == timer' = (IF wdt THEN timer - 1 ELSE timer) /\ UNCHANGED wdt

\* Mutants: the feed does not reach the watchdog; it adds a period.
FeedAdds == timer' = timer + WdtTicks
FeedLost == timer' = IF wdt THEN timer - 1 ELSE timer

boot_port_wdt_feed    == timer' = WdtTicks
boot_port_wdt_disable == wdt' = FALSE /\ timer' = WdtTicks

\* Whatever the reason of a reset, registers and RAM are lost.
LoseRam ==
    /\ wdt' = FALSE
    /\ timer' = WdtTicks
    /\ fih_rc' = FALSE
    /\ rsp' = "none"
    /\ loaded' = NoImage
    /\ mapped' = NoImage
    /\ printed' = NoImage
    /\ upload' = NoImage

PowerOn ==
    /\ pc = "off"
    /\ Goto("init")
    /\ UNCHANGED <<flash, wdt, timer, results, upload, history, bounds>>

\* Power is lost, or the operator pulls the plug: at any step.
PowerFail ==
    /\ pc # "off"
    /\ powerFails < MaxPowerFails
    /\ powerFails' = powerFails + 1
    /\ Goto("off")
    /\ LoseRam
    /\ UNCHANGED <<flash, history, ops>>

WdtReset ==
    /\ wdt /\ timer = 0
    /\ Goto("init")
    /\ LoseRam
    /\ UNCHANGED <<flash, history, bounds>>

\* Time passes where the device waits or is stuck.
Wait ==
    /\ pc \in WaitPcs /\ Alive /\ wdt
    /\ Tick
    /\ UNCHANGED <<flash, pc, results, upload, history, bounds>>

-----------------------------------------------------------------------------
(* The bootloader's main(): boot/freertos/main.c *)

\* Mutants: the watchdog is not armed; its period is taken in another unit.
BootPortInitUnwatched ==
    /\ At("init")
    /\ wdt' = FALSE /\ timer' = WdtTicks
    /\ Goto("detect")
    /\ UNCHANGED <<flash, results, upload, history, bounds>>

BootPortInitShort ==
    /\ At("init")
    /\ wdt' = WdtEnable /\ timer' = 3
    /\ Goto("detect")
    /\ UNCHANGED <<flash, results, upload, history, bounds>>

\* boot_port_init: bootloader_init enables the watchdog if so configured.
BootPortInit ==
    /\ At("init")
    /\ wdt' = WdtEnable
    /\ timer' = WdtTicks
    /\ Goto("detect")
    /\ UNCHANGED <<flash, results, upload, history, bounds>>

\* The serial boot pin is sampled. Active: the watchdog is disabled before
\* boot_serial_start, which does not return. Inactive: on to boot_go.
DetectBootPin(active) ==
    /\ At("detect")
    /\ \/ active /\ boot_port_wdt_disable /\ Goto("serial")
       \/ ~active /\ Tick /\ Goto("boot_go")
    /\ UNCHANGED <<flash, results, upload, history, bounds>>

\* Mutants: the result is ignored; the watchdog is off before the panic.
CheckBootGoIgnored ==
    /\ At("boot_done")
    /\ Tick /\ Goto("checked")
    /\ UNCHANGED <<flash, results, upload, history, bounds>>

CheckBootGoUnwatched ==
    /\ At("boot_done")
    /\ \/ fih_rc /\ Tick /\ Goto("checked")
       \/ ~fih_rc /\ boot_port_wdt_disable /\ Goto("panic")
    /\ UNCHANGED <<flash, results, upload, history, bounds>>

\* main's check of boot_go's result: FIH_PANIC unless it is FIH_SUCCESS.
CheckBootGo ==
    /\ At("boot_done")
    /\ Tick
    /\ \/ fih_rc /\ Goto("checked")
       \/ ~fih_rc /\ Goto("panic")
    /\ UNCHANGED <<flash, results, upload, history, bounds>>

\* Mutant: the slot index is inverted.
SlotImageInverted(slot) == IF slot = "primary" THEN secondary ELSE primary

\* boot_port_startup: the slot index is 0 exactly when the image offset is
\* the primary slot's; esp_app_image_load copies that slot's RAM segments and
\* jumps to its entry point.
SlotImage(slot) == IF slot = "primary" THEN primary ELSE secondary

BootPortStartup ==
    /\ At("checked")
    /\ Tick
    /\ loaded' = SlotImage(rsp)
    /\ trialRan' = (trailer = "trial")
    /\ Goto("start")
    /\ UNCHANGED <<flash, fih_rc, rsp, mapped, printed, upload, prior, bounds>>

-----------------------------------------------------------------------------
(* Serial recovery: boot_serial_start (external but for bs_reset) *)

\* The host starts an upload: boot_serial erases the primary slot, trailer
\* included. A swap that was interrupted halfway cannot be resumed after that,
\* and leaves the secondary slot without an image.
SerialUploadBegin(img) ==
    /\ At("serial") /\ upload = NoImage
    /\ ops < MaxOps
    /\ ops' = ops + 1
    /\ upload' = img
    /\ primary' = NoImage
    /\ secondary' = IF swap = "none" THEN secondary ELSE NoImage
    /\ trailer' = "unset"
    /\ swap' = "none" /\ sector' = 0
    /\ trialRan' = FALSE
    /\ Tick
    /\ UNCHANGED <<request, pc, results, prior, powerFails>>

\* The last chunk is written; the image was signed with --pad, so that its
\* trailer has a magic.
SerialUploadEnd ==
    /\ At("serial") /\ upload # NoImage
    /\ primary' = upload
    /\ trailer' = "padded"
    /\ upload' = NoImage
    /\ Tick
    /\ UNCHANGED <<secondary, request, swap, sector, pc, results, history, bounds>>

\* bs_reset: the host asks for a reset; the device waits 250 ms and resets.
SerialReset ==
    /\ At("serial")
    /\ LoseRam
    /\ Goto("init")
    /\ UNCHANGED <<flash, history, bounds>>

-----------------------------------------------------------------------------
(* MCUboot's boot_go (external), configured to swap and to validate the    *)
(* primary slot on every boot                                               *)

\* Mutant: an unconfirmed image is not reverted.
SwapTypeNoRevert ==
    IF swap # "none" THEN swap ELSE IF request THEN "test" ELSE "none"

SwapType ==
    CASE swap # "none"     -> swap
      [] swap = "none" /\ request -> "test"
      [] swap = "none" /\ ~request /\ trailer = "trial" -> "revert"
      [] OTHER             -> "none"

\* Decide what to do. A swap cannot bring in an image that does not validate:
\* the secondary slot is erased and the primary image kept for good.
BootGoBegin ==
    /\ At("boot_go")
    /\ Tick
    /\ \/ /\ SwapType = "none"
          /\ Goto("validate")
          /\ UNCHANGED <<flash, trialRan>>
       \/ /\ SwapType # "none"
          /\ swap # "none" \/ secondary \in Valid
          /\ swap' = SwapType
          /\ Goto("swapping")
          /\ UNCHANGED <<primary, secondary, trailer, request, sector, trialRan>>
       \/ /\ swap = "none" /\ SwapType # "none" /\ secondary \notin Valid
          /\ secondary' = NoImage
          /\ request' = FALSE
          /\ trailer' = "ok"
          /\ trialRan' = FALSE
          /\ Goto("validate")
          /\ UNCHANGED <<primary, swap, sector>>
    /\ UNCHANGED <<results, upload, prior, bounds>>

\* One sector is moved, and MCUBOOT_WATCHDOG_FEED is called.
BootGoSwapSector ==
    /\ At("swapping") /\ sector < SwapSectors
    /\ sector' = sector + 1
    /\ boot_port_wdt_feed
    /\ UNCHANGED <<primary, secondary, trailer, request, swap, pc, wdt,
                   results, upload, history, bounds>>

\* Mutant: MCUBOOT_OVERWRITE_ONLY, the upgrade overwrites what it replaces.
BootGoOverwriteEnd ==
    /\ At("swapping") /\ sector = SwapSectors
    /\ primary' = secondary /\ UNCHANGED secondary
    /\ trailer' = IF swap = "test" THEN "trial" ELSE "ok"
    /\ prior' = IF swap = "test" THEN primary ELSE prior
    /\ trialRan' = FALSE
    /\ request' = FALSE
    /\ swap' = "none" /\ sector' = 0
    /\ Tick /\ Goto("validate")
    /\ UNCHANGED <<results, upload, bounds>>

\* The last sector is moved: the slots are exchanged and the trailers say so.
BootGoSwapEnd ==
    /\ At("swapping") /\ sector = SwapSectors
    /\ primary' = secondary /\ secondary' = primary
    /\ trailer' = IF swap = "test" THEN "trial" ELSE "ok"
    /\ prior' = IF swap = "test" THEN primary ELSE prior
    /\ trialRan' = FALSE
    /\ request' = FALSE
    /\ swap' = "none" /\ sector' = 0
    /\ Tick
    /\ Goto("validate")
    /\ UNCHANGED <<results, upload, bounds>>

\* MCUBOOT_VALIDATE_PRIMARY_SLOT: success only for an image that validates.
BootGoValidate ==
    /\ At("validate")
    /\ fih_rc' = (primary \in Valid)
    /\ rsp' = "primary"
    /\ Tick
    /\ Goto("boot_done")
    /\ UNCHANGED <<flash, loaded, mapped, printed, upload, history, bounds>>

-----------------------------------------------------------------------------
(* The application: start.c and main.c                                     *)

\* __start calls map_rom_segments, which maps the ROM segments of the image
\* at the primary slot's address, whatever slot was loaded.
AppMapRomSegments ==
    /\ At("start")
    /\ Tick
    /\ \/ loaded \in HangsEarly /\ Goto("hung") /\ UNCHANGED mapped
       \/ loaded \notin HangsEarly /\ mapped' = primary /\ Goto("wdt_off")
    /\ UNCHANGED <<flash, fih_rc, rsp, loaded, printed, upload, history, bounds>>

\* __start feeds and then disables the bootloader's watchdog.
AppWdtDisable ==
    /\ At("wdt_off")
    /\ boot_port_wdt_disable
    /\ Goto("start_cpu")
    /\ UNCHANGED <<flash, results, upload, history, bounds>>

\* start_cpu, up to the scheduler's call of app_main.
AppStartCpu ==
    /\ At("start_cpu")
    /\ Tick
    /\ Goto(IF loaded \in HangsLate THEN "hung" ELSE "app_main")
    /\ UNCHANGED <<flash, results, upload, history, bounds>>

\* boot_set_confirmed (external): sets image_ok, unless there is no magic or
\* it is set already. Its flash write may fail.
boot_set_confirmed(written) ==
    trailer' = IF written /\ trailer \in {"padded", "trial"} THEN "ok" ELSE trailer

\* app_main confirms the image first, and ignores whether that worked.
AppConfirm(written) ==
    /\ At("app_main")
    /\ boot_set_confirmed(written)
    /\ trialRan' = (trialRan /\ trailer' = "trial")
    /\ Tick
    /\ Goto("confirmed")
    /\ UNCHANGED <<primary, secondary, request, swap, sector, results, upload,
                   prior, bounds>>

\* bReadImageHeader opens flash area 1, the primary slot; if that fails the
\* header stays zeroed and app_main prints it all the same.
bReadImageHeader(opened) == IF opened THEN primary ELSE ZeroVersion

AppPrintVersion(opened) ==
    /\ At("confirmed")
    /\ printed' = bReadImageHeader(opened)
    /\ Tick
    /\ Goto("loop")
    /\ UNCHANGED <<flash, fih_rc, rsp, loaded, mapped, upload, history, bounds>>

-----------------------------------------------------------------------------
(* The operator's esptool targets, run while the bootloader is not. They   *)
(* are not used on a device whose swap was interrupted.                    *)

\* mcuboot-app-upgrade: write a padded image to the secondary slot; the
\* padding's magic is the request for a test swap.
FlashUpgrade(img) ==
    /\ pc = "off" /\ swap = "none" /\ ops < MaxOps
    /\ ops' = ops + 1
    /\ secondary' = img
    /\ request' = TRUE
    /\ UNCHANGED <<primary, trailer, swap, sector, pc, wdt, timer, results,
                   upload, history, powerFails>>

\* mcuboot-app-flash: write a padded image to the primary slot.
FlashPrimary(img) ==
    /\ pc = "off" /\ swap = "none" /\ ops < MaxOps
    /\ ops' = ops + 1
    /\ primary' = img
    /\ trailer' = "padded"
    /\ trialRan' = FALSE
    /\ UNCHANGED <<secondary, request, swap, sector, pc, wdt, timer, results,
                   upload, prior, powerFails>>

-----------------------------------------------------------------------------
Init ==
    /\ primary = Factory /\ secondary = NoImage
    /\ trailer = "padded" /\ request = FALSE
    /\ swap = "none" /\ sector = 0
    /\ pc = "off" /\ wdt = FALSE /\ timer = WdtTicks
    /\ fih_rc = FALSE /\ rsp = "none"
    /\ loaded = NoImage /\ mapped = NoImage /\ printed = NoImage
    /\ upload = NoImage
    /\ trialRan = FALSE /\ prior = NoImage
    /\ powerFails = 0 /\ ops = 0

\* What the powered device does by itself.
BootloaderStep ==
    \/ BootPortInit
    \/ \E active \in BOOLEAN : DetectBootPin(active)
    \/ BootGoBegin \/ BootGoSwapSector \/ BootGoSwapEnd \/ BootGoValidate
    \/ CheckBootGo
    \/ BootPortStartup

AppStep ==
    \/ AppMapRomSegments \/ AppWdtDisable \/ AppStartCpu
    \/ \E written \in BOOLEAN : AppConfirm(written)
    \/ \E opened \in BOOLEAN : AppPrintVersion(opened)

Device == BootloaderStep \/ AppStep \/ Wait \/ WdtReset

\* What its surroundings do to it.
Host ==
    \/ \E img \in Images :
          SerialUploadBegin(img) \/ FlashUpgrade(img) \/ FlashPrimary(img)
    \/ SerialUploadEnd
    \/ SerialReset

Next == Device \/ Host \/ PowerOn \/ PowerFail

\* The device runs its program and its watchdog counts; an operator who cut
\* the power restores it. Nothing is assumed of the host.
Spec == Init /\ [][Next]_vars /\ WF_vars(Device) /\ WF_vars(PowerOn)
=============================================================================

----------------------------- MODULE ImageBuild -----------------------------
(***************************************************************************)
(* How the bootloader and the application get onto a device: the targets of  *)
(* the two CMakeLists.txt, which make the signing key, the header with its   *)
(* public half, the signed image, and stamps that tell what was flashed. The  *)
(* build tool (external: Ninja, as in README.md) makes a file again if it is   *)
(* missing, older than one it depends on, or made by another command.          *)
(***************************************************************************)
EXTENDS Naturals

CONSTANTS
    Schemes,      \* values of SIGNING_SCHEME in use; "none": it is not defined
    MaxKeys,      \* bound: keys generated
    MaxVersions   \* bound: versions of the application

Valid == {"ecdsa-p256", "rsa-2048", "rsa-3072"}

ASSUME BuildAssumption ==
    /\ Schemes \subseteq Valid \cup {"none"}
    /\ MaxKeys \in Nat /\ MaxVersions \in Nat

VARIABLES
    \* the bootloader's build
    bScheme,    \* its SIGNING_SCHEME
    keys,       \* keys generated so far
    key,        \* the file KEY_PATH, of this build and of the application's
    header,     \* the key of which BUILD_DIR/GEN_KEY_H has the public half
    \* the application's build
    aScheme,    \* its SIGNING_SCHEME
    app,        \* the version in app.bin
    signed,     \* mcuboot-app.bin
    stamp,      \* Ninja has a record of flash-stamp.txt made after that
    \* the device
    loader,     \* number of the key in its bootloader, or NoKey, or NoLoader
    primary, secondary,
    trial,      \* "pending": to be tried, "running", or "none"
    \* the last step: a target, and whether it was built
    last, built

boot   == <<bScheme, keys, key, header>>
build  == <<aScheme, app, signed, stamp>>
device == <<loader, primary, secondary, trial>>
vars   == <<boot, build, device, last, built>>

NoKey    == 0
NoLoader == MaxKeys + 1
NoFile   == [number |-> 0, scheme |-> "none"]
NoImage  == [version |-> 0, by |-> NoKey]

Did(step, result) == last' = step /\ built' = result

-----------------------------------------------------------------------------
(* The bootloader: proj/espressif/esp32/bootloader/CMakeLists.txt *)

ConfigureBootloader ==
    /\ bScheme' \in Schemes
    /\ Did("cmake", TRUE)
    /\ UNCHANGED <<keys, key, header, build, device>>

\* The header that is made, and the one that keys.c includes.
GEN_KEY_H == "ecdsa_key.h"
KeyFile(scheme) == IF scheme = "ecdsa-p256" THEN "ecdsa_key.h" ELSE "rsa_key.h"

\* keygen: the scheme is in its command.
KeyOutdated == key = NoFile \/ key.scheme # bScheme

KeyMade == IF KeyOutdated THEN [number |-> keys + 1, scheme |-> bScheme] ELSE key

\* Mutant: the header does not depend on the key.
HeaderMissing(k) == header = NoFile

\* getpub: the key is newer than the header made from another one.
HeaderOutdated(k) == header = NoFile \/ header # k

HeaderMade(k) == IF HeaderOutdated(k) THEN k ELSE header

\* mcuboot-flash: key, header, program, flash.
FlashUnsignedLoader ==
    /\ bScheme = "none"
    /\ loader' = NoKey
    /\ Did("mcuboot-flash", TRUE)
    /\ UNCHANGED <<boot, build, primary, secondary, trial>>

FlashLoader ==
    /\ bScheme # "none"
    /\ keys < MaxKeys \/ ~KeyOutdated
    /\ key' = KeyMade
    /\ keys' = IF KeyOutdated THEN keys + 1 ELSE keys
    /\ header' = HeaderMade(KeyMade)
    /\ IF KeyFile(bScheme) = GEN_KEY_H /\ header'.scheme = bScheme
       THEN loader' = header'.number /\ Did("mcuboot-flash", TRUE)
       ELSE loader' = loader /\ Did("mcuboot-flash", FALSE)
    /\ UNCHANGED <<bScheme, build, primary, secondary, trial>>

DeleteKey ==
    /\ key # NoFile
    /\ key' = NoFile
    /\ Did("rm", TRUE)
    /\ UNCHANGED <<bScheme, keys, header, build, device>>

-----------------------------------------------------------------------------
(* The application: proj/espressif/esp32/app/main/CMakeLists.txt *)

ConfigureApp ==
    /\ aScheme' \in Schemes
    /\ Did("cmake", TRUE)
    /\ UNCHANGED <<boot, app, signed, stamp, device>>

\* The project's own target builds app.bin.
BuildApp ==
    /\ app < MaxVersions
    /\ app' = app + 1
    /\ Did("app", TRUE)
    /\ UNCHANGED <<boot, aScheme, signed, stamp, device>>

Signer == IF aScheme = "none" THEN NoKey ELSE key.number

\* Mutant: the image depends on app.bin only.
ImageOlderThanApp == signed = NoImage \/ signed.version # app

\* imgtool sign: app.bin or the key is newer, or it was signed, or was not.
ImageOutdated ==
    signed = NoImage \/ signed.version # app \/ signed.by # Signer

ImageMade == IF ImageOutdated THEN [version |-> app, by |-> Signer] ELSE signed

CanSign == app > 0 /\ (aScheme = "none" \/ key # NoFile)

\* Mutant: the stamp does not depend on the image.
StampMissing == ~stamp

\* mcuboot-app-flash: made if flash-stamp.txt was not made after the image.
\* A new image in the primary slot is not reverted.
StampOutdated == ~stamp \/ ImageOutdated

FlashApp ==
    /\ CanSign
    /\ signed' = ImageMade
    /\ primary' = IF StampOutdated THEN ImageMade ELSE primary
    /\ trial' = IF StampOutdated /\ trial = "running" THEN "none" ELSE trial
    /\ stamp' = TRUE
    /\ Did("mcuboot-app-flash", TRUE)
    /\ UNCHANGED <<boot, aScheme, app, loader, secondary>>

\* mcuboot-app-upgrade: upgrade-stamp.txt never exists, so it is always made;
\* its command dates the other stamp, flash-stamp.txt, which is not what Ninja
\* recorded of that.
UpgradeApp ==
    /\ CanSign
    /\ signed' = ImageMade
    /\ secondary' = ImageMade
    /\ trial' = "pending"
    /\ stamp' = (stamp /\ ~ImageOutdated)
    /\ Did("mcuboot-app-upgrade", TRUE)
    /\ UNCHANGED <<boot, aScheme, app, loader, primary>>

\* Without a key there is nothing to sign with.
SignFails ==
    /\ ~CanSign
    /\ Did("mcuboot-app", FALSE)
    /\ UNCHANGED <<boot, build, device>>

-----------------------------------------------------------------------------
(* The device (external; BootFlow has it in full) *)

Accepts(image) ==
    image # NoImage /\ loader # NoLoader /\ (loader = NoKey \/ image.by = loader)

Swap == primary' = secondary /\ secondary' = primary

TryUpgrade ==
    /\ trial = "pending" /\ Accepts(secondary)
    /\ Swap
    /\ trial' = "running"
    /\ Did("boot", TRUE)
    /\ UNCHANGED <<boot, build, loader>>

ConfirmOrRevert ==
    /\ trial = "running"
    /\ trial' = "none"
    /\ Swap \/ UNCHANGED <<primary, secondary>>
    /\ Did("boot", TRUE)
    /\ UNCHANGED <<boot, build, loader>>

Init ==
    /\ bScheme = "none" /\ keys = 0 /\ key = NoFile /\ header = NoFile
    /\ aScheme = "none" /\ app = 0 /\ signed = NoImage /\ stamp = FALSE
    /\ loader = NoLoader /\ primary = NoImage /\ secondary = NoImage
    /\ trial = "none"
    /\ last = "none" /\ built = TRUE

Next ==
    \/ ConfigureBootloader \/ FlashUnsignedLoader \/ FlashLoader \/ DeleteKey
    \/ ConfigureApp \/ BuildApp \/ FlashApp \/ UpgradeApp \/ SignFails
    \/ TryUpgrade \/ ConfirmOrRevert

Spec == Init /\ [][Next]_vars

-----------------------------------------------------------------------------
Keys   == [number : 0..MaxKeys, scheme : Schemes \cup {"none"}]
Images == [version : 0..MaxVersions, by : 0..MaxKeys]

TypeOK ==
    /\ bScheme \in Schemes \cup {"none"} /\ aScheme \in Schemes \cup {"none"}
    /\ keys \in 0..MaxKeys /\ key \in Keys /\ header \in Keys
    /\ app \in 0..MaxVersions /\ signed \in Images /\ stamp \in BOOLEAN
    /\ loader \in 0..NoLoader /\ primary \in Images /\ secondary \in Images
    /\ trial \in {"pending", "running", "none"} /\ built \in BOOLEAN

\* The bootloader that mcuboot-flash leaves on the device has the public half
\* of the key that lies at KEY_PATH, also after that was made anew.
LoaderHasTheKey ==
    last = "mcuboot-flash" /\ built =>
        loader = IF bScheme = "none" THEN NoKey ELSE key.number

\* What mcuboot-app-upgrade leaves in the secondary slot is the application as
\* it is now, signed as configured with the key as it is now: a device whose
\* bootloader was built from that key takes it.
UpgradeIsCurrent ==
    last = "mcuboot-app-upgrade" =>
        /\ secondary.version = app
        /\ loader = Signer => Accepts(secondary)

\* "flash the application directly to the primary image slot. This will
\* overwrite the previous primary image" (the ESP32 project's README.md:72):
\* after mcuboot-app-flash, which does nothing if its stamp is newer than the
\* image, that image is in the primary slot, unless the device has swapped it
\* since: then it is in the secondary slot.
FlashedIsOnDevice ==
    last = "mcuboot-app-flash" => signed \in {primary, secondary}
=============================================================================

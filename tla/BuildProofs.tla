----------------------------- MODULE BuildProofs -----------------------------
(***************************************************************************)
(* ImageBuild: what the build leaves on a device, for any schemes and any     *)
(* number of keys and versions. Init and every action of Next keep TypeOK;    *)
(* with the keys' numbers bounded by it, the flashing targets establish their   *)
(* promises, and every other step has another target as its last.              *)
(***************************************************************************)
EXTENDS ImageBuild, TLAPS

\* A key that is made has the scheme of the build and a number within the bound.
LEMMA KeyMadeType ==
    ASSUME TypeOK, keys < MaxKeys \/ ~KeyOutdated
    PROVE  /\ KeyMade \in Keys
           /\ (IF KeyOutdated THEN keys + 1 ELSE keys) \in 0..MaxKeys
  BY BuildAssumption DEF TypeOK, KeyMade, KeyOutdated, Keys

\* The header that is made is the one of the key, whatever lay there before.
LEMMA HeaderIsOfTheKey == \A k : HeaderMade(k) = k
  BY DEF HeaderMade, HeaderOutdated

\* The image that is made is the application as it is, by the signer as it is.
LEMMA ImageIsCurrent ==
    ASSUME TypeOK
    PROVE  /\ ImageMade \in Images
           /\ ImageMade.version = app
           /\ ImageMade.by = Signer
  <1>1. Signer \in 0..MaxKeys
    BY BuildAssumption DEF TypeOK, Signer, Keys, NoKey
  <1>2. CASE ImageOutdated
    BY <1>1, <1>2 DEF TypeOK, ImageMade, Images
  <1>3. CASE ~ImageOutdated
    BY <1>3 DEF TypeOK, ImageMade, ImageOutdated
  <1> QED BY <1>2, <1>3

\* The initial state has the types.
LEMMA TypeInit == Init => TypeOK
  <1> SUFFICES ASSUME Init PROVE TypeOK
    OBVIOUS
  <1> USE BuildAssumption
  <1>1. NoFile \in Keys
    BY DEF NoFile, Keys
  <1>2. NoImage \in Images
    BY DEF NoImage, NoKey, Images
  <1>3. NoLoader \in 0..NoLoader
    BY DEF NoLoader
  <1>4. 0 \in 0..MaxKeys /\ 0 \in 0..MaxVersions
    OBVIOUS
  <1>5. stamp \in BOOLEAN /\ built \in BOOLEAN
    BY DEF Init
  <1> QED BY <1>1, <1>2, <1>3, <1>4, <1>5, Zenon DEF Init, TypeOK

\* Every step keeps the types.
LEMMA TypeNext == TypeOK /\ [Next]_vars => TypeOK'
  <1> SUFFICES ASSUME TypeOK, [Next]_vars PROVE TypeOK'
    OBVIOUS
  <1> USE BuildAssumption
  <1>1. CASE ConfigureBootloader
    BY <1>1 DEF ConfigureBootloader, TypeOK, Did, build, device, NoLoader
  <1>2. CASE FlashUnsignedLoader
    BY <1>2 DEF FlashUnsignedLoader, TypeOK, Did, boot, build, NoKey, NoLoader
  <1>3. CASE FlashLoader
    <2>1. key' \in Keys /\ keys' \in 0..MaxKeys /\ header' = key'
      BY <1>3, KeyMadeType, HeaderIsOfTheKey DEF FlashLoader
    <2>2. loader' \in 0..NoLoader /\ built' \in BOOLEAN
      <3>1. key'.number \in 0..NoLoader
        BY <2>1 DEF Keys, NoLoader
      <3>2. CASE KeyFile(bScheme) = GEN_KEY_H /\ header'.scheme = bScheme
        BY <1>3, <2>1, <3>1, <3>2 DEF FlashLoader, Did
      <3>3. CASE ~(KeyFile(bScheme) = GEN_KEY_H /\ header'.scheme = bScheme)
        BY <1>3, <3>3 DEF FlashLoader, TypeOK, Did, NoLoader
      <3> QED BY <3>2, <3>3
    <2> QED BY <1>3, <2>1, <2>2 DEF FlashLoader, TypeOK, build
  <1>4. CASE DeleteKey
    BY <1>4 DEF DeleteKey, TypeOK, Did, build, device, NoFile, Keys, NoLoader
  <1>5. CASE ConfigureApp
    BY <1>5 DEF ConfigureApp, TypeOK, Did, boot, device, NoLoader
  <1>6. CASE BuildApp
    BY <1>6 DEF BuildApp, TypeOK, Did, boot, device, NoLoader
  <1>7. CASE FlashApp
    BY <1>7, ImageIsCurrent DEF FlashApp, TypeOK, Did, boot, NoLoader
  <1>8. CASE UpgradeApp
    BY <1>8, ImageIsCurrent DEF UpgradeApp, TypeOK, Did, boot, NoLoader
  <1>9. CASE SignFails
    BY <1>9 DEF SignFails, TypeOK, Did, boot, build, device, NoLoader
  <1>10. CASE TryUpgrade
    BY <1>10 DEF TryUpgrade, Swap, TypeOK, Did, boot, build, NoLoader
  <1>11. CASE ConfirmOrRevert
    BY <1>11 DEF ConfirmOrRevert, Swap, TypeOK, Did, boot, build, NoLoader
  <1>12. CASE UNCHANGED vars
    BY <1>12 DEF vars, boot, build, device, TypeOK, NoLoader
  <1> QED BY <1>1, <1>2, <1>3, <1>4, <1>5, <1>6, <1>7, <1>8, <1>9, <1>10,
             <1>11, <1>12 DEF Next

\* Every step keeps the promise of mcuboot-flash.
LEMMA LoaderNext == LoaderHasTheKey /\ [Next]_vars => LoaderHasTheKey'
  <1> SUFFICES ASSUME LoaderHasTheKey, [Next]_vars PROVE LoaderHasTheKey'
    OBVIOUS
  <1>1. CASE FlashLoader
    <2>1. header' = key'
      BY <1>1, HeaderIsOfTheKey DEF FlashLoader
    <2> QED BY <1>1, <2>1 DEF FlashLoader, LoaderHasTheKey, Did
  <1>2. CASE FlashUnsignedLoader
    BY <1>2 DEF FlashUnsignedLoader, LoaderHasTheKey, Did, boot
  <1>3. CASE UNCHANGED vars
    BY <1>3 DEF vars, boot, build, device, LoaderHasTheKey
  <1>4. CASE Next /\ ~FlashLoader /\ ~FlashUnsignedLoader
    <2>1. last' # "mcuboot-flash"
      BY <1>4 DEF Next, Did, ConfigureBootloader, DeleteKey, ConfigureApp,
         BuildApp, FlashApp, UpgradeApp, SignFails, TryUpgrade, ConfirmOrRevert
    <2> QED BY <2>1 DEF LoaderHasTheKey
  <1> QED BY <1>1, <1>2, <1>3, <1>4

\* Every step keeps the promise of mcuboot-app-upgrade.
LEMMA UpgradeNext ==
    TypeOK /\ UpgradeIsCurrent /\ [Next]_vars => UpgradeIsCurrent'
  <1> SUFFICES ASSUME TypeOK, UpgradeIsCurrent, [Next]_vars
               PROVE  UpgradeIsCurrent'
    OBVIOUS
  <1>1. CASE UpgradeApp
    <2>1. /\ secondary'.version = app /\ app > 0
          /\ secondary'.by = Signer
          /\ app' = app /\ Signer' = Signer
      BY <1>1, ImageIsCurrent DEF UpgradeApp, CanSign, boot, Signer
    <2>2. app \in Nat /\ Signer \in 0..MaxKeys
      BY BuildAssumption DEF TypeOK, Signer, Keys, NoKey
    <2>3. secondary' # NoImage
      BY <2>1, <2>2 DEF NoImage
    <2>4. loader' = Signer' => Accepts(secondary)'
      BY <2>1, <2>2, <2>3, BuildAssumption DEF Accepts, NoLoader
    <2> QED BY <2>1, <2>4 DEF UpgradeIsCurrent
  <1>2. CASE UNCHANGED vars
    BY <1>2 DEF vars, boot, build, device, UpgradeIsCurrent, Accepts, Signer
  <1>3. CASE Next /\ ~UpgradeApp
    <2>1. last' # "mcuboot-app-upgrade"
      BY <1>3 DEF Next, Did, ConfigureBootloader, FlashUnsignedLoader,
         FlashLoader, DeleteKey, ConfigureApp, BuildApp, FlashApp, SignFails,
         TryUpgrade, ConfirmOrRevert
    <2> QED BY <2>1 DEF UpgradeIsCurrent
  <1> QED BY <1>1, <1>2, <1>3

\* What the stamp of mcuboot-app-flash stands for: the image it was made after is
\* in one of the slots.
StampTells == stamp => signed \in {primary, secondary}

\* A swap takes no image off the device, and whatever writes a slot writes the
\* signed image or makes the stamp outdated.
LEMMA StampNext ==
    TypeOK /\ StampTells /\ FlashedIsOnDevice /\ [Next]_vars =>
        StampTells' /\ FlashedIsOnDevice'
  <1> SUFFICES ASSUME TypeOK, StampTells, FlashedIsOnDevice, [Next]_vars
               PROVE  StampTells' /\ FlashedIsOnDevice'
    OBVIOUS
  <1>1. CASE FlashApp
    <2>1. CASE StampOutdated
      BY <1>1, <2>1 DEF FlashApp, StampTells, FlashedIsOnDevice
    <2>2. CASE ~StampOutdated
      <3>1. stamp = TRUE /\ ~ImageOutdated
        BY <2>2 DEF StampOutdated, TypeOK
      <3>2. signed' = signed /\ primary' = primary /\ secondary' = secondary
        BY <1>1, <2>2, <3>1 DEF FlashApp, ImageMade
      <3> QED BY <3>1, <3>2 DEF StampTells, FlashedIsOnDevice
    <2> QED BY <2>1, <2>2
  <1>2. CASE UpgradeApp
    BY <1>2 DEF UpgradeApp, Did, StampTells, FlashedIsOnDevice
  <1>3. CASE TryUpgrade \/ ConfirmOrRevert
    BY <1>3 DEF TryUpgrade, ConfirmOrRevert, Swap, build, Did, StampTells,
       FlashedIsOnDevice
  <1>4. CASE UNCHANGED vars
    BY <1>4 DEF vars, build, device, StampTells, FlashedIsOnDevice
  <1>5. CASE Next /\ ~FlashApp /\ ~UpgradeApp /\ ~TryUpgrade /\ ~ConfirmOrRevert
    <2>1. /\ UNCHANGED <<signed, stamp, primary, secondary>>
          /\ last' # "mcuboot-app-flash"
      BY <1>5 DEF Next, Did, build, device, ConfigureBootloader, DeleteKey,
         FlashUnsignedLoader, FlashLoader, ConfigureApp, BuildApp, SignFails
    <2> QED BY <2>1 DEF StampTells, FlashedIsOnDevice
  <1> QED BY <1>1, <1>2, <1>3, <1>4, <1>5

\* The state of build and device always has its types, the key counter stays
\* within its bound.
THEOREM BuildTypesOK == Spec => []TypeOK
  BY TypeInit, TypeNext, PTL DEF Spec

\* After mcuboot-flash the bootloader on the device has the public half of the
\* key at KEY_PATH (CMakeLists.txt: the header depends on the key).
THEOREM LoaderKeySafe == Spec => []LoaderHasTheKey
  <1>1. Init => LoaderHasTheKey
    BY DEF Init, LoaderHasTheKey
  <1> QED BY <1>1, LoaderNext, PTL DEF Spec

\* After mcuboot-app-upgrade the secondary slot has the application as it is,
\* signed so that a bootloader with that key takes it.
THEOREM UpgradeSafe == Spec => []UpgradeIsCurrent
  <1>1. Init => UpgradeIsCurrent
    BY DEF Init, UpgradeIsCurrent
  <1> QED BY <1>1, TypeInit, TypeNext, UpgradeNext, PTL DEF Spec

\* After mcuboot-app-flash the signed image is on the device, although the
\* target goes by a stamp and the device may have swapped its slots since.
THEOREM FlashedSafe == Spec => []FlashedIsOnDevice
  <1>1. Init => StampTells /\ FlashedIsOnDevice
    BY DEF Init, StampTells, FlashedIsOnDevice
  <1> QED BY <1>1, TypeInit, TypeNext, StampNext, PTL DEF Spec
=============================================================================

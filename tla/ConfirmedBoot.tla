--------------------------- MODULE ConfirmedBoot ---------------------------
(***************************************************************************)
(* What the README promises of image reversion, with nothing of how it is   *)
(* done: an upgrade is booted once, on trial; it stays if it confirms       *)
(* itself while it runs, and otherwise the image it replaced comes back.    *)
(* No image runs that does not validate.                                    *)
(***************************************************************************)
CONSTANTS Images, Valid, NoImage

VARIABLES
    current,   \* the image the device boots
    fallback,  \* the other image it holds: an upgrade, or what was replaced
    staged,    \* the fallback is an upgrade to be tried
    trial,     \* the current image has still to confirm itself
    ran,       \* ... and has had its one run
    running    \* the image being executed

vars == <<current, fallback, staged, trial, ran, running>>

MaybeImage == Images \cup {NoImage}

Init ==
    /\ current \in Valid /\ fallback = NoImage
    /\ staged = FALSE /\ trial = FALSE /\ ran = FALSE
    /\ running = NoImage

\* The device starts its current image: one on trial only once.
Run ==
    /\ running = NoImage
    /\ current \in Valid
    /\ ~(trial /\ ran)
    /\ running' = current
    /\ ran' = trial
    /\ UNCHANGED <<current, fallback, staged, trial>>

\* It stops: reset, watchdog or power.
Stop ==
    /\ running' = NoImage
    /\ UNCHANGED <<current, fallback, staged, trial, ran>>

\* Only the running image confirms itself.
Confirm ==
    /\ trial /\ running = current
    /\ trial' = FALSE /\ ran' = FALSE
    /\ UNCHANGED <<current, fallback, staged, running>>

\* While nothing runs, a staged upgrade that validates is swapped in.
Try ==
    /\ running = NoImage
    /\ staged /\ fallback \in Valid
    /\ current' = fallback /\ fallback' = current
    /\ staged' = FALSE /\ trial' = TRUE /\ ran' = FALSE
    /\ UNCHANGED running

\* An image that did not confirm itself is swapped out again, for good.
RollBack ==
    /\ running = NoImage
    /\ trial /\ ~staged /\ fallback \in Valid
    /\ current' = fallback /\ fallback' = current
    /\ trial' = FALSE /\ ran' = FALSE
    /\ UNCHANGED <<staged, running>>

\* There is nothing valid to swap in: the current image stays.
Keep ==
    /\ running = NoImage
    /\ trial \/ staged
    /\ fallback \notin Valid
    /\ fallback' = NoImage
    /\ staged' = FALSE /\ trial' = FALSE /\ ran' = FALSE
    /\ UNCHANGED <<current, running>>

\* The operator writes an upgrade ...
Stage(img) ==
    /\ running = NoImage
    /\ fallback' = img /\ staged' = TRUE
    /\ UNCHANGED <<current, trial, ran, running>>

\* ... or replaces the current image; what an interrupted write leaves is no
\* image, and the fallback may be lost with it.
Install(img) ==
    /\ running = NoImage
    /\ current' = img
    /\ fallback' \in {fallback, NoImage}
    /\ trial' = FALSE /\ ran' = FALSE
    /\ UNCHANGED <<staged, running>>

Next ==
    \/ Run \/ Stop \/ Confirm \/ Try \/ RollBack \/ Keep
    \/ \E img \in Images : Stage(img)
    \/ \E img \in MaybeImage : Install(img)

Spec == Init /\ [][Next]_vars
=============================================================================

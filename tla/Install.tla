------------------------------ MODULE Install -------------------------------
(* What a self-update promises: of the programs installed there is always  *)
(* one that is whole, and a request replaces it in one step or not at all. *)
(* One that is not on the disk yet can be lost with the power.             *)
CONSTANTS Versions, Junk, None

VARIABLES
  image,   \* the whole program that is kept on the disk
  wanted,  \* the version asked for and not installed yet, or None
  fresh    \* the image is not on the disk yet

installVars == <<image, wanted, fresh>>

Init == image \in Versions /\ wanted = None /\ ~ fresh

Ask == wanted = None /\ wanted' \in Versions /\ UNCHANGED <<image, fresh>>

\* Junk is a release asset that is not what was published, for which no
\* checksum could be had.
Swap == wanted # None /\ image' \in {wanted, Junk} /\ wanted' = None /\ fresh'

GiveUp == wanted # None /\ wanted' = None /\ UNCHANGED <<image, fresh>>

Settle == fresh /\ ~ fresh' /\ UNCHANGED <<image, wanted>>

\* The power fails: the program replaced may be back, or none be left.
Lose == fresh /\ image' \in Versions \cup {image, None} /\ wanted' = None /\ ~ fresh'

Next == Ask \/ Swap \/ GiveUp \/ Settle \/ Lose

Spec == Init /\ [][Next]_installVars
=============================================================================

---------------------------- MODULE ProfileStore ----------------------------
(***************************************************************************)
(* What internal/state promises of the profile file: a reader finds one    *)
(* whole profile (or none), a save replaces it in one step, and a power    *)
(* loss leaves a profile that was current since the last flush.            *)
(***************************************************************************)
CONSTANTS
    Profiles,   \* what may be saved
    Absent      \* no file

VARIABLES
    current,    \* what a reader finds
    survivors   \* what a power loss may leave

storeVars == <<current, survivors>>

StoreInit ==
    /\ current \in Profiles \cup {Absent}
    /\ survivors = {current}

\* A save takes effect.
Replace ==
    /\ current' \in Profiles
    /\ survivors' = survivors \cup {current'}

\* What is current will survive.
Flush ==
    /\ survivors' = {current}
    /\ UNCHANGED current

PowerLoss ==
    /\ current' \in survivors
    /\ survivors' = {current'}

StoreNext == Replace \/ Flush \/ PowerLoss

StoreSpec == StoreInit /\ [][StoreNext]_storeVars
=============================================================================

------------------------------ MODULE StateFile ------------------------------
(***************************************************************************)
(* state.Save, system call by system call, run by any number of writers    *)
(* (SaveState calls of the daemon, `fanctl save` processes) over a file    *)
(* system that is external to the code: what is written but not synced may *)
(* be lost with the power, and so may a rename whose directory was not     *)
(* synced.  Load reads the file in one piece and needs no state.           *)
(***************************************************************************)
EXTENDS Integers

CONSTANTS
    Writers,
    Inodes,         \* files ever created in the directory: bounds the saves
    NoInode,        \* the path names nothing
    Profiles        \* what is saved

\* Contents that are not a profile.
Absent  == "absent"
Unused  == "unused"
Partial == "partial"        \* anything short of what was to be written

ASSUME StateFileAssumption ==
    /\ NoInode \notin Inodes
    /\ Profiles \cap {Absent, Unused, Partial} = {}

VARIABLES
    pc,         \* the step of Save each writer is at
    tmp,        \* the temporary file it created
    profile,    \* what it saves
    data,       \* contents of every file
    synced,     \* files whose contents are on the disk
    temps,      \* directory entries .state-*.yaml
    link,       \* the file the path names
    links,      \* the files it may name after a power loss
    renames,    \* history: number of renames so far
    rank,       \* history: the how-manieth rename put a file in place
    acked,      \* history: files whose Save returned nil, the directory synced
    orphans     \* history: temporary files a writer could not clean up

vars == <<pc, tmp, profile, data, synced, temps, link, links, renames, rank, acked, orphans>>

Files == Inodes \cup {NoInode}

Steps == {"idle", "write", "chmod", "sync", "close", "rename", "syncdir", "return"}

\* The temporary file is not renamed yet: the deferred Remove is due.
Unnamed == {"write", "chmod", "sync", "close", "rename"}

TypeOK ==
    /\ pc \in [Writers -> Steps]
    /\ tmp \in [Writers -> Files]
    /\ profile \in [Writers -> Profiles]
    /\ data \in [Files -> Profiles \cup {Absent, Unused, Partial}]
    /\ synced \subseteq Files /\ temps \subseteq Inodes
    /\ link \in links /\ links \subseteq Files
    /\ renames \in Nat
    /\ rank \in [Files -> Nat]
    /\ acked \subseteq Inodes /\ orphans \subseteq Inodes

Init ==
    /\ pc = [w \in Writers |-> "idle"]
    /\ tmp = [w \in Writers |-> NoInode]
    /\ \E p \in Profiles : profile = [w \in Writers |-> p]
    /\ \E f \in Files, p \in Profiles :
          /\ link = f /\ links = {f}
          /\ data = [g \in Files |-> IF g = NoInode THEN Absent
                                     ELSE IF g = f THEN p ELSE Unused]
    /\ synced = Files
    /\ temps = {} /\ acked = {} /\ orphans = {}
    /\ renames = 0 /\ rank = [f \in Files |-> 0]

-----------------------------------------------------------------------------
At(w, step) == pc[w] = step
Goto(w, step) == pc' = [pc EXCEPT ![w] = step]

\* MkdirAll and CreateTemp; when they fail nothing has happened.
CreateTemp(w) ==
    /\ At(w, "idle")
    /\ \E i \in Inodes, p \in Profiles :
          /\ data[i] = Unused
          /\ data' = [data EXCEPT ![i] = Partial]
          /\ synced' = synced \ {i}
          /\ temps' = temps \cup {i}
          /\ tmp' = [tmp EXCEPT ![w] = i]
          /\ profile' = [profile EXCEPT ![w] = p]
    /\ Goto(w, "write")
    /\ UNCHANGED <<link, links, renames, rank, acked, orphans>>

\* Mutant: a short write goes unnoticed.
WriteShort(w) ==
    /\ At(w, "write")
    /\ Goto(w, "chmod")
    /\ UNCHANGED <<tmp, profile, data, synced, temps, link, links, renames, rank, acked, orphans>>

Write(w) ==
    /\ At(w, "write")
    /\ data' = [data EXCEPT ![tmp[w]] = profile[w]]
    /\ Goto(w, "chmod")
    /\ UNCHANGED <<tmp, profile, synced, temps, link, links, renames, rank, acked, orphans>>

Chmod(w) ==
    /\ At(w, "chmod")
    /\ Goto(w, "sync")
    /\ UNCHANGED <<tmp, profile, data, synced, temps, link, links, renames, rank, acked, orphans>>

\* Mutant: the file is not synced.
SyncNothing(w) ==
    /\ At(w, "sync")
    /\ Goto(w, "close")
    /\ UNCHANGED <<tmp, profile, data, synced, temps, link, links, renames, rank, acked, orphans>>

Sync(w) ==
    /\ At(w, "sync")
    /\ synced' = synced \cup {tmp[w]}
    /\ Goto(w, "close")
    /\ UNCHANGED <<tmp, profile, data, temps, link, links, renames, rank, acked, orphans>>

Close(w) ==
    /\ At(w, "close")
    /\ Goto(w, "rename")
    /\ UNCHANGED <<tmp, profile, data, synced, temps, link, links, renames, rank, acked, orphans>>

Rename(w) ==
    /\ At(w, "rename")
    /\ link' = tmp[w]
    /\ links' = links \cup {tmp[w]}
    /\ temps' = temps \ {tmp[w]}
    /\ renames' = renames + 1
    /\ rank' = [rank EXCEPT ![tmp[w]] = renames + 1]
    /\ Goto(w, "syncdir")
    /\ UNCHANGED <<tmp, profile, data, synced, acked, orphans>>

\* Mutants: the directory is not synced; only the writer's own rename is.
SyncNoDir(w) ==
    /\ At(w, "syncdir")
    /\ Goto(w, "return")
    /\ UNCHANGED <<tmp, profile, data, synced, temps, link, links, renames, rank, acked, orphans>>
SyncOwnRename(w) ==
    /\ At(w, "syncdir")
    /\ links' = {tmp[w]}
    /\ Goto(w, "return")
    /\ UNCHANGED <<tmp, profile, data, synced, temps, link, renames, rank, acked, orphans>>

\* Every rename in the directory so far reaches the disk, whoever made it.
SyncDir(w) ==
    /\ At(w, "syncdir")
    /\ links' = {link}
    /\ Goto(w, "return")
    /\ UNCHANGED <<tmp, profile, data, synced, temps, link, renames, rank, acked, orphans>>

\* The directory cannot be opened or synced: Save ignores that and returns nil,
\* but what it saved does not count as acknowledged.
SyncDirFails(w) ==
    /\ At(w, "syncdir")
    /\ Goto(w, "idle")
    /\ UNCHANGED <<tmp, profile, data, synced, temps, link, links, renames, rank, acked, orphans>>

\* Save returns nil.
Return(w) ==
    /\ At(w, "return")
    /\ acked' = acked \cup {tmp[w]}
    /\ Goto(w, "idle")
    /\ UNCHANGED <<tmp, profile, data, synced, temps, link, links, renames, rank, orphans>>

\* Mutant: nobody removes the temporary file.
StepFailsUntidily(w) ==
    /\ pc[w] \in Unnamed
    /\ Goto(w, "idle")
    /\ UNCHANGED <<tmp, profile, data, synced, temps, link, links, renames, rank, acked, orphans>>

\* A step up to the rename fails: the deferred function removes the temporary
\* file, if it can, and Save returns the error.
StepFails(w) ==
    /\ pc[w] \in Unnamed
    /\ \/ temps' = temps \ {tmp[w]} /\ UNCHANGED orphans
       \/ orphans' = orphans \cup {tmp[w]} /\ UNCHANGED temps
    /\ Goto(w, "idle")
    /\ UNCHANGED <<tmp, profile, data, synced, link, links, renames, rank, acked>>

-----------------------------------------------------------------------------
Unfinished(W) == {tmp[w] : w \in {x \in W : pc[x] \in Unnamed}}

\* The writer's process is killed.
Kill(w) ==
    /\ ~At(w, "idle")
    /\ orphans' = orphans \cup Unfinished({w})
    /\ Goto(w, "idle")
    /\ UNCHANGED <<tmp, profile, data, synced, temps, link, links, renames, rank, acked>>

PowerLoss ==
    /\ link' \in links /\ links' = {link'}
    /\ \E lost \in SUBSET (Inodes \ synced) :
          data' = [f \in Files |-> IF f \in lost THEN Partial ELSE data[f]]
    /\ synced' = Files
    /\ temps' \in SUBSET {i \in Inodes : data[i] # Unused}
    /\ orphans' = orphans \cup temps'
    /\ pc' = [w \in Writers |-> "idle"]
    /\ UNCHANGED <<tmp, profile, renames, rank, acked>>

Next ==
    \/ \E w \in Writers :
          \/ CreateTemp(w) \/ Write(w) \/ Chmod(w) \/ Sync(w) \/ Close(w)
          \/ Rename(w) \/ SyncDir(w) \/ SyncDirFails(w) \/ Return(w) \/ StepFails(w) \/ Kill(w)
    \/ PowerLoss

Spec == Init /\ [][Next]_vars

-----------------------------------------------------------------------------
\* Whatever fails, and whenever the power goes, the path names a whole profile
\* or nothing: "a torn file would be re-applied to the fans at the next boot"
\* (state.go, Save).
NeverTorn == \A f \in links : data[f] \in Profiles \cup {Absent}

\* A Save that synced the directory and returned nil is not undone by a power
\* loss: what the path may then name was put there no earlier, however many
\* writers rename over each other.
AckedSurvives == \A f \in acked, g \in links : rank[f] <= rank[g]

\* Every path out of Save removes its temporary file, unless the process was
\* killed, the power went, or the removal failed.
NoTempLeft == temps \subseteq orphans \cup Unfinished(Writers)

\* Together the saves implement the store that replaces a profile in one step.
Store == INSTANCE ProfileStore
    WITH current <- data[link], survivors <- {data[f] : f \in links}

ImplementsStore == Store!StoreSpec
=============================================================================

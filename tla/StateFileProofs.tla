--------------------------- MODULE StateFileProofs ---------------------------
(***************************************************************************)
(* The profile file for any number of writers, saves, failures and power   *)
(* losses: it is never torn, an acknowledged save survives, no temporary   *)
(* file is forgotten, and the saves implement ProfileStore.                *)
(***************************************************************************)
EXTENDS StateFile, TLAPS

\* A writer between CreateTemp and the rename owns its temporary file, which
\* no path names yet, and which holds the profile from Write on and is synced
\* from Sync on.
OwnsTemp ==
    \A w \in Writers :
        /\ pc[w] # "idle" => tmp[w] \in Inodes /\ data[tmp[w]] # Unused
        /\ pc[w] \in Unnamed => tmp[w] \notin links /\ tmp[w] \notin acked
        /\ pc[w] \in Unnamed \ {"write"} => data[tmp[w]] = profile[w]
        /\ pc[w] \in {"close", "rename"} => tmp[w] \in synced

\* No two writers work on one file.
Disjoint ==
    \A v, w \in Writers : v # w /\ pc[v] # "idle" /\ pc[w] # "idle" => tmp[v] # tmp[w]

\* What a power loss may leave in place is complete and on the disk.
LinkedOnDisk ==
    \A f \in links : data[f] \in Profiles \cup {Absent} /\ f \in synced

\* The names given so far are on record.
NamedInUse == \A f \in acked : data[f] # Unused

Inv == TypeOK /\ OwnsTemp /\ Disjoint /\ LinkedOnDisk /\ NamedInUse

USE DEF Files, Steps, Unnamed, At, Goto, Absent, Unused, Partial

LEMMA InitInv == Init => Inv
  BY StateFileAssumption
     DEF Init, Inv, TypeOK, OwnsTemp, Disjoint, LinkedOnDisk, NamedInUse

LEMMA CreateTempInv ==
    ASSUME Inv, NEW w \in Writers, CreateTemp(w)  PROVE  Inv'
  <1> PICK i \in Inodes, p \in Profiles :
          /\ data[i] = Unused
          /\ data' = [data EXCEPT ![i] = Partial]
          /\ synced' = synced \ {i}
          /\ temps' = temps \cup {i}
          /\ tmp' = [tmp EXCEPT ![w] = i]
          /\ profile' = [profile EXCEPT ![w] = p]
    BY DEF CreateTemp
  <1>0. /\ pc' = [pc EXCEPT ![w] = "write"] /\ pc[w] = "idle"
        /\ UNCHANGED <<link, links, renames, rank, acked, orphans>>
    BY DEF CreateTemp
  <1> USE StateFileAssumption DEF Inv
  <1>1. TypeOK'
    BY <1>0 DEF TypeOK
  <1>2. i \notin links /\ i \notin acked
    BY DEF LinkedOnDisk, NamedInUse
  <1>3. \A v \in Writers : v # w /\ pc[v] # "idle" => tmp[v] # i
    BY DEF OwnsTemp
  <1>4. OwnsTemp'
    BY <1>0, <1>2, <1>3 DEF OwnsTemp, TypeOK
  <1>5. Disjoint'
    BY <1>0, <1>3 DEF Disjoint, TypeOK
  <1>6. LinkedOnDisk' /\ NamedInUse'
    BY <1>0, <1>2 DEF LinkedOnDisk, NamedInUse, TypeOK
  <1> QED  BY <1>1, <1>4, <1>5, <1>6

LEMMA WriteInv ==
    ASSUME Inv, NEW w \in Writers, Write(w)  PROVE  Inv'
  <1> USE StateFileAssumption DEF Inv, Write
  <1>1. TypeOK'
    BY DEF TypeOK, OwnsTemp
  <1>2. OwnsTemp'
    BY DEF OwnsTemp, Disjoint, TypeOK
  <1>3. Disjoint'
    BY DEF Disjoint, TypeOK
  <1>4. LinkedOnDisk' /\ NamedInUse'
    BY DEF LinkedOnDisk, NamedInUse, OwnsTemp, TypeOK
  <1> QED  BY <1>1, <1>2, <1>3, <1>4

\* Chmod, Sync and Close move one writer on and change no contents.
LEMMA ProgressInv ==
    ASSUME Inv, NEW w \in Writers, Chmod(w) \/ Sync(w) \/ Close(w)  PROVE  Inv'
  <1> USE DEF Inv, Chmod, Sync, Close
  <1>1. TypeOK'
    BY DEF TypeOK, OwnsTemp
  <1>2. OwnsTemp'
    BY DEF OwnsTemp, TypeOK
  <1>3. Disjoint'
    BY DEF Disjoint, TypeOK
  <1>4. LinkedOnDisk' /\ NamedInUse'
    BY DEF LinkedOnDisk, NamedInUse
  <1> QED  BY <1>1, <1>2, <1>3, <1>4

LEMMA RenameInv ==
    ASSUME Inv, NEW w \in Writers, Rename(w)  PROVE  Inv'
  <1> USE DEF Inv, Rename
  <1>1. TypeOK'
    BY DEF TypeOK, OwnsTemp
  <1>2. OwnsTemp'
    BY DEF OwnsTemp, Disjoint, TypeOK
  <1>3. Disjoint'
    BY DEF Disjoint, TypeOK
  <1>4. LinkedOnDisk' /\ NamedInUse'
    BY DEF LinkedOnDisk, NamedInUse, OwnsTemp, TypeOK
  <1> QED  BY <1>1, <1>2, <1>3, <1>4

\* The steps after the rename, and the ways out of Save.
LEMMA LeaveInv ==
    ASSUME Inv, NEW w \in Writers,
           SyncDir(w) \/ SyncDirFails(w) \/ Return(w) \/ StepFails(w) \/ Kill(w)
    PROVE  Inv'
  <1> USE DEF Inv, SyncDir, SyncDirFails, Return, StepFails, Kill
  <1>1. TypeOK'
    BY DEF TypeOK, OwnsTemp, Unfinished
  <1>2. OwnsTemp'
    BY DEF OwnsTemp, Disjoint, TypeOK
  <1>3. Disjoint'
    BY DEF Disjoint, TypeOK
  <1>4. LinkedOnDisk' /\ NamedInUse'
    BY DEF LinkedOnDisk, NamedInUse, OwnsTemp, TypeOK
  <1> QED  BY <1>1, <1>2, <1>3, <1>4

LEMMA PowerLossInv == ASSUME Inv, PowerLoss  PROVE  Inv'
  <1> PICK lost \in SUBSET (Inodes \ synced) :
          data' = [f \in Files |-> IF f \in lost THEN Partial ELSE data[f]]
    BY DEF PowerLoss
  <1> USE StateFileAssumption DEF Inv, PowerLoss
  <1>1. TypeOK'
    BY DEF TypeOK
  <1>2. OwnsTemp' /\ Disjoint'
    BY DEF OwnsTemp, Disjoint
  <1>3. LinkedOnDisk'
    BY DEF LinkedOnDisk, TypeOK
  <1>4. NamedInUse'
    BY DEF NamedInUse, TypeOK
  <1> QED  BY <1>1, <1>2, <1>3, <1>4

LEMMA NextInv == Inv /\ [Next]_vars => Inv'
  <1> SUFFICES ASSUME Inv, [Next]_vars  PROVE  Inv'
    OBVIOUS
  <1>1. CASE UNCHANGED vars
    BY <1>1 DEF vars, Inv, TypeOK, OwnsTemp, Disjoint, LinkedOnDisk, NamedInUse
  <1>2. CASE \E w \in Writers : CreateTemp(w)
    BY <1>2, CreateTempInv
  <1>3. CASE \E w \in Writers : Write(w)
    BY <1>3, WriteInv
  <1>4. CASE \E w \in Writers : Chmod(w) \/ Sync(w) \/ Close(w)
    BY <1>4, ProgressInv
  <1>5. CASE \E w \in Writers : Rename(w)
    BY <1>5, RenameInv
  <1>6. CASE \E w \in Writers : SyncDir(w) \/ SyncDirFails(w) \/ Return(w) \/ StepFails(w) \/ Kill(w)
    BY <1>6, LeaveInv
  <1>7. CASE PowerLoss
    BY <1>7, PowerLossInv
  <1> QED  BY <1>1, <1>2, <1>3, <1>4, <1>5, <1>6, <1>7 DEF Next

\* Every reachable state satisfies the inductive invariant.
THEOREM Invariance == Spec => []Inv
  BY InitInv, NextInv, PTL DEF Spec

\* Every writer, file and history variable of the saves keeps its type.
THEOREM StateTypes == Spec => []TypeOK
  BY Invariance, PTL DEF Inv

\* The profile file is never torn: whatever fails, and whenever the power
\* goes, the path names a whole profile or nothing.
THEOREM NeverTornTheorem == Spec => []NeverTorn
  <1>1. Inv => NeverTorn
    BY DEF Inv, LinkedOnDisk, NeverTorn
  <1> QED  BY <1>1, Invariance, PTL

-----------------------------------------------------------------------------
(* Durability of acknowledged saves.                                       *)

\* Renames are counted; a writer past its rename finds a file at least as
\* recent as its own in place, and one past the directory sync finds no older
\* one for a power loss to bring back.
Ranked ==
    /\ \A f \in Files : rank[f] <= renames
    /\ \A w \in Writers :
          /\ pc[w] \in {"syncdir", "return"} => rank[tmp[w]] <= rank[link]
          /\ pc[w] = "return" => \A g \in links : rank[tmp[w]] <= rank[g]

DurableInv == Inv /\ Ranked /\ AckedSurvives

LEMMA InitDurable == Init => DurableInv
  BY InitInv DEF Init, DurableInv, Ranked, AckedSurvives, Inv, TypeOK

LEMMA RenameDurable ==
    ASSUME DurableInv, NEW w \in Writers, Rename(w)
    PROVE  Ranked' /\ AckedSurvives'
  <1> USE DEF DurableInv, Inv
  <1>1. /\ tmp[w] \in Inodes /\ tmp[w] \notin links /\ tmp[w] \notin acked
        /\ \A v \in Writers : v # w /\ pc[v] # "idle" => tmp[v] # tmp[w]
    BY DEF Rename, OwnsTemp, Disjoint
  <1>2. rank' = [rank EXCEPT ![tmp[w]] = renames + 1]
    BY DEF Rename
  <1>3. \A f \in Files : f # tmp[w] => rank'[f] = rank[f] /\ rank'[f] <= renames
    BY <1>2 DEF Ranked, TypeOK
  <1>4. rank'[tmp[w]] = renames + 1 /\ renames' = renames + 1 /\ renames \in Nat
    BY <1>1, <1>2 DEF Rename, TypeOK
  <1>5. \A f \in Files : rank[f] \in Nat /\ rank'[f] \in Nat
    BY <1>1, <1>2 DEF TypeOK
  <1>6. Ranked'
    <2>1. \A f \in Files : rank'[f] <= renames'
      BY <1>3, <1>4, <1>5
    <2>2. ASSUME NEW v \in Writers, pc'[v] \in {"syncdir", "return"}
          PROVE  rank'[tmp'[v]] <= rank'[link']
      <3>1. tmp'[v] \in Files /\ link' = tmp[w]
        BY DEF Rename, TypeOK
      <3> QED  BY <2>1, <3>1, <1>4
    <2>3. ASSUME NEW v \in Writers, pc'[v] = "return", NEW g \in links'
          PROVE  rank'[tmp'[v]] <= rank'[g]
      <3>1. v # w /\ pc[v] = "return" /\ tmp' = tmp /\ links' = links \cup {tmp[w]}
        BY <2>3 DEF Rename, TypeOK
      <3>2. tmp[v] \in Files /\ tmp[v] # tmp[w]
        BY <1>1, <3>1 DEF TypeOK
      <3>3. CASE g = tmp[w]
        BY <3>1, <3>2, <3>3, <1>3, <1>4, <1>5
      <3>4. CASE g \in links
        <4>1. g # tmp[w] /\ g \in Files
          BY <3>4, <1>1 DEF TypeOK
        <4>2. rank[tmp[v]] <= rank[g]
          BY <3>1, <3>4 DEF Ranked
        <4> QED  BY <3>1, <3>2, <4>1, <4>2, <1>3
      <3> QED  BY <2>3, <3>1, <3>3, <3>4
    <2> QED  BY <2>1, <2>2, <2>3 DEF Ranked
  <1>7. AckedSurvives'
    <2> SUFFICES ASSUME NEW f \in acked', NEW g \in links'
                 PROVE  rank'[f] <= rank'[g]
      BY DEF AckedSurvives
    <2>1. f \in acked /\ f # tmp[w] /\ f \in Files
      BY <1>1 DEF Rename, TypeOK
    <2>2. CASE g = tmp[w]
      BY <2>1, <2>2, <1>3, <1>4, <1>5
    <2>3. CASE g \in links
      <3>1. g # tmp[w] /\ g \in Files
        BY <2>3, <1>1 DEF TypeOK
      <3>2. rank[f] <= rank[g]
        BY <2>1, <2>3 DEF AckedSurvives
      <3> QED  BY <2>1, <3>1, <3>2, <1>3
    <2> QED  BY <2>2, <2>3 DEF Rename
  <1> QED  BY <1>6, <1>7

LEMMA NextDurable ==
    ASSUME DurableInv, [Next]_vars
    PROVE  DurableInv'
  <1> USE DEF DurableInv
  <1>1. Inv'
    BY NextInv
  <1>2. Ranked' /\ AckedSurvives'
    <2>1. CASE UNCHANGED vars
      BY <2>1 DEF vars, Ranked, AckedSurvives
    <2>2. ASSUME NEW w \in Writers, CreateTemp(w)
          PROVE  Ranked' /\ AckedSurvives'
      BY <2>2 DEF CreateTemp, Ranked, AckedSurvives, Inv, TypeOK
    <2>3. ASSUME NEW w \in Writers,
                 \/ Write(w) \/ Chmod(w) \/ Sync(w) \/ Close(w)
                 \/ SyncDirFails(w) \/ StepFails(w) \/ Kill(w)
          PROVE  Ranked' /\ AckedSurvives'
      BY <2>3 DEF Write, Chmod, Sync, Close, SyncDirFails, StepFails, Kill,
                 Ranked, AckedSurvives, Inv, TypeOK
    <2>4. ASSUME NEW w \in Writers, Rename(w)
          PROVE  Ranked' /\ AckedSurvives'
      BY <2>4, RenameDurable
    <2>5. ASSUME NEW w \in Writers, SyncDir(w)
          PROVE  Ranked' /\ AckedSurvives'
      <3>1. links' = {link} /\ link \in links /\ pc' = [pc EXCEPT ![w] = "return"]
        BY <2>5 DEF SyncDir, Inv, TypeOK
      <3>2. pc[w] = "syncdir" /\ UNCHANGED <<tmp, link, renames, rank, acked>>
        BY <2>5 DEF SyncDir
      <3> QED  BY <3>1, <3>2 DEF Ranked, AckedSurvives, Inv, TypeOK
    <2>6. ASSUME NEW w \in Writers, Return(w)
          PROVE  Ranked' /\ AckedSurvives'
      BY <2>6 DEF Return, Ranked, AckedSurvives, Inv, TypeOK
    <2>7. CASE PowerLoss
      BY <2>7 DEF PowerLoss, Ranked, AckedSurvives, Inv, TypeOK
    <2> QED  BY <2>1, <2>2, <2>3, <2>4, <2>5, <2>6, <2>7 DEF Next
  <1> QED  BY <1>1, <1>2

\* A Save that synced the directory and returned nil is never undone by a power
\* loss: what is then in place was saved no earlier, however many writers
\* rename over each other.
THEOREM AckedSurvivesTheorem == Spec => []AckedSurvives
  <1>1. DurableInv /\ [Next]_vars => DurableInv'
    BY NextDurable
  <1>2. DurableInv => AckedSurvives
    BY DEF DurableInv
  <1> QED  BY InitDurable, <1>1, <1>2, PTL DEF Spec

-----------------------------------------------------------------------------
(* Temporary files.                                                        *)

LEMMA InitTidy == Init => NoTempLeft
  BY DEF Init, NoTempLeft

LEMMA NextTidy ==
    ASSUME Inv, NoTempLeft, [Next]_vars
    PROVE  NoTempLeft'
  <1> USE DEF Inv, NoTempLeft, Unfinished
  <1>1. CASE UNCHANGED vars
    BY <1>1 DEF vars
  <1>2. ASSUME NEW w \in Writers, CreateTemp(w)
        PROVE  NoTempLeft'
    <2>1. PICK i \in Inodes : temps' = temps \cup {i} /\ tmp' = [tmp EXCEPT ![w] = i]
      BY <1>2 DEF CreateTemp
    <2>2. /\ pc' = [pc EXCEPT ![w] = "write"] /\ pc[w] = "idle"
          /\ orphans' = orphans
      BY <1>2 DEF CreateTemp
    <2>3. i \in Unfinished(Writers)'
      BY <2>1, <2>2 DEF TypeOK
    <2>4. \A v \in Writers : v # w => tmp'[v] = tmp[v] /\ pc'[v] = pc[v]
      BY <2>1, <2>2 DEF TypeOK
    <2>5. Unfinished(Writers) \subseteq Unfinished(Writers)'
      BY <2>2, <2>4
    <2> QED  BY <2>1, <2>2, <2>3, <2>5
  <1>3. ASSUME NEW w \in Writers,
               \/ Write(w) \/ Chmod(w) \/ Sync(w) \/ Close(w)
               \/ SyncDir(w) \/ SyncDirFails(w) \/ Return(w)
        PROVE  NoTempLeft'
    <2>1. /\ UNCHANGED <<tmp, temps, orphans>>
          /\ \A v \in Writers : pc'[v] \in Unnamed <=> pc[v] \in Unnamed
      BY <1>3 DEF Write, Chmod, Sync, Close, SyncDir, SyncDirFails, Return, TypeOK
    <2> QED  BY <2>1
  <1>4. ASSUME NEW w \in Writers, Rename(w) \/ StepFails(w) \/ Kill(w)
        PROVE  NoTempLeft'
    <2>1. /\ \/ temps' \ orphans' \subseteq (temps \ orphans) \ {tmp[w]}
             \/ pc[w] \notin Unnamed /\ UNCHANGED <<temps, orphans>>
          /\ UNCHANGED tmp
      BY <1>4 DEF Rename, StepFails, Kill
    <2>2. \A v \in Writers : v # w => pc'[v] = pc[v]
      BY <1>4 DEF Rename, StepFails, Kill, TypeOK
    <2> QED  BY <2>1, <2>2
  <1>5. CASE PowerLoss
    BY <1>5 DEF PowerLoss
  <1> QED  BY <1>1, <1>2, <1>3, <1>4, <1>5 DEF Next

\* Every path out of Save removes its temporary file, unless the process was
\* killed, the power went, or the removal failed: no entry .state-*.yaml stays
\* behind for any other reason.
THEOREM NoTempLeftTheorem == Spec => []NoTempLeft
  BY InitTidy, NextTidy, Invariance, PTL DEF Spec

-----------------------------------------------------------------------------
(* The saves implement the abstract store.                                 *)

\* A step of Save changes what the store holds at the rename, flushes it at
\* the directory sync, and is invisible otherwise.
LEMMA StoreStep ==
    ASSUME Inv, Inv', [Next]_vars
    PROVE  [Store!StoreNext]_(Store!storeVars)
  <1> USE DEF Inv
  <1>1. ASSUME UNCHANGED <<link, links>>, \A f \in links : data'[f] = data[f]
        PROVE  UNCHANGED Store!storeVars
    BY <1>1 DEF Store!storeVars, TypeOK
  <1>2. CASE UNCHANGED vars
    BY <1>1, <1>2 DEF vars
  <1>3. ASSUME NEW w \in Writers, CreateTemp(w)
        PROVE  UNCHANGED Store!storeVars
    <2>1. PICK i \in Inodes : data[i] = Unused /\ data' = [data EXCEPT ![i] = Partial]
      BY <1>3 DEF CreateTemp
    <2>2. i \notin links
      BY <2>1, StateFileAssumption DEF LinkedOnDisk
    <2> QED  BY <1>1, <1>3, <2>1, <2>2 DEF CreateTemp, TypeOK
  <1>4. ASSUME NEW w \in Writers, Write(w)
        PROVE  UNCHANGED Store!storeVars
    BY <1>1, <1>4 DEF Write, OwnsTemp, TypeOK
  <1>5. ASSUME NEW w \in Writers,
               \/ Chmod(w) \/ Sync(w) \/ Close(w)
               \/ SyncDirFails(w) \/ Return(w) \/ StepFails(w) \/ Kill(w)
        PROVE  UNCHANGED Store!storeVars
    BY <1>1, <1>5 DEF Chmod, Sync, Close, SyncDirFails, Return, StepFails, Kill
  <1>6. ASSUME NEW w \in Writers, Rename(w)
        PROVE  Store!Replace
    <2>1. /\ data' = data /\ link' = tmp[w] /\ links' = links \cup {tmp[w]}
          /\ data[tmp[w]] = profile[w] /\ profile[w] \in Profiles
      BY <1>6 DEF Rename, OwnsTemp, TypeOK
    <2> QED  BY <2>1 DEF Store!Replace
  <1>7. ASSUME NEW w \in Writers, SyncDir(w)
        PROVE  Store!Flush
    BY <1>7 DEF SyncDir, Store!Flush
  <1>8. ASSUME PowerLoss
        PROVE  Store!PowerLoss
    <2>1. link' \in links /\ links' = {link'} /\ data'[link'] = data[link']
      BY <1>8 DEF PowerLoss, LinkedOnDisk, TypeOK
    <2> QED  BY <2>1 DEF Store!PowerLoss
  <1> QED  BY <1>2, <1>3, <1>4, <1>5, <1>6, <1>7, <1>8 DEF Next, Store!StoreNext

\* Every behaviour of the saves is one of the store that replaces a whole
\* profile in one step and forgets, at a power loss, at most what was not
\* flushed.
THEOREM Refinement == Spec => ImplementsStore
  <1>1. Init => Store!StoreInit
    BY DEF Init, Store!StoreInit
  <1>2. Inv /\ Inv' /\ [Next]_vars => [Store!StoreNext]_(Store!storeVars)
    BY StoreStep
  <1> QED  BY <1>1, <1>2, Invariance, PTL DEF Spec, ImplementsStore, Store!StoreSpec
=============================================================================

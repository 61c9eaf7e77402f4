------------------------- MODULE RestoreCycleProofs -------------------------
(***************************************************************************)
(* What the planner and the file format guarantee for every profile and    *)
(* every status, and what follows for the operations of RestoreCycle: save *)
(* and restore undo and repeat each other as they should, for any header   *)
(* indexes, duties and modes.                                              *)
(***************************************************************************)
EXTENDS RestoreCycle, TLAPS

-----------------------------------------------------------------------------
(* The operators of FanProfile.                                            *)

\* A status: readings of any set of headers.
IsStatus(status, H) ==
    status \in [H -> [pwm : Byte, enable : Int, writable : BOOLEAN]]

\* A header after the write an action stands for, where the write is possible.
LEMMA HoldsAfterManual ==
    ASSUME NEW w \in Byte, NEW e \in {NoEnable, EnableManual}, NEW b \in BOOLEAN
    PROVE  Holds(Manual(w), [pwm |-> w, enable |-> e, writable |-> b])
  BY DEF Holds, Manual

\* The plan asks for exactly the profile's settings, on headers that are
\* present, writable, and not already as wanted.
THEOREM PlanIsSelective ==
    ASSUME NEW p, NEW status
    PROVE  \A h \in DOMAIN Plan(p, status) :
              /\ h \in DOMAIN p /\ h \in DOMAIN status
              /\ status[h].writable
              /\ ~Holds(p[h], status[h])
              /\ Plan(p, status)[h] = p[h]
  BY DEF Plan

\* Once every header of a plan shows what the plan asked for, and no other
\* header has changed, planning again yields nothing: verify passes are
\* idempotent.
THEOREM PlanIdempotent ==
    ASSUME NEW p, NEW before, NEW after,
           DOMAIN after = DOMAIN before,
           \A h \in DOMAIN before : h \notin DOMAIN Plan(p, before) => after[h] = before[h],
           \A h \in DOMAIN Plan(p, before) : Holds(p[h], after[h])
    PROVE  DOMAIN Plan(p, after) = {}
  <1> SUFFICES ASSUME NEW h \in DOMAIN Plan(p, after)
               PROVE  FALSE
    OBVIOUS
  <1>1. h \in DOMAIN p /\ h \in DOMAIN before /\ after[h].writable /\ ~Holds(p[h], after[h])
    BY PlanIsSelective
  <1>2. CASE h \in DOMAIN Plan(p, before)
    BY <1>1, <1>2
  <1>3. CASE h \notin DOMAIN Plan(p, before)
    <2>1. after[h] = before[h]
      BY <1>1, <1>3
    <2>2. h \in DOMAIN Plan(p, before)
      BY <1>1, <2>1 DEF Plan
    <2> QED  BY <1>3, <2>2
  <1> QED  BY <1>2, <1>3

\* Saving a status and planning the profile back against the same status
\* leaves alone every header but those in an undocumented mode.
THEOREM SaveThenPlan ==
    ASSUME NEW H \in SUBSET Nat, NEW status, IsStatus(status, H)
    PROVE  \A h \in DOMAIN Plan(FromStatus(status), status) :
              status[h].enable \notin {NoEnable, EnableAuto, EnableManual}
  <1> DEFINE p == FromStatus(status)
  <1> SUFFICES ASSUME NEW h \in DOMAIN Plan(p, status),
                      status[h].enable \in {NoEnable, EnableAuto, EnableManual}
               PROVE  FALSE
    OBVIOUS
  <1>1. h \in DOMAIN p /\ ~Holds(p[h], status[h])
    BY PlanIsSelective
  <1>2. p[h] = IF status[h].enable = EnableAuto THEN FirmwareAuto ELSE Manual(status[h].pwm)
    BY <1>1 DEF FromStatus
  <1>3. Holds(p[h], status[h])
    BY <1>2 DEF Holds, FirmwareAuto, Manual, NoEnable, EnableAuto, EnableManual
  <1> QED  BY <1>1, <1>3

\* FromStatus yields a profile over the writable headers of the status.
THEOREM FromStatusProfile ==
    ASSUME NEW H \in SUBSET (Nat \ {0}), NEW status, IsStatus(status, H)
    PROVE  /\ FromStatus(status) \in ProfileOver(H)
           /\ DOMAIN FromStatus(status) = {h \in H : status[h].writable}
  <1> DEFINE W == {h \in H : status[h].writable}
  <1>1. DOMAIN status = H
    BY DEF IsStatus
  <1>2. {i \in DOMAIN status : status[i].writable /\ i > 0} = W
    <2>1. \A i \in H : i > 0
      OBVIOUS
    <2> QED  BY <1>1, <2>1
  <1>3. FromStatus(status) \in [W -> FanState]
    BY <1>1, <1>2 DEF FromStatus, IsStatus, FanState
  <1> QED  BY <1>3 DEF ProfileOver

\* What Parse accepts is a profile over the file's headers, in-range duties
\* and positive indexes only.
THEOREM ParseProfile ==
    ASSUME NEW f, WellFormed(f), DOMAIN f.fans \subseteq Int
    PROVE  /\ Parse(f) \in [DOMAIN f.fans -> FanState]
           /\ DOMAIN f.fans \subseteq Nat \ {0}
  BY DEF Parse, WellFormed, FanState

\* A profile survives the trip through its file.
THEOREM ParseMarshal ==
    ASSUME NEW H \in SUBSET (Nat \ {0}), NEW p \in ProfileOver(H)
    PROVE  WellFormed(Marshal(p)) /\ Parse(Marshal(p)) = p
  <1> PICK S \in SUBSET H : p \in [S -> FanState]
    BY DEF ProfileOver
  <1>1. Marshal(p).version = Version /\ Marshal(p).fans = p
    BY DEF Marshal
  <1>2. \A h \in S : \/ p[h] = FirmwareAuto
                     \/ \E w \in Byte : p[h] = Manual(w)
    BY DEF FanState
  <1>3. WellFormed(Marshal(p))
    <2>1. \A h \in DOMAIN p : h > 0
      OBVIOUS
    <2>2. \A h \in DOMAIN p :
             \/ p[h].mode = "auto"
             \/ p[h].mode = "manual" /\ p[h].pwm \in Byte
      BY <1>2 DEF FirmwareAuto, Manual
    <2> QED  BY <1>1, <2>1, <2>2 DEF WellFormed
  <1>4. \A h \in S : (IF p[h].mode = "auto" THEN FirmwareAuto ELSE Manual(p[h].pwm)) = p[h]
    BY <1>2 DEF FirmwareAuto, Manual
  <1>5. Parse(Marshal(p)) = p
    BY <1>1, <1>4 DEF Parse
  <1> QED  BY <1>3, <1>5

-----------------------------------------------------------------------------
(* The operations of RestoreCycle.                                         *)

Reading == [pwm : Byte, enable : {NoEnable, EnableAuto, EnableManual, 2}, writable : BOOLEAN]

\* The chip shows a reading of every header that is present, and a file names
\* headers by numbers.
Shaped ==
    /\ DOMAIN live \subseteq Indexes \ {0}
    /\ live \in [DOMAIN live -> Reading]
    /\ DOMAIN file.fans \subseteq Indexes

Inv == Shaped /\ RestoreConverges /\ SaveRestoresToItself

LEMMA ChipShaped ==
    ASSUME NEW status \in Chip
    PROVE  DOMAIN status \subseteq Indexes \ {0} /\ status \in [DOMAIN status -> Reading]
  <1> PICK S \in SUBSET (Indexes \ {0}) :
          status \in [S -> [pwm : Duties \cap Byte, enable : {NoEnable, 0, 1, 2},
                            writable : BOOLEAN]]
    BY DEF Chip
  <1>1. DOMAIN status = S
    OBVIOUS
  <1>2. \A h \in S : status[h] \in Reading
    BY DEF Reading, EnableAuto, EnableManual
  <1> QED  BY <1>1, <1>2

LEMMA InitInv == Init => Inv
  <1> SUFFICES ASSUME Init  PROVE  Inv
    OBVIOUS
  <1>1. DOMAIN file.fans = {}
    BY DEF Init, Marshal
  <1>2. Shaped
    BY <1>1, ChipShaped DEF Init, Shaped
  <1>3. last = "init"
    BY DEF Init
  <1> QED  BY <1>2, <1>3 DEF Inv, RestoreConverges, SaveRestoresToItself

\* What is saved is the profile of the chip as it reads, and planning it back
\* leaves alone every header in a documented mode.
LEMMA SaveInv == ASSUME Inv, Save  PROVE  Inv'
  <1> DEFINE p == FromStatus(live)
             H == DOMAIN live
  <1> USE DEF Inv, Shaped
  <1>1. H \in SUBSET (Nat \ {0}) /\ IsStatus(live, H)
    BY RestoreCycleAssumption DEF IsStatus, Reading, EnableAuto, EnableManual, NoEnable
  <1>2. p \in ProfileOver(H) /\ DOMAIN p \subseteq H
    BY <1>1, FromStatusProfile
  <1>3. WellFormed(Marshal(p)) /\ Parse(Marshal(p)) = p
    BY <1>1, <1>2, ParseMarshal
  <1>4. file' = Marshal(p) /\ live' = live /\ last' = "save"
    BY DEF Save
  <1>5. Shaped'
    BY <1>2, <1>4 DEF Marshal
  <1>6. \A h \in DOMAIN Plan(p, live) : live[h].enable = 2
    <2>1. H \in SUBSET Nat
      BY <1>1
    <2>2. \A h \in DOMAIN Plan(p, live) :
             live[h].enable \notin {NoEnable, EnableAuto, EnableManual}
      BY <1>1, <2>1, SaveThenPlan
    <2> QED  BY <2>2, PlanIsSelective DEF Reading
  <1>7. SaveRestoresToItself'
    BY <1>3, <1>4, <1>6 DEF SaveRestoresToItself
  <1> QED  BY <1>4, <1>5, <1>7 DEF RestoreConverges

\* A header that was driven shows what was wanted.
LEMMA DrivenHolds ==
    ASSUME NEW want \in FanState, NEW reading \in Reading
    PROVE  /\ Driven(want, reading) \in Reading
           /\ Holds(want, Driven(want, reading))
  <1>1. CASE want = FirmwareAuto
    BY <1>1 DEF Driven, Reading, Holds, FirmwareAuto, EnableAuto, EnableManual, NoEnable
  <1>2. ASSUME NEW w \in Byte, want = Manual(w)
        PROVE  Driven(want, reading) \in Reading /\ Holds(want, Driven(want, reading))
    BY <1>2 DEF Driven, Reading, Holds, Manual, EnableAuto, EnableManual, NoEnable
  <1> QED  BY <1>1, <1>2 DEF FanState

LEMMA RestoreInv == ASSUME Inv, Restore  PROVE  Inv'
  <1> DEFINE p == Parse(file)
  <1> USE DEF Inv, Shaped
  <1>1. file' = file /\ locked' = locked /\ last' = "restore"
    BY DEF Restore
  <1>2. CASE ~WellFormed(file)
    BY <1>1, <1>2 DEF Restore, RestoreConverges, SaveRestoresToItself
  <1>3. CASE WellFormed(file)
    <2>1. p \in [DOMAIN file.fans -> FanState]
      BY <1>3, RestoreCycleAssumption, ParseProfile
    <2>2. live' = Applied(p)
      BY <1>3 DEF Restore
    <2>3. \A h \in DOMAIN live' :
             live'[h] = IF h \in DOMAIN Plan(p, live) /\ ~Refused(h, p[h])
                        THEN Driven(p[h], live[h]) ELSE live[h]
      BY <2>2 DEF Applied
    <2>4. DOMAIN live' = DOMAIN live
      BY <2>2 DEF Applied
    <2>5. \A h \in DOMAIN Plan(p, live) : h \in DOMAIN p /\ h \in DOMAIN live
      BY PlanIsSelective
    <2>6. \A h \in DOMAIN live : live'[h] \in Reading
      BY <2>1, <2>3, <2>4, <2>5, DrivenHolds
    <2>7. Shaped'
      BY <1>1, <2>2, <2>4, <2>6 DEF Applied
    <2>8. ASSUME NEW h \in DOMAIN Plan(p, live')
          PROVE  \/ h \in locked
                 \/ file.fans[h].mode = "auto" /\ live'[h].enable = NoEnable
      <3>1. h \in DOMAIN p /\ h \in DOMAIN live /\ live'[h].writable /\ ~Holds(p[h], live'[h])
        BY <2>4, <2>8, PlanIsSelective
      <3>2. h \in DOMAIN Plan(p, live)
        <4> SUFFICES ASSUME h \notin DOMAIN Plan(p, live)  PROVE  FALSE
          OBVIOUS
        <4>1. live'[h] = live[h]
          BY <2>3, <2>4, <3>1
        <4> QED  BY <3>1, <4>1 DEF Plan
      <3>3. p[h] \in FanState /\ live[h] \in Reading
        BY <2>1, <3>1
      <3>4. Refused(h, p[h]) /\ live'[h] = live[h]
        BY <2>3, <2>4, <3>1, <3>2, <3>3, DrivenHolds
      <3>5. p[h].mode = "auto" => file.fans[h].mode = "auto"
        BY <3>1 DEF Parse, Manual
      <3> QED  BY <3>4, <3>5 DEF Refused
    <2>9. RestoreConverges'
      BY <1>1, <2>8 DEF RestoreConverges
    <2> QED  BY <1>1, <2>7, <2>9 DEF SaveRestoresToItself
  <1> QED  BY <1>2, <1>3

LEMMA OtherInv == ASSUME Inv, Edit \/ Rewire  PROVE  Inv'
  <1> USE DEF Inv, Shaped
  <1>1. last' \notin {"save", "restore"}
    BY DEF Edit, Rewire
  <1>2. CASE Edit
    <2>1. DOMAIN file'.fans \subseteq Indexes
      BY <1>2 DEF Edit, File
    <2> QED  BY <1>1, <1>2, <2>1 DEF Edit, RestoreConverges, SaveRestoresToItself
  <1>3. CASE Rewire
    <2>1. Shaped'
      BY <1>3, ChipShaped DEF Rewire
    <2> QED  BY <1>1, <2>1 DEF RestoreConverges, SaveRestoresToItself
  <1> QED  BY <1>2, <1>3

LEMMA NextInv == Inv /\ [Next]_vars => Inv'
  <1> SUFFICES ASSUME Inv, [Next]_vars  PROVE  Inv'
    OBVIOUS
  <1>1. CASE UNCHANGED vars
    BY <1>1 DEF vars, Inv, Shaped, RestoreConverges, SaveRestoresToItself
  <1> QED  BY <1>1, SaveInv, RestoreInv, OtherInv DEF Next

\* After a restore, planning the same file again asks only for what the chip
\* has refused and refuses again: a header whose pwmN_enable is read-only, or
\* one to go to the firmware that has no pwmN_enable.  So poll may verify at
\* every tick, and no fan is written twice (ApplyProfile, Plan).
THEOREM RestoreConvergesTheorem == Spec => []RestoreConverges
  BY InitInv, NextInv, PTL DEF Spec, Inv

\* What Save writes of a chip is accepted by Parse, and planned back it is a
\* no-op on every header in a documented mode.
THEOREM SaveRestoresTheorem == Spec => []SaveRestoresToItself
  BY InitInv, NextInv, PTL DEF Spec, Inv

\* A restore changes only headers that the profile names whose files are
\* writable, and nothing at all by a file it cannot make sense of.
THEOREM RestoreIsSelectiveTheorem == Spec => RestoreIsSelective
  <1>1. ASSUME Inv, [Next]_vars, last' = "restore", last' # last \/ vars' # vars,
               NEW h \in DOMAIN live, live'[h] # live[h]
        PROVE  /\ WellFormed(file) /\ h \in DOMAIN file.fans
               /\ live[h].writable /\ h \notin locked
    <2>1. Restore
      BY <1>1 DEF Next, vars, Save, Edit, Rewire
    <2>2. WellFormed(file) /\ live' = Applied(Parse(file))
      BY <1>1, <2>1 DEF Restore
    <2>3. h \in DOMAIN Plan(Parse(file), live) /\ h \notin locked
      BY <1>1, <2>2 DEF Applied, Refused
    <2>4. h \in DOMAIN Parse(file) /\ live[h].writable
      BY <2>3, PlanIsSelective
    <2> QED  BY <2>2, <2>3, <2>4 DEF Parse
  <1>2. Inv /\ [Next]_vars =>
           [last' = "restore" =>
              \A h \in DOMAIN live : live'[h] # live[h] =>
                  /\ WellFormed(file) /\ h \in DOMAIN file.fans
                  /\ live[h].writable /\ h \notin locked]_vars
    BY <1>1 DEF vars
  <1> QED  BY <1>2, InitInv, NextInv, PTL DEF Spec, RestoreIsSelective
=============================================================================

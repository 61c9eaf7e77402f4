---------------------------- MODULE FanctldProofs ----------------------------
(***************************************************************************)
(* Type correctness and safety of Fanctld for any number of headers,       *)
(* handlers and commands, and any number of calls, faults and reversions.  *)
(***************************************************************************)
EXTENDS Fanctld, TLAPS

USE SysfsAssumption, ControllerAssumption, FanctldAssumption

-----------------------------------------------------------------------------
(* Profiles and thread records.                                            *)

LEMMA ProfileIntro ==
    ASSUME NEW S \in SUBSET Headers, NEW p \in [S -> FanState]
    PROVE  p \in Profile
  BY DEF Profile, ProfileOver

LEMMA ProfileElim ==
    ASSUME NEW p \in Profile
    PROVE  DOMAIN p \subseteq Headers /\ p \in [DOMAIN p -> FanState]
  BY DEF Profile, ProfileOver

LEMMA FanStateFields ==
    \A s \in FanState : s.mode \in {"auto", "manual"} /\ s.pwm \in Byte
  BY DEF FanState, FirmwareAuto, Manual, Byte

LEMMA SettingsInFanState ==
    FirmwareAuto \in FanState /\ \A w \in Byte : Manual(w) \in FanState
  BY DEF FanState

LEMMA NoProfileType == NoProfile \in Profile
  <1>1. NoProfile \in [{} -> FanState]
    BY DEF NoProfile
  <1> QED  BY <1>1, ProfileIntro

LEMMA PercentDuty == \A p \in Percent : PercentToPWM(p) \in Byte
  BY DEF Percent, Byte, PercentToPWM

GoodRecord(r) == r \in Thread /\ Consistent(r)

LEMMA IdleType ==
    /\ Idle \in Thread
    /\ Idle.op = "none" /\ Idle.pc = "idle"
    /\ Consistent(Idle)
  BY NoProfileType DEF Idle, Thread, Ops, PCs, Reading, Unread, Byte, EnableModes, Consistent

LEMMA LoadsType ==
    ASSUME NEW op \in Ops
    PROVE  GoodRecord(Loads(op)) /\ Loads(op).op = op /\ Loads(op).pc = "load"
  BY IdleType DEF Loads, Thread, PCs, Consistent, GoodRecord

LEMMA ReadsType ==
    ASSUME NEW op \in Ops, NEW want \in Profile
    PROVE  GoodRecord(Reads(op, want)) /\ Reads(op, want).op = op /\ Reads(op, want).pc = "read"
  BY IdleType DEF Reads, Thread, PCs, Consistent, GoodRecord

LEMMA WritesType ==
    ASSUME NEW op \in Ops, NEW want \in Profile, NEW todo \in SUBSET (DOMAIN want \cap Fans)
    PROVE  /\ GoodRecord(Writes(op, want, todo))
           /\ Writes(op, want, todo).op = op /\ Writes(op, want, todo).pc = "write"
  BY IdleType DEF Writes, Thread, PCs, Consistent, GoodRecord

LEMMA EmittingType ==
    GoodRecord(Emitting) /\ Emitting.op = "emit" /\ Emitting.pc = "read"
  BY NoProfileType, ReadsType DEF Emitting, Ops

\* One thread moves to a good record.
LEMMA GotoType ==
    ASSUME ControllerTypeOK, NEW t \in Threads, NEW r, GoodRecord(r), Goto(t, r)
    PROVE  /\ th' \in [Threads -> Thread]
           /\ \A s \in Threads : Consistent(th'[s])
           /\ th'[t] = r
           /\ \A s \in Threads : s # t => th'[s] = th[s]
  <1> USE DEF ControllerTypeOK, Goto, GoodRecord
  <1>1. th' \in [Threads -> Thread] /\ th'[t] = r
    OBVIOUS
  <1>2. \A s \in Threads : s # t => th'[s] = th[s]
    OBVIOUS
  <1> QED  BY <1>1, <1>2

\* An operation ends.
LEMMA EndsType ==
    ASSUME ControllerTypeOK, NEW t \in Threads, NEW ok \in BOOLEAN, Ends(t, ok)
    PROVE  /\ th' \in [Threads -> Thread]
           /\ \A s \in Threads : Consistent(th'[s])
           /\ \A s \in Threads : s # t => th'[s] = th[s]
           /\ th'[t].op \in {"none", "emit"} /\ th'[t].pc \in {"idle", "read"}
           /\ window' \in BOOLEAN /\ clean' \subseteq Threads
  <1> DEFINE next == IF Reports(t, ok) THEN Emitting ELSE Idle
  <1>1. GoodRecord(next) /\ next.op \in {"none", "emit"} /\ next.pc \in {"idle", "read"}
    BY IdleType, EmittingType DEF GoodRecord
  <1>2. Goto(t, next)
    BY DEF Ends
  <1>3. window' \in BOOLEAN /\ clean' \subseteq Threads
    BY DEF Ends, Stops, ControllerTypeOK
  <1> HIDE DEF next
  <1> QED  BY <1>1, <1>2, <1>3, GotoType

-----------------------------------------------------------------------------
(* Type correctness, action by action.                                     *)

LEMMA ThreadFields ==
    ASSUME NEW r \in Thread
    PROVE  /\ r.op \in Ops /\ r.pc \in PCs /\ r.unread \in SUBSET Fans
           /\ r.fan \in Fans \cup {0} /\ r.snap \in [Fans -> Reading]
           /\ r.want \in Profile /\ r.todo \in SUBSET Headers
           /\ r.applied \in SUBSET Headers /\ r.failed \in SUBSET Headers
  BY DEF Thread

LEMMA CallType ==
    ASSUME ControllerTypeOK, NEW t \in Threads, CallOn(t)
    PROVE  ControllerTypeOK'
  <1>1. ASSUME NEW r, GoodRecord(r), Call(t, r), userTouched' \in BOOLEAN
        PROVE  ControllerTypeOK'
    <2>1. /\ th' \in [Threads -> Thread]
          /\ \A s \in Threads : Consistent(th'[s])
      BY <1>1, GotoType DEF Call
    <2>2. SysfsTypeOK' /\ disk' \in Disk /\ window' \in BOOLEAN
      BY <1>1 DEF Call, ControllerTypeOK, SysfsTypeOK, registers
    <2>3. calls' \in 0..MaxCalls /\ faults' \in 0..MaxFaults /\ reverts' \in 0..MaxReverts
      BY <1>1 DEF Call, ControllerTypeOK
    <2>4. /\ drifted' \subseteq Fans /\ stranded' \subseteq Fans
          /\ settled' \subseteq Threads \X Fans
          /\ clean' \subseteq Threads /\ fresh' \in BOOLEAN
      BY <1>1 DEF Call, Starts, marks, ControllerTypeOK
    <2> QED  BY <1>1, <2>1, <2>2, <2>3, <2>4 DEF ControllerTypeOK
  <1>2. Touch(t) => userTouched' \in BOOLEAN
    BY DEF Touch, ControllerTypeOK
  <1>3. CASE SetPercent(t)
    <2>1. PICK f \in Fans, percent \in Percents :
              LET want == [h \in {f} |-> Manual(PercentToPWM(percent))]
              IN  Call(t, Writes("set", want, {f})) /\ Touch(t)
      BY <1>3 DEF SetPercent
    <2> DEFINE want == [h \in {f} |-> Manual(PercentToPWM(percent))]
    <2>2. Manual(PercentToPWM(percent)) \in FanState
      BY PercentDuty, SettingsInFanState
    <2>3. want \in Profile /\ DOMAIN want = {f}
      BY <2>2, ProfileIntro
    <2>4. Call(t, Writes("set", want, {f})) /\ Touch(t)
      BY <2>1
    <2> HIDE DEF want
    <2>5. GoodRecord(Writes("set", want, {f}))
      BY <2>3, WritesType DEF Ops
    <2> QED  BY <1>1, <1>2, <2>4, <2>5
  <1>4. CASE SetMax(t) \/ SetAuto(t) \/ SaveState(t)
    BY <1>1, <1>2, <1>4, ReadsType, NoProfileType DEF SetMax, SetAuto, SaveState, Ops
  <1>5. CASE RestoreState(t)
    BY <1>1, <1>5, LoadsType DEF RestoreState, Ops, ControllerTypeOK
  <1> QED  BY <1>3, <1>4, <1>5 DEF CallOn

\* What most steps leave alone.
Framed ==
    /\ duty' \in [Fans -> Byte]
    /\ enable' \in [Fans -> EnableModes \cup {NoEnable}]
    /\ \A f \in Fans : HasEnable(f) <=> enable'[f] # NoEnable
    /\ userTouched' \in BOOLEAN /\ disk' \in Disk /\ window' \in BOOLEAN
    /\ calls' \in 0..MaxCalls /\ faults' \in 0..MaxFaults /\ reverts' \in 0..MaxReverts
    /\ drifted' \subseteq Fans /\ stranded' \subseteq Fans
    /\ settled' \subseteq Threads \X Fans
    /\ clean' \subseteq Threads /\ fresh' \in BOOLEAN

LEMMA Reframed ==
    ASSUME Framed, th' \in [Threads -> Thread], \A s \in Threads : Consistent(th'[s])
    PROVE  ControllerTypeOK'
  BY DEF Framed, ControllerTypeOK, SysfsTypeOK, HasEnable

LEMMA LoadProfileType ==
    ASSUME ControllerTypeOK, NEW t \in Threads, LoadProfile(t)
    PROVE  ControllerTypeOK'
  <1>1. th[t] \in Thread /\ th[t].op \in Ops /\ disk.fans \in Profile
    BY ThreadFields DEF ControllerTypeOK, Disk
  <1>2. CASE Goto(t, Reads(th[t].op, disk.fans)) /\ UNCHANGED <<window, clean, faults>>
    <2>1. Framed
      BY <1>2 DEF LoadProfile, Framed, ControllerTypeOK, SysfsTypeOK, registers, marks
    <2> QED  BY <1>1, <1>2, <2>1, ReadsType, GotoType, Reframed
  <1>3. CASE Ends(t, FALSE) /\ (Faulty \/ UNCHANGED faults)
    <2>0. window' \in BOOLEAN /\ clean' \subseteq Threads
      BY <1>3, EndsType
    <2>1. Framed
      BY <1>3, <2>0 DEF LoadProfile, Framed, ControllerTypeOK, SysfsTypeOK, registers, marks, Faulty
    <2> QED  BY <1>3, <2>1, EndsType, Reframed
  <1> QED  BY <1>2, <1>3 DEF LoadProfile

LEMMA ReadDutyType ==
    ASSUME ControllerTypeOK, NEW t \in Threads, ReadDuty(t)
    PROVE  ControllerTypeOK'
  <1>0. PICK f \in th[t].unread : \E pwm \in {duty[f], 0} :
            Goto(t, [th[t] EXCEPT !.pc = "enable", !.fan = f, !.unread = @ \ {f},
                                  !.snap[f] = AfterDuty(pwm)])
    BY DEF ReadDuty
  <1>1. PICK pwm \in {duty[f], 0} :
            Goto(t, [th[t] EXCEPT !.pc = "enable", !.fan = f, !.unread = @ \ {f},
                                  !.snap[f] = AfterDuty(pwm)])
    BY <1>0
  <1> DEFINE r == [th[t] EXCEPT !.pc = "enable", !.fan = f, !.unread = @ \ {f},
                                !.snap[f] = AfterDuty(pwm)]
  <1>2. th[t] \in Thread /\ f \in Fans
    BY ThreadFields DEF ControllerTypeOK
  <1>3. AfterDuty(pwm) \in Reading
    <2>1. pwm \in Byte
      BY <1>2 DEF Byte, ControllerTypeOK, SysfsTypeOK
    <2>2. Unread \in Reading
      BY DEF Unread, Reading, Byte
    <2> QED  BY <2>1, <2>2 DEF AfterDuty, Reading
  <1>4. [th[t].snap EXCEPT ![f] = AfterDuty(pwm)] \in [Fans -> Reading]
    BY <1>2, <1>3, ThreadFields
  <1>5. GoodRecord(r)
    BY <1>2, <1>4 DEF GoodRecord, Thread, PCs, Consistent
  <1>6. Framed
    BY DEF ReadDuty, Faulty, Stops, Framed, ControllerTypeOK, SysfsTypeOK, registers, marks
  <1> HIDE DEF r
  <1> QED  BY <1>1, <1>5, <1>6, GotoType, Reframed DEF r

LEMMA ReadEnableType ==
    ASSUME ControllerTypeOK, NEW t \in Threads, ReadEnable(t)
    PROVE  ControllerTypeOK'
  <1> DEFINE f == th[t].fan
  <1>1. PICK rest \in {Live(f)} \cup {[Live(f) EXCEPT !.enable = NoEnable],
                                     [Live(f) EXCEPT !.writable = FALSE]} :
            Goto(t, [th[t] EXCEPT !.pc = IF th[t].unread = {} THEN "plan" ELSE "read",
                                  !.fan = 0, !.snap[th[t].fan].enable = rest.enable,
                                  !.snap[th[t].fan].writable = rest.writable])
    BY DEF ReadEnable
  <1>2. th[t] \in Thread /\ f \in Fans
    BY DEF ReadEnable, At, ControllerTypeOK, Consistent
  <1>3. Live(f) \in Reading
    BY <1>2 DEF Live, Reading, ControllerTypeOK, SysfsTypeOK
  <1>4. rest.enable \in EnableModes \cup {NoEnable} /\ rest.writable \in BOOLEAN
    BY <1>3 DEF Reading
  <1> DEFINE snap == [th[t].snap EXCEPT ![f].enable = rest.enable, ![f].writable = rest.writable]
             r == [th[t] EXCEPT !.pc = IF th[t].unread = {} THEN "plan" ELSE "read", !.fan = 0,
                                !.snap[th[t].fan].enable = rest.enable,
                                !.snap[th[t].fan].writable = rest.writable]
  <1>5. snap \in [Fans -> Reading]
    BY <1>2, <1>4, ThreadFields DEF Reading
  <1>6. GoodRecord(r)
    BY <1>2, <1>5 DEF GoodRecord, Thread, PCs, Consistent
  <1>7. Framed
    BY DEF ReadEnable, Faulty, Stops, Framed, ControllerTypeOK, SysfsTypeOK, registers, marks
  <1> HIDE DEF r
  <1> QED  BY <1>1, <1>6, <1>7, GotoType, Reframed DEF r

LEMMA ReadStatusFailsType ==
    ASSUME ControllerTypeOK, NEW t \in Threads, ReadStatusFails(t)
    PROVE  ControllerTypeOK'
  <1>0. window' \in BOOLEAN /\ clean' \subseteq Threads
    BY EndsType DEF ReadStatusFails
  <1>1. Framed
    BY <1>0 DEF ReadStatusFails, Faulty, Framed, ControllerTypeOK, SysfsTypeOK, registers, marks
  <1> QED  BY <1>1, EndsType, Reframed DEF ReadStatusFails

LEMMA DecidesType ==
    ASSUME ControllerTypeOK, NEW t \in Threads, NEW r, GoodRecord(r), Decides(t, r)
    PROVE  ControllerTypeOK'
  <1>1. Framed
    BY DEF Decides, Framed, ControllerTypeOK, SysfsTypeOK, registers, history, marks
  <1> QED  BY <1>1, GotoType, Reframed DEF Decides

LEMMA PlanMaxType ==
    ASSUME ControllerTypeOK, NEW t \in Threads, PlanMax(t)
    PROVE  ControllerTypeOK'
  <1> DEFINE writable == {f \in Fans : th[t].snap[f].writable}
             want == [f \in writable |-> Manual(PercentToPWM(100))]
  <1>1. CASE Decides(t, Writes("max", want, writable))
    <2>1. Manual(PercentToPWM(100)) \in FanState
      BY PercentDuty, SettingsInFanState DEF Percent
    <2>2. writable \subseteq Fans
      OBVIOUS
    <2> HIDE DEF writable
    <2>3. want \in Profile /\ DOMAIN want = writable
      BY <2>1, <2>2, ProfileIntro
    <2> HIDE DEF want
    <2>4. GoodRecord(Writes("max", want, writable))
      BY <2>2, <2>3, WritesType DEF Ops
    <2> QED  BY <1>1, <2>4, DecidesType
  <1>2. CASE /\ Ends(t, FALSE)
             /\ UNCHANGED <<registers, userTouched, disk, calls, reverts, faults, marks, fresh>>
    <2>1. window' \in BOOLEAN /\ clean' \subseteq Threads
      BY <1>2, EndsType
    <2>2. Framed
      BY <1>2, <2>1 DEF Framed, ControllerTypeOK, SysfsTypeOK, registers, marks
    <2> QED  BY <1>2, <2>2, EndsType, Reframed
  <1> QED  BY <1>1, <1>2 DEF PlanMax

LEMMA PlanAutoType ==
    ASSUME ControllerTypeOK, NEW t \in Threads, PlanAuto(t)
    PROVE  ControllerTypeOK'
  <1> DEFINE want == [f \in Fans |-> FirmwareAuto]
  <1>1. want \in Profile /\ DOMAIN want = Fans
    BY SettingsInFanState, ProfileIntro
  <1>2. Decides(t, Writes("auto", want, Fans))
    BY DEF PlanAuto
  <1> HIDE DEF want
  <1>3. GoodRecord(Writes("auto", want, Fans))
    BY <1>1, WritesType DEF Ops
  <1> QED  BY <1>2, <1>3, DecidesType

LEMMA PlanRestoreType ==
    ASSUME ControllerTypeOK, NEW t \in Threads, PlanRestore(t)
    PROVE  ControllerTypeOK'
  <1> DEFINE todo == DOMAIN Plan(th[t].want, th[t].snap)
  <1>1. th[t] \in Thread /\ th[t].want \in Profile /\ th[t].snap \in [Fans -> Reading]
    BY ThreadFields DEF ControllerTypeOK
  <1>2. todo \in SUBSET (DOMAIN th[t].want \cap Fans)
    BY <1>1 DEF Plan
  <1>3. th[t].op \in Ops /\ Decides(t, Writes(th[t].op, th[t].want, todo))
    BY <1>1, ThreadFields DEF PlanRestore
  <1> HIDE DEF todo
  <1>4. GoodRecord(Writes(th[t].op, th[t].want, todo))
    BY <1>1, <1>2, <1>3, WritesType
  <1> QED  BY <1>3, <1>4, DecidesType

LEMMA PlanSaveEmitType ==
    ASSUME ControllerTypeOK, NEW t \in Threads, PlanSave(t) \/ PlanEmit(t)
    PROVE  ControllerTypeOK'
  <1>1. PICK pc \in {"save", "report"} : Decides(t, [th[t] EXCEPT !.pc = pc])
    BY DEF PlanSave, PlanEmit
  <1>2. th[t] \in Thread
    BY DEF ControllerTypeOK
  <1>3. GoodRecord([th[t] EXCEPT !.pc = pc])
    BY <1>2 DEF GoodRecord, Thread, PCs, Consistent
  <1> QED  BY <1>1, <1>3, DecidesType

LEMMA FromStatusInProfile ==
    ASSUME NEW status \in [Fans -> Reading]
    PROVE  FromStatus(status) \in Profile
  <1> DEFINE S == {i \in Fans : status[i].writable /\ i > 0}
  <1>1. FromStatus(status) \in [S -> FanState]
    BY SettingsInFanState DEF FromStatus, Reading
  <1> QED  BY <1>1, ProfileIntro

LEMMA SaveProfileType ==
    ASSUME ControllerTypeOK, NEW t \in Threads, SaveProfile(t)
    PROVE  ControllerTypeOK'
  <1> DEFINE p == FromStatus(th[t].snap)
  <1>1. th[t].snap \in [Fans -> Reading]
    BY ThreadFields DEF ControllerTypeOK
  <1>2. p \in Profile
    BY <1>1, FromStatusInProfile
  <1>3. Saved(p) \in Disk
    BY <1>2 DEF Saved, Disk
  <1>4. PICK ok \in BOOLEAN : Ends(t, ok)
    BY DEF SaveProfile
  <1>5. window' \in BOOLEAN /\ clean' \subseteq Threads
    BY <1>4, EndsType
  <1>6. disk' \in Disk /\ faults' \in 0..MaxFaults
    <2>1. disk' = Saved(p) \/ disk' = disk
      BY DEF SaveProfile
    <2>2. faults' = faults \/ Faulty
      BY DEF SaveProfile
    <2> HIDE DEF p
    <2> QED  BY <1>3, <2>1, <2>2 DEF Faulty, ControllerTypeOK
  <1>7. Framed
    BY <1>5, <1>6 DEF SaveProfile, Framed, ControllerTypeOK, SysfsTypeOK, registers, marks
  <1> QED  BY <1>4, <1>7, EndsType, Reframed

LEMMA EmitFansChangedType ==
    ASSUME ControllerTypeOK, NEW t \in Threads, EmitFansChanged(t)
    PROVE  ControllerTypeOK'
  <1>1. window' \in BOOLEAN /\ clean' \subseteq Threads
    BY EndsType DEF EmitFansChanged
  <1>2. fresh' \in BOOLEAN
    BY DEF EmitFansChanged
  <1>3. Framed
    BY <1>1, <1>2 DEF EmitFansChanged, Framed, ControllerTypeOK, SysfsTypeOK, registers, marks
  <1> QED  BY <1>3, EndsType, Reframed DEF EmitFansChanged

\* What a thread that is about to write header f holds.
LEMMA WantType ==
    ASSUME ControllerTypeOK, NEW t \in Threads, NEW f \in th[t].todo,
           At(t, "write") \/ At(t, "duty")
    PROVE  /\ th[t] \in Thread
           /\ f \in DOMAIN th[t].want \cap Fans
           /\ th[t].want[f] \in FanState
           /\ th[t].want[f].pwm \in Byte
  <1>1. th[t] \in Thread /\ Consistent(th[t])
    BY DEF ControllerTypeOK
  <1>2. f \in DOMAIN th[t].want \cap Fans
    BY <1>1 DEF Consistent, At
  <1>3. th[t].want \in [DOMAIN th[t].want -> FanState]
    BY <1>1, ThreadFields, ProfileElim
  <1>4. th[t].want[f] \in FanState
    BY <1>2, <1>3
  <1> QED  BY <1>1, <1>2, <1>4, FanStateFields

\* Moving on to the remaining headers.
LEMMA OnwardType ==
    ASSUME ControllerTypeOK, NEW t \in Threads, NEW f \in Fans,
           At(t, "write") \/ At(t, "duty")
    PROVE  /\ GoodRecord(Wrote(t, f))
           /\ GoodRecord([th[t] EXCEPT !.todo = @ \ {f}]) \/ At(t, "duty")
           /\ GoodRecord([th[t] EXCEPT !.pc = "write", !.fan = 0,
                                       !.todo = @ \ {f}, !.failed = @ \cup {f}])
           /\ Wrote(t, f).pc = "write" /\ Wrote(t, f).op = th[t].op
  <1>1. th[t] \in Thread /\ Consistent(th[t])
    BY DEF ControllerTypeOK
  <1>2. f \in Headers
    OBVIOUS
  <1> QED  BY <1>1, <1>2 DEF GoodRecord, Wrote, Thread, PCs, Consistent, At

LEMMA DutyDueFacts ==
    ASSUME ControllerTypeOK, NEW t \in Threads, NEW f \in Fans, DutyDue(t, f)
    PROVE  /\ f \in th[t].todo
           /\ th[t].want[f].mode = "manual"
           /\ At(t, "write") \/ At(t, "duty")
  BY DEF DutyDue, Upcoming, At, ControllerTypeOK, Consistent

LEMMA WriteManualType ==
    ASSUME ControllerTypeOK, NEW t \in Threads, WriteManual(t)
    PROVE  ControllerTypeOK'
  <1>1. PICK f \in Fans :
            /\ Upcoming(t, f) /\ th[t].want[f].mode = "manual" /\ CanDrive(f) /\ HasEnable(f)
            /\ WriteMode(f, EnableManual)
            /\ Goto(t, [th[t] EXCEPT !.pc = "duty", !.fan = f])
    BY DEF WriteManual
  <1>2. th[t] \in Thread /\ Consistent(th[t])
    BY DEF ControllerTypeOK
  <1>3. GoodRecord([th[t] EXCEPT !.pc = "duty", !.fan = f])
    BY <1>1, <1>2 DEF GoodRecord, Thread, PCs, Consistent, Upcoming, At
  <1>4. /\ enable' \in [Fans -> EnableModes \cup {NoEnable}]
        /\ \A g \in Fans : HasEnable(g) <=> enable'[g] # NoEnable
    BY <1>1 DEF WriteMode, ControllerTypeOK, SysfsTypeOK, EnableModes, EnableManual, NoEnable
  <1>5. Framed
    BY <1>4 DEF WriteManual, Disturbs, Framed, ControllerTypeOK, SysfsTypeOK, marks
  <1> QED  BY <1>1, <1>3, <1>5, GotoType, Reframed

LEMMA SettlesType ==
    ASSUME ControllerTypeOK, NEW t \in Threads, NEW f \in Fans, Settles(t, f)
    PROVE  settled' \subseteq Threads \X Fans
  BY DEF Settles, ControllerTypeOK

LEMMA WriteDutyType ==
    ASSUME ControllerTypeOK, NEW t \in Threads, WriteDuty(t)
    PROVE  ControllerTypeOK'
  <1>1. PICK f \in Fans :
            /\ DutyDue(t, f)
            /\ WritePWM(f, th[t].want[f].pwm)
            /\ Goto(t, Wrote(t, f))
            /\ drifted' = drifted \ {f} /\ stranded' = stranded \ {f}
            /\ Settles(t, f)
    BY DEF WriteDuty
  <1>2. th[t].want[f].pwm \in Byte
    BY <1>1, DutyDueFacts, WantType
  <1>3. duty' \in [Fans -> Byte]
    BY <1>1, <1>2 DEF WritePWM, ControllerTypeOK, SysfsTypeOK
  <1>4. settled' \subseteq Threads \X Fans
    BY <1>1, SettlesType
  <1>5. Framed
    BY <1>1, <1>3, <1>4 DEF WriteDuty, Disturbs, Framed, ControllerTypeOK, SysfsTypeOK
  <1>6. GoodRecord(Wrote(t, f))
    BY <1>1, DutyDueFacts, OnwardType
  <1> QED  BY <1>1, <1>5, <1>6, GotoType, Reframed

LEMMA WriteAutoType ==
    ASSUME ControllerTypeOK, NEW t \in Threads, WriteAuto(t)
    PROVE  ControllerTypeOK'
  <1>1. PICK f \in Fans :
            /\ Upcoming(t, f) /\ CanRelease(f)
            /\ WriteMode(f, EnableAuto)
            /\ Goto(t, Wrote(t, f))
            /\ stranded' = stranded \ {f}
            /\ Settles(t, f)
    BY DEF WriteAuto
  <1>2. /\ enable' \in [Fans -> EnableModes \cup {NoEnable}]
        /\ \A g \in Fans : HasEnable(g) <=> enable'[g] # NoEnable
    BY <1>1 DEF WriteMode, CanRelease, HasEnable, ControllerTypeOK, SysfsTypeOK,
                EnableModes, EnableAuto, NoEnable
  <1>3. settled' \subseteq Threads \X Fans
    BY <1>1, SettlesType
  <1>4. Framed
    BY <1>1, <1>2, <1>3 DEF WriteAuto, Disturbs, Framed, ControllerTypeOK, SysfsTypeOK
  <1>5. GoodRecord(Wrote(t, f))
    BY <1>1, OnwardType DEF Upcoming
  <1> QED  BY <1>1, <1>4, <1>5, GotoType, Reframed

LEMMA HeaderFailsType ==
    ASSUME ControllerTypeOK, NEW t \in Threads, NEW f \in Fans, HeaderFails(t, f),
           At(t, "write") \/ At(t, "duty")
    PROVE  /\ th' \in [Threads -> Thread]
           /\ \A s \in Threads : Consistent(th'[s])
           /\ window' \in BOOLEAN /\ clean' \subseteq Threads
  <1>1. CASE /\ Goto(t, [th[t] EXCEPT !.pc = "write", !.fan = 0,
                                      !.todo = @ \ {f}, !.failed = @ \cup {f}])
             /\ UNCHANGED <<window, clean>>
    <2>1. window' \in BOOLEAN /\ clean' \subseteq Threads
      BY <1>1 DEF ControllerTypeOK
    <2> QED  BY <1>1, <2>1, OnwardType, GotoType
  <1>2. CASE Ends(t, FALSE)
    BY <1>2, EndsType
  <1> QED  BY <1>1, <1>2 DEF HeaderFails

LEMMA RefuseType ==
    ASSUME ControllerTypeOK, NEW t \in Threads, Refuse(t)
    PROVE  ControllerTypeOK'
  <1>1. PICK f \in Fans :
            /\ Upcoming(t, f)
            /\ \/ /\ Goto(t, [th[t] EXCEPT !.todo = @ \ {f}])
                  /\ UNCHANGED <<window, clean>>
               \/ HeaderFails(t, f)
    BY DEF Refuse
  <1>2. /\ th' \in [Threads -> Thread]
        /\ \A s \in Threads : Consistent(th'[s])
        /\ window' \in BOOLEAN /\ clean' \subseteq Threads
    <2>1. CASE HeaderFails(t, f)
      BY <1>1, <2>1, HeaderFailsType DEF Upcoming
    <2>2. CASE Goto(t, [th[t] EXCEPT !.todo = @ \ {f}]) /\ UNCHANGED <<window, clean>>
      <3>1. GoodRecord([th[t] EXCEPT !.todo = @ \ {f}])
        BY <1>1, OnwardType DEF Upcoming, At
      <3>2. window' \in BOOLEAN /\ clean' \subseteq Threads
        BY <2>2 DEF ControllerTypeOK
      <3> QED  BY <2>2, <3>1, <3>2, GotoType
    <2> QED  BY <1>1, <2>1, <2>2
  <1>3. Framed
    BY <1>2 DEF Refuse, Framed, ControllerTypeOK, SysfsTypeOK, registers, marks
  <1> QED  BY <1>2, <1>3, Reframed

LEMMA WriteFailsType ==
    ASSUME ControllerTypeOK, NEW t \in Threads, WriteFails(t)
    PROVE  ControllerTypeOK'
  <1>1. PICK f \in Fans :
            /\ At(t, "write") \/ At(t, "duty")
            /\ Faulty
            /\ HeaderFails(t, f)
            /\ stranded' = IF At(t, "duty") THEN stranded \cup {f} ELSE stranded
    BY DEF WriteFails, DutyDue, Upcoming
  <1>2. /\ th' \in [Threads -> Thread]
        /\ \A s \in Threads : Consistent(th'[s])
        /\ window' \in BOOLEAN /\ clean' \subseteq Threads
    BY <1>1, HeaderFailsType
  <1>3. Framed
    BY <1>1, <1>2 DEF WriteFails, Faulty, Framed, ControllerTypeOK, SysfsTypeOK, registers
  <1> QED  BY <1>2, <1>3, Reframed

LEMMA FinishType ==
    ASSUME ControllerTypeOK, NEW t \in Threads, Finish(t)
    PROVE  ControllerTypeOK'
  <1>1. PICK ok \in BOOLEAN : Ends(t, ok)
    BY DEF Finish, Succeeded
  <1>2. window' \in BOOLEAN /\ clean' \subseteq Threads
    BY <1>1, EndsType
  <1>3. Framed
    BY <1>2 DEF Finish, Framed, ControllerTypeOK, SysfsTypeOK, registers, marks
  <1> QED  BY <1>1, <1>3, EndsType, Reframed

LEMMA FirmwareType ==
    ASSUME ControllerTypeOK, Firmware
    PROVE  ControllerTypeOK'
  <1>1. /\ duty' \in [Fans -> Byte]
        /\ enable' \in [Fans -> EnableModes \cup {NoEnable}]
        /\ \A f \in Fans : HasEnable(f) <=> enable'[f] # NoEnable
    BY DEF Firmware, FirmwareMoves, FirmwareReverts, FirmwareDriven, WriteMode, WritePWM, HasEnable,
           ControllerTypeOK, SysfsTypeOK, EnableModes, EnableAuto, EnableManual, NoEnable
  <1>2. /\ drifted' \subseteq Fans /\ clean' \subseteq Threads
        /\ reverts' \in 0..MaxReverts /\ fresh' \in BOOLEAN
    <2>1. fresh' = FALSE
      BY DEF Firmware
    <2>2. \E f \in Fans : drifted' = drifted \cup {f}
      BY DEF Firmware
    <2>3. clean' = clean \/ clean' = {}
      BY DEF Firmware
    <2>4. reverts' = reverts \/ (reverts < MaxReverts /\ reverts' = reverts + 1)
      BY DEF Firmware
    <2>5. reverts' \in 0..MaxReverts
      BY <2>4 DEF ControllerTypeOK
    <2>6. drifted' \subseteq Fans
      BY <2>2 DEF ControllerTypeOK
    <2>7. clean' \subseteq Threads
      BY <2>3 DEF ControllerTypeOK
    <2> QED  BY <2>1, <2>5, <2>6, <2>7
  <1>4. UNCHANGED <<userTouched, disk, window, calls, faults, stranded, settled>>
    BY DEF Firmware
  <1>5. Framed
    BY <1>1, <1>2, <1>4 DEF Framed, ControllerTypeOK
  <1>3. th' = th
    BY DEF Firmware
  <1> QED  BY <1>3, <1>5, Reframed DEF ControllerTypeOK

-----------------------------------------------------------------------------
(* Whole steps.                                                            *)

LEMMA StepType ==
    ASSUME ControllerTypeOK, NEW t \in Threads, Step(t)
    PROVE  ControllerTypeOK'
  BY LoadProfileType, ReadDutyType, ReadEnableType, ReadStatusFailsType, PlanMaxType,
     PlanAutoType, PlanRestoreType, PlanSaveEmitType, SaveProfileType, EmitFansChangedType,
     WriteManualType, WriteDutyType, WriteAutoType, RefuseType, WriteFailsType, FinishType
  DEF Step

LEMMA DiesType ==
    ASSUME ControllerTypeOK, NEW T \in SUBSET Threads, Dies(T)
    PROVE  /\ th' \in [Threads -> Thread]
           /\ \A s \in Threads : Consistent(th'[s])
           /\ stranded' \subseteq Fans /\ clean' \subseteq Threads
  BY IdleType DEF Dies, ControllerTypeOK

LEMMA TypeInit == Init => TypeOK
  <1> SUFFICES ASSUME Init PROVE TypeOK
    OBVIOUS
  <1>1. SysfsTypeOK
    BY DEF Init, SysfsInit, SysfsTypeOK, EnableModes
  <1>2. th \in [Threads -> Thread] /\ \A t \in Threads : Consistent(th[t])
    BY IdleType DEF Init
  <1>3. /\ drifted \subseteq Fans /\ stranded \subseteq Fans
        /\ settled \subseteq Threads \X Fans /\ clean \subseteq Threads
    BY DEF Init
  <1>4. calls \in 0..MaxCalls /\ faults \in 0..MaxFaults /\ reverts \in 0..MaxReverts
    BY DEF Init
  <1>5. userTouched \in BOOLEAN /\ window \in BOOLEAN /\ fresh \in BOOLEAN /\ disk \in Disk
    BY DEF Init
  <1>6. phase \in {"down", "boot", "serving"}
    BY DEF Init
  <1> QED  BY <1>1, <1>2, <1>3, <1>4, <1>5, <1>6 DEF TypeOK, ControllerTypeOK

LEMMA TypeStep == TypeOK /\ [Next]_vars => TypeOK'
  <1> SUFFICES ASSUME TypeOK, [Next]_vars PROVE TypeOK'
    OBVIOUS
  <1> USE DEF TypeOK
  <1>0. Main \in Threads /\ Handlers \subseteq Threads /\ Clis \subseteq Threads
    BY DEF Threads, Daemon
  <1>1. phase' \in {"down", "boot", "serving"}
    BY DEF Next, Start, Serve, VerifySaved, EmitCurrent, WindowExpires, Crash, KillCli, vars
  <1>2. CASE Start \/ VerifySaved
    <2>1. GoodRecord(Loads("restore")) /\ GoodRecord(Loads("verify"))
      BY LoadsType DEF Ops
    <2>2. Framed
      BY <1>0, <1>2 DEF Start, VerifySaved, Starts, Framed, ControllerTypeOK, SysfsTypeOK, registers, marks
    <2>3. Goto(Main, Loads("restore")) \/ Goto(Main, Loads("verify"))
      BY <1>2 DEF Start, VerifySaved
    <2> QED  BY <1>0, <1>1, <2>1, <2>2, <2>3, GotoType, Reframed
  <1>3. CASE Serve \/ EmitCurrent
    <2>1. GoodRecord(Emitting) /\ GoodRecord(Idle)
      BY EmittingType, IdleType DEF GoodRecord
    <2>2. Framed
      BY <1>3 DEF Serve, EmitCurrent, Framed, ControllerTypeOK, SysfsTypeOK, registers, history, marks
    <2>3. Goto(Main, Emitting) \/ Goto(Main, Idle)
      BY <1>3 DEF Serve, EmitCurrent
    <2> QED  BY <1>0, <1>1, <2>1, <2>2, <2>3, GotoType, Reframed
  <1>4. CASE WindowExpires
    <2>1. Framed /\ th' = th
      BY <1>4 DEF WindowExpires, Framed, ControllerTypeOK, SysfsTypeOK, registers, history, marks
    <2> QED  BY <1>1, <2>1, Reframed DEF ControllerTypeOK
  <1>5. CASE Crash
    <2>1. Dies(Daemon) /\ Daemon \in SUBSET Threads
      BY <1>5 DEF Crash, Threads
    <2>3. /\ settled' = {} /\ userTouched' = FALSE /\ window' = FALSE /\ fresh' = FALSE
          /\ Faulty /\ UNCHANGED <<registers, disk, calls, reverts, drifted>>
      BY <1>5 DEF Crash
    <2>4. faults' \in 0..MaxFaults
      BY <2>3 DEF Faulty, ControllerTypeOK
    <2>2. Framed
      BY <2>1, <2>3, <2>4, DiesType DEF Framed, ControllerTypeOK, SysfsTypeOK, registers
    <2> QED  BY <1>1, <2>1, <2>2, DiesType, Reframed
  <1>6. ASSUME NEW t \in Clis, KillCli(t) PROVE TypeOK'
    <2>1. Dies({t}) /\ {t} \in SUBSET Threads
      BY <1>0, <1>6 DEF KillCli
    <2>2. Framed
      BY <1>6, <2>1, DiesType DEF KillCli, Faulty, Framed, ControllerTypeOK, SysfsTypeOK, registers
    <2> QED  BY <1>1, <2>1, <2>2, DiesType, Reframed
  <1>7. ASSUME NEW t \in Threads, Step(t) \/ CallOn(t) PROVE TypeOK'
    BY <1>1, <1>7, StepType, CallType
  <1>8. CASE Firmware
    BY <1>1, <1>8, FirmwareType
  <1>9. CASE UNCHANGED vars
    BY <1>9 DEF vars, cvars, registers, history, marks, ControllerTypeOK, SysfsTypeOK
  <1> QED  BY <1>0, <1>2, <1>3, <1>4, <1>5, <1>6, <1>7, <1>8, <1>9 DEF Next

\* Every variable stays in its type, and a thread's record fits where the
\* thread is: a header between its two writes (SetPWMRaw) is one the operation
\* still wants in manual mode.
THEOREM TypeCorrect == Spec => []TypeOK
  BY TypeInit, TypeStep, PTL DEF Spec

-----------------------------------------------------------------------------
(* Headers in manual mode.                                                 *)

\* A step that touches neither the modes nor the marks, taken by a thread that
\* is not between its two writes, if by a thread at all.
Unobtrusive ==
    /\ UNCHANGED <<enable, drifted, stranded>>
    /\ \A s \in Threads : At(s, "duty") => th'[s] = th[s]

LEMMA UnobtrusiveKeepsManual ==
    ASSUME ManualRunsAtCommanded, Unobtrusive
    PROVE  ManualRunsAtCommanded'
  BY DEF ManualRunsAtCommanded, Unobtrusive, At

LEMMA GotoUnobtrusive ==
    ASSUME TypeOK, NEW t \in Threads, NEW r, Goto(t, r), ~At(t, "duty"),
           UNCHANGED <<enable, drifted, stranded>>
    PROVE  Unobtrusive
  BY DEF TypeOK, ControllerTypeOK, Goto, Unobtrusive, At

LEMMA EndsUnobtrusive ==
    ASSUME TypeOK, NEW t \in Threads, NEW ok \in BOOLEAN, Ends(t, ok), ~At(t, "duty"),
           UNCHANGED <<enable, drifted, stranded>>
    PROVE  Unobtrusive
  <1>1. \E r : Goto(t, r)
    BY DEF Ends
  <1> QED  BY <1>1, GotoUnobtrusive

\* A thread that reads, plans, saves, reports, returns or is called.
QuietStep(t) ==
    \/ LoadProfile(t) \/ ReadDuty(t) \/ ReadEnable(t) \/ ReadStatusFails(t)
    \/ PlanMax(t) \/ PlanAuto(t) \/ PlanRestore(t) \/ PlanSave(t) \/ PlanEmit(t)
    \/ SaveProfile(t) \/ EmitFansChanged(t) \/ Refuse(t) \/ Finish(t) \/ CallOn(t)

LEMMA QuietStepUnobtrusive ==
    ASSUME TypeOK, NEW t \in Threads, QuietStep(t)
    PROVE  Unobtrusive
  <1>1. \E r : Goto(t, r)
    BY DEF QuietStep, LoadProfile, ReadDuty, ReadEnable, ReadStatusFails, PlanMax, PlanAuto,
           PlanRestore, PlanSave, PlanEmit, SaveProfile, EmitFansChanged, Refuse, Finish,
           CallOn, SetPercent, SetMax, SetAuto, SaveState, RestoreState, Call, Decides,
           HeaderFails, Ends
  <1>2. ~At(t, "duty")
    BY DEF QuietStep, LoadProfile, ReadDuty, ReadEnable, ReadStatusFails, PlanMax, PlanAuto,
           PlanRestore, PlanSave, PlanEmit, SaveProfile, EmitFansChanged, Refuse, Finish,
           CallOn, SetPercent, SetMax, SetAuto, SaveState, RestoreState, Call, Decides,
           Upcoming, Finished, At
  <1>3. UNCHANGED <<enable, drifted, stranded>>
    BY DEF QuietStep, LoadProfile, ReadDuty, ReadEnable, ReadStatusFails, PlanMax, PlanAuto,
           PlanRestore, PlanSave, PlanEmit, SaveProfile, EmitFansChanged, Refuse, Finish,
           CallOn, SetPercent, SetMax, SetAuto, SaveState, RestoreState, Call, Decides,
           registers, history, marks
  <1> QED  BY <1>1, <1>2, <1>3, GotoUnobtrusive

LEMMA WriteManualKeepsManual ==
    ASSUME TypeOK, ManualRunsAtCommanded, NEW t \in Threads, WriteManual(t)
    PROVE  ManualRunsAtCommanded'
  <1>1. PICK f \in Fans :
            /\ Upcoming(t, f)
            /\ enable' = [enable EXCEPT ![f] = EnableManual]
            /\ Goto(t, [th[t] EXCEPT !.pc = "duty", !.fan = f])
    BY DEF WriteManual, WriteMode
  <1>2. th[t] \in Thread /\ th[t].pc = "write"
    BY <1>1 DEF Upcoming, At, TypeOK, ControllerTypeOK
  <1>3. th'[t].pc = "duty" /\ th'[t].fan = f
    BY <1>1, <1>2 DEF Goto, TypeOK, ControllerTypeOK, Thread
  <1>4. \A s \in Threads : At(s, "duty") => th'[s] = th[s]
    BY <1>1, <1>2 DEF Goto, TypeOK, ControllerTypeOK, At
  <1>5. \A g \in Fans : g # f => enable'[g] = enable[g]
    BY <1>1 DEF TypeOK, ControllerTypeOK, SysfsTypeOK
  <1>6. UNCHANGED <<drifted, stranded>>
    BY DEF WriteManual, marks
  <1> QED  BY <1>3, <1>4, <1>5, <1>6 DEF ManualRunsAtCommanded, At

LEMMA WriteDutyKeepsManual ==
    ASSUME TypeOK, ManualRunsAtCommanded, NEW t \in Threads, WriteDuty(t)
    PROVE  ManualRunsAtCommanded'
  <1>1. PICK f \in Fans :
            /\ DutyDue(t, f)
            /\ Goto(t, Wrote(t, f))
            /\ drifted' = drifted \ {f} /\ stranded' = stranded \ {f}
            /\ enable' = enable
    BY DEF WriteDuty
  <1>2. \A s \in Threads : s # t => th'[s] = th[s]
    BY <1>1 DEF Goto, TypeOK, ControllerTypeOK
  <1>3. At(t, "duty") => th[t].fan = f
    BY <1>1 DEF DutyDue, Upcoming, At
  <1> QED  BY <1>1, <1>2, <1>3 DEF ManualRunsAtCommanded, At

LEMMA WriteAutoKeepsManual ==
    ASSUME TypeOK, ManualRunsAtCommanded, NEW t \in Threads, WriteAuto(t)
    PROVE  ManualRunsAtCommanded'
  <1>1. PICK f \in Fans :
            /\ At(t, "write")
            /\ enable' = [enable EXCEPT ![f] = EnableAuto]
            /\ Goto(t, Wrote(t, f))
            /\ drifted' = drifted /\ stranded' = stranded \ {f}
    BY DEF WriteAuto, WriteMode, Upcoming
  <1>2. \A s \in Threads : At(s, "duty") => th'[s] = th[s]
    BY <1>1 DEF Goto, TypeOK, ControllerTypeOK, At
  <1>3. enable'[f] # EnableManual /\ \A g \in Fans : g # f => enable'[g] = enable[g]
    BY <1>1 DEF TypeOK, ControllerTypeOK, SysfsTypeOK, EnableAuto, EnableManual
  <1> QED  BY <1>1, <1>2, <1>3 DEF ManualRunsAtCommanded, At

LEMMA WriteFailsKeepsManual ==
    ASSUME TypeOK, ManualRunsAtCommanded, NEW t \in Threads, WriteFails(t)
    PROVE  ManualRunsAtCommanded'
  <1>1. PICK f \in Fans :
            /\ At(t, "duty") => f = th[t].fan
            /\ HeaderFails(t, f)
            /\ stranded' = IF At(t, "duty") THEN stranded \cup {f} ELSE stranded
            /\ enable' = enable /\ drifted' = drifted
    BY DEF WriteFails, DutyDue, Upcoming, At, registers
  <1>2. \E r : Goto(t, r)
    BY <1>1 DEF HeaderFails, Ends
  <1>3. \A s \in Threads : s # t => th'[s] = th[s]
    BY <1>2 DEF Goto, TypeOK, ControllerTypeOK
  <1> QED  BY <1>1, <1>3 DEF ManualRunsAtCommanded, At

LEMMA DiesKeepsManual ==
    ASSUME TypeOK, ManualRunsAtCommanded, NEW T \in SUBSET Threads, Dies(T),
           UNCHANGED <<enable, drifted>>
    PROVE  ManualRunsAtCommanded'
  BY DEF Dies, ManualRunsAtCommanded, At

LEMMA FirmwareKeepsManual ==
    ASSUME TypeOK, ManualRunsAtCommanded, Firmware
    PROVE  ManualRunsAtCommanded'
  <1>1. PICK f \in Fans :
            /\ drifted' = drifted \cup {f} /\ stranded' = stranded /\ th' = th
            /\ \/ enable[f] # EnableManual /\ enable' = enable
               \/ enable' = [enable EXCEPT ![f] = EnableAuto]
    BY DEF Firmware, FirmwareMoves, FirmwareReverts, FirmwareDriven, WriteMode
  <1>2. enable'[f] # EnableManual /\ \A g \in Fans : g # f => enable'[g] = enable[g]
    BY <1>1 DEF TypeOK, ControllerTypeOK, SysfsTypeOK, EnableAuto, EnableManual
  <1> QED  BY <1>1, <1>2 DEF ManualRunsAtCommanded, At

LEMMA ManualInit == Init => ManualRunsAtCommanded
  BY DEF Init, ManualRunsAtCommanded, FirmwareDriven

\* A daemon that is not running is in no operation.
DownIdle == phase = "down" => At(Main, "idle")

LEMMA DownIdleStep == TypeOK /\ DownIdle /\ [Next]_vars => DownIdle'
  <1> SUFFICES ASSUME TypeOK, DownIdle, [Next]_vars, phase' = "down" PROVE At(Main, "idle")'
    BY DEF DownIdle
  <1>0. Main \in Threads
    BY DEF Threads, Daemon
  <1>1. CASE Crash
    BY <1>0, <1>1, IdleType DEF Crash, Dies, Daemon, At
  <1>2. ASSUME NEW t \in Threads, Step(t), UNCHANGED phase
        PROVE  At(Main, "idle")'
    <2>1. ~At(t, "idle")
      BY <1>2 DEF Step, LoadProfile, ReadDuty, ReadEnable, ReadStatusFails, PlanMax, PlanAuto,
             PlanRestore, PlanSave, PlanEmit, SaveProfile, EmitFansChanged, WriteManual,
             WriteDuty, WriteAuto, WriteFails, Refuse, Finish, DutyDue, Decides, Upcoming,
             Finished, At
    <2>2. \E r : Goto(t, r)
      BY <1>2 DEF Step, LoadProfile, ReadDuty, ReadEnable, ReadStatusFails, PlanMax, PlanAuto,
             PlanRestore, PlanSave, PlanEmit, SaveProfile, EmitFansChanged, WriteManual,
             WriteDuty, WriteAuto, WriteFails, Refuse, Finish, Decides, HeaderFails, Ends
    <2> QED  BY <1>2, <2>1, <2>2 DEF DownIdle, Goto, At, TypeOK, ControllerTypeOK
  <1>3. ASSUME NEW t \in Handlers \cup Clis, CallOn(t), UNCHANGED phase
        PROVE  At(Main, "idle")'
    <2>1. \E r : Goto(t, r)
      BY <1>3 DEF CallOn, SetPercent, SetMax, SetAuto, SaveState, RestoreState, Call
    <2> QED  BY <1>0, <1>3, <2>1 DEF DownIdle, Goto, At, TypeOK, ControllerTypeOK
  <1>4. ASSUME NEW t \in Clis, KillCli(t)
        PROVE  At(Main, "idle")'
    BY <1>0, <1>4 DEF KillCli, Dies, DownIdle, At
  <1>5. CASE Firmware /\ UNCHANGED phase
    BY <1>5 DEF Firmware, DownIdle, At
  <1>6. CASE WindowExpires \/ UNCHANGED vars
    BY <1>6 DEF WindowExpires, vars, cvars, DownIdle, At
  <1>7. ~(Start \/ Serve \/ VerifySaved \/ EmitCurrent)
    BY DEF Start, Serve, VerifySaved, EmitCurrent
  <1> QED  BY <1>1, <1>2, <1>3, <1>4, <1>5, <1>6, <1>7 DEF Next

LEMMA ManualStep ==
    TypeOK /\ DownIdle /\ ManualRunsAtCommanded /\ [Next]_vars => ManualRunsAtCommanded'
  <1> SUFFICES ASSUME TypeOK, DownIdle, ManualRunsAtCommanded, [Next]_vars
               PROVE  ManualRunsAtCommanded'
    OBVIOUS
  <1>0. Main \in Threads /\ Handlers \subseteq Threads /\ Clis \subseteq Threads
    BY DEF Threads, Daemon
  <1>1. CASE Start \/ Serve \/ VerifySaved \/ EmitCurrent
    <2>1. \E r : Goto(Main, r)
      BY <1>1 DEF Start, Serve, VerifySaved, EmitCurrent
    <2>2. ~At(Main, "duty") /\ UNCHANGED <<enable, drifted, stranded>>
      BY <1>1 DEF DownIdle, Start, Serve, VerifySaved, EmitCurrent, At, registers, history, marks
    <2> QED  BY <1>0, <2>1, <2>2, GotoUnobtrusive, UnobtrusiveKeepsManual
  <1>2. CASE WindowExpires \/ UNCHANGED vars
    <2>1. Unobtrusive
      BY <1>2 DEF WindowExpires, vars, cvars, registers, history, marks, Unobtrusive
    <2> QED  BY <2>1, UnobtrusiveKeepsManual
  <1>3. CASE Crash
    <2>1. Dies(Daemon) /\ Daemon \in SUBSET Threads /\ UNCHANGED <<enable, drifted>>
      BY <1>3 DEF Crash, Threads, registers
    <2> QED  BY <2>1, DiesKeepsManual
  <1>4. ASSUME NEW t \in Clis, KillCli(t) PROVE ManualRunsAtCommanded'
    <2>1. Dies({t}) /\ {t} \in SUBSET Threads /\ UNCHANGED <<enable, drifted>>
      BY <1>0, <1>4 DEF KillCli, registers
    <2> QED  BY <2>1, DiesKeepsManual
  <1>5. ASSUME NEW t \in Threads, CallOn(t) PROVE ManualRunsAtCommanded'
    BY <1>5, QuietStepUnobtrusive, UnobtrusiveKeepsManual DEF QuietStep
  <1>6. ASSUME NEW t \in Threads, Step(t) PROVE ManualRunsAtCommanded'
    <2>1. QuietStep(t) \/ WriteManual(t) \/ WriteDuty(t) \/ WriteAuto(t) \/ WriteFails(t)
      BY <1>6 DEF Step, QuietStep
    <2> QED  BY <2>1, QuietStepUnobtrusive, UnobtrusiveKeepsManual, WriteManualKeepsManual,
                WriteDutyKeepsManual, WriteAutoKeepsManual, WriteFailsKeepsManual
  <1>7. CASE Firmware
    BY <1>7, FirmwareKeepsManual
  <1> QED  BY <1>0, <1>1, <1>2, <1>3, <1>4, <1>5, <1>6, <1>7 DEF Next

\* No header is left in manual mode at a duty the firmware chose, unless a
\* SetPWMRaw was cut short on it: for any number of headers, of concurrent
\* calls and commands, of crashes and of failed writes.
THEOREM ManualDuty == Spec => []ManualRunsAtCommanded
  <1>1. Init => TypeOK /\ DownIdle /\ ManualRunsAtCommanded
    <2>1. Init => DownIdle
      BY IdleType DEF Init, DownIdle, At, Threads, Daemon
    <2> QED  BY <2>1, TypeInit, ManualInit
  <1>2. TypeOK /\ DownIdle /\ ManualRunsAtCommanded /\ [Next]_vars
            => (TypeOK /\ DownIdle /\ ManualRunsAtCommanded)'
    BY TypeStep, DownIdleStep, ManualStep
  <1> QED  BY <1>1, <1>2, PTL DEF Spec

-----------------------------------------------------------------------------
(* Verify passes and commands.                                             *)

Changing == {"set", "max", "auto"}

\* What makes NoVerifyAfterCommand inductive: a D-Bus command that may yet set
\* a header, or has set one, has set userTouched.
TouchedFirst ==
    /\ \A t \in Handlers : th[t].op \in Changing => userTouched
    /\ \A s \in settled : s[1] \in Handlers => userTouched

\* An operation goes on as what it was, until it ends.
LEMMA StepKeepsOp ==
    ASSUME TypeOK, NEW t \in Threads, Step(t)
    PROVE  th'[t].op \in {th[t].op, "none", "emit"} /\ \A s \in Threads : s # t => th'[s] = th[s]
  <1>1. th[t] \in Thread /\ th[t].op \in Ops /\ disk.fans \in Profile
    BY ThreadFields DEF TypeOK, ControllerTypeOK, Disk
  <1>2. ASSUME NEW r, Goto(t, r)
        PROVE  th'[t] = r /\ \A s \in Threads : s # t => th'[s] = th[s]
    BY <1>2 DEF Goto, TypeOK, ControllerTypeOK
  <1>3. ASSUME NEW ok \in BOOLEAN, Ends(t, ok)
        PROVE  th'[t].op \in {"none", "emit"} /\ \A s \in Threads : s # t => th'[s] = th[s]
    BY <1>3, EndsType DEF TypeOK
  <1>4. CASE LoadProfile(t)
    <2>1. Reads(th[t].op, disk.fans).op = th[t].op
      BY <1>1, ReadsType
    <2> QED  BY <1>2, <1>3, <1>4, <2>1 DEF LoadProfile
  <1>5. CASE \/ ReadDuty(t) \/ ReadEnable(t) \/ PlanSave(t) \/ PlanEmit(t)
             \/ WriteManual(t) \/ WriteDuty(t) \/ WriteAuto(t)
    <2>1. \E r : Goto(t, r)
      BY <1>5 DEF ReadDuty, ReadEnable, PlanSave, PlanEmit, Decides, WriteManual, WriteDuty,
                  WriteAuto
    <2>2. ReadDuty(t) => th'[t].op = th[t].op
      BY <1>1 DEF ReadDuty, Goto, Thread, TypeOK, ControllerTypeOK
    <2>3. ReadEnable(t) => th'[t].op = th[t].op
      BY <1>1 DEF ReadEnable, Goto, Thread, TypeOK, ControllerTypeOK
    <2>4. PlanSave(t) \/ PlanEmit(t) => th'[t].op = th[t].op
      BY <1>1 DEF PlanSave, PlanEmit, Decides, Goto, Thread, TypeOK, ControllerTypeOK
    <2>5. WriteManual(t) => th'[t].op = th[t].op
      BY <1>1 DEF WriteManual, Goto, Thread, TypeOK, ControllerTypeOK
    <2>6. ASSUME NEW f \in Fans, Goto(t, Wrote(t, f))
          PROVE  th'[t].op = th[t].op
      <3>1. Wrote(t, f).op = th[t].op
        BY <1>1 DEF Wrote, Thread
      <3> QED  BY <1>2, <2>6, <3>1
    <2>7. WriteDuty(t) \/ WriteAuto(t) => \E f \in Fans : Goto(t, Wrote(t, f))
      BY DEF WriteDuty, WriteAuto
    <2> QED  BY <1>2, <1>5, <2>1, <2>2, <2>3, <2>4, <2>5, <2>6, <2>7
  <1>6. CASE \/ ReadStatusFails(t) \/ SaveProfile(t) \/ EmitFansChanged(t) \/ Finish(t)
    <2>1. \E ok \in BOOLEAN : Ends(t, ok)
      BY <1>6 DEF ReadStatusFails, SaveProfile, EmitFansChanged, Finish, Succeeded
    <2> QED  BY <1>3, <2>1
  <1>7. CASE PlanMax(t) \/ PlanAuto(t) \/ PlanRestore(t)
    <2>1. ASSUME NEW want, NEW todo, Goto(t, Writes(th[t].op, want, todo))
          PROVE  th'[t].op = th[t].op /\ \A s \in Threads : s # t => th'[s] = th[s]
      <3>1. Writes(th[t].op, want, todo).op = th[t].op
        BY DEF Writes, Idle
      <3> QED  BY <1>2, <2>1, <3>1
    <2>2. Ends(t, FALSE) \/ \E want, todo : Goto(t, Writes(th[t].op, want, todo))
      BY <1>7 DEF PlanMax, PlanAuto, PlanRestore, Decides
    <2> QED  BY <1>3, <2>1, <2>2
  <1>8. CASE Refuse(t) \/ WriteFails(t)
    <2>1. ASSUME NEW f \in Fans, HeaderFails(t, f)
          PROVE  Ends(t, FALSE) \/ ((\E r : Goto(t, r)) /\ th'[t].op = th[t].op)
      <3> DEFINE r == [th[t] EXCEPT !.pc = "write", !.fan = 0,
                                    !.todo = @ \ {f}, !.failed = @ \cup {f}]
      <3>1. r.op = th[t].op
        BY <1>1 DEF Thread
      <3>2. Ends(t, FALSE) \/ Goto(t, r)
        BY <2>1 DEF HeaderFails
      <3> HIDE DEF r
      <3> QED  BY <1>2, <3>1, <3>2
    <2>2. ASSUME NEW f \in Fans, Goto(t, [th[t] EXCEPT !.todo = @ \ {f}])
          PROVE  (\E r : Goto(t, r)) /\ th'[t].op = th[t].op
      BY <1>1, <2>2 DEF Goto, Thread, TypeOK, ControllerTypeOK
    <2>3. \E f \in Fans : HeaderFails(t, f) \/ Goto(t, [th[t] EXCEPT !.todo = @ \ {f}])
      BY <1>8 DEF Refuse, WriteFails
    <2> QED  BY <1>2, <1>3, <2>1, <2>2, <2>3
  <1> QED  BY <1>4, <1>5, <1>6, <1>7, <1>8 DEF Step

\* What a step does to userTouched and settled.
LEMMA StepMarks ==
    ASSUME NEW t \in Threads, Step(t)
    PROVE  /\ userTouched' = userTouched
           /\ \/ settled' = settled
              \/ th[t].op \in Changing /\ \E f \in Fans : settled' = settled \cup {<<t, f>>}
  BY DEF Step, LoadProfile, ReadDuty, ReadEnable, ReadStatusFails, PlanMax, PlanAuto,
         PlanRestore, PlanSave, PlanEmit, SaveProfile, EmitFansChanged, WriteManual,
         WriteDuty, WriteAuto, Settles, WriteFails, Refuse, Finish, Decides, Changing,
         history, marks

LEMMA CallMarks ==
    ASSUME TypeOK, NEW t \in Handlers \cup Clis, CallOn(t)
    PROVE  /\ settled' = settled
           /\ userTouched => userTouched'
           /\ t \in Handlers /\ th'[t].op \in Changing => userTouched'
           /\ \A s \in Threads : s # t => th'[s] = th[s]
  <1>0. t \in Threads
    BY DEF Threads, Daemon
  <1>1. \A s \in Threads : s # t => th'[s] = th[s]
    BY DEF CallOn, SetPercent, SetMax, SetAuto, SaveState, RestoreState, Call, Goto,
           TypeOK, ControllerTypeOK
  <1>2. settled' = settled /\ (userTouched => userTouched')
    <2>1. settled' = settled
      BY DEF CallOn, SetPercent, SetMax, SetAuto, SaveState, RestoreState, Call, marks
    <2>2. Touch(t) \/ UNCHANGED userTouched
      BY DEF CallOn, SetPercent, SetMax, SetAuto, SaveState, RestoreState
    <2>3. userTouched /\ Touch(t) => userTouched'
      BY DEF Touch
    <2> QED  BY <2>1, <2>2, <2>3
  <1>3. CASE RestoreState(t)
    <2>1. th'[t].op = "restore"
      BY <1>0, <1>3, LoadsType DEF RestoreState, Call, Goto, TypeOK, ControllerTypeOK, Ops
    <2> QED  BY <1>1, <1>2, <2>1 DEF Changing
  <1>4. CASE SetPercent(t) \/ SetMax(t) \/ SetAuto(t) \/ SaveState(t)
    <2>1. t \in Handlers => userTouched'
      BY <1>4 DEF SetPercent, SetMax, SetAuto, SaveState, Touch
    <2> QED  BY <1>1, <1>2, <2>1
  <1> QED  BY <1>3, <1>4 DEF CallOn

LEMMA TouchedInit == Init => TouchedFirst
  BY IdleType DEF Init, TouchedFirst, Changing, Threads, Daemon

LEMMA TouchedStep == TypeOK /\ TouchedFirst /\ [Next]_vars => TouchedFirst'
  <1> SUFFICES ASSUME TypeOK, TouchedFirst, [Next]_vars PROVE TouchedFirst'
    OBVIOUS
  <1>0. Main \in Threads /\ Handlers \subseteq Threads /\ Clis \subseteq Threads
        /\ Main \notin Handlers
    BY DEF Threads, Daemon
  <1>1. CASE Start \/ Serve \/ VerifySaved \/ EmitCurrent
    <2>1. UNCHANGED <<userTouched, settled>>
      BY <1>1 DEF Start, Serve, VerifySaved, EmitCurrent, history, marks
    <2>2. \A t \in Handlers : th'[t] = th[t]
      BY <1>0, <1>1 DEF Start, Serve, VerifySaved, EmitCurrent, Goto, TypeOK, ControllerTypeOK
    <2> QED  BY <2>1, <2>2 DEF TouchedFirst
  <1>2. CASE Crash
    <2>1. settled' = {} /\ \A t \in Handlers : th'[t] = Idle
      BY <1>0, <1>2 DEF Crash, Dies, Daemon
    <2> QED  BY <2>1, IdleType DEF TouchedFirst, Changing
  <1>3. ASSUME NEW t \in Clis, KillCli(t) PROVE TouchedFirst'
    <2>1. UNCHANGED <<userTouched, settled>> /\ \A s \in Handlers : th'[s] \in {th[s], Idle}
      BY <1>0, <1>3 DEF KillCli, Dies
    <2> QED  BY <2>1, IdleType DEF TouchedFirst, Changing
  <1>4. ASSUME NEW t \in Threads, Step(t) PROVE TouchedFirst'
    <2>1. \A s \in Handlers : th'[s].op \in {th[s].op, "none", "emit"}
      BY <1>0, <1>4, StepKeepsOp
    <2> QED  BY <1>4, <2>1, StepMarks DEF TouchedFirst, Changing
  <1>5. ASSUME NEW t \in Handlers \cup Clis, CallOn(t) PROVE TouchedFirst'
    BY <1>0, <1>5, CallMarks DEF TouchedFirst
  <1>6. CASE Firmware \/ WindowExpires \/ UNCHANGED vars
    BY <1>6 DEF Firmware, WindowExpires, vars, cvars, history, marks, TouchedFirst
  <1> QED  BY <1>1, <1>2, <1>3, <1>4, <1>5, <1>6 DEF Next

LEMMA VerifyBegins ==
    ASSUME TypeOK, TouchedFirst, [Next]_vars, th[Main].op # "verify", th'[Main].op = "verify"
    PROVE  \A s \in settled : s[1] \notin Handlers
  <1>0. Main \in Threads /\ Main \notin Handlers \cup Clis
    BY DEF Threads, Daemon
  <1>1. CASE VerifySaved
    BY <1>1 DEF VerifySaved, TouchedFirst
  <1>2. CASE Start
    BY <1>0, <1>2, LoadsType DEF Start, Goto, TypeOK, ControllerTypeOK, Ops
  <1>3. CASE Serve \/ EmitCurrent
    BY <1>0, <1>3, EmittingType, IdleType DEF Serve, EmitCurrent, Goto, TypeOK, ControllerTypeOK
  <1>4. CASE Crash
    BY <1>0, <1>4, IdleType DEF Crash, Dies
  <1>5. ASSUME NEW t \in Clis, KillCli(t) PROVE FALSE
    BY <1>0, <1>5, IdleType DEF KillCli, Dies
  <1>6. ASSUME NEW t \in Threads, Step(t) PROVE FALSE
    BY <1>0, <1>6, StepKeepsOp
  <1>7. ASSUME NEW t \in Handlers \cup Clis, CallOn(t) PROVE FALSE
    BY <1>0, <1>7, CallMarks
  <1>8. CASE Firmware \/ WindowExpires \/ UNCHANGED vars
    BY <1>8 DEF Firmware, WindowExpires, vars, cvars
  <1> QED  BY <1>1, <1>2, <1>3, <1>4, <1>5, <1>6, <1>7, <1>8 DEF Next

\* Once a D-Bus command has set a header, poll begins no verify pass until the
\* daemon restarts, however many handlers run and however they interleave with
\* poll (VerifySaved, markTouched).
THEOREM VerifyWindowCloses == Spec => NoVerifyAfterCommand
  <1>1. TypeOK /\ TouchedFirst /\ [Next]_vars
            => [th[Main].op # "verify" /\ th'[Main].op = "verify" =>
                    \A s \in settled : s[1] \notin Handlers]_vars
    BY VerifyBegins
  <1> QED  BY <1>1, TypeInit, TypeStep, TouchedInit, TouchedStep, PTL DEF Spec, NoVerifyAfterCommand
=============================================================================

-------------------------- MODULE OperationProofs --------------------------
(***************************************************************************)
(* What the operations of Fanctld find and leave behind, for any number of *)
(* headers, threads, calls and faults: what a save may put on the disk,    *)
(* and that an operation nothing disturbs does what it was asked.          *)
(***************************************************************************)
EXTENDS FanctldProofs

USE SysfsAssumption, ControllerAssumption, FanctldAssumption

-----------------------------------------------------------------------------
(* Readings.                                                               *)

\* What is read claims of no header that it is writable when it is not, nor
\* that its mode register shows the firmware's mode when it has none: a header
\* that ReadStatus has not reached, or cannot examine, counts as read-only and
\* as without a mode register.
SoundReading(s, f) ==
    /\ s.writable => f \in PwmWritable
    /\ s.enable = EnableAuto => HasEnable(f)

Sound(r) == \A f \in Fans : SoundReading(r.snap[f], f)

SnapsSound == \A t \in Threads : Sound(th[t])

LEMMA FreshSound ==
    /\ Sound(Idle) /\ Sound(Emitting)
    /\ \A op : Sound(Loads(op))
    /\ \A op, want : Sound(Reads(op, want))
    /\ \A op, want, todo : Sound(Writes(op, want, todo))
  BY DEF Sound, SoundReading, Idle, Emitting, Loads, Reads, Writes, Unread, NoEnable, EnableAuto

LEMMA GotoSound ==
    ASSUME TypeOK, SnapsSound, NEW t \in Threads, NEW r, Goto(t, r), Sound(r)
    PROVE  SnapsSound'
  BY DEF TypeOK, ControllerTypeOK, Goto, SnapsSound

LEMMA EndsSound ==
    ASSUME TypeOK, SnapsSound, NEW t \in Threads, NEW ok \in BOOLEAN, Ends(t, ok)
    PROVE  SnapsSound'
  <1>1. Goto(t, Emitting) \/ Goto(t, Idle)
    BY DEF Ends
  <1> QED  BY <1>1, GotoSound, FreshSound

LEMMA StepSound ==
    ASSUME TypeOK, SnapsSound, NEW t \in Threads, Step(t)
    PROVE  SnapsSound'
  <1>1. th[t] \in Thread /\ Sound(th[t])
    BY DEF TypeOK, ControllerTypeOK, SnapsSound
  <1>2. ASSUME NEW r, Goto(t, r), r.snap = th[t].snap
        PROVE  SnapsSound'
    BY <1>1, <1>2, GotoSound DEF Sound
  <1>3. CASE LoadProfile(t)
    <2>1. Goto(t, Reads(th[t].op, disk.fans)) \/ Ends(t, FALSE)
      BY <1>3 DEF LoadProfile
    <2> QED  BY <2>1, EndsSound, GotoSound, FreshSound
  <1>4. CASE ReadDuty(t)
    <2>1. PICK f \in th[t].unread, pwm \in Byte :
              Goto(t, [th[t] EXCEPT !.pc = "enable", !.fan = f, !.unread = @ \ {f},
                                    !.snap[f] = AfterDuty(pwm)])
      <3>1. \A f \in th[t].unread : {duty[f], 0} \subseteq Byte
        BY <1>1 DEF Thread, TypeOK, ControllerTypeOK, SysfsTypeOK, Byte
      <3> QED  BY <1>4, <3>1 DEF ReadDuty
    <2> DEFINE r == [th[t] EXCEPT !.pc = "enable", !.fan = f, !.unread = @ \ {f},
                                  !.snap[f] = AfterDuty(pwm)]
    <2>2. f \in Fans /\ r.snap = [th[t].snap EXCEPT ![f] = AfterDuty(pwm)]
      BY <1>1 DEF Thread
    <2>3. SoundReading(AfterDuty(pwm), f)
      BY DEF SoundReading, AfterDuty, Unread, NoEnable, EnableAuto
    <2>4. Sound(r)
      BY <1>1, <2>2, <2>3 DEF Sound, Thread
    <2> HIDE DEF r
    <2> QED  BY <2>1, <2>4, GotoSound DEF r
  <1>5. CASE ReadEnable(t)
    <2> DEFINE g == th[t].fan
               after == IF th[t].unread = {} THEN "plan" ELSE "read"
    <2>1. PICK rest \in {Live(g)} \cup {[Live(g) EXCEPT !.enable = NoEnable],
                                        [Live(g) EXCEPT !.writable = FALSE]} :
              Goto(t, [th[t] EXCEPT !.pc = after, !.fan = 0,
                                    !.snap[g].enable = rest.enable,
                                    !.snap[g].writable = rest.writable])
      BY <1>5 DEF ReadEnable
    <2> DEFINE r == [th[t] EXCEPT !.pc = after, !.fan = 0,
                                  !.snap[g].enable = rest.enable,
                                  !.snap[g].writable = rest.writable]
    <2>2. g \in Fans
      BY <1>5 DEF ReadEnable, At, TypeOK, ControllerTypeOK, Consistent
    <2>3. SoundReading(rest, g)
      <3>1. Live(g).writable <=> g \in PwmWritable
        BY Zenon DEF Live
      <3>2. Live(g).enable = enable[g] /\ (enable[g] = EnableAuto => HasEnable(g))
        BY <2>2 DEF Live, TypeOK, ControllerTypeOK, SysfsTypeOK, NoEnable, EnableAuto
      <3>3. /\ [Live(g) EXCEPT !.enable = NoEnable].writable = Live(g).writable
            /\ [Live(g) EXCEPT !.enable = NoEnable].enable = NoEnable
        BY DEF Live
      <3>4. /\ [Live(g) EXCEPT !.writable = FALSE].writable = FALSE
            /\ [Live(g) EXCEPT !.writable = FALSE].enable = Live(g).enable
        BY DEF Live
      <3> DEFINE L == Live(g)
                 E == [L EXCEPT !.enable = NoEnable]
                 W == [L EXCEPT !.writable = FALSE]
      <3>5. rest \in {L, E, W}
        BY <2>1
      <3> HIDE DEF L, E, W
      <3>6. SoundReading(L, g)
        BY <3>1, <3>2 DEF SoundReading, L
      <3>7. SoundReading(E, g)
        BY <3>1, <3>3 DEF SoundReading, NoEnable, EnableAuto, E, L
      <3>8. SoundReading(W, g)
        BY <3>2, <3>4 DEF SoundReading, W, L
      <3> QED  BY <3>5, <3>6, <3>7, <3>8
    <2>4. th[t].snap \in [Fans -> Reading]
      BY <1>1 DEF Thread
    <2>5. /\ \A f \in Fans : f # g => r.snap[f] = th[t].snap[f]
          /\ r.snap[g].writable = rest.writable /\ r.snap[g].enable = rest.enable
      <3> DEFINE s == [th[t].snap EXCEPT ![g].enable = rest.enable, ![g].writable = rest.writable]
      <3>1. r.snap = s
        BY <1>1 DEF Thread
      <3>2. \A f \in Fans : f # g => s[f] = th[t].snap[f]
        BY <2>2, <2>4
      <3>3. s[g].writable = rest.writable /\ s[g].enable = rest.enable
        BY <2>2, <2>4 DEF Reading
      <3> QED  BY <3>1, <3>2, <3>3
    <2>6. Sound(r)
      <3>1. SoundReading(r.snap[g], g)
        BY <2>3, <2>5 DEF SoundReading
      <3> QED  BY <1>1, <2>5, <3>1 DEF Sound
    <2> HIDE DEF r
    <2> QED  BY <2>1, <2>6, GotoSound DEF r
  <1>6. CASE \/ PlanSave(t) \/ PlanEmit(t) \/ WriteManual(t) \/ WriteDuty(t) \/ WriteAuto(t)
    <2>1. PlanSave(t) \/ PlanEmit(t) => \E pc : Goto(t, [th[t] EXCEPT !.pc = pc])
      BY DEF PlanSave, PlanEmit, Decides
    <2>2. WriteManual(t) => \E f \in Fans : Goto(t, [th[t] EXCEPT !.pc = "duty", !.fan = f])
      BY DEF WriteManual
    <2>3. WriteDuty(t) \/ WriteAuto(t) => \E f \in Fans : Goto(t, Wrote(t, f))
      BY DEF WriteDuty, WriteAuto
    <2>4. \A pc : [th[t] EXCEPT !.pc = pc].snap = th[t].snap
      BY <1>1 DEF Thread
    <2>5. \A f \in Fans : /\ [th[t] EXCEPT !.pc = "duty", !.fan = f].snap = th[t].snap
                          /\ Wrote(t, f).snap = th[t].snap
      BY <1>1 DEF Thread, Wrote
    <2> QED  BY <1>2, <1>6, <2>1, <2>2, <2>3, <2>4, <2>5
  <1>7. CASE \/ ReadStatusFails(t) \/ SaveProfile(t) \/ EmitFansChanged(t) \/ Finish(t)
    <2>1. \E ok \in BOOLEAN : Ends(t, ok)
      BY <1>7 DEF ReadStatusFails, SaveProfile, EmitFansChanged, Finish, Succeeded
    <2> QED  BY <2>1, EndsSound
  <1>8. CASE PlanMax(t) \/ PlanAuto(t) \/ PlanRestore(t)
    <2>1. Ends(t, FALSE) \/ \E op, want, todo : Goto(t, Writes(op, want, todo))
      BY <1>8 DEF PlanMax, PlanAuto, PlanRestore, Decides
    <2> QED  BY <2>1, EndsSound, GotoSound, FreshSound
  <1>9. CASE Refuse(t) \/ WriteFails(t)
    <2>1. ASSUME NEW f \in Fans, HeaderFails(t, f)
          PROVE  SnapsSound'
      <3> DEFINE r == [th[t] EXCEPT !.pc = "write", !.fan = 0,
                                    !.todo = @ \ {f}, !.failed = @ \cup {f}]
      <3>1. r.snap = th[t].snap
        BY <1>1 DEF Thread
      <3>2. Ends(t, FALSE) \/ Goto(t, r)
        BY <2>1 DEF HeaderFails
      <3> HIDE DEF r
      <3> QED  BY <1>2, <3>1, <3>2, EndsSound
    <2>2. ASSUME NEW f \in Fans, Goto(t, [th[t] EXCEPT !.todo = @ \ {f}])
          PROVE  SnapsSound'
      <3>1. [th[t] EXCEPT !.todo = @ \ {f}].snap = th[t].snap
        BY <1>1 DEF Thread
      <3> QED  BY <1>2, <2>2, <3>1
    <2>3. \E f \in Fans : HeaderFails(t, f) \/ Goto(t, [th[t] EXCEPT !.todo = @ \ {f}])
      BY <1>9 DEF Refuse, WriteFails
    <2> QED  BY <2>1, <2>2, <2>3
  <1> QED  BY <1>3, <1>4, <1>5, <1>6, <1>7, <1>8, <1>9 DEF Step

LEMMA NextSound == TypeOK /\ SnapsSound /\ [Next]_vars => SnapsSound'
  <1> SUFFICES ASSUME TypeOK, SnapsSound, [Next]_vars  PROVE  SnapsSound'
    OBVIOUS
  <1>0. Main \in Threads /\ Handlers \subseteq Threads /\ Clis \subseteq Threads
    BY DEF Threads, Daemon
  <1>1. CASE Start \/ Serve \/ VerifySaved \/ EmitCurrent
    <2>1. \/ Goto(Main, Idle) \/ Goto(Main, Emitting)
          \/ \E op : Goto(Main, Loads(op))
      BY <1>1 DEF Start, Serve, VerifySaved, EmitCurrent
    <2> QED  BY <1>0, <2>1, GotoSound, FreshSound
  <1>2. CASE Crash \/ \E t \in Clis : KillCli(t)
    <2>1. \A s \in Threads : th'[s] \in {th[s], Idle}
      BY <1>2 DEF Crash, KillCli, Dies
    <2> QED  BY <2>1, FreshSound DEF SnapsSound
  <1>3. ASSUME NEW t \in Threads, Step(t)  PROVE  SnapsSound'
    BY <1>3, StepSound
  <1>4. ASSUME NEW t \in Threads, CallOn(t)  PROVE  SnapsSound'
    <2>1. \/ \E op : Goto(t, Loads(op))
          \/ \E op, want : Goto(t, Reads(op, want))
          \/ \E op, want, todo : Goto(t, Writes(op, want, todo))
      BY <1>4 DEF CallOn, SetPercent, SetMax, SetAuto, SaveState, RestoreState, Call
    <2> QED  BY <2>1, GotoSound, FreshSound
  <1>5. CASE Firmware \/ WindowExpires \/ UNCHANGED vars
    BY <1>5 DEF Firmware, WindowExpires, vars, cvars, SnapsSound
  <1> QED  BY <1>0, <1>1, <1>2, <1>3, <1>4, <1>5 DEF Next

-----------------------------------------------------------------------------
(* What is saved.                                                          *)

\* The file is the one found at power-on, or one the chip takes.
Taken(d) ==
    d \in InitDisk \/
        \A h \in DOMAIN d.fans :
            /\ h \in PwmWritable
            /\ EnableFile[h] # "ro" => Accepts(h, d.fans[h])

LEMMA SaveIsTaken ==
    ASSUME TypeOK, SnapsSound, NEW t \in Threads, SaveProfile(t), disk' # disk
    PROVE  Taken(disk')
  <1> DEFINE snap == th[t].snap
             p == FromStatus(snap)
  <1>1. disk'.fans = p
    <2>1. disk' = Saved(p)
      BY DEF SaveProfile
    <2> QED  BY <2>1 DEF Saved
  <1>2. DOMAIN snap = Fans /\ \A f \in Fans : SoundReading(snap[f], f)
    BY DEF SnapsSound, Sound, TypeOK, ControllerTypeOK, Thread
  <1>3. ASSUME NEW h \in DOMAIN p
        PROVE  h \in PwmWritable /\ (EnableFile[h] # "ro" => Accepts(h, p[h]))
    <2>1. /\ h \in Fans /\ snap[h].writable
          /\ p[h] = IF snap[h].enable = EnableAuto THEN FirmwareAuto ELSE Manual(snap[h].pwm)
      BY <1>2, <1>3 DEF FromStatus
    <2>2. h \in PwmWritable /\ (snap[h].enable = EnableAuto => HasEnable(h))
      BY <1>2, <2>1 DEF SoundReading
    <2> HIDE DEF p, snap
    <2>3. CASE snap[h].enable = EnableAuto
      <3>1. p[h].mode = "auto"
        BY <2>1, <2>3 DEF FirmwareAuto
      <3>2. EnableFile[h] \in {"rw", "ro"}
        BY <2>1, <2>2, <2>3, SysfsAssumption DEF HasEnable
      <3> QED  BY <2>2, <3>1, <3>2 DEF Accepts, CanRelease
    <2>4. CASE snap[h].enable # EnableAuto
      <3>1. p[h].mode = "manual"
        BY <2>1, <2>4 DEF Manual
      <3> QED  BY <2>2, <3>1 DEF Accepts, CanDrive
    <2> QED  BY <2>3, <2>4
  <1> QED  BY <1>1, <1>3 DEF Taken

LEMMA OnlySavesWrite ==
    ASSUME [Next]_vars, disk' # disk
    PROVE  \E t \in Threads : SaveProfile(t)
  <1>1. ASSUME NEW t \in Threads, Step(t)  PROVE  SaveProfile(t)
    BY <1>1 DEF Step, LoadProfile, ReadDuty, ReadEnable, ReadStatusFails, PlanMax, PlanAuto,
       PlanRestore, PlanSave, PlanEmit, EmitFansChanged, WriteManual, WriteDuty, WriteAuto,
       WriteFails, Refuse, Finish, Decides
  <1>2. ASSUME NEW t, CallOn(t)  PROVE  FALSE
    BY <1>2 DEF CallOn, SetPercent, SetMax, SetAuto, SaveState, RestoreState, Call
  <1>3. \/ \E t \in Threads : Step(t)
        \/ \E t \in Handlers \cup Clis : CallOn(t)
    BY DEF Next, Start, Serve, VerifySaved, EmitCurrent, WindowExpires, Crash, KillCli,
           Firmware, vars, cvars
  <1> QED  BY <1>1, <1>2, <1>3

\* Whatever is misread for it, a save never puts a setting on the disk that the
\* chip would refuse at the next boot: no read-only header, and none left to a
\* firmware that has no mode register for it.  Headers whose pwmN_enable is
\* read-only are excepted, and the file found at power-on (FromStatus,
\* SaveState, fanctl save; SetPWMRaw and SetAutoIndex).
THEOREM SavedTaken == Spec => []SavedSettingsTaken
  <1>1. Init => SnapsSound /\ Taken(disk)
    BY FreshSound DEF Init, SnapsSound, Taken
  <1>2. TypeOK /\ SnapsSound /\ Taken(disk) /\ [Next]_vars => Taken(disk)'
    <2> SUFFICES ASSUME TypeOK, SnapsSound, Taken(disk), [Next]_vars
                 PROVE  Taken(disk')
      BY DEF Taken, Accepts, CanDrive, CanRelease
    <2>1. CASE disk' = disk
      BY <2>1
    <2>2. CASE disk' # disk
      BY <2>2, OnlySavesWrite, SaveIsTaken
    <2> QED  BY <2>1, <2>2
  <1>3. Taken(disk) => SavedSettingsTaken
    BY DEF Taken, SavedSettingsTaken
  <1> QED  BY <1>1, <1>2, <1>3, NextSound, TypeInit, TypeStep, PTL DEF Spec

-----------------------------------------------------------------------------
(* What an undisturbed operation knows.                                    *)

\* A reading s is what header f shows, but for the duty where the firmware
\* moves it: that is neither planned against nor saved as manual.
Agrees(s, f) ==
    /\ s.enable = enable[f]
    /\ s.writable <=> f \in PwmWritable
    /\ s.pwm = duty[f] \/ FirmwareDriven(f)

ReadSoFar(t) ==
    /\ \A f \in Fans \ th[t].unread :
          Agrees(th[t].snap[f], f) \/ (At(t, "enable") /\ f = th[t].fan)
    /\ At(t, "enable") =>
          th[t].snap[th[t].fan].pwm = duty[th[t].fan] \/ FirmwareDriven(th[t].fan)
    /\ th[t].pc \in {"plan", "save"} => th[t].unread = {}

\* What an operation must bring about, as CommandTakesEffect has it.
Due(t, f) == IF th[t].op = "auto" THEN CanRelease(f) ELSE f \in PwmWritable

DoneSoFar(t) ==
    \A f \in (DOMAIN th[t].want \cap Fans) \ (th[t].failed \cup th[t].todo) :
        Due(t, f) => Holds(th[t].want[f], Live(f))

Intact(t) ==
    /\ th[t].pc \in {"read", "enable", "plan", "save"} => ReadSoFar(t)
    /\ th[t].pc \in {"write", "duty"} =>
          /\ DoneSoFar(t)
          /\ th[t].op = "auto" => \A f \in DOMAIN th[t].want : th[t].want[f].mode = "auto"
    /\ th[t].pc = "duty" => enable[th[t].fan] = EnableManual

\* The invariant behind CommandTakesEffect and SaveIsFaithful.
CleanIntact == \A t \in clean : Intact(t)

\* An invariant of one thread that no step of another disturbs while it is clean.
LEMMA IntactFrame ==
    ASSUME NEW t \in Threads, Intact(t), th'[t] = th[t], UNCHANGED registers
    PROVE  Intact(t)'
  BY DEF Intact, ReadSoFar, DoneSoFar, Due, Agrees, Live, FirmwareDriven, At, registers

LEMMA OthersIntact ==
    ASSUME CleanIntact, NEW t \in Threads, UNCHANGED registers,
           \A s \in Threads : s # t => th'[s] = th[s],
           clean \subseteq Threads, clean' \subseteq clean \cup {t},
           t \in clean' => Intact(t)'
    PROVE  CleanIntact'
  BY IntactFrame DEF CleanIntact

LEMMA DisturbedIntact ==
    ASSUME NEW t \in Threads, Disturbs(t), t \in clean => Intact(t)'
    PROVE  CleanIntact'
  BY DEF Disturbs, CleanIntact

\* Operations that have read or written nothing yet.
LEMMA FreshIntact ==
    ASSUME TypeOK, NEW t \in Threads, NEW r, Goto(t, r),
           \/ r \in {Idle, Emitting}
           \/ \E op : r = Loads(op)
           \/ \E op, want : r = Reads(op, want)
           \/ \E op, want, todo :
                 /\ r = Writes(op, want, todo) /\ DOMAIN want \cap Fans \subseteq todo
                 /\ op = "auto" => \A f \in DOMAIN want : want[f].mode = "auto"
    PROVE  Intact(t)' /\ \A s \in Threads : s # t => th'[s] = th[s]
  <1>1. th'[t] = r /\ \A s \in Threads : s # t => th'[s] = th[s]
    BY DEF Goto, TypeOK, ControllerTypeOK
  <1>2. CASE r = Idle \/ \E op : r = Loads(op)
    <2>1. Idle.pc = "idle" /\ \A op : Loads(op).pc = "load"
      BY DEF Idle, Loads
    <2> QED  BY <1>1, <1>2, <2>1 DEF Intact
  <1>3. CASE r = Emitting \/ \E op, want : r = Reads(op, want)
    <2>1. r.pc = "read" /\ r.unread = Fans
      BY <1>3 DEF Emitting, Reads, Idle
    <2> QED  BY <1>1, <2>1 DEF Intact, ReadSoFar, At
  <1>4. ASSUME NEW op, NEW want, NEW todo, r = Writes(op, want, todo),
               DOMAIN want \cap Fans \subseteq todo,
               op = "auto" => \A f \in DOMAIN want : want[f].mode = "auto"
        PROVE  Intact(t)'
    <2>1. r.pc = "write" /\ r.op = op /\ r.want = want /\ r.todo = todo
      BY <1>4 DEF Writes, Idle
    <2> QED  BY <1>1, <1>4, <2>1 DEF Intact, DoneSoFar
  <1> QED  BY <1>1, <1>2, <1>3, <1>4

LEMMA FreshKeeps ==
    ASSUME TypeOK, CleanIntact, NEW t \in Threads, UNCHANGED registers,
           clean' \subseteq clean \cup {t}, NEW r, Goto(t, r),
           \/ r \in {Idle, Emitting}
           \/ \E op : r = Loads(op)
           \/ \E op, want : r = Reads(op, want)
           \/ \E op, want, todo :
                 /\ r = Writes(op, want, todo) /\ DOMAIN want \cap Fans \subseteq todo
                 /\ op = "auto" => \A f \in DOMAIN want : want[f].mode = "auto"
    PROVE  CleanIntact'
  <1>1. clean \subseteq Threads
    BY DEF TypeOK, ControllerTypeOK
  <1> QED  BY <1>1, FreshIntact, OthersIntact

\* An operation that ends is none, or an emission.
LEMMA EndsIntact ==
    ASSUME TypeOK, CleanIntact, NEW t \in Threads, NEW ok \in BOOLEAN, Ends(t, ok),
           UNCHANGED registers
    PROVE  CleanIntact'
  <1>1. clean' \subseteq clean \cup {t}
    BY DEF Ends, Stops
  <1>2. Goto(t, Emitting) \/ Goto(t, Idle)
    BY DEF Ends
  <1> QED  BY <1>1, <1>2, FreshKeeps

\* A thread moves on without touching a register: if it is still clean, what it
\* knows must hold in its next place.
LEMMA MovesIntact ==
    ASSUME TypeOK, CleanIntact, NEW t \in Threads, UNCHANGED registers,
           clean' \in {clean, clean \ {t}}, NEW r, Goto(t, r),
           t \in clean /\ t \in clean' /\ th'[t] = r => Intact(t)'
    PROVE  CleanIntact'
  <1>1. clean \subseteq Threads
    BY DEF TypeOK, ControllerTypeOK
  <1>2. th'[t] = r /\ \A s \in Threads : s # t => th'[s] = th[s]
    BY DEF Goto, TypeOK, ControllerTypeOK
  <1> QED  BY <1>1, <1>2, OthersIntact

\* A reading that a thread takes over while the registers stand still.
LEMMA AgreesNext ==
    ASSUME UNCHANGED registers, NEW t \in Threads, NEW f \in Fans, Agrees(th'[t].snap[f], f)
    PROVE  Agrees(th[t].snap[f], f)'
  BY DEF Agrees, FirmwareDriven, registers

LEMMA ReadDutyIntact ==
    ASSUME TypeOK, CleanIntact, NEW t \in Threads, ReadDuty(t)
    PROVE  CleanIntact'
  <1>1. th[t] \in Thread /\ \A f \in Fans : duty[f] \in Byte
    BY DEF TypeOK, ControllerTypeOK, SysfsTypeOK
  <1>2. \A f \in th[t].unread : f \in Fans /\ {duty[f], 0} \subseteq Byte
    <2>1. th[t].unread \in SUBSET Fans
      BY <1>1, ThreadFields
    <2>2. 0 \in Byte
      BY DEF Byte
    <2> QED  BY <1>1, <2>1, <2>2
  <1>3. PICK f \in th[t].unread, pwm \in Byte :
            /\ (pwm = duty[f] /\ UNCHANGED clean) \/ Stops(t)
            /\ Goto(t, [th[t] EXCEPT !.pc = "enable", !.fan = f, !.unread = @ \ {f},
                                     !.snap[f] = AfterDuty(pwm)])
    BY <1>2 DEF ReadDuty
  <1> DEFINE r == [th[t] EXCEPT !.pc = "enable", !.fan = f, !.unread = @ \ {f},
                                !.snap[f] = AfterDuty(pwm)]
  <1>4. /\ r.pc = "enable" /\ r.fan = f /\ r.unread = th[t].unread \ {f}
        /\ r.snap = [th[t].snap EXCEPT ![f] = AfterDuty(pwm)]
    BY <1>1 DEF Thread
  <1>5. /\ r.snap[f].pwm = pwm
        /\ \A g \in Fans : g # f => r.snap[g] = th[t].snap[g]
    BY <1>1, <1>2, <1>4 DEF Thread, AfterDuty, Unread
  <1>6. th[t].pc = "read" /\ UNCHANGED registers
    BY DEF ReadDuty, At
  <1>7. ASSUME t \in clean, t \in clean', th'[t] = r
        PROVE  Intact(t)'
    <2>1. ReadSoFar(t) /\ pwm = duty[f]
      BY <1>3, <1>6, <1>7 DEF CleanIntact, Intact, Stops
    <2>2. \A g \in Fans \ th[t].unread : Agrees(th[t].snap[g], g)
      BY <2>1, <1>6 DEF ReadSoFar, At
    <2>3. \A g \in Fans \ r.unread : g = f \/ Agrees(th'[t].snap[g], g)
      BY <1>4, <1>5, <1>7, <2>2
    <2> HIDE DEF r
    <2>4. \A g \in Fans \ r.unread : g = f \/ Agrees(th[t].snap[g], g)'
      BY <1>6, <2>3, AgreesNext
    <2>5. /\ th'[t].snap[f].pwm = duty'[f]
          /\ th'[t].pc = "enable" /\ th'[t].fan = f /\ th'[t].unread = r.unread
      BY <1>4, <1>5, <1>6, <1>7, <2>1 DEF registers
    <2> QED  BY <2>4, <2>5 DEF Intact, ReadSoFar, At
  <1>8. clean' \in {clean, clean \ {t}} /\ Goto(t, r)
    BY <1>3 DEF Stops
  <1> HIDE DEF r
  <1> QED  BY <1>6, <1>7, <1>8, MovesIntact

LEMMA ReadEnableIntact ==
    ASSUME TypeOK, CleanIntact, NEW t \in Threads, ReadEnable(t)
    PROVE  CleanIntact'
  <1> DEFINE g == th[t].fan
             after == IF th[t].unread = {} THEN "plan" ELSE "read"
  <1>1. th[t] \in Thread /\ th[t].pc = "enable" /\ g \in Fans /\ UNCHANGED registers
    BY DEF ReadEnable, At, TypeOK, ControllerTypeOK, Consistent
  <1>2. PICK rest \in {Live(g)} \cup {[Live(g) EXCEPT !.enable = NoEnable],
                                      [Live(g) EXCEPT !.writable = FALSE]} :
            /\ (rest = Live(g) /\ UNCHANGED clean) \/ Stops(t)
            /\ Goto(t, [th[t] EXCEPT !.pc = after, !.fan = 0,
                                     !.snap[g].enable = rest.enable,
                                     !.snap[g].writable = rest.writable])
    BY DEF ReadEnable
  <1> DEFINE r == [th[t] EXCEPT !.pc = after, !.fan = 0,
                                !.snap[g].enable = rest.enable,
                                !.snap[g].writable = rest.writable]
             s == [th[t].snap EXCEPT ![g].enable = rest.enable, ![g].writable = rest.writable]
  <1>3. r.pc = after /\ r.unread = th[t].unread /\ r.snap = s
    BY <1>1 DEF Thread
  <1>4. /\ \A f \in Fans : f # g => s[f] = th[t].snap[f]
        /\ s[g].pwm = th[t].snap[g].pwm
        /\ s[g].enable = rest.enable /\ s[g].writable = rest.writable
    BY <1>1 DEF Thread, Reading
  <1>5. ASSUME t \in clean, t \in clean', th'[t] = r
        PROVE  Intact(t)'
    <2>1. ReadSoFar(t) /\ rest = Live(g)
      BY <1>1, <1>2, <1>5 DEF CleanIntact, Intact, Stops
    <2> HIDE DEF s
    <2>2. Live(g).enable = enable[g] /\ (Live(g).writable <=> g \in PwmWritable)
      BY Zenon DEF Live
    <2>3. Agrees(s[g], g)
      <3>1. s[g].pwm = duty[g] \/ FirmwareDriven(g)
        BY <1>1, <1>4, <2>1 DEF ReadSoFar, At
      <3> QED  BY <1>4, <2>1, <2>2, <3>1 DEF Agrees
    <2>4. \A f \in Fans \ th[t].unread : Agrees(s[f], f)
      BY <1>1, <1>4, <2>1, <2>3 DEF ReadSoFar
    <2>5. \A f \in Fans \ th'[t].unread : Agrees(th[t].snap[f], f)'
      <3>1. \A f \in Fans \ th'[t].unread : Agrees(th'[t].snap[f], f)
        BY <1>3, <1>5, <2>4
      <3> QED  BY <1>1, <3>1, AgreesNext
    <2>6. /\ th'[t].pc \in {"plan", "read"}
          /\ th'[t].pc = "plan" => th'[t].unread = {}
      BY <1>3, <1>5
    <2> QED  BY <2>5, <2>6 DEF Intact, ReadSoFar, At
  <1>6. clean' \in {clean, clean \ {t}} /\ Goto(t, r)
    BY <1>2 DEF Stops
  <1> HIDE DEF r
  <1> QED  BY <1>1, <1>5, <1>6, MovesIntact

\* What holds of a reading holds of the header it agrees with.
LEMMA AgreedHolds ==
    ASSUME TypeOK, NEW f \in Fans, NEW s, Agrees(s, f), NEW w \in FanState
    PROVE  Holds(w, s) => Holds(w, Live(f))
  <1>1. enable[f] = NoEnable => ~HasEnable(f)
    BY DEF TypeOK, ControllerTypeOK, SysfsTypeOK
  <1>2. Live(f).pwm = duty[f] /\ Live(f).enable = enable[f]
    BY DEF Live
  <1>3. CASE w.mode = "auto"
    BY <1>2, <1>3 DEF Agrees, Holds
  <1>4. CASE w.mode # "auto"
    BY <1>1, <1>2, <1>4 DEF Agrees, Holds, FirmwareDriven
  <1> QED  BY <1>3, <1>4

LEMMA PlanIntact ==
    ASSUME TypeOK, CleanIntact, NEW t \in Threads,
           PlanMax(t) \/ PlanAuto(t) \/ PlanRestore(t) \/ PlanSave(t) \/ PlanEmit(t)
    PROVE  CleanIntact'
  <1>1. th[t] \in Thread /\ th[t].want \in Profile
    BY ThreadFields DEF TypeOK, ControllerTypeOK
  <1>2. CASE PlanMax(t)
    <2> DEFINE writable == {f \in Fans : th[t].snap[f].writable}
               want == [f \in writable |-> Manual(PercentToPWM(100))]
    <2>1. CASE Ends(t, FALSE)
      BY <1>2, <2>1, EndsIntact DEF PlanMax, Decides
    <2>2. CASE Decides(t, Writes("max", want, writable))
      <3>1. UNCHANGED <<registers, clean>> /\ Goto(t, Writes("max", want, writable))
        BY <2>2 DEF Decides, history
      <3>2. DOMAIN want \cap Fans \subseteq writable
        OBVIOUS
      <3> HIDE DEF want, writable
      <3> QED  BY <3>1, <3>2, FreshKeeps
    <2> QED  BY <1>2, <2>1, <2>2 DEF PlanMax
  <1>3. CASE PlanAuto(t)
    <2> DEFINE want == [f \in Fans |-> FirmwareAuto]
    <2>1. UNCHANGED <<registers, clean>> /\ Goto(t, Writes("auto", want, Fans))
      BY <1>3 DEF PlanAuto, Decides, history
    <2>2. DOMAIN want \cap Fans \subseteq Fans /\ \A f \in DOMAIN want : want[f].mode = "auto"
      BY DEF FirmwareAuto
    <2> HIDE DEF want
    <2> QED  BY <2>1, <2>2, FreshKeeps
  <1>4. CASE PlanRestore(t)
    <2> DEFINE w == th[t].want
               todo == DOMAIN Plan(w, th[t].snap)
               r == Writes(th[t].op, w, todo)
    <2>1. /\ UNCHANGED <<registers, clean>> /\ Goto(t, r)
          /\ th[t].pc = "plan" /\ th[t].op \in {"restore", "verify"}
      BY <1>4 DEF PlanRestore, Decides, history, At
    <2>2. r.pc = "write" /\ r.op = th[t].op /\ r.want = w /\ r.todo = todo /\ r.failed = {}
      BY DEF Writes, Idle
    <2>3. ASSUME t \in clean, th'[t] = r
          PROVE  Intact(t)'
      <3>1. \A f \in Fans : Agrees(th[t].snap[f], f)
        BY <2>1, <2>3 DEF CleanIntact, Intact, ReadSoFar, At
      <3>2. ASSUME NEW f \in (DOMAIN w \cap Fans) \ todo, f \in PwmWritable
            PROVE  Holds(w[f], Live(f))
        <4>1. DOMAIN th[t].snap = Fans /\ w[f] \in FanState
          BY <1>1, ProfileElim DEF Thread
        <4>2. th[t].snap[f].writable
          BY <3>1, <3>2 DEF Agrees
        <4>3. Holds(w[f], th[t].snap[f])
          BY <3>2, <4>1, <4>2 DEF Plan
        <4> QED  BY <3>1, <4>1, <4>3, AgreedHolds
      <3>3. \A f : Live(f)' = Live(f)
        BY <2>1 DEF Live, registers
      <3> HIDE DEF todo, r
      <3> QED  BY <2>1, <2>2, <2>3, <3>2, <3>3 DEF Intact, DoneSoFar, Due
    <2> HIDE DEF r
    <2> QED  BY <2>1, <2>3, MovesIntact
  <1>5. CASE PlanSave(t) \/ PlanEmit(t)
    <2>1. /\ UNCHANGED <<registers, clean>> /\ th[t].pc = "plan"
          /\ \E pc \in {"save", "report"} : Goto(t, [th[t] EXCEPT !.pc = pc])
      BY <1>5 DEF PlanSave, PlanEmit, Decides, history, At
    <2>2. ASSUME NEW pc \in {"save", "report"}, t \in clean, th'[t] = [th[t] EXCEPT !.pc = pc]
          PROVE  Intact(t)'
      <3>1. /\ th'[t].pc = pc /\ th'[t].unread = th[t].unread /\ th'[t].snap = th[t].snap
        BY <1>1, <2>2 DEF Thread
      <3>2. th[t].unread = {} /\ \A f \in Fans : Agrees(th[t].snap[f], f)
        BY <2>1, <2>2 DEF CleanIntact, Intact, ReadSoFar, At
      <3>3. \A f \in Fans : Agrees(th[t].snap[f], f)'
        BY <2>1, <3>1, <3>2, AgreesNext
      <3> QED  BY <3>1, <3>2, <3>3 DEF Intact, ReadSoFar, At
    <2> QED  BY <2>1, <2>2, MovesIntact
  <1> QED  BY <1>2, <1>3, <1>4, <1>5
-----------------------------------------------------------------------------
(* The writes of an undisturbed operation.                                 *)

\* A writer is through with header f, which is as wanted, or need not be.
LEMMA WriterIntact ==
    ASSUME NEW t \in Threads, Intact(t), th[t].pc \in {"write", "duty"}, NEW f \in Fans,
           \A g \in Fans : g # f => Live(g)' = Live(g),
           th'[t].pc = "write", th'[t].op = th[t].op, th'[t].want = th[t].want,
           th'[t].todo = th[t].todo \ {f}, th[t].failed \subseteq th'[t].failed,
           f \in th'[t].failed \/ (Due(t, f) => Holds(th[t].want[f], Live(f)'))
    PROVE  Intact(t)'
  <1>1. /\ DoneSoFar(t)
        /\ th[t].op = "auto" => \A g \in DOMAIN th[t].want : th[t].want[g].mode = "auto"
    BY DEF Intact
  <1>2. ASSUME NEW g \in (DOMAIN th[t].want \cap Fans) \ (th'[t].failed \cup th'[t].todo),
               Due(t, g)
        PROVE  Holds(th[t].want[g], Live(g)')
    BY <1>1, <1>2 DEF DoneSoFar
  <1>3. \A g : Due(t, g)' => Due(t, g)
    BY DEF Due
  <1>4. DoneSoFar(t)'
    BY <1>2, <1>3 DEF DoneSoFar
  <1> QED  BY <1>1, <1>4 DEF Intact

\* Where a thread that writes header f goes next.
LEMMA WriterFields ==
    ASSUME TypeOK, NEW t \in Threads, NEW f \in Fans
    PROVE  /\ Goto(t, Wrote(t, f)) =>
                 /\ th'[t].pc = "write" /\ th'[t].op = th[t].op /\ th'[t].want = th[t].want
                 /\ th'[t].todo = th[t].todo \ {f} /\ th'[t].failed = th[t].failed
           /\ Goto(t, [th[t] EXCEPT !.pc = "duty", !.fan = f]) =>
                 /\ th'[t].pc = "duty" /\ th'[t].op = th[t].op /\ th'[t].want = th[t].want
                 /\ th'[t].todo = th[t].todo /\ th'[t].failed = th[t].failed
                 /\ th'[t].fan = f
  <1> DEFINE taken == [th[t] EXCEPT !.pc = "duty", !.fan = f]
  <1>1. th[t] \in Thread /\ \A r : Goto(t, r) => th'[t] = r
    BY DEF TypeOK, ControllerTypeOK, Goto
  <1>2. /\ Wrote(t, f).pc = "write" /\ Wrote(t, f).op = th[t].op
        /\ Wrote(t, f).want = th[t].want
        /\ Wrote(t, f).todo = th[t].todo \ {f} /\ Wrote(t, f).failed = th[t].failed
    BY <1>1 DEF Thread, Wrote
  <1>3. /\ taken.pc = "duty" /\ taken.op = th[t].op /\ taken.want = th[t].want
        /\ taken.todo = th[t].todo /\ taken.failed = th[t].failed /\ taken.fan = f
    BY <1>1 DEF Thread
  <1> HIDE DEF taken
  <1>4. Goto(t, taken) =>
            /\ th'[t].pc = "duty" /\ th'[t].op = th[t].op /\ th'[t].want = th[t].want
            /\ th'[t].todo = th[t].todo /\ th'[t].failed = th[t].failed
            /\ th'[t].fan = f
    BY <1>1, <1>3
  <1> QED  BY <1>1, <1>2, <1>4 DEF taken

LEMMA WriteManualIntact ==
    ASSUME TypeOK, CleanIntact, NEW t \in Threads, WriteManual(t)
    PROVE  CleanIntact'
  <1>1. PICK f \in Fans :
            /\ Upcoming(t, f)
            /\ enable' = [enable EXCEPT ![f] = EnableManual] /\ duty' = duty
            /\ Goto(t, [th[t] EXCEPT !.pc = "duty", !.fan = f])
    BY DEF WriteManual, WriteMode
  <1>2. enable'[f] = EnableManual /\ \A g \in Fans : g # f => enable'[g] = enable[g]
    BY <1>1 DEF TypeOK, ControllerTypeOK, SysfsTypeOK
  <1>3. \A g \in Fans : g # f => Live(g)' = Live(g)
    BY <1>1, <1>2 DEF Live
  <1>4. ASSUME t \in clean
        PROVE  Intact(t)'
    <2>1. th[t].pc = "write" /\ f \in th[t].todo /\ Intact(t)
      BY <1>1, <1>4 DEF Upcoming, At, CleanIntact
    <2>2. /\ th'[t].pc = "duty" /\ th'[t].op = th[t].op /\ th'[t].want = th[t].want
          /\ th'[t].todo = th[t].todo /\ th'[t].failed = th[t].failed
          /\ th'[t].fan = f
      BY <1>1, WriterFields
    <2>3. \A g : Due(t, g)' => Due(t, g)
      BY <2>2 DEF Due
    <2>4. DoneSoFar(t)'
      <3>1. ASSUME NEW g \in (DOMAIN th[t].want \cap Fans) \ (th[t].failed \cup th[t].todo),
                   Due(t, g)
            PROVE  Holds(th[t].want[g], Live(g)')
        <4>1. Holds(th[t].want[g], Live(g))
          BY <2>1, <3>1 DEF Intact, DoneSoFar
        <4>2. Live(g)' = Live(g)
          BY <1>3, <2>1
        <4> QED  BY <4>1, <4>2
      <3> QED  BY <2>2, <2>3, <3>1 DEF DoneSoFar
    <2> QED  BY <1>2, <2>1, <2>2, <2>4 DEF Intact
  <1>5. Disturbs(t)
    BY DEF WriteManual
  <1> QED  BY <1>4, <1>5, DisturbedIntact

LEMMA WriteDutyIntact ==
    ASSUME TypeOK, CleanIntact, NEW t \in Threads, WriteDuty(t)
    PROVE  CleanIntact'
  <1>1. PICK f \in Fans :
            /\ DutyDue(t, f)
            /\ duty' = [duty EXCEPT ![f] = th[t].want[f].pwm] /\ enable' = enable
            /\ Goto(t, Wrote(t, f))
    BY DEF WriteDuty, WritePWM
  <1>2. /\ th[t].pc \in {"write", "duty"} /\ th[t].want[f].mode = "manual"
        /\ (th[t].pc = "duty" /\ f = th[t].fan) \/ ~HasEnable(f)
    BY <1>1, DutyDueFacts DEF DutyDue, At, TypeOK
  <1>3. duty'[f] = th[t].want[f].pwm /\ \A g \in Fans : g # f => duty'[g] = duty[g]
    BY <1>1 DEF TypeOK, ControllerTypeOK, SysfsTypeOK
  <1>4. \A g \in Fans : g # f => Live(g)' = Live(g)
    BY <1>1, <1>3 DEF Live
  <1>5. ASSUME t \in clean
        PROVE  Intact(t)'
    <2>1. Intact(t)
      BY <1>5 DEF CleanIntact
    <2>2. enable[f] \in {NoEnable, EnableManual}
      BY <1>2, <2>1 DEF Intact, TypeOK, ControllerTypeOK, SysfsTypeOK
    <2>3. Live(f)'.enable = enable[f] /\ Live(f)'.pwm = th[t].want[f].pwm
      BY <1>1, <1>3 DEF Live
    <2>4. Holds(th[t].want[f], Live(f)')
      BY <1>2, <2>2, <2>3 DEF Holds
    <2>5. /\ th'[t].pc = "write" /\ th'[t].op = th[t].op /\ th'[t].want = th[t].want
          /\ th'[t].todo = th[t].todo \ {f} /\ th'[t].failed = th[t].failed
      BY <1>1, WriterFields
    <2> QED  BY <1>2, <1>4, <2>1, <2>4, <2>5, WriterIntact
  <1>6. Disturbs(t)
    BY DEF WriteDuty
  <1> QED  BY <1>5, <1>6, DisturbedIntact

LEMMA WriteAutoIntact ==
    ASSUME TypeOK, CleanIntact, NEW t \in Threads, WriteAuto(t)
    PROVE  CleanIntact'
  <1>1. PICK f \in Fans :
            /\ Upcoming(t, f) /\ th[t].want[f].mode = "auto"
            /\ enable' = [enable EXCEPT ![f] = EnableAuto] /\ duty' = duty
            /\ Goto(t, Wrote(t, f))
    BY DEF WriteAuto, WriteMode
  <1>2. enable'[f] = EnableAuto /\ \A g \in Fans : g # f => enable'[g] = enable[g]
    BY <1>1 DEF TypeOK, ControllerTypeOK, SysfsTypeOK
  <1>3. \A g \in Fans : g # f => Live(g)' = Live(g)
    BY <1>1, <1>2 DEF Live
  <1>4. Live(f)'.enable = EnableAuto
    BY <1>2 DEF Live
  <1>5. Holds(th[t].want[f], Live(f)')
    BY <1>1, <1>4 DEF Holds
  <1>6. /\ th'[t].pc = "write" /\ th'[t].op = th[t].op /\ th'[t].want = th[t].want
        /\ th'[t].todo = th[t].todo \ {f} /\ th'[t].failed = th[t].failed
    BY <1>1, WriterFields
  <1>7. th[t].pc = "write"
    BY <1>1 DEF Upcoming, At
  <1>8. t \in clean => Intact(t)'
    BY <1>3, <1>5, <1>6, <1>7, WriterIntact DEF CleanIntact
  <1>9. Disturbs(t)
    BY DEF WriteAuto
  <1> QED  BY <1>8, <1>9, DisturbedIntact

\* A header that is passed over failed, or was not to be released.
LEMMA PassedOverIntact ==
    ASSUME TypeOK, CleanIntact, NEW t \in Threads, Refuse(t) \/ WriteFails(t)
    PROVE  CleanIntact'
  <1>0. UNCHANGED registers
    BY DEF Refuse, WriteFails
  <1>1. PICK f \in Fans :
            /\ th[t].pc \in {"write", "duty"}
            /\ \/ HeaderFails(t, f)
               \/ /\ Upcoming(t, f) /\ th[t].op = "auto"
                  /\ th[t].want[f].mode = "manual" \/ ~CanRelease(f)
                  /\ Goto(t, [th[t] EXCEPT !.todo = @ \ {f}]) /\ UNCHANGED clean
    BY DEF Refuse, WriteFails, DutyDue, Upcoming, At
  <1>2. th[t] \in Thread /\ \A g \in Fans : Live(g)' = Live(g)
    BY <1>0 DEF TypeOK, ControllerTypeOK, Live, registers
  <1>3. CASE Ends(t, FALSE)
    BY <1>0, <1>3, EndsIntact
  <1>4. CASE /\ Goto(t, [th[t] EXCEPT !.pc = "write", !.fan = 0,
                                      !.todo = @ \ {f}, !.failed = @ \cup {f}])
             /\ UNCHANGED clean
    <2> DEFINE r == [th[t] EXCEPT !.pc = "write", !.fan = 0,
                                  !.todo = @ \ {f}, !.failed = @ \cup {f}]
    <2>1. /\ r.pc = "write" /\ r.op = th[t].op /\ r.want = th[t].want
          /\ r.todo = th[t].todo \ {f} /\ r.failed = th[t].failed \cup {f}
      BY <1>2 DEF Thread
    <2>2. Goto(t, r)
      BY <1>4
    <2> HIDE DEF r
    <2>3. t \in clean /\ th'[t] = r => Intact(t)'
      BY <1>1, <1>2, <2>1, WriterIntact DEF CleanIntact
    <2> QED  BY <1>0, <1>4, <2>2, <2>3, MovesIntact
  <1>5. CASE /\ Upcoming(t, f) /\ th[t].op = "auto"
             /\ th[t].want[f].mode = "manual" \/ ~CanRelease(f)
             /\ Goto(t, [th[t] EXCEPT !.todo = @ \ {f}]) /\ UNCHANGED clean
    <2> DEFINE r == [th[t] EXCEPT !.todo = @ \ {f}]
    <2>1. /\ r.pc = th[t].pc /\ r.op = th[t].op /\ r.want = th[t].want
          /\ r.todo = th[t].todo \ {f} /\ r.failed = th[t].failed
      BY <1>2 DEF Thread
    <2>2. Goto(t, r) /\ th[t].pc = "write" /\ f \in th[t].todo
      BY <1>5 DEF Upcoming, At
    <2> HIDE DEF r
    <2>3. f \in DOMAIN th[t].want
      BY <2>2 DEF TypeOK, ControllerTypeOK, Consistent
    <2>4. t \in clean => ~Due(t, f)
      BY <1>5, <2>2, <2>3 DEF CleanIntact, Intact, Due
    <2>5. t \in clean /\ th'[t] = r => Intact(t)'
      BY <1>2, <2>1, <2>2, <2>4, WriterIntact DEF CleanIntact
    <2> QED  BY <1>0, <1>5, <2>2, <2>5, MovesIntact
  <1> QED  BY <1>1, <1>3, <1>4, <1>5 DEF HeaderFails

-----------------------------------------------------------------------------
(* All steps.                                                              *)

LEMMA StepIntact ==
    ASSUME TypeOK, CleanIntact, NEW t \in Threads, Step(t)
    PROVE  CleanIntact'
  <1>1. CASE LoadProfile(t)
    <2>1. UNCHANGED registers
      BY <1>1 DEF LoadProfile
    <2>2. Ends(t, FALSE) \/ (UNCHANGED clean /\ Goto(t, Reads(th[t].op, disk.fans)))
      BY <1>1 DEF LoadProfile
    <2>3. CASE UNCHANGED clean /\ Goto(t, Reads(th[t].op, disk.fans))
      <3>1. clean' \subseteq clean \cup {t}
        BY <2>3
      <3> QED  BY <2>1, <2>3, <3>1, FreshKeeps
    <2> QED  BY <2>1, <2>2, <2>3, EndsIntact
  <1>2. CASE ReadStatusFails(t) \/ SaveProfile(t) \/ EmitFansChanged(t) \/ Finish(t)
    <2>1. UNCHANGED registers
      BY <1>2 DEF ReadStatusFails, SaveProfile, EmitFansChanged, Finish
    <2>2. \E ok \in BOOLEAN : Ends(t, ok)
      BY <1>2 DEF ReadStatusFails, SaveProfile, EmitFansChanged, Finish, Succeeded
    <2> QED  BY <2>1, <2>2, EndsIntact
  <1> QED  BY <1>1, <1>2, ReadDutyIntact, ReadEnableIntact, PlanIntact,
              WriteManualIntact, WriteDutyIntact, WriteAutoIntact, PassedOverIntact DEF Step

LEMMA CallIntact ==
    ASSUME TypeOK, CleanIntact, NEW t \in Threads, CallOn(t)
    PROVE  CleanIntact'
  <1>1. ASSUME NEW r, Call(t, r)
        PROVE  UNCHANGED registers /\ clean' \subseteq clean \cup {t} /\ Goto(t, r)
    BY <1>1 DEF Call, Starts
  <1>2. CASE SetPercent(t)
    <2>1. PICK f \in Fans, percent \in Percents :
              Call(t, Writes("set", [h \in {f} |-> Manual(PercentToPWM(percent))], {f}))
      BY <1>2 DEF SetPercent
    <2> DEFINE want == [h \in {f} |-> Manual(PercentToPWM(percent))]
    <2>2. DOMAIN want \cap Fans \subseteq {f}
      OBVIOUS
    <2>3. Call(t, Writes("set", want, {f}))
      BY <2>1
    <2> HIDE DEF want
    <2> QED  BY <1>1, <2>2, <2>3, FreshKeeps
  <1>3. CASE SetMax(t) \/ SetAuto(t) \/ SaveState(t)
    <2>1. \E op : Call(t, Reads(op, NoProfile))
      BY <1>3 DEF SetMax, SetAuto, SaveState
    <2> QED  BY <1>1, <2>1, FreshKeeps
  <1>4. CASE RestoreState(t)
    <2>1. Call(t, Loads("restore"))
      BY <1>4 DEF RestoreState
    <2> QED  BY <1>1, <2>1, FreshKeeps
  <1> QED  BY <1>2, <1>3, <1>4 DEF CallOn

\* The firmware moves only duties no undisturbed operation relies on; taking a
\* header back disturbs every operation.
LEMMA FirmwareIntact ==
    ASSUME TypeOK, CleanIntact, Firmware
    PROVE  CleanIntact'
  <1>1. CASE clean' = {}
    BY <1>1 DEF CleanIntact
  <1>2. CASE clean' # {}
    <2>1. PICK f \in Fans : FirmwareMoves(f) /\ UNCHANGED <<th, clean>>
      BY <1>2 DEF Firmware
    <2>2. /\ FirmwareDriven(f) /\ enable' = enable
          /\ \A g \in Fans : g # f => duty'[g] = duty[g]
      BY <2>1 DEF FirmwareMoves, WritePWM, TypeOK, ControllerTypeOK, SysfsTypeOK
    <2>3. ASSUME NEW t \in clean
          PROVE  Intact(t)'
      <3>0. t \in Threads /\ Intact(t) /\ th[t] \in Thread
        BY <2>3 DEF TypeOK, ControllerTypeOK, CleanIntact
      <3>1. \A g \in Fans : FirmwareDriven(g)' <=> FirmwareDriven(g)
        BY <2>2 DEF FirmwareDriven
      <3>2. \A g \in Fans : Agrees(th[t].snap[g], g) => Agrees(th[t].snap[g], g)'
        BY <2>1, <2>2, <3>1 DEF Agrees
      <3>3. ReadSoFar(t) => ReadSoFar(t)'
        <4>1. ASSUME NEW g \in Fans, th[t].snap[g].pwm = duty[g] \/ FirmwareDriven(g)
              PROVE  th[t].snap[g].pwm = duty'[g] \/ FirmwareDriven(g)'
          BY <2>2, <3>1, <4>1
        <4>2. At(t, "enable") => th[t].fan \in Fans
          BY <3>0 DEF At, TypeOK, ControllerTypeOK, Consistent
        <4> QED  BY <2>1, <3>2, <4>1, <4>2 DEF ReadSoFar, At
      <3>4. \A g \in Fans : g # f => Live(g)' = Live(g)
        BY <2>2 DEF Live
      <3>5. /\ Live(f).enable = enable[f] /\ Live(f)'.enable = enable[f]
            /\ enable[f] \notin {NoEnable, EnableManual}
        BY <2>2 DEF Live, FirmwareDriven, TypeOK, ControllerTypeOK, SysfsTypeOK
      <3>6. \A w : Holds(w, Live(f)) => Holds(w, Live(f)')
        BY <3>5 DEF Holds
      <3>7. DoneSoFar(t) => DoneSoFar(t)'
        <4>1. \A g \in Fans : \A w : Holds(w, Live(g)) => Holds(w, Live(g)')
          BY <3>4, <3>6
        <4>2. th' = th /\ \A g : Due(t, g)' <=> Due(t, g)
          BY <2>1 DEF Due
        <4> QED  BY <4>1, <4>2 DEF DoneSoFar
      <3> QED  BY <2>1, <2>2, <3>0, <3>3, <3>7 DEF Intact
    <2> QED  BY <2>1, <2>3 DEF CleanIntact
  <1> QED  BY <1>1, <1>2

LEMMA NextIntact == TypeOK /\ CleanIntact /\ [Next]_vars => CleanIntact'
  <1> SUFFICES ASSUME TypeOK, CleanIntact, [Next]_vars  PROVE  CleanIntact'
    OBVIOUS
  <1>0. /\ Main \in Threads /\ Handlers \subseteq Threads /\ Clis \subseteq Threads
        /\ clean \subseteq Threads
    BY DEF Threads, Daemon, TypeOK, ControllerTypeOK
  <1>1. CASE Start \/ Serve \/ VerifySaved \/ EmitCurrent
    <2>1. UNCHANGED registers /\ clean' \subseteq clean \cup {Main}
      BY <1>1 DEF Start, Serve, VerifySaved, EmitCurrent, Starts, history
    <2>2. PICK r : /\ Goto(Main, r)
                   /\ r \in {Idle, Emitting} \/ \E op : r = Loads(op)
      BY <1>1 DEF Start, Serve, VerifySaved, EmitCurrent
    <2> QED  BY <1>0, <2>1, <2>2, FreshKeeps
  <1>2. CASE Crash \/ \E t \in Clis : KillCli(t)
    <2>1. PICK T : UNCHANGED registers /\ Dies(T)
      BY <1>2 DEF Crash, KillCli
    <2>2. \A t \in clean' : t \in clean /\ th'[t] = th[t]
      BY <1>0, <2>1 DEF Dies
    <2> QED  BY <1>0, <2>1, <2>2, IntactFrame DEF CleanIntact
  <1>3. ASSUME NEW t \in Threads, Step(t)  PROVE  CleanIntact'
    BY <1>3, StepIntact
  <1>4. ASSUME NEW t \in Threads, CallOn(t)  PROVE  CleanIntact'
    BY <1>4, CallIntact
  <1>5. CASE WindowExpires \/ UNCHANGED vars
    <2>1. UNCHANGED <<registers, th, clean>>
      BY <1>5 DEF WindowExpires, vars, cvars, history
    <2> QED  BY <1>0, <2>1, IntactFrame DEF CleanIntact
  <1> QED  BY <1>0, <1>1, <1>2, <1>3, <1>4, <1>5, FirmwareIntact DEF Next

LEMMA InitIntact == Init => CleanIntact
  BY DEF Init, CleanIntact

\* An undisturbed operation brings about what it was asked on every header it is
\* through with, from the load of the profile through reads, plan and writes,
\* however many headers failed or were taken by the firmware, and whether or not
\* it comes to its end (SetPercent, SetMax, SetAuto, RestoreState, VerifySaved).
THEOREM Effect == Spec => []CommandTakesEffect
  <1>1. TypeOK /\ CleanIntact => CommandTakesEffect
    BY DEF TypeOK, ControllerTypeOK, CleanIntact, CommandTakesEffect,
           Intact, DoneSoFar, Due
  <1> QED  BY <1>1, InitIntact, NextIntact, TypeInit, TypeStep, PTL DEF Spec

\* Only Finish takes a restore or verify pass out of its writes: a header that
\* is refused or fails leaves it among them.
LEMMA WritesEndInFinish ==
    ASSUME TypeOK, NEW t \in Threads, Step(t),
           th[t].op \in {"restore", "verify"}, th[t].pc \in {"write", "duty"},
           th'[t].pc \notin {"write", "duty"}
    PROVE  th[t].todo = {}
  <1>0. th[t] \in Thread /\ \A r : Goto(t, r) => th'[t] = r
    BY DEF TypeOK, ControllerTypeOK, Goto
  <1>1. WriteManual(t) \/ WriteDuty(t) \/ WriteAuto(t)
            \/ Refuse(t) \/ WriteFails(t) \/ Finish(t)
    BY DEF Step, LoadProfile, ReadDuty, ReadEnable, ReadStatusFails, PlanMax, PlanAuto,
           PlanRestore, PlanSave, PlanEmit, SaveProfile, EmitFansChanged, Decides, At
  <1>2. CASE WriteManual(t) \/ WriteDuty(t) \/ WriteAuto(t)
    <2>1. PICK f \in Fans : \/ Goto(t, Wrote(t, f))
                           \/ Goto(t, [th[t] EXCEPT !.pc = "duty", !.fan = f])
      BY <1>2 DEF WriteManual, WriteDuty, WriteAuto
    <2> QED  BY <2>1, WriterFields
  <1>3. CASE Refuse(t) \/ WriteFails(t)
    <2>1. PICK f \in Fans : HeaderFails(t, f)
      BY <1>3 DEF Refuse, WriteFails
    <2>2. [th[t] EXCEPT !.pc = "write", !.fan = 0,
                        !.todo = @ \ {f}, !.failed = @ \cup {f}].pc = "write"
      BY <1>0 DEF Thread
    <2> QED  BY <1>0, <2>1, <2>2 DEF HeaderFails
  <1>4. CASE Finish(t)
    BY <1>4 DEF Finish, Finished
  <1> QED  BY <1>1, <1>2, <1>3, <1>4

LEMMA GoesOnStep ==
    ASSUME TypeOK, CleanIntact, NEW t \in clean, Step(t),
           th[t].op \in {"restore", "verify"}, th[t].pc \in {"write", "duty"},
           th'[t].pc \notin {"write", "duty"},
           NEW f \in (DOMAIN th[t].want \cap PwmWritable) \ th[t].failed
    PROVE  Holds(th[t].want[f], Live(f))
  <1>1. t \in Threads /\ f \in Fans
    BY DEF TypeOK, ControllerTypeOK
  <1>2. th[t].todo = {}
    BY <1>1, WritesEndInFinish
  <1>3. DoneSoFar(t) /\ Due(t, f)
    BY DEF CleanIntact, Intact, Due
  <1> QED  BY <1>1, <1>2, <1>3 DEF DoneSoFar

\* A restore or verify pass that nothing disturbs brings the whole profile
\* about but for the headers that fail, whichever and however many these are: no
\* error on one of them ends it early (ApplyProfile).
THEOREM RestoresGoOn == Spec => RestoreGoesOn
  <1>1. TypeOK /\ CleanIntact /\ [Next]_vars =>
            [\A t \in clean :
                /\ th[t].op \in {"restore", "verify"}
                /\ th[t].pc \in {"write", "duty"}
                /\ Step(t) /\ th'[t].pc \notin {"write", "duty"}
                => \A f \in (DOMAIN th[t].want \cap PwmWritable) \ th[t].failed :
                      Holds(th[t].want[f], Live(f))]_vars
    BY GoesOnStep
  <1> QED  BY <1>1, InitIntact, NextIntact, TypeInit, TypeStep, PTL DEF Spec, RestoreGoesOn

\* The step by which an undisturbed save stores its profile.
LEMMA FaithfulStep ==
    ASSUME TypeOK, CleanIntact, [Next]_vars, NEW t \in clean,
           At(t, "save"), th'[t].pc # "save", disk' # disk,
           NEW f \in PwmWritable, enable[f] # 2
    PROVE  f \in DOMAIN disk'.fans /\ Holds(disk'.fans[f], Live(f))
  <1>0. /\ t \in Threads /\ th[t] \in Thread /\ f \in Fans /\ f > 0
        /\ enable[f] \in EnableModes \cup {NoEnable}
        /\ HasEnable(f) <=> enable[f] # NoEnable
    BY DEF TypeOK, ControllerTypeOK, SysfsTypeOK
  <1>1. PICK s \in Threads : SaveProfile(s)
    BY OnlySavesWrite
  <1>2. \E r : Goto(s, r)
    BY <1>1 DEF SaveProfile, Ends
  <1>3. s = t
    BY <1>0, <1>2 DEF Goto, At, TypeOK, ControllerTypeOK
  <1> DEFINE snap == th[t].snap
             p == FromStatus(snap)
  <1>4. disk'.fans = p
    <2>1. disk' = Saved(p)
      BY <1>1, <1>3 DEF SaveProfile
    <2> QED  BY <2>1 DEF Saved
  <1>5. Agrees(snap[f], f)
    BY <1>0 DEF CleanIntact, Intact, ReadSoFar, At
  <1>6. DOMAIN snap = Fans /\ snap[f].writable
    BY <1>0, <1>5 DEF Agrees, Thread
  <1>7. /\ f \in DOMAIN p
        /\ p[f] = IF snap[f].enable = EnableAuto THEN FirmwareAuto ELSE Manual(snap[f].pwm)
    BY <1>0, <1>6 DEF FromStatus
  <1>8. Live(f).pwm = duty[f] /\ Live(f).enable = enable[f]
    BY DEF Live
  <1> HIDE DEF p, snap
  <1>9. CASE enable[f] = EnableAuto
    BY <1>4, <1>5, <1>7, <1>8, <1>9 DEF Agrees, Holds, FirmwareAuto
  <1>10. CASE enable[f] # EnableAuto
    <2>1. enable[f] \in {NoEnable, EnableManual}
      BY <1>0, <1>10 DEF EnableModes
    <2>2. snap[f].enable = enable[f] /\ snap[f].pwm = duty[f]
      BY <1>0, <1>5, <2>1 DEF Agrees, FirmwareDriven
    <2> QED  BY <1>4, <1>7, <1>8, <1>10, <2>1, <2>2 DEF Holds, Manual
  <1> QED  BY <1>9, <1>10

\* An undisturbed save stores what the chip runs at: planning the profile back
\* would leave every header in a documented mode alone (ReadStatus, FromStatus,
\* SaveState, fanctl save).
THEOREM FaithfulSaves == Spec => SaveIsFaithful
  <1>1. TypeOK /\ CleanIntact /\ [Next]_vars =>
            [\A t \in clean : At(t, "save") /\ th'[t].pc # "save" /\ disk' # disk =>
                 \A f \in PwmWritable : enable[f] # 2 =>
                     f \in DOMAIN disk'.fans /\ Holds(disk'.fans[f], Live(f))]_vars
    BY FaithfulStep
  <1> QED  BY <1>1, InitIntact, NextIntact, TypeInit, TypeStep, PTL DEF Spec, SaveIsFaithful
=============================================================================

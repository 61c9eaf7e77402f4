----------------------------- MODULE Controller -----------------------------
(***************************************************************************)
(* The operations of internal/control and of the fanctl commands, run by   *)
(* threads that share the chip's registers and the saved profile:          *)
(*   - godbus runs every method call in a goroutine of its own (Handlers); *)
(*   - the daemon's Main goroutine restores at boot, then polls;           *)
(*   - each fanctl command is a process (Clis) with its own address space. *)
(* Controller.mu guards only the copying of fields and userTouched: every  *)
(* sysfs read and write runs unlocked, one file at a time, and that is the *)
(* grain of the actions here.                                              *)
(***************************************************************************)
EXTENDS Sysfs, FiniteSets

CONSTANTS
    Headers,    \* indexes a profile may name; some may not be on this chip
    Handlers, Main, Clis,
    Reporters,  \* the daemon's threads whose FansChanged signals are followed
    Percents,   \* what callers ask for
    MaxCalls,   \* bound on the calls and commands issued
    MaxFaults,  \* bound on I/O errors, crashes and kills
    MaxReverts  \* bound on the firmware taking back a header in manual mode

Daemon  == Handlers \cup {Main}
Threads == Daemon \cup Clis

ASSUME ControllerAssumption ==
    /\ Headers \subseteq Nat \ {0}
    /\ Fans \subseteq Headers /\ IsFiniteSet(Fans)
    /\ Main \notin Handlers \cup Clis
    /\ Handlers \cap Clis = {}
    /\ Reporters \subseteq Daemon
    /\ Percents \subseteq Percent
    /\ MaxCalls \in Nat
    /\ MaxFaults \in Nat
    /\ MaxReverts \in Nat

VARIABLES
    th,             \* the operation each thread is in
    userTouched,    \* Controller.userTouched
    disk,           \* the profile file: absent, unusable, or a saved profile
    window,         \* poll's verifyUntil lies in the future
    calls, faults, reverts,     \* bounded counters of the environment
    \* History, read by no guard:
    drifted,        \* headers whose duty register was last set by firmware
    stranded,       \* ... abandoned between the mode and the duty write
    settled,        \* <<t, f>>: a command of t set header f since the daemon started
    clean,          \* threads whose operation nothing has disturbed
    fresh           \* the last FansChanged shows the registers as they are

marks   == <<drifted, stranded, settled>>
history == <<marks, clean, fresh>>
cvars == <<registers, th, userTouched, disk, window, calls, faults, reverts, history>>

-----------------------------------------------------------------------------
(* Threads and files.                                                      *)

Ops == {"none", "set", "max", "auto", "save", "restore", "verify", "emit"}
PCs == {"idle", "load", "read", "enable", "plan", "write", "duty", "save", "report"}

Profile   == ProfileOver(Headers)
NoProfile == [h \in {} |-> FirmwareAuto]

Thread == [op : Ops, pc : PCs,
           unread  : SUBSET Fans,            \* headers ReadStatus has yet to read
           fan     : Fans \cup {0},          \* header between its two accesses
           snap    : [Fans -> Reading],      \* what ReadStatus has collected
           want    : Profile,                \* the settings to bring about
           todo    : SUBSET Headers,         \* headers still to write
           applied : SUBSET Headers,         \* ... written
           failed  : SUBSET Headers]         \* ... that returned an error

Idle == [op |-> "none", pc |-> "idle", unread |-> {}, fan |-> 0,
         snap |-> [f \in Fans |-> Unread], want |-> NoProfile,
         todo |-> {}, applied |-> {}, failed |-> {}]

\* An operation that starts by loading the profile, by ReadStatus, or by the
\* writes that bring the headers in todo to `want`.
Loads(op)             == [Idle EXCEPT !.op = op, !.pc = "load"]
Reads(op, want)       == [Idle EXCEPT !.op = op, !.pc = "read", !.unread = Fans, !.want = want]
Writes(op, want, todo) == [Idle EXCEPT !.op = op, !.pc = "write", !.want = want, !.todo = todo]

\* The reading that feeds a FansChanged signal.
Emitting == Reads("emit", NoProfile)

Disk == [state : {"absent", "unusable", "saved"}, fans : Profile]

Saved(p) == [state |-> "saved", fans |-> p]
Unsaved(state) == [state |-> state, fans |-> NoProfile]

\* A thread's record fits where the thread is: it writes only headers of the
\* chip it wants a setting for.
Consistent(r) ==
    /\ r.pc \in {"enable", "duty"} => r.fan \in Fans
    /\ r.pc \in {"write", "duty"} => r.todo \subseteq DOMAIN r.want \cap Fans
    /\ r.pc = "duty" => r.fan \in r.todo /\ r.want[r.fan].mode = "manual"

ControllerTypeOK ==
    /\ SysfsTypeOK
    /\ th \in [Threads -> Thread]
    /\ userTouched \in BOOLEAN
    /\ disk \in Disk
    /\ window \in BOOLEAN
    /\ calls \in 0..MaxCalls
    /\ faults \in 0..MaxFaults
    /\ reverts \in 0..MaxReverts
    /\ drifted \subseteq Fans /\ stranded \subseteq Fans
    /\ settled \subseteq Threads \X Fans
    /\ clean \subseteq Threads
    /\ fresh \in BOOLEAN
    /\ \A t \in Threads : Consistent(th[t])

-----------------------------------------------------------------------------
(* How an operation goes on.                                               *)

At(t, pc) == th[t].pc = pc
Goto(t, next) == th' = [th EXCEPT ![t] = next]

\* What the caller does next: a successful D-Bus command re-reads the chip and
\* reports it; poll does so after every verify pass, failed or not; a fanctl
\* process, a save, and the boot restore (no handler is registered yet) do not.
\* Reporting changes neither registers nor files: Reporters says for which
\* threads a model follows it.
Reports(t, ok) ==
    /\ t \in Reporters
    /\ \/ t = Main /\ th[t].op = "verify"
       \/ t # Main /\ ok /\ th[t].op \in {"set", "max", "auto", "restore"}

\* History: an operation counts as undisturbed until another thread or the
\* firmware changes a register under it, or until one of its reads is wrong.
Starts(t)   == clean' = clean \cup {t}
Stops(t)    == clean' = clean \ {t}
Disturbs(t) == clean' = clean \cap {t}

\* The operation of t returns, with an error unless ok.  Any error of a verify
\* pass makes poll zero verifyUntil.
Ends(t, ok) ==
    /\ Goto(t, IF Reports(t, ok) THEN Emitting ELSE Idle)
    /\ window' = (window /\ ~(t = Main /\ th[t].op = "verify" /\ ~ok))
    /\ Stops(t)

\* One of the bounded number of things that go wrong.
Faulty == faults < MaxFaults /\ faults' = faults + 1

-----------------------------------------------------------------------------
(* The calls.  Touch is the critical section that sets userTouched; a      *)
(* fanctl process has no such field, and RestoreState leaves it alone.     *)

\* Mutant: markTouched is forgotten.
TouchNothing(t) == UNCHANGED userTouched

Touch(t) == userTouched' = (t \in Handlers \/ userTouched)

Call(t, first) ==
    /\ At(t, "idle")
    /\ calls < MaxCalls /\ calls' = calls + 1
    /\ Goto(t, first)
    /\ Starts(t)
    /\ UNCHANGED <<registers, disk, window, faults, reverts, marks, fresh>>

SetPercent(t) ==
    \E f \in Fans, percent \in Percents :
        LET want == [h \in {f} |-> Manual(PercentToPWM(percent))]
        IN  Call(t, Writes("set", want, {f})) /\ Touch(t)

SetMax(t)       == Call(t, Reads("max", NoProfile)) /\ Touch(t)
SetAuto(t)      == Call(t, Reads("auto", NoProfile)) /\ Touch(t)
SaveState(t)    == Call(t, Reads("save", NoProfile)) /\ Touch(t)
RestoreState(t) == Call(t, Loads("restore")) /\ UNCHANGED userTouched

-----------------------------------------------------------------------------
(* state.LoadIfPresent and hwmon.ReadStatus.  readFans goes through a Go   *)
(* map, so the headers are read in any order; a pwmN it cannot read counts *)
(* as 0, a pwmN_enable it cannot read as absent, a pwmN it cannot stat as  *)
(* read-only.                                                              *)

LoadProfile(t) ==
    /\ At(t, "load")
    /\ \/ /\ disk.state = "saved"
          /\ Goto(t, Reads(th[t].op, disk.fans))
          /\ UNCHANGED <<window, clean, faults>>
       \/ disk.state # "saved" /\ Ends(t, FALSE) /\ UNCHANGED faults
       \/ Faulty /\ Ends(t, FALSE)
    /\ UNCHANGED <<registers, userTouched, disk, calls, reverts, marks, fresh>>

ReadDuty(t) ==
    /\ At(t, "read")
    /\ \E f \in th[t].unread : \E pwm \in {duty[f], 0} :
          /\ \/ pwm = duty[f] /\ UNCHANGED <<faults, clean>>
             \/ pwm = 0 /\ Faulty /\ Stops(t)
          /\ Goto(t, [th[t] EXCEPT !.pc = "enable", !.fan = f, !.unread = @ \ {f},
                                   !.snap[f] = AfterDuty(pwm)])
    /\ UNCHANGED <<registers, userTouched, disk, window, calls, reverts, marks, fresh>>

ReadEnable(t) ==
    /\ At(t, "enable")
    /\ \E rest \in {Live(th[t].fan)} \cup {[Live(th[t].fan) EXCEPT !.enable = NoEnable],
                                          [Live(th[t].fan) EXCEPT !.writable = FALSE]} :
          /\ \/ rest = Live(th[t].fan) /\ UNCHANGED <<faults, clean>>
             \/ rest # Live(th[t].fan) /\ Faulty /\ Stops(t)
          /\ Goto(t, [th[t] EXCEPT !.pc = IF th[t].unread = {} THEN "plan" ELSE "read", !.fan = 0,
                                   !.snap[th[t].fan].enable = rest.enable,
                                   !.snap[th[t].fan].writable = rest.writable])
    /\ UNCHANGED <<registers, userTouched, disk, window, calls, reverts, marks, fresh>>

\* The chip's directory cannot be listed, before the fans or, for the
\* temperatures, after them.
ReadStatusFails(t) ==
    /\ \/ At(t, "read") /\ th[t].unread = Fans
       \/ At(t, "plan")
    /\ Faulty
    /\ Ends(t, FALSE)
    /\ UNCHANGED <<registers, userTouched, disk, calls, reverts, marks, fresh>>

-----------------------------------------------------------------------------
(* What the status is for.                                                 *)

Decides(t, next) ==
    /\ At(t, "plan")
    /\ Goto(t, next)
    /\ UNCHANGED <<registers, userTouched, disk, window, calls, reverts, faults, history>>

\* SetMax drives the headers that read as writable; none is an error.
PlanMax(t) ==
    LET writable == {f \in Fans : th[t].snap[f].writable}
    IN  /\ th[t].op = "max"
        /\ \/ /\ writable # {}
              /\ Decides(t, Writes("max", [f \in writable |-> Manual(PercentToPWM(100))], writable))
           \/ /\ writable = {} /\ At(t, "plan") /\ Ends(t, FALSE)
              /\ UNCHANGED <<registers, userTouched, disk, calls, reverts, faults, marks, fresh>>

PlanAuto(t) ==
    /\ th[t].op = "auto"
    /\ Decides(t, Writes("auto", [f \in Fans |-> FirmwareAuto], Fans))

PlanRestore(t) ==
    /\ th[t].op \in {"restore", "verify"}
    /\ Decides(t, Writes(th[t].op, th[t].want, DOMAIN Plan(th[t].want, th[t].snap)))

PlanSave(t) ==
    /\ th[t].op = "save"
    /\ Decides(t, [th[t] EXCEPT !.pc = "save"])

PlanEmit(t) ==
    /\ th[t].op = "emit"
    /\ Decides(t, [th[t] EXCEPT !.pc = "report"])

\* state.Save, atomic: module StateFile shows what that takes.  The command
\* refuses an empty profile, the daemon does not.
SaveProfile(t) ==
    LET p == FromStatus(th[t].snap)
    IN  /\ At(t, "save")
        /\ \/ ~(t \in Clis /\ p = NoProfile) /\ disk' = Saved(p) /\ Ends(t, TRUE) /\ UNCHANGED faults
           \/ t \in Clis /\ p = NoProfile /\ Ends(t, FALSE) /\ UNCHANGED <<disk, faults>>
           \/ Faulty /\ Ends(t, FALSE) /\ UNCHANGED disk
        /\ UNCHANGED <<registers, userTouched, calls, reverts, marks, fresh>>

\* emitFansChanged.
EmitFansChanged(t) ==
    /\ At(t, "report")
    /\ fresh' = (\A f \in Fans : th[t].snap[f] = Live(f))
    /\ Ends(t, TRUE)
    /\ UNCHANGED <<registers, userTouched, disk, calls, reverts, faults, marks>>

-----------------------------------------------------------------------------
(* The writes, header by header: SetPercent's one, the loops of            *)
(* hwmon.SetMax and hwmon.SetAuto, and the loop of ApplyProfile.  ReadStatus *)
(* and Plan sort by index, so the lowest is next.                          *)

Upcoming(t, f) ==
    /\ At(t, "write")
    /\ f \in th[t].todo
    /\ \A g \in th[t].todo : f <= g

\* Mutant: the duty is written without taking the mode.
DutyDueAtOnce(t, f) ==
    Upcoming(t, f) /\ th[t].want[f].mode = "manual" /\ CanDrive(f)

\* The header whose pwmN is written now: its mode is already set, or it has none.
DutyDue(t, f) ==
    \/ At(t, "duty") /\ f = th[t].fan
    \/ Upcoming(t, f) /\ th[t].want[f].mode = "manual" /\ CanDrive(f) /\ ~HasEnable(f)

\* Mutant: the header stays on the list.
WroteAgain(t, f) == [th[t] EXCEPT !.pc = "write", !.fan = 0, !.applied = @ \cup {f}]

Wrote(t, f) == [th[t] EXCEPT !.pc = "write", !.fan = 0,
                             !.todo = @ \ {f}, !.applied = @ \cup {f}]

\* History: a command that changes fan speeds has set header f.
Settles(t, f) ==
    settled' = IF th[t].op \in {"set", "max", "auto"}
               THEN settled \cup {<<t, f>>} ELSE settled

\* Mutant: the mode is taken, the duty forgotten.
WriteManualOnly(t) ==
    \E f \in Fans :
        /\ Upcoming(t, f) /\ th[t].want[f].mode = "manual" /\ CanDrive(f) /\ HasEnable(f)
        /\ WriteMode(f, EnableManual)
        /\ Goto(t, Wrote(t, f))
        /\ Disturbs(t)
        /\ fresh' = FALSE
        /\ UNCHANGED <<duty, userTouched, disk, window, calls, reverts, faults, marks>>

\* SetPWMRaw, first write: pwmN_enable = 1.
WriteManual(t) ==
    \E f \in Fans :
        /\ Upcoming(t, f) /\ th[t].want[f].mode = "manual" /\ CanDrive(f) /\ HasEnable(f)
        /\ WriteMode(f, EnableManual)
        /\ Goto(t, [th[t] EXCEPT !.pc = "duty", !.fan = f])
        /\ Disturbs(t)
        /\ fresh' = FALSE
        /\ UNCHANGED <<duty, userTouched, disk, window, calls, reverts, faults, marks>>

\* SetPWMRaw, second write: pwmN.
WriteDuty(t) ==
    \E f \in Fans :
        /\ DutyDue(t, f)
        /\ WritePWM(f, th[t].want[f].pwm)
        /\ Goto(t, Wrote(t, f))
        /\ drifted' = drifted \ {f} /\ stranded' = stranded \ {f}
        /\ Settles(t, f)
        /\ Disturbs(t)
        /\ fresh' = FALSE
        /\ UNCHANGED <<enable, userTouched, disk, window, calls, reverts, faults>>

\* SetAutoIndex: pwmN_enable = 0.
WriteAuto(t) ==
    \E f \in Fans :
        /\ Upcoming(t, f) /\ th[t].want[f].mode = "auto" /\ CanRelease(f)
        /\ WriteMode(f, EnableAuto)
        /\ Goto(t, Wrote(t, f))
        /\ stranded' = stranded \ {f}
        /\ Settles(t, f)
        /\ Disturbs(t)
        /\ fresh' = FALSE
        /\ UNCHANGED <<duty, userTouched, disk, window, calls, reverts, faults, drifted>>

\* Mutant: ApplyProfile loses the error.
HeaderFailsSilently(t, f) ==
    \/ /\ th[t].op \in {"restore", "verify"}
       /\ Goto(t, [th[t] EXCEPT !.pc = "write", !.fan = 0, !.todo = @ \ {f}])
       /\ UNCHANGED <<window, clean>>
    \/ th[t].op \notin {"restore", "verify"} /\ Ends(t, FALSE)

\* Mutant: ApplyProfile returns the first error.
HeaderFailsForGood(t, f) == Ends(t, FALSE)

\* A failed header: ApplyProfile collects the error and goes on, the others
\* return it at once.
HeaderFails(t, f) ==
    \/ /\ th[t].op \in {"restore", "verify"}
       /\ Goto(t, [th[t] EXCEPT !.pc = "write", !.fan = 0,
                                !.todo = @ \ {f}, !.failed = @ \cup {f}])
       /\ UNCHANGED <<window, clean>>
    \/ th[t].op \notin {"restore", "verify"} /\ Ends(t, FALSE)

\* The checks of SetPWMRaw or SetAutoIndex refuse the header.  SetAuto alone
\* passes over it.
Refuse(t) ==
    \E f \in Fans :
        /\ Upcoming(t, f)
        /\ IF th[t].want[f].mode = "manual" THEN ~CanDrive(f) ELSE ~CanRelease(f)
        /\ IF th[t].op = "auto"
           THEN Goto(t, [th[t] EXCEPT !.todo = @ \ {f}]) /\ UNCHANGED <<window, clean>>
           ELSE HeaderFails(t, f)
        /\ UNCHANGED <<registers, userTouched, disk, calls, reverts, faults, marks, fresh>>

\* A write returns an I/O error.  Nothing takes the mode back if it was pwmN's.
WriteFails(t) ==
    \E f \in Fans :
        /\ \/ DutyDue(t, f)
           \/ Upcoming(t, f) /\ th[t].want[f].mode = "manual" /\ CanDrive(f)
           \/ Upcoming(t, f) /\ th[t].want[f].mode = "auto" /\ CanRelease(f)
        /\ Faulty
        /\ HeaderFails(t, f)
        /\ stranded' = IF At(t, "duty") THEN stranded \cup {f} ELSE stranded
        /\ UNCHANGED <<registers, userTouched, disk, calls, reverts, drifted, settled, fresh>>

\* SetAuto fails when it wrote nothing, a restore when every write it tried
\* failed; a partial restore is still a restore.
Succeeded(t) ==
    \/ th[t].applied # {}
    \/ th[t].failed = {} /\ th[t].op # "auto"

Finished(t) == At(t, "write") /\ th[t].todo = {}

Finish(t) ==
    /\ Finished(t)
    /\ Ends(t, Succeeded(t))
    /\ UNCHANGED <<registers, userTouched, disk, calls, reverts, faults, marks, fresh>>

-----------------------------------------------------------------------------

\* What thread t does without being called.
Step(t) ==
    \/ LoadProfile(t) \/ ReadDuty(t) \/ ReadEnable(t) \/ ReadStatusFails(t)
    \/ PlanMax(t) \/ PlanAuto(t) \/ PlanRestore(t) \/ PlanSave(t) \/ PlanEmit(t)
    \/ SaveProfile(t) \/ EmitFansChanged(t)
    \/ WriteManual(t) \/ WriteDuty(t) \/ WriteAuto(t)
    \/ Refuse(t) \/ WriteFails(t) \/ Finish(t)

CallOn(t) ==
    SetPercent(t) \/ SetMax(t) \/ SetAuto(t) \/ SaveState(t) \/ RestoreState(t)

Firmware ==
    \E f \in Fans :
        \/ /\ FirmwareMoves(f)
           /\ drifted' = drifted \cup {f} /\ fresh' = FALSE
           /\ UNCHANGED <<th, userTouched, disk, window, calls, reverts, faults, stranded, settled, clean>>
        \/ /\ FirmwareReverts(f)
           /\ reverts < MaxReverts /\ reverts' = reverts + 1
           /\ drifted' = drifted \cup {f} /\ fresh' = FALSE
           /\ clean' = {}
           /\ UNCHANGED <<th, userTouched, disk, window, calls, faults, stranded, settled>>
=============================================================================

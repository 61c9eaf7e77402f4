------------------------------- MODULE Fanctld -------------------------------
(***************************************************************************)
(* The machine fanctl runs on: the daemon from start to exit               *)
(* (cmd/fanctld/main.go) under systemd (systemd/fanctld.service), D-Bus    *)
(* callers, fanctl commands, and the firmware, all at work on one chip and *)
(* one profile file.                                                       *)
(***************************************************************************)
EXTENDS Controller

CONSTANT InitDisk   \* what the profile file may hold at power-on

ASSUME FanctldAssumption == InitDisk \subseteq Disk

VARIABLE phase      \* the daemon: "down", "boot" (restoring) or "serving"

vars == <<cvars, phase>>

TypeOK == ControllerTypeOK /\ phase \in {"down", "boot", "serving"}

Init ==
    /\ SysfsInit
    /\ disk \in InitDisk
    /\ th = [t \in Threads |-> Idle]
    /\ userTouched = FALSE /\ window = FALSE
    /\ calls = 0 /\ faults = 0 /\ reverts = 0
    /\ drifted = {f \in Fans : FirmwareDriven(f)}
    /\ stranded = {} /\ settled = {} /\ clean = {}
    /\ fresh = FALSE
    /\ phase = "down"

-----------------------------------------------------------------------------
\* systemd starts the daemon; waitForController found the chip, however long
\* that took, and main calls restoreSaved.
Start ==
    /\ phase = "down"
    /\ phase' = "boot"
    /\ Goto(Main, Loads("restore"))
    /\ Starts(Main)
    /\ UNCHANGED <<registers, userTouched, disk, window, calls, reverts, faults, marks, fresh>>

\* The restore is over, for better or worse: the name is acquired and poll
\* starts with a first FansChanged.
Serve ==
    /\ phase = "boot" /\ At(Main, "idle")
    /\ phase' = "serving"
    /\ window' = TRUE
    /\ Goto(Main, IF Main \in Reporters THEN Emitting ELSE Idle)
    /\ UNCHANGED <<registers, userTouched, disk, calls, reverts, faults, history>>

\* A tick of poll inside the window, as long as no command has come:
\* VerifySaved.  EmitCurrent follows it (Reports).
VerifySaved ==
    /\ phase = "serving" /\ At(Main, "idle")
    /\ window /\ ~userTouched
    /\ Goto(Main, Loads("verify"))
    /\ Starts(Main)
    /\ UNCHANGED <<registers, userTouched, disk, window, calls, reverts, faults, marks, fresh, phase>>

\* Mutant: once the window has closed, ticks report nothing.
EmitCurrentInWindow ==
    /\ phase = "serving" /\ At(Main, "idle")
    /\ window /\ userTouched
    /\ Main \in Reporters
    /\ Goto(Main, Emitting)
    /\ UNCHANGED <<registers, userTouched, disk, window, calls, reverts, faults, history, phase>>

\* A tick that only calls EmitCurrent.
EmitCurrent ==
    /\ phase = "serving" /\ At(Main, "idle")
    /\ ~window \/ userTouched
    /\ Main \in Reporters
    /\ Goto(Main, Emitting)
    /\ UNCHANGED <<registers, userTouched, disk, window, calls, reverts, faults, history, phase>>

\* Fifteen seconds have passed.
WindowExpires ==
    /\ window
    /\ window' = FALSE
    /\ UNCHANGED <<registers, th, userTouched, disk, calls, reverts, faults, history, phase>>

\* Threads of a process that dies; headers it left between the two writes.
Dies(T) ==
    /\ th' = [t \in Threads |-> IF t \in T THEN Idle ELSE th[t]]
    /\ stranded' = stranded \cup {f \in Fans : \E t \in T : At(t, "duty") /\ th[t].fan = f}
    /\ clean' = clean \ T

\* fanctld crashes, or is stopped or restarted; its memory is gone.
Crash ==
    /\ phase # "down"
    /\ Faulty
    /\ Dies(Daemon)
    /\ phase' = "down" /\ window' = FALSE /\ userTouched' = FALSE
    /\ settled' = {} /\ fresh' = FALSE
    /\ UNCHANGED <<registers, disk, calls, reverts, drifted>>

\* A fanctl command is interrupted.
KillCli(t) ==
    /\ ~At(t, "idle")
    /\ Faulty
    /\ Dies({t})
    /\ UNCHANGED <<registers, userTouched, disk, window, calls, reverts, drifted, settled, fresh, phase>>

-----------------------------------------------------------------------------
Next ==
    \/ Start \/ Serve \/ VerifySaved \/ EmitCurrent \/ WindowExpires \/ Crash
    \/ \E t \in Threads : Step(t) /\ UNCHANGED phase
    \/ \E t \in Handlers : phase = "serving" /\ CallOn(t) /\ UNCHANGED phase
    \/ \E t \in Clis : (CallOn(t) /\ UNCHANGED phase) \/ KillCli(t)
    \/ Firmware /\ UNCHANGED phase

Spec == Init /\ [][Next]_vars

\* The Go scheduler runs every goroutine and the kernel every process; the
\* ticker keeps ticking; systemd starts the daemon again.  Nothing forces a
\* call, a fault, the firmware or the end of the window.
Fairness ==
    /\ \A t \in Threads : WF_vars(Step(t) /\ UNCHANGED phase)
    /\ WF_vars(Start) /\ WF_vars(Serve)
    /\ WF_vars(VerifySaved) /\ WF_vars(EmitCurrent)

FairSpec == Spec /\ Fairness

-----------------------------------------------------------------------------
(* Safety.                                                                 *)

\* A header in manual mode runs at a duty some caller or the profile asked
\* for, never at one the firmware happened to leave in pwmN: SetPWMRaw takes
\* the mode first and writes the duty last, whatever other threads do to the
\* same header in between.  The one exception is a SetPWMRaw cut short.
ManualRunsAtCommanded ==
    \A f \in Fans :
        enable[f] = EnableManual /\ f \in drifted =>
            \/ f \in stranded
            \/ \E t \in Threads : At(t, "duty") /\ th[t].fan = f

\* An undisturbed operation brings about what it was asked: every header that
\* it wants, could drive, and is through with shows the wanted setting, whether
\* it has reached its end or is about to be cut short by a later header.  For a
\* restore that spans the load, the reads, the plan made of them and the writes,
\* with single headers allowed to fail.
CommandTakesEffect ==
    \A t \in clean : th[t].pc \in {"write", "duty"} =>
        \A f \in (DOMAIN th[t].want \cap Fans) \ (th[t].todo \cup th[t].failed) :
            (IF th[t].op = "auto" THEN CanRelease(f) ELSE f \in PwmWritable)
                => Holds(th[t].want[f], Live(f))

\* A restore or verify pass that nothing disturbs goes through the whole
\* profile: at its end every saved header that is present and writable shows
\* its setting, but for those refused or hit by an error, and none of these
\* keeps it from the headers after it (ApplyProfile).
RestoreGoesOn ==
    [][\A t \in clean :
          /\ th[t].op \in {"restore", "verify"}
          /\ th[t].pc \in {"write", "duty"}
          /\ Step(t) /\ th'[t].pc \notin {"write", "duty"}
          => \A f \in (DOMAIN th[t].want \cap PwmWritable) \ th[t].failed :
                Holds(th[t].want[f], Live(f))]_vars

\* SetPWMRaw or SetAutoIndex would take the setting.
Accepts(f, want) == IF want.mode = "manual" THEN CanDrive(f) ELSE CanRelease(f)

\* What a save puts into the profile, the chip will take at the next boot,
\* even if registers were misread for it: only writable headers are named, and
\* none that has no mode register is to be given to the firmware.  Exceptions
\* are the file found at power-on, and headers whose pwmN_enable is read-only:
\* no reading shows that, so they are saved, and refused at every boot.
SavedSettingsTaken ==
    disk \in InitDisk \/
        \A h \in DOMAIN disk.fans :
            /\ h \in PwmWritable
            /\ EnableFile[h] # "ro" => Accepts(h, disk.fans[h])

\* SaveState of an undisturbed status stores what the chip runs at: planning
\* the profile back would leave every header in a documented mode alone.
SaveIsFaithful ==
    [][\A t \in clean : At(t, "save") /\ th'[t].pc # "save" /\ disk' # disk =>
          \A f \in PwmWritable : enable[f] # 2 =>
              f \in DOMAIN disk'.fans /\ Holds(disk'.fans[f], Live(f))]_vars

\* Once a D-Bus command has set a header, no verify pass begins: userTouched
\* is set before the command's first write and outlives it.  A pass that has
\* begun is not held back (VerifyNeverFightsSlider, below), and RestoreState
\* does not count as a change.
NoVerifyAfterCommand ==
    [][th[Main].op # "verify" /\ th'[Main].op = "verify" =>
          \A s \in settled : s[1] \notin Handlers]_vars

\* The steps that an operation may still take, by where its thread's record r
\* stands, the FansChanged after it included.
StepsLeft(r) ==
    LET fans   == Cardinality(Fans)
        unread == Cardinality(r.unread)
        todo   == Cardinality(r.todo)
        signal == IF r.op = "emit" THEN 0 ELSE 2 * fans + 2
        plan   == IF r.op = "emit" THEN 2 ELSE 2 * fans + 2 + signal
    IN  CASE r.pc = "idle"   -> 0
          [] r.pc = "load"   -> 2 * fans + plan + 1
          [] r.pc = "read"   -> 2 * unread + plan
          [] r.pc = "enable" -> 2 * unread + plan + 1
          [] r.pc = "plan"   -> plan
          [] r.pc = "write"  -> 2 * todo + signal + 1
          [] r.pc = "duty"   -> 2 * todo + signal
          [] r.pc \in {"save", "report"} -> signal + 1

\* Every operation is over after a number of its own steps that only the number
\* of headers bounds, whatever the other threads, the firmware and errors do
\* meanwhile: none of them sets it back, and it never turns in circles.
StepsRunOut ==
    [][\A t \in Threads : ~At(t, "idle") =>
          /\ StepsLeft(th[t]) \in 1..6 * Cardinality(Fans) + 5
          /\ IF Step(t) THEN StepsLeft(th'[t]) < StepsLeft(th[t])
                        ELSE StepsLeft(th'[t]) <= StepsLeft(th[t])]_vars

-----------------------------------------------------------------------------
(* What the threads amount to, together.                                   *)

\* What thread t is about to write, and the header it is about to give a duty.
Asked(t) ==
    IF th[t].pc \in {"write", "duty"}
    THEN [f \in th[t].todo |-> th[t].want[f]] ELSE NoProfile

Taking(t) == IF At(t, "duty") THEN th[t].fan ELSE 0

Board == INSTANCE FanBoard WITH
    Clients  <- Threads,
    Modal    <- {f \in Fans : HasEnable(f)},
    Settings <- FanState,
    asked    <- [t \in Threads |-> Asked(t)],
    taking   <- [t \in Threads |-> Taking(t)],
    firmware <- {f \in Fans : FirmwareDriven(f)},
    speed    <- [f \in Fans |-> IF f \in drifted THEN -1 ELSE duty[f]]

\* All operations, errors and deaths together change a header only as asked for
\* and not yet served, lowest index first, or as the firmware may.
ImplementsBoard == Board!BoardSpec

-----------------------------------------------------------------------------
(* Liveness.                                                               *)

\* Every call returns: no operation waits for another.
CallsReturn == \A t \in Handlers : ~At(t, "idle") ~> At(t, "idle")

\* Signals of concurrent operations may overtake each other, so a subscriber
\* can be left with an older reading; poll's next signals put it right, unless
\* the registers never come to rest.
SubscribersCatchUp == <>[]fresh \/ []<><<TRUE>>_registers

\* Every header of the profile on disk that can be driven is as saved.
ProfileHeld ==
    \A f \in DOMAIN disk.fans \cap Fans :
        f \in PwmWritable => Holds(disk.fans[f], Live(f))

\* A header the firmware takes back after the boot restore is restored again,
\* for good, unless the verify window keeps closing or a command takes over.
VerifyRepairs == []<>(~window \/ userTouched) \/ <>[]ProfileHeld

-----------------------------------------------------------------------------
(* What the documentation says and the code does not keep.                 *)

\* README.md, "How boot restore behaves": the verify window "closes the moment
\* you change anything, so it never fights a slider".  VerifySaved tests
\* userTouched once, then reads, plans and writes without looking again: what
\* a D-Bus command set meanwhile can be overwritten.
VerifyNeverFightsSlider ==
    [][th[Main].op = "verify" /\ th'[Main] # th[Main] =>
          \A s \in settled :
              duty'[s[2]] = duty[s[2]] /\ enable'[s[2]] = enable[s[2]]]_vars

\* The same sentence for a change made with fanctl, a process that has no way
\* to set userTouched in the daemon: passes go on beginning after it.
WindowClosesOnAnyChange ==
    [][th[Main].op # "verify" /\ th'[Main].op = "verify" => settled = {}]_vars

\* README.md, same place: fanctld "re-checks it for the first 15 seconds".  A
\* pass in which the only header left to write is refused returns an error,
\* and poll then gives the window up.
WindowLastsUntilTouched ==
    [][window /\ ~window' /\ phase' # "down" => UNCHANGED th]_vars

\* README.md, commands: save stores "the current speeds".  readFans takes a
\* pwmN it cannot read for 0.
SaveRecordsTheSpeeds ==
    [][disk' # disk => \A f \in DOMAIN disk'.fans :
          disk'.fans[f].mode = "manual" => disk'.fans[f].pwm = duty[f]]_vars
=============================================================================

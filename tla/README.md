# fanctl in TLA+

Models, model-checking runs and machine-checked proofs of fanctl: a daemon
(`fanctld`), a command (`fanctl`) and a tray GUI that drive the fans of an
nct6683 board through sysfs, and a profile file that is re-applied at boot.
Paths are relative to the repository; line numbers of the code behind every
definition are in `PROJECT.json` under `map`.

    tlc -workers 2 -config concurrency.cfg MCFanctld     # one run
    tlapm FanctldProofs.tla                              # one module's proofs

## 1. Inventory

| Component | State | Operations | Talks to |
|---|---|---|---|
| chip (`internal/hwmon`, driver, firmware) | `pwmN`, `pwmN_enable` per header; nothing in memory | `ReadStatus`, `SetPWM(Raw)`, `SetMax`, `SetAuto(Index)`, discovery (`FindChip`) | the EC, which moves the duty of headers not in manual mode and may take headers back while it initialises |
| duty scales (`hwmon/fan.go`) | none | `PercentToPWM`, `PWMToPercent` | every reader and writer of a speed |
| profile and planner (`internal/state`) | none; profile values | `FromStatus`, `Plan`, `Marshal`, `Parse` | controller, CLI |
| profile file (`state.Save`, `Load`) | `/var/lib/fanctl/state.yaml` and temporary files beside it | atomic replace, load | daemon and every `fanctl save` process, concurrently |
| controller (`internal/control`) | `userTouched`, handler, config, all under `mu` | `SetPercent`, `SetMax`, `SetAuto`, `SaveState`, `RestoreState`, `VerifySaved`, `EmitCurrent`, `ApplyProfile`, `GetFans` | chip, profile file, `onChange` callback |
| D-Bus service (`internal/dbus`) | none | one method per controller operation, `FansChanged` | godbus runs each call in a goroutine |
| daemon (`cmd/fanctld`) | `verifyUntil`, the ticker | start, boot restore, serve, poll, exit | systemd restarts it |
| commands (`cmd/fanctl`) | none | `set`, `max`, `auto`, `save`, `restore`; `status`, `saved`, `init-config` | chip and file directly, never the daemon |
| GUI (`gui/src/main.rs`) | per row: `pending_percent`, `last_sent` and its age, `dragging`, debounce source | sliders, buttons, 2 s poll, refresh | daemon over D-Bus |
| header names (`internal/config`) | `headers.yaml` | `Find`, `Parse`, `ByIndex`, `IndexByName` | the daemon's list, `set -name`; written by an administrator and `init-config` |
| packaging (`systemd/`, `dbus/`) | the unit's start timeout and restart settings | start, stop, restart, D-Bus activation | the daemon's own start budget |

What is hard about it:

- **Interleaving.** `Controller.mu` guards the copying of fields only. Every
  sysfs access runs unlocked, `fanctl` processes share nothing with the daemon
  but the files, and setting a header takes two writes (mode, then duty).
- **Check, then act.** A verify pass tests `userTouched`, then loads the
  profile, reads each header, plans, and writes header by header.
- **Partial failure.** Any access can fail; restores collect the failures,
  `SetMax` stops at the first, a failed read turns into a value (duty 0, no
  mode register).
- **Crash and power loss.** The profile's whole purpose is to survive an unclean
  reboot; a process can die between the two writes of a header.
- **Firmware.** It moves what it drives and reverts what it was told too early.
- **Order of signals.** `FansChanged` carries a reading taken earlier, unlocked.
- **Echoes.** The GUI moves a slider to what the chip reports, and sends what
  the slider is moved to: an answer that is late, or a register misread, must
  neither undo an edit nor be taken for one. Debounce timer, end of a drag,
  grace period and refresh act on the same three fields of a row.
- **Start-up.** The chip may appear long after the daemon's start, and move; the
  daemon's budget, systemd's timeout and systemd's restarts each count on their
  own; a second daemon may compete for the bus name.
- **Names.** `headers.yaml` is edited while readers hold older versions; names
  that differ only in case, blanks or "/WP" count as the same.

The full list, each at its line and with the properties that watch it, is under
`hazards` in `PROJECT.json`.

Properties that make each part correct:

| Part | Properties |
|---|---|
| duty scales | a percent survives the round trip; rounding to the nearest step; both maps keep the order (theorems) |
| planner, profile | a restore leaves the next one nothing to do, but on headers the chip refuses every time; it touches only writable headers of the profile, and leaves a status just saved alone; what was written parses back to itself |
| profile file | never torn, an acknowledged save is durable, no temporary file is forgotten; together: an atomic store |
| chip and controller | manual mode only at commanded duties; an undisturbed operation has its effect; a save is faithful; what is saved the chip will take, but for headers whose `pwmN_enable` is read-only; a failing header does not end a restore; every operation ends after boundedly many steps of its own; together: a fan board on which a header changes only as somebody asked and has not been served yet |
| sliders | no refresh moves a thumb off an edit that waits or was sent last; a slider at rest shows the duty in force; an open popover comes to show the chip |
| start-up | systemd's timeout never strikes; one daemon serves; the unit comes up in the end |
| header names | a listed name drives its own header or none |
| daemon | no verify pass begins after a D-Bus command; firmware reversions are repaired while the window is open; subscribers catch up; calls return |

## 2. Modules

    Duty --- FanProfile --- Sysfs --- Controller --- Fanctld --- MCFanctld
     |          |                                       |
     |          |                                       |--- FanctldProofs ---
     |          |                                       |    OperationProofs --- BoardProofs
     |          |                  FanBoard <== refines ==
     |          |--- RestoreCycle --- MCRestoreCycle, RestoreCycleProofs
     |--- Gui --- MCGui, GuiProofs
     |--- DutyProofs
    Headers --- Boot --- MCBoot, BootProofs
    ProfileStore <== refines == StateFile --- MCStateFile, StateFileProofs

(A module extends the one to its left.)

- **Duty** translates the two conversions.
- **FanProfile**: `FromStatus`, `Plan` (with `Holds`, its test for "already
  applied"), `Marshal`, `Parse` (`WellFormed` is when it accepts). A profile is
  a partial function from header index to setting, a status a function from
  header index to reading. The percent stored for readers, `saved_at`, the chip
  name (which is only logged) and YAML are left out.
- **RestoreCycle** puts these operators together for one caller: save, restore,
  a file edited by hand (wrong version, index 0, unknown words, duties out of
  range), a chip rewired or changed by its firmware. `locked` are the headers
  whose `pwmN_enable` is read-only: no reading shows that, so they are planned,
  and `Refused` when they are to be written.
- **Sysfs** is the chip: variables `duty` and `enable`, the checks before a
  write (`CanDrive`, `CanRelease`), the writes, and what the firmware may do.
  Which files are writable and which headers have a mode register are constants
  (`PwmWritable`, `EnableFile`). An undocumented mode is the value 2.
- **Controller** has the operations. A thread is a D-Bus call's goroutine
  (`Handlers`), the daemon's main or poll goroutine (`Main`), or a `fanctl`
  process (`Clis`). Its record `th[t]` holds the local variables: the operation,
  the place in it, the headers `ReadStatus` has yet to read, the reading so far
  (`snap`), the settings wanted and the headers still to write, written and
  failed. Each action is one critical section or one file access:
  `Touch` is the section that sets `userTouched`; `LoadProfile`, `ReadDuty`,
  `ReadEnable`, `SaveProfile` the files; `Plan*` what is made of the status;
  `WriteManual` and `WriteDuty` the two writes of `SetPWMRaw`; `WriteAuto` that
  of `SetAutoIndex`; `Refuse` their checks saying no; `WriteFails` an I/O error;
  `Finish` the return. `readFans` iterates over a Go map, so headers are read in
  any order; they are written in index order.
- **Fanctld** adds the daemon's life: `Start` (after chip discovery), `Serve`,
  `VerifySaved` and `EmitCurrent` (ticks of poll), `WindowExpires`, `Crash`
  (any exit, followed by systemd's restart), `KillCli`. `Next` composes it with
  every thread and the firmware; the properties are here.
- **FanBoard** is what all of that should amount to for the chip, whoever runs
  beside whom: clients ask for settings of headers (`Ask`), take a header over
  (`Take`), give it its speed (`Drive`) or leave it to the firmware (`Release`),
  one header after the other in the order of their indexes, and may give up any
  part of what they asked for (`GiveUp`), but never do anything else. It knows
  of no profiles, readings, plans, passes, processes or errors. In Fanctld,
  `Asked` and `Taking` are what a thread's record amounts to there; a header's
  speed is its duty until the firmware changes it (`drifted`).
- **StateFile** is `state.Save`, system call by system call, for any number of
  concurrent writers over a file system that may lose what was not synced.
  **ProfileStore** is what that should amount to. `Controller` uses a save that
  is atomic, which is what the refinement justifies.
- **Gui** is the popover: a row per header with the scale's value (`thumb`),
  `dragging`, `pending`, `timer` (the debounce source), `lastSent`, and `aged`
  (the grace period of `last_sent_at` is over). GTK runs all callbacks on one
  thread and D-Bus calls block it, so a callback is one action: `Move`
  (`value_changed`, which ends in `schedule_set_percent`), `DragBegin`,
  `DragEnd` and `Debounce` (both end in `FlushPending`), `Poll`, `Show`, `Hide`,
  `ClickMax`, `ClickAuto`. A refresh alone is two, `GetFans` and `ApplyFans`:
  between the daemon's reading and its application the chip may change.
  `OthersDrive` and `HeaderChanges` are whatever else happens to the chip.
- **Headers** is `internal/config`: when a file parses (`Parses`, `Found`), how
  a name is normalised and looked up (`IndexByName`), and the label the daemon
  lists a header under (`Label`).
- **Boot** is the time from systemd's start of the daemon to the bus name:
  `FindChip`, `Load` (`config.Find` in `control.New`), `TryAgain` (the deadline
  of `waitForController`, its sleep, the exit), `Wake`, `AcquireName`; systemd's
  `Start`, `Restart` and `Stop`, `Crash`; `Tick` is a second. Daemons started by
  hand (`Hand`) run the same code without restarts. Around them `DriverChanges`
  loads, unloads and moves the chip, `Edit` and `InitConfig`, `Truncate`, `Fill`
  write `headers.yaml`, and `TypeName`, `SetByName` are `fanctl set -name` with
  a name read off the daemon's list.

`TypeOK` of Fanctld contains `Consistent`: what a thread's record holds at each
place. It rules out, for instance, a write to a header nobody asked for.

History variables (`drifted`, `stranded`, `settled`, `clean`, `fresh`; in
StateFile `renames`, `rank`, `acked`, `orphans`; in Gui `kept`; in Boot
`wanted`) are read by no guard.

Operators whose comment begins with *Mutant* are deliberate slips next to the
definition they change; they are used by no specification. For each property of
each passing run, `PROJECT.json` names the slip that breaks it.

### Abstractions

- Times: the verify window is open or not, and may close at any moment after
  `Serve`; ticks of poll come whenever poll is idle.
- A write of one sysfs file is atomic; so are the critical sections of `mu`,
  which contain no I/O.
- `SetPercent` with a percent above 100 or an index 0 returns before it does
  anything and is left out; for a header that does not exist it only sets
  `userTouched`, as it does for a header that is refused.
- In Fanctld names, notes, RPM, temperatures and log lines are left out. A
  failing read of the directory (fans or temperatures) is `ReadStatusFails`.
- Reporting follows `Reporters`: the threads whose `FansChanged` a run follows.
  A report only reads, so where no property is about signals it is left out to
  keep the runs small.
- A pwmN that cannot be read counts as duty 0, a pwmN_enable that cannot be
  read as absent, a pwmN that cannot be examined as read-only, as in the code;
  each of these is a fault a run may spend. The tests for the presence and the
  permissions of a file right before it is written are taken to answer
  correctly: `CanDrive` and `CanRelease` are constants of the chip.
- In Gui the daemon's `SetPercent` and `SetMax` take no time of their own: the
  call blocks the only thread there is, and what another actor does in between
  is the same as what it does before or after. A call that fails may or may not
  have written the duty. A thumb stands on whole percents: GTK rounds what the
  user does to the digits a scale draws, none for a step of 1
  (`gui/src/main.rs:424`), so the `round()` at `main.rs:469` changes nothing.
- A name is a stem, a number of "/WP" at its end and whether it is spelled
  canonically, which is all that `normalizeName` looks at. An edit of
  `headers.yaml` replaces it at once; `init-config` does not.
- In Boot a pass of `waitForController` and the restore take less than a tick
  together. systemd's kill at the start timeout is no action: the theorem
  `NoStartTimeout` says that it never comes due. What the daemon does while it
  serves, and its restore, are Fanctld's subject.
- In the file system, a rename is atomic; its arrival on the disk and that of
  unsynced data are free until synced; syncing a directory makes every rename
  so far durable.

## 3. Runs

Every run explores its whole state space. "2 handlers" are two concurrent D-Bus
calls at a time; `MaxCalls` bounds calls over the whole behaviour, `MaxFaults`
I/O errors and deaths, `MaxReverts` reversions by the firmware.

| Run | Instance | Checks |
|---|---|---|
| `cycle` | one header, whose mode register may be missing or read-only, with index 0 in files; duties -1, 0, 255, 256; three words | `RestoreConverges`, `SaveRestoresToItself`, `RestoreIsSelective` |
| `saves` | 2 writers, 3 files, 2 profiles, any number of kills and power losses | `TypeOK`, `NeverTorn`, `AckedSurvives`, `NoTempLeft`, `ImplementsStore` |
| `concurrency` | 2 headers, 2 handlers, 2 calls, saved profile | `CommandTakesEffect`, `NoVerifyAfterCommand` |
| `faults` | header 2 without mode register, a handler, whose signal is followed, and a command, 1 call, 2 faults; no file, an unusable one, or both headers manual | `TypeOK`, `ManualRunsAtCommanded`, `SavedSettingsTaken`, `SaveIsFaithful`, `RestoreGoesOn`, `StepsRunOut`, `ImplementsBoard` |
| `refusals` | header 1 with a read-only mode register, header 2 with a read-only `pwmN`; a handler and a command, 2 calls, 1 fault | `CommandTakesEffect`, `SavedSettingsTaken` |
| `liveness` | 1 header, a handler, 1 call, 1 fault, 1 reversion, signals followed, fairness | `SubscribersCatchUp`, `CallsReturn`, `VerifyRepairs` |
| `sliders` | 2 headers, percents 39 and 60, firmware duty 101 (no duty of a percent), 3 moves, 1 change by others, 1 fault, fairness | `TypeOK`, `ThumbIsAsked`, `RestingSliderInForce`, `SlidersShowTheChip` |
| `boot` | the unit and a daemon started by hand, 2 paths of the chip, 2 headers, 2 driver changes, 2 writes of `headers.yaml`, 1 stop or crash, 1 `set -name`, fairness | `TypeOK`, `StartTimeoutUnused`, `OneDaemonServes`, `NamesLeadBack`, `ComesUp` |

What the properties say, in words, is above each of them. Why the bounds are
enough: the code has no counters or queues; what matters is which accesses
interleave. Two calls and the daemon's main goroutine already give three threads
at work on the same header, and a third call adds no new pair of accesses. One
fault is enough to put any error at any place, two to let a second one hit the
recovery of the first; two headers are enough for one to succeed, fail or be
refused while the other does not, and for an order of reads and writes. The
profile of `faults` names both, so that the first to fail has one after it
(`RestoreGoesOn`); `refusals` has one header the planner skips and one that is
planned and refused. The runs
are as large as a few minutes allow: where faults are spent (`faults`) one call,
which still races the boot restore and the verify passes, replaces two. The
proofs below do not depend on the bounds.

`sliders`: three moves are an edit, an edit of the edit and an edit of another
header; a change by others and a fault can each fall between any two of them.
The duty of 39 % is rounded, that of 60 % exact. `boot` scales the times down,
with `chipWait` 1, `chipRetryEach` 1, `TimeoutStartSec` 3 and `RestartSec` 2
ticks, which keeps their order and lets every daemon give up, be restarted and
find the chip at, before and after its deadline; the real 60, 1, 120 and 2 are
covered by `NoStartTimeout`, whose only premise is that `ChipWait + RetryEach`
is below `StartTimeout`. Two driver changes load the chip and move or remove it;
two writes break `headers.yaml` and repair it. Its files name both headers alike
but for "/WP", name one header like the label of the other, or hold a bad index.

`CHECK_DEADLOCK FALSE` stands where the system may stop: without reports a
daemon whose window is closed waits for calls, and the bounded environment runs
out of them; in `saves` all files are used up. `cycle`, `liveness`, `sliders`
and `boot` check for deadlock.

### Disagreements between code and documentation

These runs are expected to find a violation; `findings` in `PROJECT.json` has
the quotations.

| Run | What it shows |
|---|---|
| `slider_race` | a verify pass that began before a D-Bus command reads what the command has set and puts the saved setting back |
| `command_in_window` | a change made with `fanctl` does not close the window |
| `window_given_up` | one failed pass ends the window |
| `misread` | a duty that cannot be read is saved as 0 |

The properties that do hold are stated next to them and are weaker by just that:
no pass *begins* after a D-Bus command (`NoVerifyAfterCommand`); a save is
faithful when undisturbed (`SaveIsFaithful`).

Some more weaknesses are part of the model without a run of their own:

- `FromStatus` leaves out headers it takes to be read-only because "nothing
  about them could be restored" (`internal/state/plan.go:30`), but looks at
  `pwmN` only (`plan.go:41`). A header with a read-only `pwmN_enable` is saved,
  then refused at every boot and by every verify pass
  (`internal/hwmon/fan.go:87` and `:145`). `SavedSettingsTaken`,
  `RestoreConverges` and their theorems except such headers; header 1 of
  `refusals` is one.
- A header that `SetPWMRaw` leaves half set after an I/O error on `pwmN`, or
  when `fanctl` is interrupted, stays in manual mode at the firmware's duty
  until somebody sets it (`stranded` in `ManualRunsAtCommanded`).
- The GUI drops a percent that equals `last_sent` ("skipped (unchanged)",
  `gui/src/main.rs:193`), which a failed call sets too and which outlives Max,
  the firmware and other programs until the next refresh. `RestingSliderInForce`
  therefore speaks of headers nobody else has touched since, and
  `SlidersShowTheChip` says that the slider does not go on showing the percent
  that was dropped.
- The profile is restored before the bus name is acquired
  (`cmd/fanctld/main.go:54`): a daemon that is refused the name has restored all
  the same, and the unit then does so at every restart.
- The daemon keeps the directory of the chip it found; nothing tells it that the
  driver was reloaded under another one. Nor does anything call `ReloadConfig`:
  its list shows the names of its start, while `set -name` reads the file anew;
  `NamesLeadBack` excepts a file edited in between.
- `init-config` tests for the file, then truncates and writes it: a file created
  in between is lost, although `README.md:142` has it that an existing file is
  left alone.
- `Save` drops the errors of syncing the directory and returns nil
  (`SyncDirFails`); `AckedSurvives` speaks only of saves whose directory was
  synced.
- A header whose mode register holds neither 0 nor 1 is saved as manual, and
  planning that back is not a no-op; `SaveIsFaithful`, `SaveRestoresToItself`
  and the theorem `SaveThenPlan` except such modes.

## 4. Fairness

`FairSpec` of Fanctld assumes weak fairness of each thread's own steps (the Go
scheduler and the kernel run everything runnable, no operation waits for
another), of `Start` (systemd has `Restart=on-failure` and no start limit),
`Serve`, and the two kinds of tick (the ticker does not stop). Nothing is
assumed of callers, faults, the firmware or the end of the window. A deliberate
stop of the daemon is the same action as a crash; with fairness of `Start` it
counts as a restart. `VerifyRepairs` and `SubscribersCatchUp` hold only with the
exceptions they state: a window that keeps closing or a command that takes over,
registers that never come to rest.

In Gui the blocking call of a refresh returns (weak fairness of `GetFans`,
`ApplyFans`) and the clock runs (`GraceElapses`). `Poll` and `Debounce` are
strongly fair: other callbacks keep disabling them by occupying the main loop,
but a GLib source that is due stays due and is dispatched when the loop is free
again. The user need do nothing: `SlidersShowTheChip` presupposes that the
popover stays open and that no drag lasts for ever.

In Boot processes run, time passes, and systemd restarts the unit
(`Restart=on-failure`, no start limit). `ComesUp` presupposes that the chip is
there for good, that `headers.yaml` parses, that nobody stopped the unit and
that no daemon started by hand is left; crashes are bounded by `MaxStops`.

## 5. Proofs

All for any number of headers, threads, calls, faults, files and daemons.

- **FanctldProofs**
  - `TypeCorrect`: `Spec => []TypeOK`. One lemma per action; `Reframed` lifts
    the types of the other variables, `GotoType` and `EndsType` say what a move
    of one thread and the end of an operation preserve. `Consistent` is what
    makes it inductive: a thread that writes must know that the header is one of
    the chip and wanted.
  - `ManualDuty`: `Spec => []ManualRunsAtCommanded`. Inductive together with
    `TypeOK` and `DownIdle` (a daemon that is down is in no operation, without
    which a start could abandon a header half written). Most steps are
    `Unobtrusive`; the writes, the failures, deaths and the firmware are cases.
  - `VerifyWindowCloses`: `Spec => NoVerifyAfterCommand`, an action property.
    The invariant is `TouchedFirst`: a D-Bus command that may yet set a header,
    or has set one, has set `userTouched`. `StepKeepsOp` shows that nothing but
    a tick turns an operation into a verify pass.
- **OperationProofs** goes on from `TypeCorrect`.
  - `SavedTaken`: `Spec => []SavedSettingsTaken`. Inductive with `SnapsSound`: no
    reading, finished or not, right or wrong, shows a header as writable that is
    not, or in the firmware's mode that has no mode register; a header
    `ReadStatus` has not reached counts as read-only. `OnlySavesWrite` says that nothing but a save changes the profile
    on disk.
  - `Effect`: `Spec => []CommandTakesEffect`, and `FaithfulSaves`: `Spec =>
    SaveIsFaithful`. Both rest on `CleanIntact`, what an undisturbed operation
    knows at each of its places: while it reads, that its reading so far agrees
    with the registers (`ReadSoFar`; but for duties the firmware moves, which it
    will not rely on); while it writes, that every header it is through with is
    as wanted (`DoneSoFar`), also when a later header makes it return early;
    between the two writes of a header, that the mode is still manual.
    `PlanIntact` is the step from the one to the other: what
    `Plan` left out was as wanted already (`AgreedHolds`). `IntactFrame` lifts
    it over the steps of other threads; a write disturbs everybody else, so
    `DisturbedIntact` has only the writer to look at.
  - `RestoresGoOn`: `Spec => RestoreGoesOn`, from the same invariant: only
    `Finish` takes a restore out of its writes, and only with nothing left to
    write (`WritesEndInFinish`).
- **BoardProofs** looks at all threads together. `Over`, `Prepares`, `Chooses`,
  `Takes` and `Strikes` are the five things that a step can do to its thread's
  record; `StepProceeds` says that there is no sixth.
  - `OperationsEnd`: `Spec => StepsRunOut`. `StepsLeft` weighs a thread's place
    with the headers it has yet to read or write; each of the five lowers it
    (`FewerLeft`), others leave it alone or end the operation (`OnlyItself`),
    and on a chip of N headers it is never above 6N + 5. It is the part of
    `CallsReturn` that the prover can state: what is left to TLC is that a
    thread the scheduler keeps running takes those steps, and that a new call is
    not mistaken for the old one. That `Fans` is finite, as the listing of a
    directory is, is assumed for the sake of this count.
  - `BoardRefinement`: `Spec => ImplementsBoard`. Each action maps to one of
    FanBoard: a plan or a `SetPercent` to `Ask`, the two writes of `SetPWMRaw` to
    `Take` and `Drive`, that of `SetAutoIndex` to `Release`, everything that
    returns, refuses, fails or dies to `GiveUp` (`Yields`), reads and saves to a
    stutter. It needs `TakenInOrder`: a header taken over is the lowest still to
    be written and has a mode register, whatever happened since to the chip.
- **StateFileProofs**: `StateTypes` is the type invariant. The invariant behind
  `NeverTornTheorem` says that what the path names, now or after a power loss,
  was written in full and synced before the rename, and that no two writers
  share a file. `AckedSurvivesTheorem` adds the ranks of renames: a writer past
  its directory sync finds no older file that a power loss could bring back.
  `Refinement` maps each step to a `Replace`, a `Flush`, a `PowerLoss` or a
  stutter of `ProfileStore`. `NoTempLeftTheorem` follows the temporary file of
  each writer from its creation to the rename or the removal.
- **RestoreCycleProofs**: `RestoreConvergesTheorem`, `SaveRestoresTheorem` and
  `RestoreIsSelectiveTheorem` from an invariant on the shape of chip and file
  (`locked` headers have a mode register) and theorems about the operators of
  FanProfile: the planner is selective
  (`PlanIsSelective`) and idempotent (`PlanIdempotent`), a saved status plans to
  nothing for documented modes (`SaveThenPlan`), parsing undoes writing
  (`ParseMarshal`).
- **GuiProofs**: `GuiTypes`, `ThumbStandsOnRequest` (`ThumbIsAsked`) and
  `RestingSliders` (`RestingSliderInForce`). The three are inductive together
  with `KeptAsSent`: of a header nobody else has touched, the chip runs at what
  was sent last, and an answer on its way shows just that. The step that needs
  thought is a refresh that moves the thumb to what the chip reports;
  `PercentReadsBack` of DutyProofs makes it come back to the percent that was
  sent.
- **BootProofs**: `BootTypes`, `NoStartTimeout`, `OneDaemon`,
  `ListedNamesLeadBack`. `InTime` bounds the age of a daemon at each place on
  its way, together with the sleep it is in: no try begins after the deadline
  plus one retry interval. `ServesByName` says that who serves owns the name,
  `TypedAsListed` that the name being typed is the one the list was made from.
- **DutyProofs**: ranges, rounding to the nearest step, monotonicity and the
  round trip of percents; no run repeats them.

The proofs assume what the modules ASSUME about their constants (indexes are
positive, a chip has finitely many headers, handlers and commands are distinct
threads, profiles are not confused with other contents of files), which every
run evaluates, and nothing else.

Only model-checked: liveness (`SubscribersCatchUp`, `CallsReturn`,
`VerifyRepairs`, `SlidersShowTheChip`, `ComesUp`), which is out of reach of the
prover, as is ENABLED. Every invariant and every action property of a passing
run is proved. Nothing here needs induction over data or RECURSIVE operators.

## 6. Not modelled, and the plan

Not modelled, because it only reads, prints or draws: `status`, `saved`, usage
and error texts, temperatures and RPM, the tray protocol, the popover's
placement, CSS and status line, notes in `headers.yaml`. Not modelled, because
one choice is made once and for all: `FANCTL_CONFIG`, `-config`, `ResolvePath`,
the build and install rules, the bus policy. Left out of what is modelled:

- the GUI's Save and Quit buttons, which touch no slider (SaveState itself is in
  Controller), and the end of a drag whose row a refresh has removed;
- `LowSpeedWarnings`, which are shown and decide nothing;
- two keys of `headers.yaml` that spell one index, and two chips of one name,
  where the order of a map or of a directory decides;
- a failing write of `headers.yaml` by `init-config`.

Plan, in this order:

1. An abstract slider that Gui implements, as Fanctld implements FanBoard.
2. The composition of Boot and Fanctld: what a daemon that is refused the bus
   name has restored by then, and what a reloaded driver leaves of a daemon's
   writes.
3. Larger instances of `concurrency` (three headers, with one that fails between
   two that do not) if the time allows; the proofs cover them already.

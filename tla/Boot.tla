-------------------------------- MODULE Boot --------------------------------
(***************************************************************************)
(* How fanctld comes up (cmd/fanctld/main.go, systemd/fanctld.service,     *)
(* dbus/service.go) on a chip whose driver is loaded early, late or again, *)
(* and how it and fanctl read headers.yaml while somebody edits it.        *)
(*                                                                         *)
(* What a serving daemon does is module Fanctld's subject: the restore     *)
(* between Load and AcquireName is its Restore, and leaves nothing that    *)
(* this module keeps.  Time passes in ticks of one second, and only while  *)
(* every daemon sleeps, serves or is off: a pass of waitForController and  *)
(* the restore together take less than a tick.                             *)
(***************************************************************************)
EXTENDS Headers

CONSTANTS
    Unit,           \* the daemon that systemd runs
    Hand,           \* daemons started by hand
    Paths,          \* directories the chip may get under /sys/class/hwmon
    Fans,           \* indexes of the chip's headers
    Example,        \* config.ExampleX570CreatorYAML, a file
    Edits,          \* files that the administrator may leave behind
    ChipWait, RetryEach,        \* chipWait, chipRetryEach
    StartTimeout, RestartSec,   \* TimeoutStartSec, RestartSec of the unit
    MaxLoads,       \* bound: times the driver is loaded or unloaded
    MaxWrites,      \* bound: edits and runs of init-config
    MaxStops,       \* bound: stops and crashes
    MaxSets         \* bound: runs of fanctl set -name

Daemons == {Unit} \cup Hand
NoChip  == "no chip"
Nobody  == "nobody"

ASSUME BootAssumption ==
    /\ Unit \notin Hand
    /\ Nobody \notin Daemons
    /\ NoChip \notin Paths
    /\ Fans \subseteq Nat \ {0}
    /\ FanStem \in [Fans -> Stems]
    /\ \A f \in Edits \cup {Example} : IsFile(f)
    /\ {ChipWait, MaxLoads, MaxWrites, MaxStops, MaxSets} \subseteq Nat
    /\ {RetryEach, RestartSec, StartTimeout} \subseteq Nat \ {0}
    /\ ChipWait + RetryEach < StartTimeout

Idle == [meant |-> NoIndex, typed |-> Plain(EmptyStem), told |-> NoHeaders]

VARIABLES
    chip,           \* the directory of the chip, or NoChip
    file,           \* /etc/fanctl/headers.yaml
    init,           \* fanctl init-config: "off", about to "write", has it open to "fill"
    pc,             \* where each daemon is
    age,            \* ticks since its main started
    nap,            \* ticks it still sleeps, or systemd waits before a restart
    path,           \* Controller.chip: found once
    cfg,            \* Controller.cfg: loaded once
    owner,          \* who owns the bus name org.fanctl.Control
    set,            \* fanctl set -name under way: the header meant, the name
                    \* typed, and what the daemon's list had been made from
    driven,         \* the header it drove
    wanted,         \* history: the unit was started and not stopped since
    loads, writes, stops, sets

daemons == <<pc, age, nap, path, cfg, owner>>
files   == <<file, init>>
command == <<set, driven>>
counts  == <<loads, writes, stops, sets>>
vars    == <<chip, files, daemons, command, wanted, counts>>

Starting == {"find", "load", "sleep", "acquire"}

Init ==
    /\ chip = NoChip
    /\ file \in Edits
    /\ init = "off"
    /\ pc = [d \in Daemons |-> IF d = Unit THEN "find" ELSE "off"]
    /\ age = [d \in Daemons |-> 0]
    /\ nap = [d \in Daemons |-> 0]
    /\ path = [d \in Daemons |-> NoChip]
    /\ cfg = [d \in Daemons |-> NoHeaders]
    /\ owner = Nobody
    /\ set = Idle /\ driven = NoIndex
    /\ wanted = TRUE
    /\ loads = 0 /\ writes = 0 /\ stops = 0 /\ sets = 0

-----------------------------------------------------------------------------
(* systemd, or the shell of a daemon started by hand.                      *)

\* main is entered.
Enter(d) ==
    /\ pc' = [pc EXCEPT ![d] = "find"]
    /\ age' = [age EXCEPT ![d] = 0]

\* The process is gone; the bus takes its name back.
Gone(d, to, wait) ==
    /\ pc' = [pc EXCEPT ![d] = to]
    /\ age' = [age EXCEPT ![d] = 0]
    /\ nap' = [nap EXCEPT ![d] = wait]
    /\ path' = [path EXCEPT ![d] = NoChip]
    /\ cfg' = [cfg EXCEPT ![d] = NoHeaders]
    /\ owner' = IF owner = d THEN Nobody ELSE owner

\* Mutant: no Restart= in the unit.
StaysDown(d) == Gone(d, "off", 0)

\* It ends with an error: log.Fatalf, a panic, a signal other than the clean
\* ones.  Restart=on-failure without a start limit.
Fails(d) == IF d = Unit THEN Gone(d, "restart", RestartSec) ELSE Gone(d, "off", 0)

\* systemctl start, D-Bus activation, sudo fanctld.
Start(d) ==
    /\ pc[d] = "off"
    /\ Enter(d)
    /\ wanted' = (wanted \/ d = Unit)
    /\ UNCHANGED <<chip, files, command, counts, nap, path, cfg, owner>>

Restart ==
    /\ pc[Unit] = "restart" /\ nap[Unit] = 0
    /\ Enter(Unit)
    /\ UNCHANGED <<wanted, chip, files, command, counts, nap, path, cfg, owner>>

\* SIGTERM or SIGINT, by the handler of main or before it is installed: both
\* count as clean.
Stop(d) ==
    /\ pc[d] # "off"
    /\ stops < MaxStops /\ stops' = stops + 1
    /\ Gone(d, "off", 0)
    /\ wanted' = (wanted /\ d # Unit)
    /\ UNCHANGED <<chip, files, command, loads, writes, sets>>

Crash(d) ==
    /\ pc[d] \in Starting \cup {"serving"}
    /\ stops < MaxStops /\ stops' = stops + 1
    /\ Fails(d)
    /\ UNCHANGED <<wanted, chip, files, command, loads, writes, sets>>

-----------------------------------------------------------------------------
(* main, waitForController, control.New.                                   *)

\* Mutant: tries for ever.
KeepTrying(d) ==
    /\ pc' = [pc EXCEPT ![d] = "sleep"]
    /\ nap' = [nap EXCEPT ![d] = RetryEach]
    /\ UNCHANGED <<age, path, cfg, owner>>

\* control.New has failed: exit after the deadline, else sleep.  At the tick
\* of the deadline now.After(deadline) may be either.
TryAgain(d) ==
    \/ age[d] >= ChipWait /\ Fails(d)
    \/ /\ age[d] <= ChipWait
       /\ pc' = [pc EXCEPT ![d] = "sleep"]
       /\ nap' = [nap EXCEPT ![d] = RetryEach]
       /\ path' = [path EXCEPT ![d] = NoChip]
       /\ UNCHANGED <<age, cfg, owner>>

\* FindChip.
FindChip(d) ==
    /\ pc[d] = "find"
    /\ IF chip = NoChip
       THEN TryAgain(d)
       ELSE /\ path' = [path EXCEPT ![d] = chip]
            /\ pc' = [pc EXCEPT ![d] = "load"]
            /\ UNCHANGED <<age, nap, cfg, owner>>
    /\ UNCHANGED <<wanted, chip, files, command, counts>>

\* config.Find.
Load(d) ==
    /\ pc[d] = "load"
    /\ IF ~Found(file)
       THEN TryAgain(d)
       ELSE /\ cfg' = [cfg EXCEPT ![d] = Find(file)]
            /\ pc' = [pc EXCEPT ![d] = "acquire"]
            /\ UNCHANGED <<age, nap, path, owner>>
    /\ UNCHANGED <<wanted, chip, files, command, counts>>

Wake(d) ==
    /\ pc[d] = "sleep" /\ nap[d] = 0
    /\ pc' = [pc EXCEPT ![d] = "find"]
    /\ UNCHANGED <<wanted, chip, files, command, counts, age, nap, path, cfg, owner>>

Serve(d) ==
    /\ pc' = [pc EXCEPT ![d] = "serving"]
    /\ age' = [age EXCEPT ![d] = 0]

\* Mutant: the reply of RequestName is not looked at.
AcquireAnyway(d) ==
    /\ pc[d] = "acquire"
    /\ Serve(d)
    /\ owner' = IF owner = Nobody THEN d ELSE owner
    /\ UNCHANGED <<wanted, chip, files, command, counts, nap, path, cfg>>

\* RequestName with DoNotQueue: the name at once, or log.Fatalf.
AcquireName(d) ==
    /\ pc[d] = "acquire"
    /\ IF owner = Nobody
       THEN /\ owner' = d
            /\ Serve(d)
            /\ UNCHANGED <<nap, path, cfg>>
       ELSE Fails(d)
    /\ UNCHANGED <<wanted, chip, files, command, counts>>

\* A second passes.
Tick ==
    /\ \A d \in Daemons : \/ pc[d] \in {"off", "serving"}
                          \/ pc[d] \in {"sleep", "restart"} /\ nap[d] > 0
    /\ \E d \in Daemons : pc[d] \in {"sleep", "restart"}
    /\ age' = [d \in Daemons |-> IF pc[d] = "sleep" THEN age[d] + 1 ELSE age[d]]
    /\ nap' = [d \in Daemons |-> IF nap[d] > 0 THEN nap[d] - 1 ELSE 0]
    /\ UNCHANGED <<wanted, chip, files, command, counts, pc, path, cfg, owner>>

-----------------------------------------------------------------------------
(* The machine and its administrator.                                      *)

\* modprobe, or modprobe -r: the directory may be another one each time, and
\* nobody tells the daemon.
DriverChanges ==
    /\ loads < MaxLoads /\ loads' = loads + 1
    /\ chip' \in (Paths \cup {NoChip}) \ {chip}
    /\ UNCHANGED <<wanted, files, daemons, command, writes, stops, sets>>

Edit ==
    /\ writes < MaxWrites /\ writes' = writes + 1
    /\ file' \in Edits \ {file}
    /\ UNCHANGED <<wanted, chip, init, daemons, command, loads, stops, sets>>

\* fanctl init-config, with or without -force: the test comes first, then
\* os.WriteFile truncates the file and fills it.
InitConfig(force) ==
    /\ init = "off"
    /\ writes < MaxWrites /\ writes' = writes + 1
    /\ ~file.exists \/ force
    /\ init' = "write"
    /\ UNCHANGED <<wanted, chip, file, daemons, command, loads, stops, sets>>

Truncate ==
    /\ init = "write"
    /\ init' = "fill"
    /\ file' = Holding(NoHeaders)
    /\ UNCHANGED <<wanted, chip, daemons, command, counts>>

Fill ==
    /\ init = "fill"
    /\ init' = "off"
    /\ file' = Example
    /\ UNCHANGED <<wanted, chip, daemons, command, counts>>

\* Somebody reads header i's name off the list of a daemon that can read its
\* chip, and types it after fanctl set -name, in any case.
TypeName(d, i) ==
    /\ set = Idle
    /\ sets < MaxSets /\ sets' = sets + 1
    /\ pc[d] = "serving" /\ path[d] = chip
    /\ i \in Fans
    /\ \E spelled \in BOOLEAN :
          set' = [meant |-> i, told |-> cfg[d],
                  typed |-> [Label(cfg[d], i) EXCEPT !.canonical = spelled]]
    /\ driven' = NoIndex
    /\ UNCHANGED <<wanted, chip, files, daemons, loads, writes, stops>>

\* runSet: the file is read anew, and refused if malformed; then the name,
\* the chip and the header must be found.
SetByName ==
    LET index == IF Found(file) THEN IndexByName(Find(file), set.typed) ELSE NoIndex
    IN  /\ set # Idle
        /\ set' = Idle
        /\ driven' = IF chip # NoChip /\ index \in Fans THEN index ELSE NoIndex
        /\ UNCHANGED <<wanted, chip, files, daemons, counts>>

-----------------------------------------------------------------------------
DaemonSteps(d) == FindChip(d) \/ Load(d) \/ Wake(d) \/ AcquireName(d)

Next ==
    \/ \E d \in Daemons : \/ DaemonSteps(d)
                          \/ Start(d) \/ Stop(d) \/ Crash(d)
                          \/ \E i \in Fans : TypeName(d, i)
    \/ Restart \/ Tick
    \/ DriverChanges \/ Edit \/ Truncate \/ Fill \/ SetByName
    \/ \E force \in BOOLEAN : InitConfig(force)

\* Processes run, systemd restarts the unit, and time passes.
Fairness ==
    /\ \A d \in Daemons : WF_vars(DaemonSteps(d))
    /\ WF_vars(Restart) /\ WF_vars(Tick)

Spec == Init /\ [][Next]_vars
FairSpec == Spec /\ Fairness

-----------------------------------------------------------------------------
TypeOK ==
    /\ chip \in Paths \cup {NoChip}
    /\ IsFile(file)
    /\ init \in {"off", "write", "fill"}
    /\ pc \in [Daemons -> Starting \cup {"off", "serving", "restart"}]
    /\ age \in [Daemons -> Nat]
    /\ nap \in [Daemons -> Nat]
    /\ path \in [Daemons -> Paths \cup {NoChip}]
    /\ DOMAIN cfg = Daemons /\ \A d \in Daemons : IsConfig(cfg[d], Nat \ {0})
    /\ owner \in Daemons \cup {Nobody}
    /\ set.meant \in Nat /\ set.typed \in Name /\ IsConfig(set.told, Nat \ {0})
    /\ driven \in Nat
    /\ wanted \in BOOLEAN
    /\ {loads, writes, stops, sets} \subseteq Nat

\* However late the chip or a readable headers.yaml comes, systemd's start
\* timeout never strikes: the unit gives up by itself before (chipWait,
\* TimeoutStartSec).
StartTimeoutUnused == pc[Unit] \in Starting => age[Unit] < StartTimeout

\* Of the daemons that systemd, D-Bus and an administrator start, crash and
\* stop, at most one at a time polls, verifies and takes calls (AcquireName).
OneDaemonServes ==
    \A d, e \in Daemons : pc[d] = "serving" /\ pc[e] = "serving" => d = e

\* A name that the daemon lists, given to fanctl in any case, drives the
\* header listed under it or none, unless headers.yaml says something else by
\* then; that goes for names the file gives, not for the label "fanN".
NamesLeadBack ==
    [][ /\ set # Idle /\ set' = Idle
        /\ Named(set.told, set.meant) /\ Find(file) = set.told
        => driven' \in {set.meant, NoIndex} ]_vars

\* The unit comes up in the end, whenever the chip appears, headers.yaml is
\* repaired and the name gets free: no number of failed starts leaves it down.
ComesUp ==
    <>[](/\ chip # NoChip /\ Found(file)
         /\ wanted /\ \A d \in Hand : pc[d] = "off")
        => <>[](pc[Unit] = "serving" /\ owner = Unit)
=============================================================================

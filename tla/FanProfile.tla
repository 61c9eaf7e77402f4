----------------------------- MODULE FanProfile -----------------------------
(***************************************************************************)
(* The saved profile and the planner (internal/state).  A profile is a     *)
(* partial function from header index to a FanState; a status is what      *)
(* hwmon.ReadStatus returned, a function from header index to a reading.   *)
(***************************************************************************)
EXTENDS Duty

EnableAuto   == 0
EnableManual == 1
NoEnable     == -1      \* Fan.Enable = nil: pwmN_enable absent or unreadable

\* A header's saved setting.  Parse zeroes pwm for mode auto and FromStatus
\* never sets it; the informational percent is left out.
FirmwareAuto == [mode |-> "auto", pwm |-> 0]
Manual(w)    == [mode |-> "manual", pwm |-> w]
FanState     == {FirmwareAuto} \cup {Manual(w) : w \in Byte}

\* Partial functions over the headers in H, the empty one included.
ProfileOver(H) == UNION {[S -> FanState] : S \in SUBSET H}

\* Mutants: the mode is not looked at; read-only headers are saved too; a
\* header without a mode register is taken to be the firmware's.
FromStatusAllManual(status) ==
    [h \in {i \in DOMAIN status : status[i].writable /\ i > 0} |-> Manual(status[h].pwm)]
FromStatusAny(status) ==
    [h \in {i \in DOMAIN status : i > 0} |->
        IF status[h].enable = EnableAuto THEN FirmwareAuto ELSE Manual(status[h].pwm)]

FromStatusNilAuto(status) ==
    [h \in {i \in DOMAIN status : status[i].writable /\ i > 0} |->
        IF status[h].enable \in {NoEnable, EnableAuto} THEN FirmwareAuto ELSE Manual(status[h].pwm)]

\* FanState of every header of a status that could be restored.
FromStatus(status) ==
    [h \in {i \in DOMAIN status : status[i].writable /\ i > 0} |->
        IF status[h].enable = EnableAuto THEN FirmwareAuto ELSE Manual(status[h].pwm)]

\* Mutant: a header without pwmN_enable is never as wanted.
HoldsOnlyManual(want, live) ==
    IF want.mode = "auto"
    THEN live.enable = EnableAuto
    ELSE live.enable = EnableManual /\ live.pwm = want.pwm

\* The setting `want` is what the reading `live` already shows.
Holds(want, live) ==
    IF want.mode = "auto"
    THEN live.enable = EnableAuto
    ELSE live.enable \in {NoEnable, EnableManual} /\ live.pwm = want.pwm

\* Mutants: read-only headers are planned; headers the firmware drives are not.
PlanAny(p, status) ==
    [h \in {i \in DOMAIN p \cap DOMAIN status : ~Holds(p[i], status[i])} |-> p[h]]
PlanLeavesAuto(p, status) ==
    [h \in {i \in DOMAIN p \cap DOMAIN status :
                /\ status[i].writable /\ status[i].enable # EnableAuto
                /\ ~Holds(p[i], status[i])} |-> p[h]]

\* Plan: the writes that bring a status to profile p.  Headers that are gone,
\* read-only or already as wanted are skipped.
Plan(p, status) ==
    [h \in {i \in DOMAIN p \cap DOMAIN status :
                status[i].writable /\ ~Holds(p[i], status[i])} |-> p[h]]

-----------------------------------------------------------------------------
(* The file: what Marshal writes of a profile and what Parse accepts.  An  *)
(* entry's pwm is an arbitrary integer, its mode an arbitrary word: the    *)
(* file is also edited by hand.                                            *)

Version == 1

Marshal(p) == [version |-> Version, fans |-> p]

WellFormed(file) ==
    /\ file.version = Version
    /\ \A h \in DOMAIN file.fans :
          /\ h > 0
          /\ \/ file.fans[h].mode = "auto"
             \/ file.fans[h].mode = "manual" /\ file.fans[h].pwm \in Byte

\* The profile a well-formed file holds.
Parse(file) ==
    [h \in DOMAIN file.fans |->
        IF file.fans[h].mode = "auto" THEN FirmwareAuto ELSE Manual(file.fans[h].pwm)]
=============================================================================

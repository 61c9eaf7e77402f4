-------------------------------- MODULE Sysfs --------------------------------
(***************************************************************************)
(* One nct6683 chip as internal/hwmon sees it: a pwmN duty register and,   *)
(* for headers that have one, a pwmN_enable mode register per header,      *)
(* read and written one sysfs file at a time.  The firmware (EC) that      *)
(* drives a header which is not in manual mode is external: it is modelled *)
(* from what the code and its comments expect of it.                       *)
(***************************************************************************)
EXTENDS FanProfile

CONSTANTS
    Fans,           \* indexes readFans finds in the chip's directory
    PwmWritable,    \* headers whose pwmN file is writable (driver permitting)
    EnableFile,     \* per header: pwmN_enable is "rw", "ro" or absent ("none")
    FirmwareDuties, \* duty cycles the firmware may choose
    PowerOnModes    \* what pwmN_enable may hold at power-on

ASSUME SysfsAssumption ==
    /\ Fans \subseteq Nat \ {0}
    /\ PwmWritable \subseteq Fans
    /\ EnableFile \in [Fans -> {"rw", "ro", "none"}]
    /\ FirmwareDuties \subseteq Byte
    /\ PowerOnModes \subseteq {EnableAuto, EnableManual, 2}

VARIABLES
    duty,       \* pwmN
    enable      \* pwmN_enable, NoEnable where the file is absent

registers == <<duty, enable>>

HasEnable(f) == EnableFile[f] # "none"

\* What a mode register can hold; 2 stands for every undocumented mode.
EnableModes == {EnableAuto, EnableManual, 2}

SysfsTypeOK ==
    /\ duty \in [Fans -> Byte]
    /\ enable \in [Fans -> EnableModes \cup {NoEnable}]
    /\ \A f \in Fans : HasEnable(f) <=> enable[f] # NoEnable

\* The power-on state: the firmware drives what it can, or the previous
\* session's settings survived a warm start.
SysfsInit ==
    /\ duty \in [Fans -> FirmwareDuties]
    /\ enable \in [Fans -> PowerOnModes \cup {NoEnable}]
    /\ \A f \in Fans : HasEnable(f) <=> enable[f] # NoEnable

-----------------------------------------------------------------------------
(* What one thread observes.                                               *)

Reading == [pwm : Byte, enable : EnableModes \cup {NoEnable}, writable : BOOLEAN]

\* A header readFans has not reached yet.
Unread == [pwm |-> 0, enable |-> NoEnable, writable |-> FALSE]

\* The fan struct once pwmN is read; the rest of it comes next.
AfterDuty(pwm) == [Unread EXCEPT !.pwm = pwm]

\* The registers as one consistent reading of header f.
Live(f) == [pwm |-> duty[f], enable |-> enable[f], writable |-> f \in PwmWritable]

-----------------------------------------------------------------------------
(* The checks that precede the writes, and the writes.                     *)

\* SetPWMRaw passes its checks: both files it would write are writable.
CanDrive(f) == f \in PwmWritable /\ EnableFile[f] # "ro"

\* SetAutoIndex passes its checks.  It never looks at pwmN.
CanRelease(f) == EnableFile[f] = "rw"

WriteMode(f, mode) == enable' = [enable EXCEPT ![f] = mode]
WritePWM(f, pwm)   == duty' = [duty EXCEPT ![f] = pwm]

-----------------------------------------------------------------------------
(* The firmware.                                                           *)

FirmwareDriven(f) == HasEnable(f) /\ enable[f] # EnableManual

\* It moves the duty of a header it drives.
FirmwareMoves(f) ==
    /\ FirmwareDriven(f)
    /\ \E pwm \in FirmwareDuties \ {duty[f]} : WritePWM(f, pwm)
    /\ UNCHANGED enable

\* Still initialising, it takes a header in manual mode back.
FirmwareReverts(f) ==
    /\ enable[f] = EnableManual
    /\ WriteMode(f, EnableAuto)
    /\ \E pwm \in FirmwareDuties : WritePWM(f, pwm)
=============================================================================

---------------------------- MODULE RestoreCycle ----------------------------
(***************************************************************************)
(* Save and restore as one caller sees them when nothing fails and nobody  *)
(* else is at work: what the operators of FanProfile amount to, on files   *)
(* that people edit and on chips whose headers come and go.  Fanctld takes *)
(* the same operations apart.                                              *)
(***************************************************************************)
EXTENDS FanProfile

CONSTANTS
    Indexes,    \* indexes a chip or a file may have; 0 is no header
    Duties,     \* pwm values a register holds, or a file gives
    Modes       \* words a file gives as mode

ASSUME RestoreCycleAssumption == Indexes \subseteq Nat

VARIABLES
    live,   \* what ReadStatus returns: a reading for every header present
    locked, \* headers whose pwmN_enable is read-only, which no reading shows
    file,   \* the profile file
    last    \* the operation just done

vars == <<live, locked, file, last>>

Chip == UNION {[S -> [pwm : Duties \cap Byte, enable : {NoEnable, 0, 1, 2},
                      writable : BOOLEAN]] : S \in SUBSET (Indexes \ {0})}
File == [version : {1, 2},
         fans : UNION {[S -> [mode : Modes, pwm : Duties]] : S \in SUBSET Indexes}]

\* The headers that have a pwmN_enable.
Modal(status) == {h \in DOMAIN status : status[h].enable # NoEnable}

Init ==
    /\ live \in Chip /\ locked \in SUBSET Modal(live)
    /\ file = Marshal([h \in {} |-> FirmwareAuto]) /\ last = "init"

\* SetPWMRaw and SetAutoIndex write nothing to a header whose pwmN_enable is
\* read-only, and SetAutoIndex nothing to one that has none.
Refused(h, want) ==
    \/ h \in locked
    \/ want.mode = "auto" /\ live[h].enable = NoEnable

\* A header after the writes: without pwmN_enable, only the duty is set.
Driven(want, reading) ==
    IF want.mode = "auto"
    THEN [reading EXCEPT !.enable = EnableAuto]
    ELSE [reading EXCEPT !.pwm = want.pwm,
                         !.enable = IF @ = NoEnable THEN @ ELSE EnableManual]

\* ApplyProfile.
Applied(p) ==
    [h \in DOMAIN live |->
        IF h \in DOMAIN Plan(p, live) /\ ~Refused(h, p[h])
        THEN Driven(p[h], live[h]) ELSE live[h]]

Save ==
    /\ file' = Marshal(FromStatus(live))
    /\ last' = "save" /\ UNCHANGED <<live, locked>>

Restore ==
    /\ live' = IF WellFormed(file) THEN Applied(Parse(file)) ELSE live
    /\ last' = "restore" /\ UNCHANGED <<locked, file>>

\* The file is edited; the chip is rewired, or changed by its firmware.
Edit   == file' \in File /\ last' = "edit" /\ UNCHANGED <<live, locked>>
Rewire ==
    /\ live' \in Chip /\ locked' \in SUBSET Modal(live')
    /\ last' = "rewire" /\ UNCHANGED file

Next == Save \/ Restore \/ Edit \/ Rewire

Spec == Init /\ [][Next]_vars

-----------------------------------------------------------------------------
\* A restore leaves the next one nothing to do, so that poll can verify at
\* every tick and no fan is written twice.  The exceptions are headers that
\* every pass tries anew and the chip refuses each time: those with a read-only
\* pwmN_enable, and those to go to the firmware that have no pwmN_enable.
RestoreConverges ==
    last = "restore" /\ WellFormed(file) =>
        \A h \in DOMAIN Plan(Parse(file), live) :
            \/ h \in locked
            \/ file.fans[h].mode = "auto" /\ live[h].enable = NoEnable

\* A restore changes only headers the profile names whose files are writable,
\* and nothing at all by a file it cannot make sense of.
RestoreIsSelective ==
    [][last' = "restore" =>
          \A h \in DOMAIN live : live'[h] # live[h] =>
              /\ WellFormed(file) /\ h \in DOMAIN file.fans
              /\ live[h].writable /\ h \notin locked]_vars

\* What is saved is well formed and restores to what the chip runs at:
\* planning it back is a no-op, unless a header is in a mode the driver does
\* not document.
SaveRestoresToItself ==
    last = "save" =>
        /\ WellFormed(file)
        /\ \A h \in DOMAIN Plan(Parse(file), live) : live[h].enable = 2
=============================================================================

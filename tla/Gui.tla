-------------------------------- MODULE Gui --------------------------------
(***************************************************************************)
(* The sliders of the tray popover (gui/src/main.rs) over a chip that      *)
(* others drive too.  GTK runs every callback on one thread and each D-Bus *)
(* call blocks it, so a callback is one action, except a refresh: between  *)
(* the reading of the chip and its application to the sliders, time passes *)
(* and the chip may change.                                                *)
(* Left out: labels, status line, tray, placement, Save and Quit, which    *)
(* touch no slider.                                                        *)
(***************************************************************************)
EXTENDS Duty

CONSTANTS
    Rows,           \* the chip's fan headers
    Writable,       \* those whose pwmN may be written
    Percents,       \* the positions the user drags to
    OtherDuties,    \* the duties that firmware and other programs set
    MaxMoves,       \* bound: slider moves
    MaxOthers,      \* bound: changes made behind the GUI's back
    MaxFaults       \* bound: failed calls and misread registers

ASSUME GuiAssumption ==
    /\ Writable \subseteq Rows
    /\ Percents \subseteq Percent
    /\ OtherDuties \subseteq Byte
    /\ {MaxMoves, MaxOthers, MaxFaults} \subseteq Nat

None == -1          \* Option::None, and a header that GetFans does not list

VARIABLES
    duty,           \* the chip: duty of each header
    present,        \* the chip: headers that exist (a driver reload changes them)
    visible,        \* the popover is shown
    loop,           \* main loop: "idle", or in a refresh: "get", "apply"
    answer,         \* percent of each header in the answer of GetFans
    shown,          \* keys of PopoverState.rows
    thumb,          \* value of each scale
    dragging,       \* FanRow.dragging
    pending,        \* FanRow.pending_percent
    timer,          \* FanRow.debounce_source is set
    lastSent,       \* FanRow.last_sent
    aged,           \* LAST_SENT_GRACE has elapsed since last_sent_at
    kept,           \* history: headers undisturbed since a set_percent that succeeded
    moves, others, faults

chip    == <<duty, present>>
slider  == <<thumb, dragging, pending, timer, lastSent, aged>>
window  == <<visible, shown>>
refresh == <<loop, answer>>
counts  == <<moves, others, faults>>
vars    == <<chip, slider, window, refresh, counts, kept>>

Init ==
    /\ duty \in [Rows -> OtherDuties]
    /\ present = Rows
    /\ visible = FALSE
    /\ loop = "get"                     \* refresh(&popover) on activation
    /\ answer = [r \in Rows |-> None]
    /\ shown = {}
    /\ thumb = [r \in Rows |-> 0]
    /\ dragging = [r \in Rows |-> FALSE]
    /\ pending = [r \in Rows |-> None]
    /\ timer = [r \in Rows |-> FALSE]
    /\ lastSent = [r \in Rows |-> None]
    /\ aged = [r \in Rows |-> FALSE]
    /\ kept = {}
    /\ moves = 0 /\ others = 0 /\ faults = 0

Fault == faults < MaxFaults /\ faults' = faults + 1

\* A widget that the user can operate: the loop is free, the window is there.
Usable(r) == loop = "idle" /\ visible /\ r \in shown

-----------------------------------------------------------------------------
(* Sending: set_percent, flush_pending, schedule_set_percent.              *)

\* The daemon's SetPercent: it drives the header and answers, or the call
\* fails, with or without the duty written.
CallSetPercent(r, p) ==
    LET driven == [duty EXCEPT ![r] = PercentToPWM(p)]
    IN  \/ /\ r \in present
           /\ duty' = driven
           /\ kept' = kept \cup {r}
           /\ UNCHANGED faults
        \/ /\ r \in present /\ Fault
           /\ duty' \in {duty, driven}
           /\ kept' = kept \ {r}
        \/ /\ r \notin present
           /\ kept' = kept \ {r}
           /\ UNCHANGED <<duty, faults>>

FlushPending(r) ==
    /\ timer' = [timer EXCEPT ![r] = FALSE]
    /\ pending' = [pending EXCEPT ![r] = None]
    /\ IF pending[r] \in {None, lastSent[r]}        \* "skipped (unchanged)"
       THEN UNCHANGED <<duty, lastSent, aged, kept, faults>>
       ELSE /\ CallSetPercent(r, pending[r])
            /\ lastSent' = [lastSent EXCEPT ![r] = pending[r]]
            /\ aged' = [aged EXCEPT ![r] = FALSE]

\* value_changed: by drag, scroll wheel or key.  The thumb moves by whole
\* percents: GTK rounds what the user does to the digits that a scale of step 1
\* draws, so that the round() of the handler leaves the value as it is.
Move(r, p) ==
    /\ Usable(r) /\ r \in Writable
    /\ p # thumb[r]
    /\ moves < MaxMoves /\ moves' = moves + 1
    /\ thumb' = [thumb EXCEPT ![r] = p]
    /\ pending' = [pending EXCEPT ![r] = p]
    /\ timer' = [timer EXCEPT ![r] = TRUE]
    /\ UNCHANGED <<chip, window, refresh, dragging, lastSent, aged, kept, others, faults>>

DragBegin(r) ==
    /\ Usable(r) /\ r \in Writable
    /\ dragging' = [dragging EXCEPT ![r] = TRUE]
    /\ UNCHANGED <<chip, window, refresh, thumb, pending, timer, lastSent, aged, kept, counts>>

DragEnd(r) ==
    /\ loop = "idle" /\ dragging[r]
    /\ dragging' = [dragging EXCEPT ![r] = FALSE]
    /\ FlushPending(r)
    /\ UNCHANGED <<present, window, refresh, thumb, moves, others>>

\* UI_DEBOUNCE after the last move.
Debounce(r) ==
    /\ loop = "idle" /\ timer[r]
    /\ FlushPending(r)
    /\ UNCHANGED <<present, window, refresh, thumb, dragging, moves, others>>

\* LAST_SENT_GRACE after the last set_percent.
GraceElapses(r) ==
    /\ lastSent[r] # None /\ ~aged[r]
    /\ aged' = [aged EXCEPT ![r] = TRUE]
    /\ UNCHANGED <<chip, window, refresh, thumb, dragging, pending, timer, lastSent,
                   kept, counts>>

-----------------------------------------------------------------------------
(* Receiving: refresh, ensure_rows, apply_fans.                            *)

\* The daemon reads every header; a register it cannot read counts as 0.
GetFans ==
    /\ loop = "get"
    /\ \/ \E missed \in SUBSET present :
             /\ \/ missed = {} /\ UNCHANGED faults
                \/ missed # {} /\ Fault
             /\ answer' = [r \in Rows |-> IF r \notin present THEN None
                                          ELSE IF r \in missed THEN 0
                                          ELSE PWMToPercent(duty[r])]
             /\ kept' = kept \ missed
             /\ loop' = "apply"
       \/ Fault /\ loop' = "idle" /\ UNCHANGED <<answer, kept>>
    /\ UNCHANGED <<chip, window, slider, moves, others>>

\* Mutant: ignores the grace period.
HoldsForever(r) ==
    \/ dragging[r]
    \/ pending[r] # None
    \/ lastSent[r] \notin {None, answer[r]}

\* Mutant: forgets the percent that waits to be sent.
HoldsSent(r) ==
    \/ dragging[r]
    \/ lastSent[r] \notin {None, answer[r]} /\ ~aged[r]

\* apply_fans leaves the slider of r where it is.
Holds(r) ==
    \/ dragging[r]
    \/ pending[r] # None
    \/ lastSent[r] \notin {None, answer[r]} /\ ~aged[r]

ApplyFans ==
    LET listed == {r \in Rows : answer[r] # None}
        held   == {r \in listed : Holds(r)}
    IN  /\ loop = "apply"
        /\ loop' = "idle"
        /\ shown' = listed              \* ensure_rows: new rows, rows removed
        /\ thumb' = [r \in Rows |-> IF r \in held THEN thumb[r]
                                    ELSE IF r \in listed THEN answer[r] ELSE 0]
        /\ dragging' = [r \in Rows |-> r \in listed /\ dragging[r]]
        /\ timer' = [r \in Rows |-> r \in listed /\ timer[r]]
        /\ pending' = [r \in Rows |-> IF r \in listed THEN pending[r] ELSE None]
        /\ lastSent' = [r \in Rows |-> IF r \in held THEN lastSent[r] ELSE None]
        /\ aged' = [r \in Rows |-> r \in held /\ aged[r]]
        /\ kept' = kept \cap listed
        /\ answer' = [r \in Rows |-> None]
        /\ UNCHANGED <<chip, visible, counts>>

\* The 2 s poll: skipped while any_row_busy.
Poll ==
    /\ loop = "idle" /\ visible
    /\ \A r \in shown : ~dragging[r] /\ pending[r] = None
    /\ loop' = "get"
    /\ UNCHANGED <<chip, window, answer, slider, kept, counts>>

\* TrayMsg::Toggle on a hidden popover: refresh, then show_popover.
Show ==
    /\ loop = "idle" /\ ~visible
    /\ visible' = TRUE
    /\ loop' = "get"
    /\ UNCHANGED <<chip, shown, answer, slider, kept, counts>>

\* Toggle, Escape, close or loss of focus.
Hide ==
    /\ loop = "idle" /\ visible
    /\ visible' = FALSE
    /\ UNCHANGED <<chip, shown, refresh, slider, kept, counts>>

-----------------------------------------------------------------------------
(* The buttons, and everything that is not this GUI.                       *)

\* set_max drives the writable headers in order of their index and stops at
\* the first failure; only a success is followed by a refresh.
ClickMax ==
    /\ loop = "idle" /\ visible
    /\ \E done \in SUBSET (Writable \cap present) :
          /\ duty' = [r \in Rows |-> IF r \in done THEN PercentToPWM(100) ELSE duty[r]]
          /\ kept' = kept \ done
          /\ \/ done = Writable \cap present /\ loop' = "get" /\ UNCHANGED faults
             \/ Fault /\ UNCHANGED loop
    /\ UNCHANGED <<present, window, answer, slider, moves, others>>

\* set_auto gives the headers to the firmware, which changes their duty later.
ClickAuto ==
    /\ loop = "idle" /\ visible
    /\ kept' = kept \ Writable
    /\ \/ loop' = "get" /\ UNCHANGED faults
       \/ Fault /\ UNCHANGED loop
    /\ UNCHANGED <<chip, window, answer, slider, moves, others>>

\* Firmware, fanctl, a restore or another session's GUI.
OthersDrive(r, w) ==
    /\ others < MaxOthers /\ others' = others + 1
    /\ duty' = [duty EXCEPT ![r] = w]
    /\ kept' = kept \ {r}
    /\ UNCHANGED <<present, window, refresh, slider, moves, faults>>

\* The driver is reloaded with other parameters: a header comes or goes.
HeaderChanges(r) ==
    /\ others < MaxOthers /\ others' = others + 1
    /\ present' = IF r \in present THEN present \ {r} ELSE present \cup {r}
    /\ kept' = kept \ {r}
    /\ UNCHANGED <<duty, window, refresh, slider, moves, faults>>

-----------------------------------------------------------------------------
User ==
    \/ Show \/ Hide \/ ClickMax \/ ClickAuto
    \/ \E r \in Rows : DragBegin(r) \/ DragEnd(r) \/ \E p \in Percents : Move(r, p)

Others == \E r \in Rows : HeaderChanges(r) \/ \E w \in OtherDuties : OthersDrive(r, w)

Next ==
    \/ User \/ Others
    \/ GetFans \/ ApplyFans \/ Poll
    \/ \E r \in Rows : Debounce(r) \/ GraceElapses(r)

\* A blocking call returns and the clock runs.  A timer that is due stays due
\* while other callbacks block the loop and is dispatched when the loop is free
\* again, hence strong fairness.  The user and the rest of the machine need do
\* nothing.
Fairness ==
    /\ WF_vars(GetFans) /\ WF_vars(ApplyFans) /\ SF_vars(Poll)
    /\ \A r \in Rows : SF_vars(Debounce(r)) /\ WF_vars(GraceElapses(r))

Spec == Init /\ [][Next]_vars
FairSpec == Spec /\ Fairness

-----------------------------------------------------------------------------
PercentOrNone == Percent \cup {None}

TypeOK ==
    /\ duty \in [Rows -> Byte]
    /\ present \subseteq Rows
    /\ visible \in BOOLEAN
    /\ loop \in {"idle", "get", "apply"}
    /\ answer \in [Rows -> PercentOrNone]
    /\ shown \subseteq Rows
    /\ thumb \in [Rows -> Percent]
    /\ dragging \in [Rows -> BOOLEAN]
    /\ pending \in [Rows -> PercentOrNone]
    /\ timer \in [Rows -> BOOLEAN]
    /\ lastSent \in [Rows -> PercentOrNone]
    /\ aged \in [Rows -> BOOLEAN]
    /\ kept \subseteq Rows
    /\ {moves, others, faults} \subseteq Nat

\* No refresh and no skipped send moves the thumb off an edit that still counts:
\* it stands on the percent that waits, for which a timer runs, or else on the
\* last one handed to set_percent, unless a refresh has since taken it over.
\* That one may have failed, or the waiting one been skipped as unchanged
\* (schedule_set_percent, flush_pending, apply_fans).
ThumbIsAsked ==
    \A r \in Rows :
        /\ pending[r] # None => timer[r] /\ thumb[r] = pending[r]
        /\ pending[r] = None => lastSent[r] \in {None, thumb[r]}

\* A slider at rest shows the speed in force: as long as nothing else has
\* touched the header since its last set_percent, refreshes, grace periods,
\* further moves and percents skipped as unchanged never part thumb and chip.
RestingSliderInForce ==
    \A r \in kept : pending[r] = None => duty[r] = PercentToPWM(thumb[r])

\* Whatever happened before -- a failed call, Max within the grace period, a
\* percent skipped though the chip had changed -- the sliders of a popover
\* that is left open come to show the chip (poll, apply_fans).
SlidersShowTheChip ==
    <>[](visible /\ \A r \in Rows : ~dragging[r])
        => <>[](/\ shown = present
                /\ \A r \in present : thumb[r] = PWMToPercent(duty[r]))
=============================================================================

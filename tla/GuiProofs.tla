----------------------------- MODULE GuiProofs -----------------------------
(***************************************************************************)
(* What the sliders of the popover guarantee, for any chip, any user and   *)
(* any number of moves, disturbances and failures.                         *)
(***************************************************************************)
EXTENDS Gui, DutyProofs

\* What keeps a slider at rest on the speed in force: as long as nothing else
\* has touched the header, what was last sent is what the chip has, and so is
\* what an answer on its way says.
KeptAsSent ==
    \A r \in kept :
        /\ lastSent[r] # None => duty[r] = PercentToPWM(lastSent[r])
        /\ loop = "apply" /\ answer[r] # None => answer[r] = PWMToPercent(duty[r])

GuiInv == TypeOK /\ ThumbIsAsked /\ RestingSliderInForce /\ KeptAsSent

LEMMA NoneIsNoPercent == None \notin Percent
  BY DEF None, Percent

LEMMA ConvertTypes ==
    /\ \A p \in Percent : PercentToPWM(p) \in Byte
    /\ \A w \in Byte : PWMToPercent(w) \in Percent
    /\ 0 \in Percent /\ 100 \in Percent
  BY PercentToPWMRange, PWMToPercentRange DEF Percent

-----------------------------------------------------------------------------
(* Types.                                                                  *)

LEMMA CallSetPercentTypes ==
    ASSUME TypeOK, NEW r \in Rows, NEW p \in Percent, CallSetPercent(r, p)
    PROVE  /\ duty' \in [Rows -> Byte]
           /\ kept' \subseteq Rows
           /\ faults' \in Nat
  <1> DEFINE driven == [duty EXCEPT ![r] = PercentToPWM(p)]
  <1>1. driven \in [Rows -> Byte] /\ duty \in [Rows -> Byte]
    BY ConvertTypes DEF TypeOK
  <1>2. faults \in Nat /\ kept \subseteq Rows
    BY DEF TypeOK
  <1>3. duty' \in {duty, driven}
    BY DEF CallSetPercent
  <1>4. faults' \in {faults, faults + 1}
    BY DEF CallSetPercent, Fault
  <1>5. kept' \in {kept \cup {r}, kept \ {r}}
    BY DEF CallSetPercent
  <1> QED  BY <1>1, <1>2, <1>3, <1>4, <1>5

LEMMA FlushPendingTypes ==
    ASSUME TypeOK, NEW r \in Rows, FlushPending(r)
    PROVE  /\ duty' \in [Rows -> Byte]
           /\ kept' \subseteq Rows
           /\ faults' \in Nat
           /\ timer' \in [Rows -> BOOLEAN]
           /\ pending' \in [Rows -> PercentOrNone]
           /\ lastSent' \in [Rows -> PercentOrNone]
           /\ aged' \in [Rows -> BOOLEAN]
  <1>1. timer' \in [Rows -> BOOLEAN] /\ pending' \in [Rows -> PercentOrNone]
    BY DEF TypeOK, FlushPending, PercentOrNone
  <1>2. CASE pending[r] \in {None, lastSent[r]}
    BY <1>1, <1>2 DEF TypeOK, FlushPending
  <1>3. CASE pending[r] \notin {None, lastSent[r]}
    <2>1. pending[r] \in Percent
      BY <1>3 DEF TypeOK, PercentOrNone
    <2>2. CallSetPercent(r, pending[r])
      BY <1>3 DEF FlushPending
    <2>3. lastSent' \in [Rows -> PercentOrNone] /\ aged' \in [Rows -> BOOLEAN]
      BY <1>3 DEF TypeOK, FlushPending
    <2> QED  BY <1>1, <2>1, <2>2, <2>3, CallSetPercentTypes
  <1> QED  BY <1>2, <1>3

LEMMA GetFansTypes ==
    ASSUME TypeOK, GetFans
    PROVE  TypeOK'
  <1>1. CASE Fault /\ loop' = "idle" /\ UNCHANGED <<answer, kept>>
    BY <1>1 DEF GetFans, Fault, TypeOK, chip, window, slider
  <1>2. ASSUME NEW missed \in SUBSET present,
               answer' = [r \in Rows |-> IF r \notin present THEN None
                                         ELSE IF r \in missed THEN 0
                                         ELSE PWMToPercent(duty[r])],
               kept' = kept \ missed, loop' = "apply",
               UNCHANGED faults \/ Fault
        PROVE  TypeOK'
    <2>1. answer' \in [Rows -> PercentOrNone]
      BY <1>2, ConvertTypes DEF TypeOK, PercentOrNone
    <2>2. faults' \in Nat
      BY <1>2 DEF TypeOK, Fault
    <2> QED  BY <1>2, <2>1, <2>2 DEF GetFans, TypeOK, chip, window, slider
  <1> QED  BY <1>1, <1>2 DEF GetFans

LEMMA ApplyFansTypes ==
    ASSUME TypeOK, ApplyFans
    PROVE  TypeOK'
  <1> DEFINE listed == {r \in Rows : answer[r] # None}
             held   == {r \in listed : Holds(r)}
  <1>1. \A r \in listed : answer[r] \in Percent
    BY DEF TypeOK, PercentOrNone
  <1>2. /\ shown' = listed
        /\ thumb' = [r \in Rows |-> IF r \in held THEN thumb[r]
                                    ELSE IF r \in listed THEN answer[r] ELSE 0]
        /\ pending' = [r \in Rows |-> IF r \in listed THEN pending[r] ELSE None]
        /\ lastSent' = [r \in Rows |-> IF r \in held THEN lastSent[r] ELSE None]
        /\ answer' = [r \in Rows |-> None]
        /\ kept' = kept \cap listed
        /\ loop' = "idle"
    BY DEF ApplyFans
  <1>3. /\ dragging' \in [Rows -> BOOLEAN]
        /\ timer' \in [Rows -> BOOLEAN]
        /\ aged' \in [Rows -> BOOLEAN]
    BY DEF ApplyFans
  <1>4. thumb' \in [Rows -> Percent]
    <2> HIDE DEF held, listed
    <2> QED  BY <1>1, <1>2, ConvertTypes DEF TypeOK
  <1>5. /\ pending' \in [Rows -> PercentOrNone]
        /\ lastSent' \in [Rows -> PercentOrNone]
        /\ answer' \in [Rows -> PercentOrNone]
    <2> HIDE DEF held, listed
    <2> QED  BY <1>2 DEF TypeOK, PercentOrNone
  <1>6. UNCHANGED <<chip, visible, counts>>
    BY DEF ApplyFans
  <1> QED  BY <1>2, <1>3, <1>4, <1>5, <1>6 DEF TypeOK, chip, counts

LEMMA TypeStep ==
    ASSUME GuiAssumption, TypeOK, [Next]_vars
    PROVE  TypeOK'
  <1> USE DEF chip, slider, window, refresh, counts
  <1>1. ASSUME NEW r \in Rows, NEW p \in Percents, Move(r, p)
        PROVE  TypeOK'
    <2>1. p \in Percent
      BY DEF GuiAssumption
    <2> QED  BY <1>1, <2>1 DEF Move, TypeOK, PercentOrNone
  <1>2. ASSUME NEW r \in Rows, DragBegin(r)
        PROVE  TypeOK'
    BY <1>2 DEF DragBegin, TypeOK
  <1>3. ASSUME NEW r \in Rows, DragEnd(r)
        PROVE  TypeOK'
    <2>1. FlushPending(r)
      BY <1>3 DEF DragEnd
    <2> QED  BY <1>3, <2>1, FlushPendingTypes DEF DragEnd, TypeOK
  <1>4. ASSUME NEW r \in Rows, Debounce(r)
        PROVE  TypeOK'
    <2>1. FlushPending(r)
      BY <1>4 DEF Debounce
    <2> QED  BY <1>4, <2>1, FlushPendingTypes DEF Debounce, TypeOK
  <1>5. ASSUME NEW r \in Rows, GraceElapses(r)
        PROVE  TypeOK'
    BY <1>5 DEF GraceElapses, TypeOK
  <1>6. ASSUME Poll \/ Show \/ Hide
        PROVE  TypeOK'
    BY <1>6 DEF Poll, Show, Hide, TypeOK
  <1>7. ASSUME ClickMax
        PROVE  TypeOK'
    <2>1. duty' \in [Rows -> Byte]
      BY <1>7, ConvertTypes DEF ClickMax, TypeOK
    <2>2. kept' \subseteq Rows /\ loop' \in {"idle", "get", "apply"}
      BY <1>7 DEF ClickMax, TypeOK
    <2>3. faults' \in Nat
      BY <1>7 DEF ClickMax, TypeOK, Fault
    <2> QED  BY <1>7, <2>1, <2>2, <2>3 DEF ClickMax, TypeOK
  <1>8. ASSUME ClickAuto
        PROVE  TypeOK'
    BY <1>8 DEF ClickAuto, TypeOK, Fault
  <1>9. ASSUME NEW r \in Rows, NEW w \in OtherDuties, OthersDrive(r, w)
        PROVE  TypeOK'
    BY <1>9 DEF OthersDrive, TypeOK, GuiAssumption
  <1>10. ASSUME NEW r \in Rows, HeaderChanges(r)
         PROVE  TypeOK'
    BY <1>10 DEF HeaderChanges, TypeOK
  <1>11. CASE UNCHANGED vars
    BY <1>11 DEF vars, TypeOK
  <1> QED
    BY <1>1, <1>2, <1>3, <1>4, <1>5, <1>6, <1>7, <1>8, <1>9, <1>10, <1>11,
       GetFansTypes, ApplyFansTypes DEF Next, User, Others

-----------------------------------------------------------------------------
(* The invariant.                                                          *)

LEMMA InitInv == ASSUME GuiAssumption, Init PROVE GuiInv
  <1>1. TypeOK
    <2>1. duty \in [Rows -> Byte]
      BY DEF Init, GuiAssumption
    <2>2. thumb \in [Rows -> Percent]
      BY ConvertTypes DEF Init
    <2>3. /\ pending \in [Rows -> PercentOrNone]
          /\ lastSent \in [Rows -> PercentOrNone]
          /\ answer \in [Rows -> PercentOrNone]
      BY DEF Init, PercentOrNone
    <2>4. {moves, others, faults} \subseteq Nat
      BY DEF Init
    <2>5. /\ dragging \in [Rows -> BOOLEAN] /\ timer \in [Rows -> BOOLEAN]
          /\ aged \in [Rows -> BOOLEAN]
      BY DEF Init
    <2> QED  BY <2>1, <2>2, <2>3, <2>4, <2>5 DEF Init, TypeOK
  <1>2. ThumbIsAsked /\ RestingSliderInForce /\ KeptAsSent
    BY DEF Init, ThumbIsAsked, RestingSliderInForce, KeptAsSent
  <1> QED  BY <1>1, <1>2 DEF GuiInv

\* A step that leaves the slider of a header alone, and its duty if it stays
\* kept, and brings no answer, preserves what is said of that header.
LEMMA QuietStep ==
    ASSUME GuiInv,
           UNCHANGED <<thumb, pending, lastSent>>,
           UNCHANGED timer,
           kept' \subseteq kept,
           \A r \in kept' : duty'[r] = duty[r],
           loop' = "apply" => UNCHANGED <<loop, answer>>
    PROVE  ThumbIsAsked' /\ RestingSliderInForce' /\ KeptAsSent'
  BY DEF GuiInv, ThumbIsAsked, RestingSliderInForce, KeptAsSent

LEMMA FlushPendingInv ==
    ASSUME GuiInv, NEW r \in Rows, FlushPending(r), UNCHANGED thumb,
           loop = "idle", UNCHANGED loop
    PROVE  ThumbIsAsked' /\ RestingSliderInForce' /\ KeptAsSent'
  <1> USE DEF GuiInv
  <1>1. /\ pending' = [pending EXCEPT ![r] = None]
        /\ timer' = [timer EXCEPT ![r] = FALSE]
    BY DEF FlushPending
  <1>2. /\ pending \in [Rows -> PercentOrNone] /\ timer \in [Rows -> BOOLEAN]
        /\ lastSent \in [Rows -> PercentOrNone] /\ duty \in [Rows -> Byte]
        /\ thumb \in [Rows -> Percent] /\ kept \subseteq Rows
    BY DEF TypeOK
  <1>3. loop' # "apply"
    OBVIOUS
  <1>4. CASE pending[r] \in {None, lastSent[r]}
    <2>1. UNCHANGED <<duty, lastSent, kept>>
      BY <1>4 DEF FlushPending
    <2>2. lastSent[r] \in {None, thumb[r]}
      BY <1>4 DEF ThumbIsAsked
    <2>3. ThumbIsAsked'
      BY <1>1, <1>2, <2>1, <2>2 DEF ThumbIsAsked
    <2>4. r \in kept => duty[r] = PercentToPWM(thumb[r])
      BY <1>4 DEF ThumbIsAsked, RestingSliderInForce, KeptAsSent
    <2>5. RestingSliderInForce'
      BY <1>1, <1>2, <2>1, <2>4 DEF RestingSliderInForce
    <2>6. KeptAsSent'
      BY <1>3, <2>1 DEF KeptAsSent
    <2> QED  BY <2>3, <2>5, <2>6
  <1>5. CASE pending[r] \notin {None, lastSent[r]}
    <2>1. CallSetPercent(r, pending[r]) /\ lastSent' = [lastSent EXCEPT ![r] = pending[r]]
      BY <1>5 DEF FlushPending
    <2>2. pending[r] = thumb[r]
      BY <1>5 DEF ThumbIsAsked
    <2>3. ThumbIsAsked'
      BY <1>1, <1>2, <2>1, <2>2 DEF ThumbIsAsked
    <2>4. /\ kept' \subseteq kept \cup {r}
          /\ r \in kept' => duty'[r] = PercentToPWM(thumb[r])
          /\ \A q \in kept' \ {r} : q \in kept /\ duty'[q] = duty[q]
      BY <1>2, <2>1, <2>2 DEF CallSetPercent
    <2>5. RestingSliderInForce'
      BY <1>1, <1>2, <2>4 DEF RestingSliderInForce
    <2>6. KeptAsSent'
      BY <1>2, <1>3, <2>1, <2>2, <2>4 DEF KeptAsSent
    <2> QED  BY <2>3, <2>5, <2>6
  <1> QED  BY <1>4, <1>5

LEMMA MoveInv ==
    ASSUME GuiAssumption, GuiInv, NEW r \in Rows, NEW p \in Percents, Move(r, p)
    PROVE  ThumbIsAsked' /\ RestingSliderInForce' /\ KeptAsSent'
  <1>1. /\ thumb' = [thumb EXCEPT ![r] = p]
        /\ pending' = [pending EXCEPT ![r] = p]
        /\ timer' = [timer EXCEPT ![r] = TRUE]
        /\ UNCHANGED <<duty, lastSent, kept, loop, answer>>
    BY DEF Move, chip, refresh
  <1>2. /\ pending \in [Rows -> PercentOrNone] /\ timer \in [Rows -> BOOLEAN]
        /\ thumb \in [Rows -> Percent] /\ kept \subseteq Rows
    BY DEF GuiInv, TypeOK
  <1>3. p # None
    BY NoneIsNoPercent DEF GuiAssumption
  <1> QED
    BY <1>1, <1>2, <1>3 DEF GuiInv, ThumbIsAsked, RestingSliderInForce, KeptAsSent

LEMMA GetFansInv ==
    ASSUME GuiInv, GetFans
    PROVE  ThumbIsAsked' /\ RestingSliderInForce' /\ KeptAsSent'
  <1>1. UNCHANGED <<duty, thumb, pending, timer, lastSent>>
    BY DEF GetFans, chip, slider
  <1>2. CASE Fault /\ loop' = "idle" /\ UNCHANGED <<answer, kept>>
    BY <1>1, <1>2, QuietStep
  <1>3. ASSUME NEW missed \in SUBSET present,
               answer' = [r \in Rows |-> IF r \notin present THEN None
                                         ELSE IF r \in missed THEN 0
                                         ELSE PWMToPercent(duty[r])],
               kept' = kept \ missed, loop' = "apply"
        PROVE  ThumbIsAsked' /\ RestingSliderInForce' /\ KeptAsSent'
    <2>1. ThumbIsAsked' /\ RestingSliderInForce'
      BY <1>1, <1>3 DEF GuiInv, ThumbIsAsked, RestingSliderInForce
    <2>2. \A r \in kept' : answer'[r] # None => answer'[r] = PWMToPercent(duty'[r])
      BY <1>1, <1>3 DEF GuiInv, TypeOK
    <2>3. KeptAsSent'
      BY <1>1, <1>3, <2>2 DEF GuiInv, KeptAsSent
    <2> QED  BY <2>1, <2>3
  <1> QED  BY <1>2, <1>3 DEF GetFans

\* Where a refresh moves a slider, an undisturbed header reads back as the
\* percent that the slider already stands on.
LEMMA ApplyFansInv ==
    ASSUME GuiInv, ApplyFans
    PROVE  ThumbIsAsked' /\ RestingSliderInForce' /\ KeptAsSent'
  <1> DEFINE listed == {r \in Rows : answer[r] # None}
             held   == {r \in listed : Holds(r)}
  <1>1. /\ thumb' = [r \in Rows |-> IF r \in held THEN thumb[r]
                                    ELSE IF r \in listed THEN answer[r] ELSE 0]
        /\ timer' = [r \in Rows |-> r \in listed /\ timer[r]]
        /\ pending' = [r \in Rows |-> IF r \in listed THEN pending[r] ELSE None]
        /\ lastSent' = [r \in Rows |-> IF r \in held THEN lastSent[r] ELSE None]
        /\ kept' = kept \cap listed
        /\ loop = "apply" /\ loop' = "idle"
        /\ UNCHANGED duty
    BY DEF ApplyFans, chip
  <1>2. \A r \in listed : pending[r] # None => r \in held
    BY DEF Holds
  <1>3. held \subseteq listed /\ listed \subseteq Rows
    OBVIOUS
  <1>4. \A r \in kept' : pending[r] = None => thumb'[r] = thumb[r]
    <2> SUFFICES ASSUME NEW r \in kept', pending[r] = None, r \notin held
                 PROVE  thumb'[r] = thumb[r]
      BY <1>1
    <2>1. r \in kept /\ r \in listed
      BY <1>1
    <2>2. thumb'[r] = PWMToPercent(duty[r])
      BY <1>1, <2>1 DEF GuiInv, KeptAsSent
    <2>3. duty[r] = PercentToPWM(thumb[r])
      BY <2>1 DEF GuiInv, RestingSliderInForce
    <2>4. thumb[r] \in Percent
      BY <2>1 DEF GuiInv, TypeOK
    <2> QED  BY <2>2, <2>3, <2>4, PercentReadsBack
  <1> HIDE DEF listed, held
  <1>5. ThumbIsAsked'
    BY <1>1, <1>2, <1>3 DEF GuiInv, ThumbIsAsked
  <1>6. RestingSliderInForce'
    BY <1>1, <1>3, <1>4 DEF GuiInv, RestingSliderInForce
  <1>7. KeptAsSent'
    BY <1>1, <1>3 DEF GuiInv, KeptAsSent
  <1> QED  BY <1>5, <1>6, <1>7

LEMMA InvStep ==
    ASSUME GuiAssumption, GuiInv, [Next]_vars
    PROVE  GuiInv'
  <1>1. TypeOK'
    BY TypeStep DEF GuiInv
  <1>2. ASSUME NEW r \in Rows, DragEnd(r) \/ Debounce(r)
        PROVE  ThumbIsAsked' /\ RestingSliderInForce' /\ KeptAsSent'
    BY <1>2, FlushPendingInv DEF DragEnd, Debounce, refresh
  <1>3. ASSUME NEW r \in Rows, DragBegin(r) \/ GraceElapses(r)
        PROVE  ThumbIsAsked' /\ RestingSliderInForce' /\ KeptAsSent'
    BY <1>3, QuietStep DEF DragBegin, GraceElapses, chip, refresh
  <1>4. ASSUME Poll \/ Show \/ Hide \/ UNCHANGED vars
        PROVE  ThumbIsAsked' /\ RestingSliderInForce' /\ KeptAsSent'
    BY <1>4, QuietStep DEF Poll, Show, Hide, vars, chip, slider, refresh
  <1>5. ASSUME ClickMax
        PROVE  ThumbIsAsked' /\ RestingSliderInForce' /\ KeptAsSent'
    <2>1. PICK done \in SUBSET (Writable \cap present) :
             /\ duty' = [r \in Rows |-> IF r \in done THEN PercentToPWM(100) ELSE duty[r]]
             /\ kept' = kept \ done
             /\ loop' = "get" \/ UNCHANGED loop
      BY <1>5 DEF ClickMax
    <2>2. \A r \in kept' : duty'[r] = duty[r]
      BY <2>1 DEF GuiInv, TypeOK
    <2> QED  BY <1>5, <2>1, <2>2, QuietStep DEF ClickMax, slider
  <1>6. ASSUME ClickAuto
        PROVE  ThumbIsAsked' /\ RestingSliderInForce' /\ KeptAsSent'
    BY <1>6, QuietStep DEF ClickAuto, chip, slider
  <1>7. ASSUME NEW r \in Rows, NEW w \in OtherDuties, OthersDrive(r, w)
        PROVE  ThumbIsAsked' /\ RestingSliderInForce' /\ KeptAsSent'
    <2>1. \A q \in kept' : duty'[q] = duty[q]
      BY <1>7 DEF OthersDrive, GuiInv, TypeOK
    <2> QED  BY <1>7, <2>1, QuietStep DEF OthersDrive, slider, refresh
  <1>8. ASSUME NEW r \in Rows, HeaderChanges(r)
        PROVE  ThumbIsAsked' /\ RestingSliderInForce' /\ KeptAsSent'
    BY <1>8, QuietStep DEF HeaderChanges, slider, refresh
  <1> QED
    BY <1>1, <1>2, <1>3, <1>4, <1>5, <1>6, <1>7, <1>8,
       MoveInv, GetFansInv, ApplyFansInv DEF GuiInv, Next, User, Others

-----------------------------------------------------------------------------
\* Every value stays in its type, whatever the user, the daemon and the chip do.
THEOREM GuiTypes == Spec => []TypeOK
  <1>1. Init => TypeOK
    BY InitInv, GuiAssumption DEF GuiInv
  <1>2. TypeOK /\ [Next]_vars => TypeOK'
    BY TypeStep, GuiAssumption
  <1> QED  BY <1>1, <1>2, PTL DEF Spec

LEMMA GuiInvariant == Spec => []GuiInv
  <1>1. Init => GuiInv
    BY InitInv, GuiAssumption
  <1>2. GuiInv /\ [Next]_vars => GuiInv'
    BY InvStep, GuiAssumption
  <1> QED  BY <1>1, <1>2, PTL DEF Spec

\* The thumb stands on the percent that waits to be sent, which has a timer, or
\* else on the last one handed to set_percent that no refresh has replaced.
THEOREM ThumbStandsOnRequest == Spec => []ThumbIsAsked
  BY GuiInvariant, PTL DEF GuiInv

\* A slider at rest on an undisturbed header shows the speed in force.
THEOREM RestingSliders == Spec => []RestingSliderInForce
  BY GuiInvariant, PTL DEF GuiInv
=============================================================================

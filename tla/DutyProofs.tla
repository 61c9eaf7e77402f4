----------------------------- MODULE DutyProofs -----------------------------
(***************************************************************************)
(* The two conversions, for every percent and every duty.                  *)
(***************************************************************************)
EXTENDS Duty, TLAPS

\* PercentToPWM yields a register value within half a percent of exact.
THEOREM PercentToPWMRange ==
    \A p \in Percent : /\ PercentToPWM(p) \in Byte
                       /\ PercentToPWM(p) * 100 - p * 255 \in -49..50
  BY DEF Percent, Byte, PercentToPWM

\* PWMToPercent yields a percent within half a step of exact.
THEOREM PWMToPercentRange ==
    \A w \in Byte : /\ PWMToPercent(w) \in Percent
                    /\ PWMToPercent(w) * 255 - w * 100 \in -127..127
  BY DEF Percent, Byte, PWMToPercent

\* A commanded percent reads back as itself.
THEOREM PercentReadsBack ==
    \A p \in Percent : PWMToPercent(PercentToPWM(p)) = p
  <1> SUFFICES ASSUME NEW p \in Percent
               PROVE  PWMToPercent(PercentToPWM(p)) = p
    OBVIOUS
  <1> DEFINE w == PercentToPWM(p)
             q == PWMToPercent(w)
  <1>1. w \in Byte /\ w * 100 - p * 255 \in -49..50
    BY PercentToPWMRange
  <1>2. q \in Percent /\ q * 255 - w * 100 \in -127..127
    BY <1>1, PWMToPercentRange
  <1>3. (q - p) * 255 \in -176..177
    <2> HIDE DEF w, q
    <2> QED  BY <1>1, <1>2 DEF Percent, Byte
  <1>4. q = p
    <2> HIDE DEF w, q
    <2> QED  BY <1>2, <1>3 DEF Percent
  <1> QED  BY <1>4

\* A higher duty never shows as a lower percent.
THEOREM PWMToPercentMonotone ==
    \A v, w \in Byte : v <= w => PWMToPercent(v) <= PWMToPercent(w)
  BY DEF Byte, PWMToPercent

\* A higher percent always gives a higher duty.
THEOREM PercentToPWMStrict ==
    \A p, q \in Percent : p < q => PercentToPWM(p) < PercentToPWM(q)
  BY DEF Percent, PercentToPWM
=============================================================================

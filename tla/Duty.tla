-------------------------------- MODULE Duty --------------------------------
(***************************************************************************)
(* The two scales a fan is driven on: percent (0-100) at the D-Bus, CLI    *)
(* and GUI interfaces, and the 8-bit duty cycle of the pwmN registers      *)
(* (internal/hwmon/fan.go).  Go's integer division truncates; every        *)
(* operand here is non-negative, so \div is the same operation.            *)
(***************************************************************************)
EXTENDS Integers

Percent == 0..100
Byte    == 0..255

\* Mutant: scales to 256.
PercentToPWM256(percent) == (percent * 256) \div 100

\* The accepting half of PercentToPWM; a percent outside Percent is an error.
PercentToPWM(percent) == (percent * 255 + 50) \div 100

\* Mutant: rounds down.
PWMToPercentDown(pwm) == (pwm * 100) \div 255

PWMToPercent(pwm) ==
    IF pwm <= 0 THEN 0
    ELSE IF pwm >= 255 THEN 100
    ELSE (pwm * 100 + 127) \div 255
=============================================================================

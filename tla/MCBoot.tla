------------------------------- MODULE MCBoot -------------------------------
(***************************************************************************)
(* Instance of Boot for TLC: a chip with two headers, a configuration that *)
(* names both alike but for "/WP", one that names one header like the      *)
(* label of the other, and a file with a bad index.                        *)
(***************************************************************************)
EXTENDS Boot

MCFanStem == [i \in {1, 2} |-> IF i = 1 THEN "FAN1" ELSE "FAN2"]

Pump(stem) == [Plain(stem) EXCEPT !.suffixes = 1]

Alike    == Holding([i \in {1, 2} |-> IF i = 1 THEN Plain("CPU") ELSE Pump("CPU")])
Malformed == Holding([i \in {0, 1} |-> Plain("CPU")])

MCExample == Holding([i \in {1} |-> Plain("FAN2")])
MCEdits   == {NoFile, Alike, Malformed}
=============================================================================

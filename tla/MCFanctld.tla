----------------------------- MODULE MCFanctld -----------------------------
(***************************************************************************)
(* Instances of Fanctld for TLC.                                           *)
(***************************************************************************)
EXTENDS Fanctld, TLC

Symmetry == Permutations(Handlers)      \* the handlers are interchangeable

\* Chips: what kind of file each header's pwmN_enable is.
OneFan        == [f \in {1} |-> "rw"]
BothRW        == [f \in {1, 2} |-> "rw"]
OneWithout    == [f \in {1, 2} |-> IF f = 1 THEN "rw" ELSE "none"]
OneReadOnly   == [f \in {1, 2} |-> IF f = 1 THEN "ro" ELSE "rw"]

\* Profile files at power-on.
OneAuto       == Saved([h \in {1, 2} |-> IF h = 1 THEN Manual(200) ELSE FirmwareAuto])
BothManual    == Saved([h \in {1, 2} |-> Manual(200)])
NoFile        == {Unsaved("absent")}
AnyFile       == {Unsaved("absent"), Unsaved("unusable"), BothManual}
OneSaved      == {OneAuto}
=============================================================================

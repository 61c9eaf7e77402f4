--------------------------- MODULE MCRestoreCycle ---------------------------
(***************************************************************************)
(* RestoreCycle on one header, with files that also name header 0.         *)
(***************************************************************************)
EXTENDS RestoreCycle

EditedDuties == {-1, 0, 255, 256}
EditedModes  == {"auto", "manual", "off"}
=============================================================================

------------------------------- MODULE MCIntake -------------------------------
(***************************************************************************)
(* Intake with two pixels, the second of which is the first one's backup.  *)
(***************************************************************************)
EXTENDS Intake
CONSTANTS main, spare
OneBackup == [p \in {main, spare} |-> IF p = main THEN spare ELSE None]
===============================================================================

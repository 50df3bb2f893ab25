------------------------------ MODULE MCIntake ------------------------------
(* Small instances of Intake for TLC.                                      *)
EXTENDS Intake, TLC

CONSTANTS good, other, bad

(* One release whose validation accepts two bodies.                        *)
OneRelease == {{good, other}}

(* Two releases serving side by side, the newer with a narrower rule.      *)
RollingRelease == {{good, other}, {other}}
=============================================================================

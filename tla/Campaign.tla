------------------------------- MODULE Campaign -------------------------------
(***************************************************************************)
(* What the campaigns on real disks have in common: main takes one unit of *)
(* work after another (a pair of paired_fs_aa.py, a run of the two noise   *)
(* harnesses), keeps what each returned, marks the good ones with a DONE   *)
(* file and ends with a verdict and an exit code.                          *)
(***************************************************************************)
EXTENDS JobWave

CONSTANTS
  NWindows,  \* windows of the campaign
  Retain     \* the data is kept: retain_backing_files, retain_backing_file

ASSUME CampaignAssumption == NWindows \in Nat \ {0} /\ Retain \in BOOLEAN

VARIABLES
  harness,   \* which it is: "paired", "native" or "fio"
  at,        \* the unit at hand: pair or run
  good,      \* the checks of the arm or run hold so far
  left,      \* directories a tier of this unit still has open (history)
  evidence,  \* result and failure files of the unit
  results,   \* what the units returned so far
  done,      \* units with a DONE file; 0 is the campaign
  kept,      \* units whose data is left; 0 is what the campaign made itself
  verdict,   \* gate["status"]
  exit       \* exit code, or how main ended

Statuses == {"PASS", "FAIL"}
StatusIf(b) == IF b THEN "PASS" ELSE "FAIL"
=============================================================================

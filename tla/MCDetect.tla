------------------------------ MODULE MCDetect ------------------------------
(***************************************************************************)
(* Model-checking instance of Detect: one vendor name and strings of up to *)
(* two comma-separated pieces, for both the environment and the defaults.  *)
(***************************************************************************)
EXTENDS Detect, TLC

CONSTANTS v1

MCVendors == {v1}

=============================================================================

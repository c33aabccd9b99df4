---------------------------- MODULE MCRelayFee -----------------------------
(***************************************************************************)
(* RelayFee for TLC, with the values of MCFeeRate.                         *)
(***************************************************************************)
EXTENDS RelayFee, MCFeeRate

=============================================================================

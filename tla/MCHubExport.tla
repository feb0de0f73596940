---------------------------- MODULE MCHubExport ----------------------------
(* Instances of HubExport for TLC.                                         *)
EXTENDS HubExport, TLC

CONSTANTS a, b

TwoSignatures == {a, b}
=============================================================================

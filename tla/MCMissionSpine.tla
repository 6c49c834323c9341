-------------------------- MODULE MCMissionSpine --------------------------
(* Full depth of the mission matrix with two bodies per artifact kind.       *)
EXTENDS MissionSpine
=============================================================================

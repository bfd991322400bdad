---------------------------- MODULE MCLabResearch ----------------------------
(* Small instances of LabResearch. *)
EXTENDS LabResearch

CONSTANTS shop, k1, models, design

MCResearchers == <<models, design>>
=============================================================================

------------------------------ MODULE MCSkills ------------------------------
(***************************************************************************)
(* Two calls for one skill, from the server or from one worker.            *)
(***************************************************************************)
EXTENDS SkillSurfaces
=============================================================================

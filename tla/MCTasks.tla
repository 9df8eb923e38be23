------------------------------ MODULE MCTasks ------------------------------
(* Small trees for TLC: a root with a child subagent, or a root with the id *)
(* its timeout retry runs under.                                            *)
EXTENDS TaskSupervision

CONSTANTS root, sub, rerun

MCParent == [t \in Tasks |-> IF t = sub THEN root ELSE NoTask]
MCRoot   == [t \in Tasks |-> root]
MCRetry  == [t \in Tasks |-> IF t = root /\ rerun \in Tasks THEN rerun ELSE t]
============================================================================

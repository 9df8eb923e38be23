------------------------------ MODULE MCUsage ------------------------------
(***************************************************************************)
(* Two calls of one tree, the second in a child process, a session of      *)
(* another tree and rows to import.  The bounds of the calls together      *)
(* exceed the limit of their tree, the first call and the session together *)
(* the limit of all.                                                       *)
(***************************************************************************)
EXTENDS UsageAccounting

CONSTANTS a1, a2, tree, other

MCBound == [a \in Attempts |-> IF a = a1 THEN 2 ELSE 1]
MCPrice == [i \in Sessions \cup Legacy |-> IF i \in Sessions THEN 2 ELSE 0]
MCRoot == [i \in Ids |-> IF i \in Attempts THEN tree ELSE other]
MCRootLimit == [r \in Roots |-> IF r = tree THEN 2 ELSE 3]
=============================================================================

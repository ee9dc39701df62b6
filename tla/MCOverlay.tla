------------------------------- MODULE MCOverlay ------------------------------
(***************************************************************************)
(* Two nodes that dial each other: n1 has n2 as its seed, n2 finds n1 in   *)
(* the manifest, if it can be fetched.  n2 is in its own bootstrap list.   *)
(***************************************************************************)
EXTENDS Overlay

CONSTANTS n1, n2

MCBootstrap == [n \in Node |-> IF n = n2 THEN {n2} ELSE {}]
MCSeed == [n \in Node |-> IF n = n1 THEN {n2} ELSE {}]
=============================================================================

--------------------------- MODULE MCNamespaceSync ---------------------------
(***************************************************************************)
(* Two ClusterClasses that share a Template; one has a second one.         *)
(***************************************************************************)
EXTENDS NamespaceSync

CONSTANTS a, b, own, shared

MCClass == {a, b}
MCTemplate == {own, shared}
MCRefs == [c \in MCClass |-> IF c = a THEN {own, shared} ELSE {shared}]
=============================================================================

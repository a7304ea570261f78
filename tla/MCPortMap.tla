------------------------------ MODULE MCPortMap ------------------------------
(* PortMap for TLC: two nodes, two host ports.                             *)
EXTENDS PortMap

MCNode == {"a", "b"}
MCCPort == {80, 22}
MCPort == {1, 2}

=============================================================================

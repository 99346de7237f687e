---------------------------- MODULE MCEchoSystem ----------------------------
(* EchoSystem for all short inputs over two characters and newline. *)
EXTENDS EchoSystem

CONSTANT MaxInput

MCInputs == UNION {[1 .. n -> Chars] : n \in 0 .. MaxInput}
=============================================================================

-------------------------- MODULE MCEffectProtocol --------------------------
(***************************************************************************)
(* Two worker processes and three engines, two of them in one process: the *)
(* effect can be attempted three times, by the same process or by another, *)
(* and either process can recover what the other left behind.              *)
(***************************************************************************)
EXTENDS EffectProtocol
CONSTANTS e1, p1, p2

MCProcOf == [e \in Engines |-> IF e = e1 THEN p1 ELSE p2]
=============================================================================

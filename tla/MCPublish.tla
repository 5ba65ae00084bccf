----------------------------- MODULE MCPublish -----------------------------
(* Instances of Publish for TLC: rivals for one name, temporary names      *)
(* scarce enough to collide.                                               *)
EXTENDS Publish, TLC

CONSTANTS d1

MCDest == [p \in Proc |-> d1]
MCPayload == [p \in Proc |-> p]
MCName == TempName \cup {d1}
MCSymmetry == Permutations(TempName) \cup Permutations(Proc)
=============================================================================

------------------------------ MODULE MCRender ------------------------------
(* An instance of Render for TLC.  Durations reach past both limits, or all  *)
(* of them are nothing, and the output path of one segment may be a          *)
(* directory of another's.                                                   *)
EXTENDS Render

MCDurations == [Segment -> 1..3] \cup {[s \in Segment |-> 0]}

Flat == [s \in Segment |-> {}]

MCLayouts == {Flat, [Flat EXCEPT ![2] = {1}], [Flat EXCEPT ![1] = {2}]}
=============================================================================

----------------------------- MODULE MCCaptions -----------------------------
(* Instances of Captions for TLC: three segments of two and a half or three *)
(* milliseconds, and narrations with one segment that is too short for the  *)
(* receipt or too long for the limit, or that are too long with their gaps. *)
EXTENDS Captions

Talk(l) ==
    LET start[i \in Segment] == IF i = 1 THEN 0 ELSE start[i-1] + l[i-1] + Gap * Milli
    IN  [length |-> l, start |-> start]

MCTalks ==
    {Talk(l) : l \in [Segment -> {5, 6}]
                  \cup {<<5, 1, 6>>, <<6, 5, 19>>, <<16, 16, 16>>}}

MCOffsets == {-4, -1, 3}
=============================================================================

---------------------------- MODULE MCModelView ----------------------------
(* An instance of ModelView for TLC: two files of two blocks, the second in *)
(* a subdirectory, copied while an editor changes the source and the user   *)
(* interrupts, or cloned while another program changes the clones.          *)
EXTENDS ModelView

MCWorlds ==
    {[clone |-> FALSE, edits |-> 2, tampers |-> 0, faults |-> 1, interrupts |-> 1],
     [clone |-> TRUE,  edits |-> 0, tampers |-> 2, faults |-> 1, interrupts |-> 0],
     [clone |-> TRUE,  edits |-> 2, tampers |-> 0, faults |-> 0, interrupts |-> 1],
     [clone |-> TRUE,  edits |-> 1, tampers |-> 1, faults |-> 1, interrupts |-> 0]}
=============================================================================

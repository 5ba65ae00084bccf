----------------------------- MODULE AtomicRead -----------------------------
(***************************************************************************)
(* What a caller of read_regular_file_bounded may rely on, without saying  *)
(* how: the answer is what stood under the path at one instant of the      *)
(* call, and a change is only reported if something changed.               *)
(*                                                                         *)
(* "Under the path" is said of the directories the reader has entered: one *)
(* that is moved away afterwards is still the one the path led to.         *)
(***************************************************************************)
EXTENDS Naturals, Sequences

CONSTANTS MaxBytes     \* the longest file the caller takes

VARIABLES visible,     \* what stands under the path now, as a set of one
          possible,    \* what stood there since the call began
          calm,        \* nothing has changed since the call began
          recent,      \* the file was last changed in the tick it was opened in
          answer

vars == <<visible, possible, calm, recent, answer>>

\* What may stand under a path, and what a caller may be answered.
File(c)   == [is |-> "file", bytes |-> c]
Absent    == [is |-> "absent", bytes |-> <<>>]
Irregular == [is |-> "irregular", bytes |-> <<>>]
TooLarge  == [is |-> "too large", bytes |-> <<>>]
Changed   == [is |-> "changed", bytes |-> <<>>]
Pending   == [is |-> "pending", bytes |-> <<>>]

Fits(f) == Len(f.bytes) <= MaxBytes

Init ==
    /\ possible = visible
    /\ calm = TRUE /\ recent = FALSE
    /\ answer = Pending

Change ==
    /\ calm' = FALSE
    /\ possible' = possible \cup visible'
    /\ UNCHANGED <<recent, answer>>

\* The answers that what stood there at one instant justifies.
Justified ==
    {f \in possible : f.is # "file" \/ Fits(f)}
    \cup {a \in {TooLarge} : \E f \in possible : f.is = "file" /\ ~Fits(f)}
    \cup {a \in {Changed} : ~calm}

\* Two changes within one tick of the clock look like one: of a file that
\* changed as recently as that, any bytes may be returned.
Answer ==
    /\ answer = Pending
    /\ answer' # Pending
    /\ \/ answer' \in Justified
       \/ recent /\ answer'.is \in {"file", "too large"}
    /\ UNCHANGED <<visible, possible, calm, recent>>

OpenRecent ==
    /\ answer = Pending
    /\ recent' = TRUE
    /\ UNCHANGED <<visible, possible, calm, answer>>

Next == Change \/ Answer \/ OpenRecent

Spec == Init /\ [][Next]_vars
=============================================================================

----------------------------- MODULE WriteOnce -----------------------------
(***************************************************************************)
(* What a caller of commit_open_file may rely on, without saying how: a    *)
(* store of names in which a payload appears whole or not at all, a name   *)
(* that is taken is never overwritten, and a payload whose publication     *)
(* was reported to its caller is still there after a power loss.           *)
(*                                                                         *)
(* A name on which a program outside this one has acted is tampered; the   *)
(* promises are about the others.                                          *)
(***************************************************************************)
CONSTANTS Proc,      \* the publishers
          Dest,      \* Dest[p]: the name p publishes to
          Payload,   \* Payload[p]: what p publishes there
          Nothing,   \* the content of a name that does not exist
          Foreign    \* the content of a file this program did not publish

VARIABLES store,     \* store[d]: what a reader of the name d finds
          outcome,   \* outcome[p]: "pending", "ok", or "failed"
          tampered   \* the names an outside program has changed

vars == <<store, outcome, tampered>>

Dests == {Dest[p] : p \in Proc}

\* A publication to d has been reported as successful.
Confirmed(d) == \E p \in Proc : Dest[p] = d /\ outcome[p] = "ok"

\* Whoever removes or loses d must not lose a reported file or another's.
Disposable(d) == d \in tampered \/ (~Confirmed(d) /\ store[d] # Foreign)

Init ==
    /\ store \in [Dests -> {Nothing, Foreign}]
    /\ outcome = [p \in Proc |-> "pending"]
    /\ tampered = {}

Publish(p) ==
    /\ outcome[p] = "pending"
    /\ store[Dest[p]] = Nothing
    /\ store' = [store EXCEPT ![Dest[p]] = Payload[p]]
    /\ UNCHANGED <<outcome, tampered>>

Retract(p) ==
    /\ outcome[p] = "pending"
    /\ Disposable(Dest[p])
    /\ store' = [store EXCEPT ![Dest[p]] = Nothing]
    /\ UNCHANGED <<outcome, tampered>>

Succeed(p) ==
    /\ outcome[p] = "pending"
    /\ store[Dest[p]] = Payload[p] \/ Dest[p] \in tampered
    /\ outcome' = [outcome EXCEPT ![p] = "ok"]
    /\ UNCHANGED <<store, tampered>>

\* The publisher reports a failure or dies.  Its last unlink may be part of it.
Fail(p) ==
    /\ outcome[p] = "pending"
    /\ outcome' = [outcome EXCEPT ![p] = "failed"]
    /\ UNCHANGED <<store, tampered>>

Tamper(d) ==
    /\ tampered' = tampered \cup {d}
    /\ \E f \in {Nothing, Foreign} : store' = [store EXCEPT ![d] = f]
    /\ UNCHANGED outcome

\* Power loss: what was not confirmed may be there or not, but never in part.
Outage ==
    /\ store' \in [Dests -> {Payload[p] : p \in Proc} \cup {Nothing, Foreign}]
    /\ \A d \in Dests : store'[d] = store[d] \/ Disposable(d)
    /\ \E died \in SUBSET {p \in Proc : outcome[p] = "pending"} :
          outcome' = [p \in Proc |-> IF p \in died THEN "failed" ELSE outcome[p]]
    /\ UNCHANGED tampered

Next ==
    \/ \E p \in Proc : Publish(p) \/ Retract(p) \/ Succeed(p) \/ Fail(p)
    \/ \E d \in Dests : Tamper(d)
    \/ Outage

Spec == Init /\ [][Next]_vars
=============================================================================

---------------------------- MODULE MCStableRead ----------------------------
(* Instances of StableRead for TLC: two directories that can stand for each  *)
(* other and two files of different content and size.                        *)
EXTENDS StableRead, TLC

MCKind == [n \in Node |-> IF n <= 2 THEN "dir" ELSE "file"]

MCData == [n \in Node |-> CASE n = 3 -> <<"a", "a">>
                            [] n = 4 -> <<"b">>
                            [] OTHER -> <<>>]

MCWorlds ==
    {[kind |-> k, child |-> c, data |-> MCData] :
        k \in {MCKind, [MCKind EXCEPT ![3] = "link"], [MCKind EXCEPT ![4] = "device"]},
        c \in {f \in [Node -> 1..Nil] :
                 /\ f[0] = 1 /\ f[1] \in {3, Nil} /\ f[2] = 4
                 /\ f[3] = Nil /\ f[4] = Nil}}
=============================================================================

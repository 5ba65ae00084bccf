--------------------------- MODULE MCBindDirectory ---------------------------
(* Instances of BindDirectory for TLC: nothing of the path is there, its      *)
(* first part is, or all of it, with a last part of every kind; and one       *)
(* directory off the path.                                                    *)
EXTENDS BindDirectory, TLC

Tree(a, b, k1, k2, k3) ==
    [kind  |-> [n \in Node |-> CASE n = 0 -> "public" [] n = 1 -> k1
                                 [] n = 2 -> k2 [] n = 3 -> k3 [] OTHER -> "free"],
     child |-> [n \in Node |-> CASE n = 0 -> a [] n = 1 -> b [] OTHER -> Nil]]

MCWorlds ==
    {Tree(Nil, Nil, "free", "free", "private"), Tree(1, Nil, "public", "free", "link")}
    \cup {Tree(1, 2, "private", k, "shared") : k \in {"public", "shared", "file"}}
=============================================================================

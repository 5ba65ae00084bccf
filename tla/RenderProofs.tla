---------------------------- MODULE RenderProofs ----------------------------
(***************************************************************************)
(* Proofs about Render, for any number of invocations and segments, any    *)
(* durations, layouts and limits, and any number of failing runs.          *)
(***************************************************************************)
EXTENDS Render, FiniteSetTheorems, WellFoundedInduction, TLAPS

\* An invocation is at a segment it has selected: of all, or the only one.
Selecting ==
    \A p \in Proc : pc[p] # "idle" =>
        /\ at[p] \in Segment
        /\ selected[p] = Segment \/ selected[p] = {at[p]}

\* What it is about to publish was generated from a fresh seed of its own.
Fresh ==
    \A p \in Proc :
        /\ pc[p] = "generate" => rng[p] = [seed |-> at[p], drawn |-> FALSE]
        /\ pc[p] \in {"directory", "publish"} => audio[p] = [seed |-> at[p], drawn |-> FALSE]

\* It has published what it selected up to where it is.
InOrder ==
    \A p \in Proc : pc[p] # "idle" =>
        /\ \A s \in mine[p] : s \in selected[p] /\ s <= at[p]
        /\ \A s \in selected[p] : s < at[p] => s \in mine[p]
        /\ pc[p] \in {"account", "check", "ok"} => at[p] \in mine[p]
        /\ pc[p] \in {"check", "ok"} => ~MoreLeft(p)

Kept == \A p \in Proc : \A s \in mine[p] : Published(s)

IInv == TypeOK /\ Selecting /\ Fresh /\ InOrder /\ Kept /\ Reproducible /\ OneOwner

\* The initial states satisfy the invariant.
LEMMA InitHolds == Init => IInv
  BY RenderAssumption
     DEF Init, IInv, TypeOK, Selecting, Fresh, InOrder, Kept, Reproducible,
         OneOwner, Segment, Phase, Random, Nothing, Published

\* Every step keeps every variable in its range.
LEMMA TypeStep ==
    ASSUME TypeOK, Selecting, [Next]_vars
    PROVE  TypeOK'
  <1> USE RenderAssumption
      DEF TypeOK, Selecting, Segment, Phase, Random, Nothing, Goto
  <1>1. ASSUME NEW p \in Proc, Start(p) PROVE TypeOK'
    <2>1. PICK choice \in Selections : Select(p, choice)
      BY <1>1 DEF Start
    <2>2. choice[1] \in SUBSET Segment /\ choice[2] \in Segment
      BY DEF Selections
    <2>3. pc' = [pc EXCEPT ![p] = "load"]
      BY <1>1 DEF Start
    <2>4. pc' \in [Proc -> Phase] /\ selected' \in [Proc -> SUBSET Segment]
            /\ at' \in [Proc -> 0..N]
      BY <2>1, <2>2, <2>3 DEF Select
    <2>5. \A q \in Proc : pc'[q] \in {"seed", "generate", "directory", "publish", "account"}
                             => at'[q] \in selected'[q]
      BY <2>1, <2>2, <2>3 DEF Select
    <2>6. rng' \in [Proc -> Random] /\ total' \in [Proc -> Nat]
            /\ mine' \in [Proc -> SUBSET Segment]
      BY <2>1 DEF Select
    <2>7. UNCHANGED <<audio, output, occupied, duration, below, used>>
      BY <2>1 DEF Select
    <2> QED
      BY <2>4, <2>5, <2>6, <2>7
  <1>2. ASSUME NEW p \in Proc, Resume(p) PROVE TypeOK'
    <2>1. PICK s \in Segment : Select(p, <<{s}, s>>)
      BY <1>2 DEF Resume
    <2>2. pc' = [pc EXCEPT ![p] = "load"]
      BY <1>2 DEF Resume
    <2>3. /\ selected' = [selected EXCEPT ![p] = {s}]
          /\ at' = [at EXCEPT ![p] = s]
      BY <2>1 DEF Select
    <2>4. pc' \in [Proc -> Phase] /\ selected' \in [Proc -> SUBSET Segment]
            /\ at' \in [Proc -> 0..N]
      BY <2>2, <2>3
    <2>5. \A q \in Proc : pc'[q] \in {"seed", "generate", "directory", "publish", "account"}
                             => at'[q] \in selected'[q]
      BY <2>2, <2>3
    <2>6. rng' \in [Proc -> Random] /\ total' \in [Proc -> Nat]
            /\ mine' \in [Proc -> SUBSET Segment]
      BY <2>1 DEF Select
    <2>7. UNCHANGED <<audio, output, occupied, duration, below, used>>
      BY <2>1 DEF Select
    <2> QED
      BY <2>4, <2>5, <2>6, <2>7
  <1>3. ASSUME NEW p \in Proc, Load(p) PROVE TypeOK'
    BY <1>3 DEF Load
  <1>4. ASSUME NEW p \in Proc, Seed(p) PROVE TypeOK'
    BY <1>4 DEF Seed
  <1>5. ASSUME NEW p \in Proc, Generate(p) PROVE TypeOK'
    BY <1>5 DEF Generate
  <1>6. ASSUME NEW p \in Proc, MakeDirectories(p) PROVE TypeOK'
    <2>1. occupied' \subseteq Segment
      <3>1. below \in [Segment -> SUBSET Segment] /\ at[p] \in Segment
        BY <1>6 DEF MakeDirectories
      <3>2. occupied' \subseteq occupied \cup below[at[p]]
        BY <1>6 DEF MakeDirectories
      <3> QED
        BY <3>1, <3>2
    <2>2. pc' \in [Proc -> Phase] /\ pc'[p] \in {"failed", "publish"}
            /\ \A q \in Proc \ {p} : pc'[q] = pc[q]
      BY <1>6 DEF MakeDirectories
    <2> QED
      BY <1>6, <2>1, <2>2 DEF MakeDirectories
  <1>7. ASSUME NEW p \in Proc, Publish(p) PROVE TypeOK'
    BY <1>7 DEF Publish
  <1>8. ASSUME NEW p \in Proc, PublishRefused(p) PROVE TypeOK'
    BY <1>8 DEF PublishRefused
  <1>9. ASSUME NEW p \in Proc, Account(p) PROVE TypeOK'
    <2>1. at[p] \in selected[p] /\ at[p] \in Segment /\ duration[at[p]] \in Nat
      BY <1>9 DEF Account, Continue
    <2>2. total' = [total EXCEPT ![p] = total[p] + duration[at[p]]]
      BY <1>9 DEF Account, Continue
    <2>3. total' \in [Proc -> Nat]
      BY <2>1, <2>2
    <2>4. /\ pc' \in [Proc -> Phase] /\ pc'[p] \in {"failed", "seed", "check"}
          /\ pc'[p] = "seed" => at[p] + 1 \in selected[p]
          /\ \A q \in Proc \ {p} : pc'[q] = pc[q]
      BY <1>9 DEF Account, Continue, MoreLeft
    <2>5. at' = [at EXCEPT ![p] = IF pc'[p] = "seed" THEN at[p] + 1 ELSE at[p]]
      BY <1>9 DEF Account
    <2>6. at' \in [Proc -> 0..N] /\ selected' = selected
      BY <1>9, <2>1, <2>4, <2>5 DEF Account, Continue
    <2>7. \A q \in Proc : pc'[q] \in {"seed", "generate", "directory", "publish", "account"}
                             => at'[q] \in selected'[q]
      BY <2>4, <2>5, <2>6
    <2> QED
      BY <1>9, <2>3, <2>4, <2>6, <2>7 DEF Account, Continue
  <1>10. ASSUME NEW p \in Proc, Report(p) PROVE TypeOK'
    BY <1>10 DEF Report
  <1>11. ASSUME NEW p \in Proc, Fault(p) PROVE TypeOK'
    <2>1. pc' = [pc EXCEPT ![p] = "failed"] /\ used' \in 0..MaxFaults
      BY <1>11 DEF Fault
    <2> QED
      BY <1>11, <2>1 DEF Fault
  <1>12. CASE UNCHANGED vars
    BY <1>12 DEF vars
  <1> QED
    BY <1>1, <1>2, <1>3, <1>4, <1>5, <1>6, <1>7, <1>8, <1>9, <1>10, <1>11, <1>12
       DEF Next, Step, Settled

\* Every step keeps to the order of the segments.
LEMMA OrderStep ==
    ASSUME TypeOK, Selecting, InOrder, [Next]_vars
    PROVE  Selecting' /\ InOrder'
  <1> USE RenderAssumption
      DEF TypeOK, Selecting, InOrder, Segment, MoreLeft, Goto
  <1>1. ASSUME NEW p \in Proc, Start(p) PROVE Selecting' /\ InOrder'
    BY <1>1 DEF Start, Selections, Select
  <1>2. ASSUME NEW p \in Proc, Resume(p) PROVE Selecting' /\ InOrder'
    BY <1>2 DEF Resume, Select
  <1>3. ASSUME NEW p \in Proc, Load(p) \/ Seed(p) \/ Generate(p) \/ MakeDirectories(p)
                                 \/ PublishRefused(p)
        PROVE  Selecting' /\ InOrder'
    BY <1>3 DEF Load, Seed, Generate, MakeDirectories, PublishRefused
  <1>4. ASSUME NEW p \in Proc, Publish(p) PROVE Selecting' /\ InOrder'
    BY <1>4 DEF Publish
  <1>5. ASSUME NEW p \in Proc, Account(p) PROVE Selecting' /\ InOrder'
    BY <1>5 DEF Account, Continue
  <1>6. ASSUME NEW p \in Proc, Report(p) \/ Fault(p) PROVE Selecting' /\ InOrder'
    BY <1>6 DEF Report, Fault, Running
  <1>7. CASE UNCHANGED vars
    BY <1>7 DEF vars
  <1> QED
    BY <1>1, <1>2, <1>3, <1>4, <1>5, <1>6, <1>7 DEF Next, Step, Settled

\* Every step that seeds, draws or publishes does so for the segment at hand.
LEMMA FreshStep ==
    ASSUME TypeOK, Selecting, Fresh, Reproducible, [Next]_vars
    PROVE  Fresh' /\ Reproducible'
  <1> USE DEF TypeOK, Selecting, Fresh, Reproducible, Published, Random, Nothing, Goto
  <1>1. ASSUME NEW p \in Proc, Start(p) \/ Resume(p) PROVE Fresh' /\ Reproducible'
    <2>1. pc' = [pc EXCEPT ![p] = "load"] /\ audio' = audio /\ output' = output
      BY <1>1 DEF Start, Resume, Select
    <2>2. \A q \in Proc \ {p} : rng'[q] = rng[q] /\ at'[q] = at[q]
      BY <1>1 DEF Start, Resume, Select
    <2> QED
      BY <2>1, <2>2
  <1>2. ASSUME NEW p \in Proc, Seed(p) PROVE Fresh' /\ Reproducible'
    BY <1>2 DEF Seed
  <1>3. ASSUME NEW p \in Proc, Generate(p) PROVE Fresh' /\ Reproducible'
    BY <1>3 DEF Generate
  <1>4. ASSUME NEW p \in Proc, MakeDirectories(p) PROVE Fresh' /\ Reproducible'
    BY <1>4 DEF MakeDirectories
  <1>5. ASSUME NEW p \in Proc, Publish(p) PROVE Fresh' /\ Reproducible'
    BY <1>5 DEF Publish
  <1>6. ASSUME NEW p \in Proc, Account(p) PROVE Fresh' /\ Reproducible'
    BY <1>6 DEF Account, Continue
  <1>7. ASSUME NEW p \in Proc, Load(p) \/ PublishRefused(p) \/ Report(p) \/ Fault(p)
        PROVE  Fresh' /\ Reproducible'
    BY <1>7 DEF Load, PublishRefused, Report, Fault, Running
  <1>8. CASE UNCHANGED vars
    BY <1>8 DEF vars
  <1> QED
    BY <1>1, <1>2, <1>3, <1>4, <1>5, <1>6, <1>7, <1>8 DEF Next, Step, Settled

\* Only a free name is published to, by one invocation.
LEMMA OwnerStep ==
    ASSUME TypeOK, Selecting, Fresh, Kept, OneOwner, [Next]_vars
    PROVE  Kept' /\ OneOwner'
  <1> USE RenderAssumption
      DEF TypeOK, Kept, OneOwner, Published, Segment, Nothing, Goto
  <1>1. ASSUME NEW p \in Proc, Start(p) \/ Resume(p) PROVE Kept' /\ OneOwner'
    <2>1. mine' = [mine EXCEPT ![p] = {}] /\ output' = output /\ occupied' = occupied
      BY <1>1 DEF Start, Resume, Select
    <2> QED
      BY <2>1
  <1>2. ASSUME NEW p \in Proc, MakeDirectories(p) PROVE Kept' /\ OneOwner'
    BY <1>2 DEF MakeDirectories
  <1>3. ASSUME NEW p \in Proc, Publish(p) PROVE Kept' /\ OneOwner'
    BY <1>3 DEF Publish, Selecting, Fresh
  <1>4. ASSUME NEW p \in Proc, Account(p) PROVE Kept' /\ OneOwner'
    BY <1>4 DEF Account, Continue
  <1>5. ASSUME NEW p \in Proc, Load(p) \/ Seed(p) \/ Generate(p) \/ PublishRefused(p)
                                 \/ Report(p) \/ Fault(p)
        PROVE  Kept' /\ OneOwner'
    BY <1>5 DEF Load, Seed, Generate, PublishRefused, Report, Fault
  <1>6. CASE UNCHANGED vars
    BY <1>6 DEF vars
  <1> QED
    BY <1>1, <1>2, <1>3, <1>4, <1>5, <1>6 DEF Next, Step, Settled

\* The invariant holds throughout every behaviour.
LEMMA Invariance == Spec => []IInv
  <1>1. IInv /\ [Next]_vars => IInv'
    BY TypeStep, OrderStep, FreshStep, OwnerStep DEF IInv
  <1> QED
    BY InitHolds, <1>1, PTL DEF Spec

\* Every reachable state is well typed.
THEOREM TypeCorrect == Spec => []TypeOK
  <1>1. IInv => TypeOK
    BY DEF IInv
  <1> QED
    BY Invariance, <1>1, PTL

\* Every output is generated from a fresh seed of its own, whatever was
\* rendered before it, by whom, and whatever failed.
THEOREM EachItsOwnSeed == Spec => []Reproducible
  <1>1. IInv => Reproducible
    BY DEF IInv
  <1> QED
    BY Invariance, <1>1, PTL

\* No two runs ever claim one output, and no file stands where a directory
\* does.
THEOREM RivalsApart == Spec => []OneOwner
  <1>1. IInv => OneOwner
    BY DEF IInv
  <1> QED
    BY Invariance, <1>1, PTL

-----------------------------------------------------------------------------
\* Sums over finite sets

\* The sum of d over S, as OkOwnsAll and PrefixPublished take it.
Sum(d, S) == MapThenSumSet(LAMBDA s : d[s], S)

Some(s) == CHOOSE x \in s : TRUE

\* f adds up d over each subset of S.
Adds(f, d, S) ==
    f = [s \in SUBSET S |-> IF s = {} THEN 0 ELSE d[Some(s)] + f[s \ {Some(s)}]]

\* The sum is what a function that adds up makes of the whole set.
LEMMA SumUnfolds ==
    ASSUME NEW d, NEW S
    PROVE  Sum(d, S) = (CHOOSE f : Adds(f, d, S))[S]
  BY DEF Sum, MapThenSumSet, MapThenFoldSet, Adds, Some

\* A set of natural numbers that is not empty has a least element.
LEMMA LeastOf ==
    ASSUME NEW T \in SUBSET Nat, T # {}
    PROVE  \E m \in T : \A y \in T : m <= y
  <1>1. PICK m \in T : \A y \in T : ~(<<y, m>> \in OpToRel(<, Nat))
    BY NatLessThanWellFounded, WFMin
  <1>2. ASSUME NEW y \in T PROVE m <= y
    <2>1. y \in Nat /\ m \in Nat /\ ~(y < m)
      BY <1>1 DEF OpToRel
    <2> QED
      BY <2>1
  <1> QED
    BY <1>2

\* What is taken out of a set that is not empty was in it.
LEMMA SomeOf ==
    ASSUME NEW S, IsFiniteSet(S), NEW X \in SUBSET S, X # {}
    PROVE  /\ Some(X) \in X /\ X \ {Some(X)} \in SUBSET S
           /\ Cardinality(X) \in Nat /\ Cardinality(X \ {Some(X)}) = Cardinality(X) - 1
  <1>1. IsFiniteSet(X)
    BY FS_Subset
  <1>2. Some(X) \in X
    BY DEF Some
  <1> QED
    BY <1>1, <1>2, FS_RemoveElement, FS_CardinalityType

\* Functions that add up agree on what they have in common.
LEMMA AddsUnique ==
    ASSUME NEW d, NEW S, NEW T, IsFiniteSet(S), IsFiniteSet(T),
           NEW f, NEW g, Adds(f, d, S), Adds(g, d, T),
           NEW X \in SUBSET (S \cap T)
    PROVE  f[X] = g[X]
  <1> DEFINE Bad == {x \in SUBSET (S \cap T) : f[x] # g[x]}
             Sizes == {Cardinality(x) : x \in Bad}
  <1>1. \A x \in SUBSET (S \cap T) : IsFiniteSet(x) /\ Cardinality(x) \in Nat
    BY FS_Subset, FS_CardinalityType
  <1>2. ASSUME Bad # {} PROVE FALSE
    <2>1. Sizes \in SUBSET Nat /\ Sizes # {}
      BY <1>1, <1>2
    <2>2. PICK m \in Sizes : \A y \in Sizes : m <= y
      <3> HIDE DEF Sizes
      <3> QED
        BY <2>1, LeastOf
    <2>3. PICK Y \in Bad : m = Cardinality(Y)
      BY <2>2
    <2>4. Y \in SUBSET S /\ Y \in SUBSET T /\ f[Y] # g[Y] /\ Cardinality(Y) \in Nat
      BY <1>1, <2>3
    <2>5. Y # {}
      BY <2>4 DEF Adds
    <2>6. /\ Y \ {Some(Y)} \in SUBSET S /\ Y \ {Some(Y)} \in SUBSET T
          /\ Cardinality(Y \ {Some(Y)}) = Cardinality(Y) - 1
      BY <2>4, <2>5, SomeOf
    <2>7. f[Y \ {Some(Y)}] = g[Y \ {Some(Y)}]
      <3>1. ASSUME f[Y \ {Some(Y)}] # g[Y \ {Some(Y)}] PROVE FALSE
        <4>1. Y \ {Some(Y)} \in Bad
          BY <2>6, <3>1
        <4>2. Cardinality(Y \ {Some(Y)}) \in Sizes
          BY <4>1
        <4> HIDE DEF Sizes, Bad
        <4> QED
          BY <2>2, <2>3, <2>4, <2>6, <4>2
      <3> QED
        BY <3>1
    <2>8. /\ f[Y] = d[Some(Y)] + f[Y \ {Some(Y)}]
          /\ g[Y] = d[Some(Y)] + g[Y \ {Some(Y)}]
      BY <2>4, <2>5 DEF Adds
    <2> QED
      BY <2>4, <2>7, <2>8
  <1> QED
    BY <1>2

\* f adds up d over the subsets of S of at most k elements.
AddsUpTo(f, d, S, k) ==
    /\ DOMAIN f = {X \in SUBSET S : Cardinality(X) <= k}
    /\ f = [X \in DOMAIN f |-> IF X = {} THEN 0 ELSE d[Some(X)] + f[X \ {Some(X)}]]

\* Over the subsets of any finite set, some function adds up.
LEMMA AddsExists ==
    ASSUME NEW d, NEW S, IsFiniteSet(S)
    PROVE  \E f : Adds(f, d, S)
  <1> DEFINE Bad == {k \in Nat : ~ \E f : AddsUpTo(f, d, S, k)}
             Upto(k) == {X \in SUBSET S : Cardinality(X) <= k}
  <1>1. \A X \in SUBSET S : /\ IsFiniteSet(X) /\ Cardinality(X) \in Nat
                            /\ Cardinality(X) = 0 <=> X = {}
                            /\ Cardinality(X) <= Cardinality(S)
    BY FS_Subset, FS_CardinalityType, FS_EmptySet
  <1>2. ASSUME Bad # {} PROVE FALSE
    <2>1. PICK m \in Bad : \A y \in Bad : m <= y
      <3>1. Bad \in SUBSET Nat
        OBVIOUS
      <3> HIDE DEF Bad
      <3> QED
        BY <1>2, <3>1, LeastOf
    <2>2. m \in Nat /\ ~ \E f : AddsUpTo(f, d, S, m)
      BY <2>1
    <2>3. CASE m = 0
      <3> DEFINE f == [X \in Upto(0) |-> 0]
      <3>1. \A X \in Upto(0) : X = {}
        BY <1>1
      <3>2. AddsUpTo(f, d, S, 0)
        BY <3>1 DEF AddsUpTo
      <3> QED
        BY <2>2, <2>3, <3>2
    <2>4. CASE m # 0
      <3>1. m - 1 \in Nat /\ m - 1 \notin Bad
        <4>1. m - 1 \in Nat /\ ~(m <= m - 1)
          BY <2>2, <2>4
        <4> HIDE DEF Bad
        <4> QED
          BY <2>1, <4>1
      <3>2. PICK g : AddsUpTo(g, d, S, m - 1)
        BY <3>1
      <3> DEFINE f == [X \in Upto(m) |-> IF X = {} THEN 0 ELSE d[Some(X)] + g[X \ {Some(X)}]]
      <3>3. ASSUME NEW X \in Upto(m), X # {}
            PROVE  f[X \ {Some(X)}] = g[X \ {Some(X)}]
        <4> DEFINE Y == X \ {Some(X)}
        <4>1. Y \in SUBSET S /\ Cardinality(Y) = Cardinality(X) - 1
          BY <3>3, SomeOf
        <4>2. Cardinality(X) \in Nat /\ Cardinality(X) <= m
          BY <1>1
        <4>3. Cardinality(Y) <= m - 1 /\ Cardinality(Y) <= m
          BY <2>2, <4>1, <4>2
        <4> HIDE DEF Y
        <4>4. Y \in Upto(m) /\ Y \in Upto(m - 1)
          BY <4>1, <4>3
        <4>5. f[Y] = IF Y = {} THEN 0 ELSE d[Some(Y)] + g[Y \ {Some(Y)}]
          BY <4>4
        <4>6. g[Y] = IF Y = {} THEN 0 ELSE d[Some(Y)] + g[Y \ {Some(Y)}]
          BY <3>2, <4>4 DEF AddsUpTo
        <4>7. f[Y] = g[Y]
          BY <4>5, <4>6
        <4> QED
          BY <4>7 DEF Y
      <3>4. \A X \in Upto(m) : f[X] = IF X = {} THEN 0 ELSE d[Some(X)] + f[X \ {Some(X)}]
        BY <3>3
      <3>5. AddsUpTo(f, d, S, m)
        BY <3>4 DEF AddsUpTo
      <3> QED
        BY <2>2, <3>5
    <2> QED
      BY <2>3, <2>4
  <1>3. Cardinality(S) \in Nat
    BY FS_CardinalityType
  <1>4. PICK f : AddsUpTo(f, d, S, Cardinality(S))
    BY <1>2, <1>3
  <1>5. DOMAIN f = SUBSET S
    BY <1>1, <1>4 DEF AddsUpTo
  <1>6. Adds(f, d, S)
    BY <1>4, <1>5 DEF AddsUpTo, Adds
  <1> QED
    BY <1>6

\* A function that adds up may take any element first.
LEMMA AddsAny ==
    ASSUME NEW S, IsFiniteSet(S), NEW d \in [S -> Nat], NEW f, Adds(f, d, S),
           NEW X \in SUBSET S, NEW x \in S \ X
    PROVE  f[X] \in Nat /\ f[X \cup {x}] = f[X] + d[x]
  <1> DEFINE Fails(Y) == f[Y] \notin Nat \/ \E y \in S \ Y : f[Y \cup {y}] # f[Y] + d[y]
             Bad == {Y \in SUBSET S : Fails(Y)}
             Sizes == {Cardinality(Y) : Y \in Bad}
  <1>1. \A Y \in SUBSET S : IsFiniteSet(Y) /\ Cardinality(Y) \in Nat
    BY FS_Subset, FS_CardinalityType
  <1>2. f[{}] = 0
    BY DEF Adds
  <1>3. ASSUME NEW Y \in SUBSET S, Y # {}
        PROVE  f[Y] = d[Some(Y)] + f[Y \ {Some(Y)}]
    BY <1>3 DEF Adds
  <1>4. ASSUME Bad # {} PROVE FALSE
    <2>1. Sizes \in SUBSET Nat /\ Sizes # {}
      BY <1>1, <1>4
    <2>2. PICK m \in Sizes : \A z \in Sizes : m <= z
      <3> HIDE DEF Sizes
      <3> QED
        BY <2>1, LeastOf
    <2>3. PICK Y \in SUBSET S : Fails(Y) /\ m = Cardinality(Y)
      BY <2>2
    <2>4. ASSUME NEW Z \in SUBSET S, Cardinality(Z) < Cardinality(Y)
          PROVE  f[Z] \in Nat /\ \A z \in S \ Z : f[Z \cup {z}] = f[Z] + d[z]
      <3>1. ASSUME Fails(Z) PROVE FALSE
        <4>1. Cardinality(Z) \in Sizes
          BY <3>1
        <4>2. Cardinality(Z) \in Nat /\ Cardinality(Y) \in Nat
          BY <1>1
        <4> HIDE DEF Sizes
        <4> QED
          BY <2>2, <2>3, <2>4, <4>1, <4>2
      <3> QED
        BY <3>1
    <2>5. f[Y] \in Nat
      <3>1. CASE Y = {}
        BY <1>2, <3>1
      <3>2. CASE Y # {}
        <4>1. /\ Some(Y) \in Y /\ Y \ {Some(Y)} \in SUBSET S
              /\ Cardinality(Y) \in Nat
              /\ Cardinality(Y \ {Some(Y)}) = Cardinality(Y) - 1
          BY <3>2, SomeOf
        <4>2. Cardinality(Y \ {Some(Y)}) < Cardinality(Y)
          BY <4>1
        <4>3. f[Y \ {Some(Y)}] \in Nat
          BY <2>4, <4>1, <4>2
        <4>4. d[Some(Y)] \in Nat
          BY <4>1
        <4>5. f[Y] = d[Some(Y)] + f[Y \ {Some(Y)}]
          BY <1>3, <3>2
        <4> QED
          BY <4>3, <4>4, <4>5
      <3> QED
        BY <3>1, <3>2
    <2>6. ASSUME NEW y \in S \ Y PROVE f[Y \cup {y}] = f[Y] + d[y]
      <3>1. PICK W \in SUBSET S : W = Y \cup {y} /\ W # {}
        <4>1. Y \cup {y} \in SUBSET S /\ Y \cup {y} # {}
          OBVIOUS
        <4> QED
          BY <4>1
      <3>2. PICK c \in W : f[W] = d[c] + f[W \ {c}]
        <4>1. Some(W) \in W
          BY <3>1 DEF Some
        <4>2. f[W] = d[Some(W)] + f[W \ {Some(W)}]
          BY <1>3, <3>1
        <4> QED
          BY <4>1, <4>2
      <3>3. CASE c = y
        <4>1. W \ {c} = Y
          BY <3>1, <3>3
        <4>2. d[y] \in Nat
          OBVIOUS
        <4> QED
          BY <2>5, <3>1, <3>2, <3>3, <4>1, <4>2
      <3>4. CASE c # y
        <4>1. c \in Y
          BY <3>1, <3>4
        <4>2. PICK Z \in SUBSET S :
                /\ Z = Y \ {c} /\ c \in S \ Z /\ y \in S \ Z /\ Y = Z \cup {c}
                /\ W \ {c} = Z \cup {y}
          <5>1. /\ Y \ {c} \in SUBSET S /\ c \in S \ (Y \ {c}) /\ y \in S \ (Y \ {c})
                /\ Y = (Y \ {c}) \cup {c}
            BY <4>1
          <5>2. W \ {c} = (Y \ {c}) \cup {y}
            BY <3>1, <3>4
          <5> QED
            BY <5>1, <5>2
        <4>3. Cardinality(Z) < Cardinality(Y)
          <5>1. IsFiniteSet(Y) /\ Cardinality(Y) \in Nat
            BY <1>1
          <5>2. Cardinality(Y \ {c}) = Cardinality(Y) - 1
            BY <4>1, <5>1, FS_RemoveElement
          <5> QED
            BY <4>2, <5>1, <5>2
        <4>4. f[Z] \in Nat /\ f[Z \cup {c}] = f[Z] + d[c] /\ f[Z \cup {y}] = f[Z] + d[y]
          BY <2>4, <4>2, <4>3
        <4>5. d[c] \in Nat /\ d[y] \in Nat
          BY <4>2
        <4>6. f[W] = d[c] + (f[Z] + d[y])
          BY <3>2, <4>2, <4>4
        <4>7. f[Y] = f[Z] + d[c]
          BY <4>2, <4>4
        <4>8. f[W] = f[Y] + d[y]
          BY <4>4, <4>5, <4>6, <4>7
        <4> QED
          BY <3>1, <4>8
      <3> QED
        BY <3>3, <3>4
    <2> QED
      BY <2>3, <2>5, <2>6
  <1>5. ~Fails(X)
    BY <1>4
  <1> HIDE DEF Bad, Sizes
  <1> QED
    BY <1>5

\* The sum over a set is that over all of it but one, and that one.
LEMMA SumAdds ==
    ASSUME NEW S, IsFiniteSet(S), NEW d \in [S -> Nat], NEW X \in SUBSET S
    PROVE  /\ Sum(d, X) \in Nat
           /\ \A x \in S \ X : Sum(d, X \cup {x}) = Sum(d, X) + d[x]
  <1>1. PICK f : Adds(f, d, S)
    BY AddsExists
  <1>2. ASSUME NEW Y \in SUBSET S PROVE Sum(d, Y) = f[Y]
    <2>1. IsFiniteSet(Y)
      BY FS_Subset
    <2>2. \E g : Adds(g, d, Y)
      BY <2>1, AddsExists
    <2> DEFINE g == CHOOSE g : Adds(g, d, Y)
    <2>3. Adds(g, d, Y)
      BY <2>2
    <2> HIDE DEF g
    <2>4. Y \in SUBSET (Y \cap S)
      OBVIOUS
    <2>5. g[Y] = f[Y]
      BY <1>1, <2>1, <2>3, <2>4, AddsUnique
    <2> QED
      BY <2>5, SumUnfolds DEF g
  <1>3. ASSUME NEW x \in S \ X PROVE Sum(d, X \cup {x}) = Sum(d, X) + d[x]
    <2>1. f[X \cup {x}] = f[X] + d[x]
      BY <1>1, AddsAny
    <2>2. X \cup {x} \in SUBSET S
      OBVIOUS
    <2> QED
      BY <1>2, <2>1, <2>2
  <1>4. f[X] \in Nat
    <2>1. CASE X = {}
      BY <1>1, <2>1 DEF Adds
    <2>2. CASE X # {}
      <3>1. PICK x \in X : TRUE
        BY <2>2
      <3>2. PICK Y \in SUBSET S : Y = X \ {x} /\ x \in S \ Y /\ X = Y \cup {x}
        <4>1. X \ {x} \in SUBSET S /\ x \in S \ (X \ {x}) /\ X = (X \ {x}) \cup {x}
          BY <3>1
        <4> QED
          BY <4>1
      <3>3. f[Y] \in Nat /\ f[Y \cup {x}] = f[Y] + d[x]
        BY <1>1, <3>2, AddsAny
      <3>4. d[x] \in Nat
        BY <3>2
      <3>5. f[Y \cup {x}] \in Nat
        BY <3>3, <3>4
      <3> QED
        BY <3>2, <3>5
    <2> QED
      BY <2>1, <2>2
  <1> QED
    BY <1>2, <1>3, <1>4

\* Nothing adds up to nothing.
LEMMA SumOfNone ==
    ASSUME NEW d
    PROVE  Sum(d, {}) = 0
  <1>1. \E f : Adds(f, d, {})
    BY AddsExists, FS_EmptySet
  <1>2. Adds(CHOOSE f : Adds(f, d, {}), d, {})
    BY <1>1
  <1>3. (CHOOSE f : Adds(f, d, {}))[{}] = 0
    <2> DEFINE g == CHOOSE f : Adds(f, d, {})
    <2>1. Adds(g, d, {})
      BY <1>2
    <2> HIDE DEF g
    <2>2. g[{}] = 0
      BY <2>1 DEF Adds
    <2> QED
      BY <2>2 DEF g
  <1> QED
    BY <1>3, SumUnfolds

-----------------------------------------------------------------------------
\* The sums of the durations

\* What a run has added up, where it is: before the limit was compared, all
\* it published but the segment at hand, and otherwise all of it.
Tally(step, segment, sum, published, d) ==
    /\ Sum(d, published) <= ManifestLimit + SegmentLimit
    /\ step \in {"load", "seed", "generate", "directory", "publish", "check", "ok"} =>
          sum = Sum(d, published) /\ sum <= ManifestLimit
    /\ step = "account" =>
          sum + d[segment] = Sum(d, published) /\ sum <= ManifestLimit
    /\ step \in {"directory", "publish", "account"} => d[segment] <= SegmentLimit

Totalled ==
    \A p \in Proc : pc[p] # "idle" => Tally(pc[p], at[p], total[p], mine[p], duration)

\* A set of segments has a sum, which grows by what is added to the set.
LEMMA SumOfSegments ==
    ASSUME TypeOK, NEW X \in SUBSET Segment
    PROVE  /\ Sum(duration, X) \in Nat
           /\ \A s \in Segment \ X : Sum(duration, X \cup {s}) = Sum(duration, X) + duration[s]
  <1>1. IsFiniteSet(Segment)
    BY RenderAssumption, FS_Interval DEF Segment
  <1>2. duration \in [Segment -> Nat]
    BY RenderAssumption DEF TypeOK
  <1> QED
    BY <1>1, <1>2, SumAdds

\* A run that begins has nothing to add up.
LEMMA BeginTally ==
    ASSUME TypeOK, NEW p \in Proc, Start(p) \/ Resume(p)
    PROVE  /\ Tally(pc'[p], at'[p], total'[p], mine'[p], duration')
           /\ duration' = duration
           /\ \A q \in Proc \ {p} : /\ pc'[q] = pc[q] /\ at'[q] = at[q]
                                    /\ total'[q] = total[q] /\ mine'[q] = mine[q]
  <1>1. /\ pc' = [pc EXCEPT ![p] = "load"] /\ total' = [total EXCEPT ![p] = 0]
        /\ mine' = [mine EXCEPT ![p] = {}] /\ duration' = duration
        /\ \E s : at' = [at EXCEPT ![p] = s]
    BY DEF Start, Resume, Select, Goto
  <1>2. pc'[p] = "load" /\ total'[p] = 0 /\ mine'[p] = {}
    BY <1>1 DEF TypeOK
  <1>3. Sum(duration', {}) = 0
    BY SumOfNone
  <1>4. Tally(pc'[p], at'[p], total'[p], mine'[p], duration')
    BY <1>2, <1>3, RenderAssumption DEF Tally
  <1> QED
    BY <1>1, <1>4 DEF TypeOK

\* What is published is added when the limit is compared.
LEMMA StepTally ==
    ASSUME TypeOK, Selecting, Kept, Totalled, NEW p \in Proc, Step(p) \/ Fault(p)
    PROVE  /\ pc[p] # "idle"
           /\ Tally(pc'[p], at'[p], total'[p], mine'[p], duration')
           /\ duration' = duration
           /\ \A q \in Proc \ {p} : /\ pc'[q] = pc[q] /\ at'[q] = at[q]
                                    /\ total'[q] = total[q] /\ mine'[q] = mine[q]
  <1>1. pc[p] # "idle"
    BY DEF Step, Fault, Running, Load, Seed, Generate, MakeDirectories, Publish,
           PublishRefused, Account, Continue, Report, Goto
  <1>2. /\ Tally(pc[p], at[p], total[p], mine[p], duration)
        /\ at[p] \in Segment /\ total[p] \in Nat /\ mine[p] \in SUBSET Segment
        /\ duration[at[p]] \in Nat /\ Sum(duration, mine[p]) \in Nat
    <2>1. Tally(pc[p], at[p], total[p], mine[p], duration)
      BY <1>1 DEF Totalled
    <2>2. at[p] \in Segment /\ total[p] \in Nat /\ mine[p] \in SUBSET Segment
      BY <1>1 DEF Selecting, TypeOK
    <2>3. duration[at[p]] \in Nat
      BY <2>2, RenderAssumption DEF TypeOK
    <2> QED
      BY <2>1, <2>2, <2>3, SumOfSegments
  <1>3. ManifestLimit \in Nat /\ SegmentLimit \in Nat
    BY RenderAssumption
  <1>4. ASSUME NEW to, pc' = [pc EXCEPT ![p] = to],
               UNCHANGED <<at, total, mine, duration>>,
               \/ pc[p] \in {"load", "seed"} /\ to \in {"seed", "generate"}
               \/ pc[p] = "generate" /\ to = "directory" /\ duration[at[p]] <= SegmentLimit
               \/ pc[p] = "directory" /\ to = "publish"
               \/ pc[p] = "check" /\ to = "ok"
               \/ to = "failed"
        PROVE  /\ Tally(pc'[p], at'[p], total'[p], mine'[p], duration')
               /\ duration' = duration
               /\ \A q \in Proc \ {p} : /\ pc'[q] = pc[q] /\ at'[q] = at[q]
                                        /\ total'[q] = total[q] /\ mine'[q] = mine[q]
    <2>1. pc'[p] = to /\ \A q \in Proc \ {p} : pc'[q] = pc[q]
      BY <1>4 DEF TypeOK
    <2>2. Tally(to, at[p], total[p], mine[p], duration)
      BY <1>2, <1>4 DEF Tally
    <2> QED
      BY <1>4, <2>1, <2>2
  <1>5. CASE Load(p) \/ Seed(p)
    <2>1. pc[p] \in {"load", "seed"} /\ UNCHANGED <<at, total, mine, duration>>
          /\ \E to \in {"seed", "generate"} : pc' = [pc EXCEPT ![p] = to]
      BY <1>5 DEF Load, Seed, Goto
    <2> QED
      BY <1>1, <1>4, <2>1
  <1>6. CASE Generate(p)
    <2>1. pc[p] = "generate" /\ UNCHANGED <<at, total, mine, duration>>
          /\ \/ duration[at[p]] > SegmentLimit /\ pc' = [pc EXCEPT ![p] = "failed"]
             \/ ~(duration[at[p]] > SegmentLimit) /\ pc' = [pc EXCEPT ![p] = "directory"]
      BY <1>6 DEF Generate, Goto
    <2>2. ~(duration[at[p]] > SegmentLimit) => duration[at[p]] <= SegmentLimit
      BY <1>2, <1>3
    <2> QED
      BY <1>1, <1>4, <2>1, <2>2
  <1>7. CASE MakeDirectories(p) \/ PublishRefused(p) \/ Report(p) \/ Fault(p)
    <2>1. /\ UNCHANGED <<at, total, mine, duration>>
          /\ \/ pc' = [pc EXCEPT ![p] = "failed"]
             \/ pc[p] = "directory" /\ pc' = [pc EXCEPT ![p] = "publish"]
             \/ pc[p] = "check" /\ pc' = [pc EXCEPT ![p] = "ok"]
      BY <1>7 DEF MakeDirectories, PublishRefused, Report, Fault, Goto
    <2> QED
      BY <1>1, <1>4, <2>1
  <1>8. CASE Publish(p)
    <2>1. /\ pc[p] = "publish" /\ pc' = [pc EXCEPT ![p] = "account"]
          /\ mine' = [mine EXCEPT ![p] = mine[p] \cup {at[p]}]
          /\ ~Published(at[p]) /\ UNCHANGED <<at, total, duration>>
      BY <1>8 DEF Publish, Goto
    <2>2. /\ pc'[p] = "account" /\ mine'[p] = mine[p] \cup {at[p]}
          /\ \A q \in Proc \ {p} : pc'[q] = pc[q] /\ mine'[q] = mine[q]
      BY <2>1 DEF TypeOK
    <2>3. at[p] \notin mine[p]
      BY <2>1 DEF Kept
    <2>4. Sum(duration, mine[p] \cup {at[p]}) = Sum(duration, mine[p]) + duration[at[p]]
      BY <1>2, <2>3, SumOfSegments
    <2>5. /\ total[p] = Sum(duration, mine[p]) /\ total[p] <= ManifestLimit
          /\ duration[at[p]] <= SegmentLimit
      BY <1>2, <2>1 DEF Tally
    <2>6. Tally("account", at[p], total[p], mine[p] \cup {at[p]}, duration)
      BY <1>2, <1>3, <2>4, <2>5 DEF Tally
    <2> QED
      BY <1>1, <2>1, <2>2, <2>6
  <1>9. CASE Account(p)
    <2>1. PICK to \in {"failed", "seed", "check"} :
            /\ pc' = [pc EXCEPT ![p] = to] /\ at' = [at EXCEPT ![p] = at'[p]]
            /\ to # "failed" => ~(total[p] + duration[at[p]] > ManifestLimit)
      BY <1>9 DEF Account, Continue
    <2>2. /\ pc[p] = "account" /\ total' = [total EXCEPT ![p] = total[p] + duration[at[p]]]
          /\ UNCHANGED <<mine, duration>>
      BY <1>9 DEF Account, Continue
    <2>3. /\ pc'[p] = to /\ total'[p] = total[p] + duration[at[p]]
          /\ \A q \in Proc \ {p} : pc'[q] = pc[q] /\ at'[q] = at[q] /\ total'[q] = total[q]
      BY <2>1, <2>2 DEF TypeOK
    <2>4. /\ total[p] + duration[at[p]] = Sum(duration, mine[p])
          /\ Sum(duration, mine[p]) <= ManifestLimit + SegmentLimit
      BY <1>2, <2>2 DEF Tally
    <2>5. to # "failed" => total[p] + duration[at[p]] <= ManifestLimit
      BY <1>2, <1>3, <2>1
    <2>6. Tally(to, at'[p], total[p] + duration[at[p]], mine[p], duration)
      BY <2>1, <2>4, <2>5 DEF Tally
    <2> QED
      BY <1>1, <2>2, <2>3, <2>6
  <1> QED
    BY <1>5, <1>6, <1>7, <1>8, <1>9 DEF Step

\* Every step keeps the sums.
LEMMA TotalStep ==
    ASSUME TypeOK, Selecting, Kept, Totalled, [Next]_vars
    PROVE  Totalled'
  <1>1. ASSUME NEW p \in Proc, Start(p) \/ Resume(p) \/ Step(p) \/ Fault(p)
        PROVE  Totalled'
    <2>1. /\ Tally(pc'[p], at'[p], total'[p], mine'[p], duration')
          /\ duration' = duration
          /\ \A q \in Proc \ {p} : /\ pc'[q] = pc[q] /\ at'[q] = at[q]
                                   /\ total'[q] = total[q] /\ mine'[q] = mine[q]
      BY <1>1, BeginTally, StepTally
    <2>2. ASSUME NEW q \in Proc \ {p}, pc'[q] # "idle"
          PROVE  Tally(pc'[q], at'[q], total'[q], mine'[q], duration')
      <3>1. Tally(pc[q], at[q], total[q], mine[q], duration)
        BY <2>1, <2>2 DEF Totalled
      <3> QED
        BY <2>1, <3>1
    <2> QED
      BY <2>1, <2>2 DEF Totalled
  <1>2. CASE UNCHANGED vars
    BY <1>2 DEF vars, Totalled
  <1> QED
    BY <1>1, <1>2 DEF Next, Settled

\* The sums are those of what was published, throughout.
LEMMA TotalInvariance == Spec => []Totalled
  <1>1. Init => Totalled
    BY DEF Init, Totalled
  <1>2. IInv /\ Totalled /\ [Next]_vars => Totalled'
    BY TotalStep DEF IInv
  <1> QED
    BY Invariance, <1>1, <1>2, PTL DEF Spec

\* A run that succeeds has something to divide by.
Divisible == \A p \in Proc : pc[p] = "ok" => total[p] > 0

\* Only Report makes a run succeed, and not on a sum of nothing.
LEMMA DivisibleStep ==
    ASSUME TypeOK, Divisible, [Next]_vars
    PROVE  Divisible'
  <1>1. ASSUME NEW p \in Proc, Start(p) \/ Resume(p) \/ Step(p) \/ Fault(p)
        PROVE  Divisible'
    <2>1. ASSUME NEW q \in Proc \ {p}
          PROVE  pc'[q] = pc[q] /\ total'[q] = total[q]
      BY <1>1, <2>1 DEF Start, Resume, Step, Fault, Select, Load, Seed, Generate, MakeDirectories,
                       Publish, PublishRefused, Account, Report, Continue, Goto, TypeOK
    <2>2. ASSUME pc'[p] = "ok"
          PROVE  total'[p] > 0
      <3>1. CASE Report(p)
        BY <2>2, <3>1 DEF Report, Goto, TypeOK
      <3>2. CASE ~Report(p)
        BY <1>1, <2>2, <3>2 DEF Start, Resume, Step, Fault, Load, Seed, Generate,
             MakeDirectories, Publish, PublishRefused, Account, Continue, Goto, TypeOK
      <3> QED
        BY <3>1, <3>2
    <2> QED
      BY <2>1, <2>2 DEF Divisible
  <1>2. CASE UNCHANGED vars
    BY <1>2 DEF vars, Divisible
  <1> QED
    BY <1>1, <1>2 DEF Next, Settled

\* A run that succeeds published every segment it selected, itself, for any
\* number of segments and rivals; its receipt gives the sum of their durations,
\* which is within the limit and not zero (render_manifest, lines 834-870).
THEOREM SuccessOwnsSelected == Spec => []OkOwnsAll
  <1>1. IInv => \A p \in Proc : pc[p] = "ok" => mine[p] = selected[p]
    <2> SUFFICES ASSUME IInv, NEW p \in Proc, pc[p] = "ok"
                 PROVE  mine[p] = selected[p]
      OBVIOUS
    <2>1. \A s \in selected[p] : s <= at[p]
      BY RenderAssumption DEF IInv, Selecting, InOrder, MoreLeft, Segment
    <2>2. \A s \in selected[p] : s \in mine[p]
      BY <2>1, RenderAssumption DEF IInv, TypeOK, Selecting, InOrder, Segment
    <2> QED
      BY <2>2 DEF IInv, InOrder
  <1>2. Totalled => \A p \in Proc : pc[p] = "ok" =>
                       total[p] = Sum(duration, mine[p]) /\ total[p] <= ManifestLimit
    BY DEF Totalled, Tally
  <1>3. IInv /\ Totalled => \A p \in Proc : pc[p] = "ok" =>
                               /\ mine[p] = selected[p]
                               /\ total[p] = Sum(duration, selected[p])
                               /\ total[p] <= ManifestLimit
    BY <1>1, <1>2
  <1>4. IInv /\ Totalled /\ Divisible => OkOwnsAll
    BY <1>3 DEF OkOwnsAll, Sum, Divisible
  <1>5. Init => Divisible
    BY DEF Init, Divisible
  <1>6. IInv /\ Divisible /\ [Next]_vars => Divisible'
    BY DivisibleStep DEF IInv
  <1>7. Spec => []Divisible
    BY Invariance, <1>5, <1>6, PTL DEF Spec
  <1> QED
    BY Invariance, TotalInvariance, <1>4, <1>7, PTL

\* A run has published the selected segments in order up to where it is and no
\* other, and no more than a segment beyond the limit, wherever it failed.
THEOREM PrefixesPublished == Spec => []PrefixPublished
  <1>1. IInv => \A p \in Proc : pc[p] # "idle" =>
                   /\ mine[p] \subseteq {s \in selected[p] : s <= at[p] /\ Published(s)}
                   /\ {s \in selected[p] : s < at[p]} \subseteq mine[p]
    BY DEF IInv, InOrder, Kept
  <1>2. Totalled => \A p \in Proc : pc[p] # "idle" =>
                       Sum(duration, mine[p]) <= ManifestLimit + SegmentLimit
    BY DEF Totalled, Tally
  <1>3. IInv /\ Totalled => PrefixPublished
    <2> HIDE DEF IInv, Totalled
    <2>1. IInv /\ Totalled => \A p \in Proc : pc[p] # "idle" =>
            /\ mine[p] \subseteq {s \in selected[p] : s <= at[p] /\ Published(s)}
            /\ {s \in selected[p] : s < at[p]} \subseteq mine[p]
            /\ Sum(duration, mine[p]) <= ManifestLimit + SegmentLimit
      BY <1>1, <1>2
    <2> QED
      BY <2>1 DEF PrefixPublished, Sum
  <1> QED
    BY Invariance, TotalInvariance, <1>3, PTL
=============================================================================

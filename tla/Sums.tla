-------------------------------- MODULE Sums --------------------------------
(***************************************************************************)
(* Sums over finite sets, SumFunctionOnSet of the community modules: the   *)
(* facts the proofs about money and quota need.  The recursive function    *)
(* behind it is shown to exist by induction over the subsets of a finite   *)
(* set, which are well-founded.                                            *)
(***************************************************************************)
EXTENDS Functions, FiniteSetTheorems, TLAPS

Some(s) == CHOOSE x \in s : TRUE

\* g is the recursive function by which the sum of f over S is defined.
SumsUp(g, f, S) ==
    g = [s \in SUBSET S |-> IF s = {} THEN 0 ELSE f[Some(s)] + g[s \ {Some(s)}]]

\* What holds of a finite set if it holds of all its strict subsets holds of every
\* finite set; Good names the subsets of which it holds.
LEMMA SubsetInduction ==
    ASSUME NEW S, IsFiniteSet(S), NEW Good,
           \A s \in SUBSET S : (\A t \in SUBSET s : t # s => t \in Good) => s \in Good
    PROVE  SUBSET S \subseteq Good
<1> DEFINE Bad == (SUBSET S) \ Good
<1>1. SUFFICES ASSUME Bad # {} PROVE FALSE
    OBVIOUS
<1>2. IsWellFoundedOn(StrictSubsetOrdering(S), SUBSET S)
    BY FS_StrictSubsetOrderingWellFounded, FS_FiniteSubsetsOfFinite
<1>3. \E s \in Bad : \A t \in Bad : ~ (<<t, s>> \in StrictSubsetOrdering(S))
    <2> HIDE DEF Bad
    <2>1. Bad \subseteq SUBSET S
        BY DEF Bad
    <2> QED BY <1>1, <1>2, <2>1, WFMin
<1>4. PICK s \in Bad : \A t \in Bad : ~ (<<t, s>> \in StrictSubsetOrdering(S))
    BY <1>3
<1>5. \A t \in SUBSET s : t # s => t \in Good
    BY <1>4 DEF StrictSubsetOrdering
<1> QED BY <1>4, <1>5

LEMMA SumUnfolded ==
    ASSUME NEW f, NEW S
    PROVE  SumFunctionOnSet(f, S) = (CHOOSE g : SumsUp(g, f, S))[S]
BY DEF SumFunctionOnSet, FoldFunctionOnSet, MapThenFoldSet, SumsUp, Some

\* Two such functions agree where both are defined.
LEMMA SumsAgree ==
    ASSUME NEW f, NEW S, IsFiniteSet(S), NEW T \in SUBSET S,
           NEW g, SumsUp(g, f, S), NEW h, SumsUp(h, f, T)
    PROVE  \A s \in SUBSET T : g[s] = h[s]
<1> DEFINE Good == {s \in SUBSET T : g[s] = h[s]}
<1>1. IsFiniteSet(T)
    BY FS_Subset
<1>2. ASSUME NEW s \in SUBSET T, \A t \in SUBSET s : t # s => t \in Good
      PROVE  s \in Good
    <2>1. CASE s = {}
        BY <2>1 DEF SumsUp
    <2>2. CASE s # {}
        <3>1. Some(s) \in s
            BY <2>2 DEF Some
        <3>2. s \ {Some(s)} \in Good
            BY <1>2, <3>1
        <3>3. g[s] = f[Some(s)] + g[s \ {Some(s)}]
            BY <2>2 DEF SumsUp
        <3>4. h[s] = f[Some(s)] + h[s \ {Some(s)}]
            BY <2>2 DEF SumsUp
        <3> QED BY <3>2, <3>3, <3>4
    <2> QED BY <2>1, <2>2
<1>3. SUBSET T \subseteq Good
    <2> HIDE DEF Good
    <2> QED BY <1>1, <1>2, SubsetInduction
<1> QED BY <1>3

\* The recursive function exists for every finite set.
LEMMA SumsExist ==
    ASSUME NEW f, NEW S, IsFiniteSet(S)
    PROVE  \E g : SumsUp(g, f, S)
<1> DEFINE Good == {s \in SUBSET S : \E g : SumsUp(g, f, s)}
           G(s) == CHOOSE g : SumsUp(g, f, s)
<1>1. ASSUME NEW s \in SUBSET S, \A t \in SUBSET s : t # s => t \in Good
      PROVE  s \in Good
    <2>1. \A t \in SUBSET s : t # s => SumsUp(G(t), f, t)
        BY <1>1
    <2>2. \A t \in SUBSET s : t # s => \A u \in SUBSET t : G(t)[u] = G(u)[u]
        <3> TAKE t \in SUBSET s
        <3> HAVE t # s
        <3> TAKE u \in SUBSET t
        <3> HIDE DEF G
        <3>1. u \in SUBSET s /\ u # s
            OBVIOUS
        <3>2. SumsUp(G(t), f, t) /\ SumsUp(G(u), f, u)
            BY <2>1, <3>1
        <3>3. IsFiniteSet(t)
            BY FS_Subset
        <3> QED BY <3>2, <3>3, SumsAgree
    <2> DEFINE value(t) == IF t = {} THEN 0 ELSE f[Some(t)] + G(t \ {Some(t)})[t \ {Some(t)}]
               g == [t \in SUBSET s |-> value(t)]
    <2>3. \A t \in SUBSET s : t # s => g[t] = G(t)[t]
        <3> TAKE t \in SUBSET s
        <3> HAVE t # s
        <3>1. CASE t = {}
            <4> HIDE DEF G
            <4> QED BY <2>1, <3>1 DEF SumsUp
        <3>2. CASE t # {}
            <4> HIDE DEF G
            <4>1. Some(t) \in t
                BY <3>2 DEF Some
            <4>2. G(t)[t] = f[Some(t)] + G(t)[t \ {Some(t)}]
                BY <2>1, <3>2 DEF SumsUp
            <4>3. G(t)[t \ {Some(t)}] = G(t \ {Some(t)})[t \ {Some(t)}]
                BY <2>2
            <4>4. g[t] = f[Some(t)] + G(t \ {Some(t)})[t \ {Some(t)}]
                BY <3>2
            <4> QED BY <4>2, <4>3, <4>4
        <3> QED BY <3>1, <3>2
    <2>4. \A t \in SUBSET s : g[t] = IF t = {} THEN 0 ELSE f[Some(t)] + g[t \ {Some(t)}]
        <3> TAKE t \in SUBSET s
        <3>1. CASE t = {}
            BY <3>1
        <3>2. CASE t # {}
            <4>1. Some(t) \in t
                BY <3>2 DEF Some
            <4>2. t \ {Some(t)} \in SUBSET s /\ t \ {Some(t)} # s
                BY <4>1
            <4>3. g[t \ {Some(t)}] = G(t \ {Some(t)})[t \ {Some(t)}]
                <5> HIDE DEF g, G
                <5> QED BY <2>3, <4>2
            <4>4. g[t] = f[Some(t)] + G(t \ {Some(t)})[t \ {Some(t)}]
                BY <3>2
            <4> QED BY <3>2, <4>3, <4>4
        <3> QED BY <3>1, <3>2
    <2>5. SumsUp(g, f, s)
        <3>1. g = [t \in SUBSET s |-> g[t]]
            OBVIOUS
        <3> HIDE DEF g
        <3> QED BY <2>4, <3>1 DEF SumsUp
    <2> QED BY <2>5
<1>2. SUBSET S \subseteq Good
    <2> HIDE DEF Good
    <2> QED BY <1>1, SubsetInduction
<1> QED BY <1>2

LEMMA SumEquation ==
    ASSUME NEW f, NEW S, IsFiniteSet(S)
    PROVE  SumFunctionOnSet(f, S) =
             IF S = {} THEN 0 ELSE f[Some(S)] + SumFunctionOnSet(f, S \ {Some(S)})
<1> DEFINE G(s) == CHOOSE g : SumsUp(g, f, s)
           rest == S \ {Some(S)}
<1>1. SumFunctionOnSet(f, S) = G(S)[S] /\ SumFunctionOnSet(f, rest) = G(rest)[rest]
    BY SumUnfolded
<1>2. SumsUp(G(S), f, S)
    BY SumsExist
<1>3. SumsUp(G(rest), f, rest)
    <2>1. IsFiniteSet(rest)
        BY FS_Subset
    <2> QED BY <2>1, SumsExist
<1> HIDE DEF G, rest
<1>4. rest \in SUBSET S
    BY DEF rest
<1>5. G(S)[rest] = G(rest)[rest]
    BY <1>2, <1>3, <1>4, SumsAgree
<1>6. G(S)[S] = IF S = {} THEN 0 ELSE f[Some(S)] + G(S)[rest]
    BY <1>2 DEF SumsUp, rest
<1> QED BY <1>1, <1>5, <1>6 DEF rest

-----------------------------------------------------------------------------
\* What a client of sums needs

LEMMA SumEmpty == ASSUME NEW f PROVE SumFunctionOnSet(f, {}) = 0
BY SumEquation, FS_EmptySet

LEMMA SumInt ==
    ASSUME NEW f, NEW S, IsFiniteSet(S), \A x \in S : f[x] \in Int
    PROVE  SumFunctionOnSet(f, S) \in Int
<1> DEFINE Good == {s \in SUBSET S : SumFunctionOnSet(f, s) \in Int}
<1>1. ASSUME NEW s \in SUBSET S, \A t \in SUBSET s : t # s => t \in Good
      PROVE  s \in Good
    <2>1. IsFiniteSet(s)
        BY FS_Subset
    <2>2. CASE s = {}
        BY <2>2, SumEmpty
    <2>3. CASE s # {}
        <3>1. Some(s) \in s
            BY <2>3 DEF Some
        <3>2. s \ {Some(s)} \in Good
            BY <1>1, <3>1
        <3>3. SumFunctionOnSet(f, s) = f[Some(s)] + SumFunctionOnSet(f, s \ {Some(s)})
            BY <2>1, <2>3, SumEquation
        <3> QED BY <3>1, <3>2, <3>3
    <2> QED BY <2>2, <2>3
<1>2. SUBSET S \subseteq Good
    <2> HIDE DEF Good
    <2> QED BY <1>1, SubsetInduction
<1> QED BY <1>2

\* Any element may be taken out first.
LEMMA SumRemove ==
    ASSUME NEW f, NEW S, IsFiniteSet(S), \A y \in S : f[y] \in Int, NEW x \in S
    PROVE  SumFunctionOnSet(f, S) = f[x] + SumFunctionOnSet(f, S \ {x})
<1> DEFINE Total(s) == SumFunctionOnSet(f, s)
           Good == {s \in SUBSET S : \A y \in s : Total(s) = f[y] + Total(s \ {y})}
<1>0. \A s \in SUBSET S : IsFiniteSet(s) /\ Total(s) \in Int
    BY FS_Subset, SumInt
<1>1. ASSUME NEW s \in SUBSET S, \A t \in SUBSET s : t # s => t \in Good
      PROVE  s \in Good
    <2> SUFFICES ASSUME NEW y \in s PROVE Total(s) = f[y] + Total(s \ {y})
        OBVIOUS
    <2> DEFINE c == Some(s)
    <2>1. c \in s
        BY DEF Some
    <2>2. Total(s) = f[c] + Total(s \ {c})
        BY <1>0, SumEquation
    <2> HIDE DEF c, Total
    <2>3. CASE y = c
        BY <2>2, <2>3
    <2>4. CASE y # c
        <3>1. s \ {c} \in Good /\ s \ {y} \in Good
            BY <1>1, <2>1
        <3>2. Total(s \ {c}) = f[y] + Total((s \ {c}) \ {y})
            BY <2>4, <3>1
        <3>3. Total(s \ {y}) = f[c] + Total((s \ {y}) \ {c})
            BY <2>1, <2>4, <3>1
        <3>4. Total((s \ {c}) \ {y}) = Total((s \ {y}) \ {c})
            <4>1. (s \ {c}) \ {y} = (s \ {y}) \ {c}
                OBVIOUS
            <4> QED BY <4>1
        <3>5. f[c] \in Int /\ f[y] \in Int /\ Total((s \ {y}) \ {c}) \in Int
            BY <1>0, <2>1
        <3> QED BY <2>2, <3>2, <3>3, <3>4, <3>5
    <2> QED BY <2>3, <2>4
<1>2. SUBSET S \subseteq Good
    <2> HIDE DEF Good
    <2> QED BY <1>1, SubsetInduction
<1> QED BY <1>2

LEMMA SumAdd ==
    ASSUME NEW f, NEW S, IsFiniteSet(S), NEW x, x \notin S,
           \A y \in S \cup {x} : f[y] \in Int
    PROVE  SumFunctionOnSet(f, S \cup {x}) = f[x] + SumFunctionOnSet(f, S)
<1>1. IsFiniteSet(S \cup {x})
    BY FS_AddElement
<1>2. (S \cup {x}) \ {x} = S
    OBVIOUS
<1> QED BY <1>1, <1>2, SumRemove

\* A sum depends on the values over its set alone.
LEMMA SumSame ==
    ASSUME NEW f, NEW g, NEW S, IsFiniteSet(S), \A x \in S : f[x] = g[x]
    PROVE  SumFunctionOnSet(f, S) = SumFunctionOnSet(g, S)
<1> DEFINE Good == {s \in SUBSET S : SumFunctionOnSet(f, s) = SumFunctionOnSet(g, s)}
<1>1. ASSUME NEW s \in SUBSET S, \A t \in SUBSET s : t # s => t \in Good
      PROVE  s \in Good
    <2>1. IsFiniteSet(s)
        BY FS_Subset
    <2>2. CASE s = {}
        BY <2>2, SumEmpty
    <2>3. CASE s # {}
        <3>1. Some(s) \in s
            BY <2>3 DEF Some
        <3>2. s \ {Some(s)} \in Good
            BY <1>1, <3>1
        <3>3. SumFunctionOnSet(f, s) = f[Some(s)] + SumFunctionOnSet(f, s \ {Some(s)})
            BY <2>1, <2>3, SumEquation
        <3>4. SumFunctionOnSet(g, s) = g[Some(s)] + SumFunctionOnSet(g, s \ {Some(s)})
            BY <2>1, <2>3, SumEquation
        <3> QED BY <3>1, <3>2, <3>3, <3>4
    <2> QED BY <2>2, <2>3
<1>2. SUBSET S \subseteq Good
    <2> HIDE DEF Good
    <2> QED BY <1>1, SubsetInduction
<1> QED BY <1>2

\* One value changes.
LEMMA SumChange ==
    ASSUME NEW f, NEW g, NEW S, IsFiniteSet(S), NEW x \in S,
           \A y \in S : f[y] \in Int /\ g[y] \in Int,
           \A y \in S : y # x => f[y] = g[y]
    PROVE  SumFunctionOnSet(g, S) = SumFunctionOnSet(f, S) - f[x] + g[x]
<1>1. IsFiniteSet(S \ {x})
    BY FS_Subset
<1>2. SumFunctionOnSet(f, S \ {x}) = SumFunctionOnSet(g, S \ {x})
    BY <1>1, SumSame
<1>3. SumFunctionOnSet(f, S \ {x}) \in Int
    BY <1>1, SumInt
<1> QED BY <1>2, <1>3, SumRemove

LEMMA SumZero ==
    ASSUME NEW S, IsFiniteSet(S), NEW f, \A x \in S : f[x] = 0
    PROVE  SumFunctionOnSet(f, S) = 0
<1> DEFINE Good == {s \in SUBSET S : SumFunctionOnSet(f, s) = 0}
<1>1. ASSUME NEW s \in SUBSET S, \A t \in SUBSET s : t # s => t \in Good
      PROVE  s \in Good
    <2>1. CASE s = {}
        BY <2>1, SumEmpty
    <2>2. CASE s # {}
        <3>1. Some(s) \in s
            BY <2>2 DEF Some
        <3>2. s \ {Some(s)} \in Good
            BY <1>1, <3>1
        <3>3. SumFunctionOnSet(f, s) = f[Some(s)] + SumFunctionOnSet(f, s \ {Some(s)})
            BY <2>2, FS_Subset, SumEquation
        <3> QED BY <3>1, <3>2, <3>3
    <2> QED BY <2>1, <2>2
<1>2. SUBSET S \subseteq Good
    <2> HIDE DEF Good
    <2> QED BY <1>1, SubsetInduction
<1> QED BY <1>2
=============================================================================

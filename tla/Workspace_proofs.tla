--------------------------- MODULE Workspace_proofs ---------------------------
(* Proofs about Workspace, for any servers and any number of tabs and panes, and *)
(* about CommandHistory, for any panes, programs, commands, notes and old tables *)
(* and any limits.  What their folds over sequences compute is shown first, by   *)
(* the least number that a claim fails for.                                      *)
EXTENDS Workspace, CommandHistory, SequenceTheorems, FiniteSetTheorems, TLAPS

\* A set of numbers has a least one.
LEMMA LeastOf ==
    ASSUME NEW S \in SUBSET Nat, S # {}
    PROVE  \E x \in S : \A y \in S : x <= y
<1> DEFINE R == {ss \in Nat \X Nat : ss[1] < ss[2]}
<1>1. R = OpToRel(<, Nat) BY DEF OpToRel
<1>2. IsWellFoundedOn(R, Nat)
  <2> HIDE DEF R
  <2> QED BY <1>1, NatLessThanWellFounded
<1>3. \A x, y \in Nat : y < x => <<y, x>> \in R
  <2> TAKE x, y \in Nat
  <2>1. <<y, x>> \in Nat \X Nat /\ <<y, x>>[1] = y /\ <<y, x>>[2] = x OBVIOUS
  <2> QED BY <2>1
<1> HIDE DEF R
<1>4. \E x \in S : \A y \in S : <<y, x>> \notin R BY <1>2, WFMin
<1>5. PICK x \in S : \A y \in S : <<y, x>> \notin R BY <1>4
<1>6. \A y \in S : x \in Nat /\ y \in Nat /\ ~(y < x) BY <1>5, <1>3
<1>7. \A y \in S : x <= y BY <1>6
<1> QED BY <1>7

\* Induction up to a number, for a set of numbers.
LEMMA UpTo ==
    ASSUME NEW n \in Nat, NEW T, 0 \in T, \A k \in 1 .. n : k - 1 \in T => k \in T
    PROVE  \A k \in 0 .. n : k \in T
<1> DEFINE Out == {k \in 0 .. n : k \notin T}
<1>1. Out \in SUBSET Nat OBVIOUS
<1>2. ASSUME Out # {} PROVE FALSE
  <2>1. PICK x \in Out : \A y \in Out : x <= y
    <3> HIDE DEF Out
    <3> QED BY <1>1, <1>2, LeastOf
  <2>2. x \in 1 .. n /\ x \notin T OBVIOUS
  <2>3. x - 1 \in Out BY <2>2
  <2> QED BY <2>1, <2>2, <2>3
<1> QED BY <1>2

\* The largest number of a set that has a largest.
LEMMA MaxIs ==
    ASSUME NEW S, NEW m \in S, S \subseteq Nat, \A x \in S : m >= x
    PROVE  Max(S) = m
<1>1. \E x \in S : \A y \in S : x >= y OBVIOUS
<1>2. Max(S) \in S /\ \A y \in S : Max(S) >= y BY <1>1 DEF Max
<1>3. Max(S) \in Nat /\ m \in Nat /\ Max(S) >= m /\ m >= Max(S) BY <1>2
<1> QED BY <1>3

\* What a fold over positions computes on each set of them.
Folds(it, n, base, step) ==
    \A s \in SUBSET (1 .. n) : it[s] = IF s = {} THEN base ELSE step[Max(s)][it[s \ {Max(s)}]]

\* It exists, for steps that stay in a set.
LEMMA IterExists ==
    ASSUME NEW n \in Nat, NEW D, NEW base \in D, NEW step \in [1 .. n -> [D -> D]]
    PROVE  \E it \in [SUBSET (1 .. n) -> D] : Folds(it, n, base, step)
<1> DEFINE T == {k \in 0 .. n : \E it \in [SUBSET (1 .. k) -> D] : Folds(it, k, base, step)}
<1>1. 0 \in T
  <2>1. 1 .. 0 = {} OBVIOUS
  <2>2. [s \in {{}} |-> base] \in [SUBSET (1 .. 0) -> D] BY <2>1
  <2>3. Folds([s \in {{}} |-> base], 0, base, step) BY <2>1 DEF Folds
  <2>4. \E it \in [SUBSET (1 .. 0) -> D] : Folds(it, 0, base, step) BY <2>2, <2>3
  <2>5. 0 \in 0 .. n OBVIOUS
  <2> QED BY <2>4, <2>5
<1>2. ASSUME NEW k \in 1 .. n, k - 1 \in T PROVE k \in T
  <2>1. PICK it \in [SUBSET (1 .. k - 1) -> D] : Folds(it, k - 1, base, step) BY <1>2
  <2> DEFINE jt == [s \in SUBSET (1 .. k) |-> IF k \in s THEN step[k][it[s \ {k}]] ELSE it[s]]
  <2>2. \A s \in SUBSET (1 .. k) : (k \notin s => s \in SUBSET (1 .. k - 1)) /\ s \ {k} \in SUBSET (1 .. k - 1) OBVIOUS
  <2>3. jt \in [SUBSET (1 .. k) -> D] BY <2>2
  <2>4. ASSUME NEW s \in SUBSET (1 .. k) PROVE jt[s] = IF s = {} THEN base ELSE step[Max(s)][jt[s \ {Max(s)}]]
    <3>1. CASE k \in s
      <4>1. Max(s) = k
        <5>1. s \subseteq Nat /\ \A x \in s : k >= x OBVIOUS
        <5> QED BY <5>1, <3>1, MaxIs
      <4>2. jt[s \ {k}] = it[s \ {k}] BY <2>2
      <4> QED BY <4>1, <4>2, <3>1
    <3>2. CASE k \notin s BY <3>2, <2>2, <2>1 DEF Folds
    <3> QED BY <3>1, <3>2
  <2>5. Folds(jt, k, base, step) BY <2>4 DEF Folds
  <2>6. \E it2 \in [SUBSET (1 .. k) -> D] : Folds(it2, k, base, step)
    <3> HIDE DEF jt
    <3> QED BY <2>3, <2>5
  <2> QED BY <2>6
<1>3. \A k \in 0 .. n : k \in T
  <2> HIDE DEF T
  <2>1. \A k \in 1 .. n : k - 1 \in T => k \in T BY <1>2
  <2> QED BY <1>1, <2>1, UpTo
<1>4. n \in T
  <2> HIDE DEF T
  <2> QED BY <1>3
<1> QED BY <1>4

\* A set of positions has a largest.
LEMMA MaxIn ==
    ASSUME NEW n \in Nat, NEW s \in SUBSET (1 .. n), s # {}
    PROVE  Max(s) \in s
<1> DEFINE Gaps == {n - x : x \in s}
<1>1. Gaps \in SUBSET Nat /\ Gaps # {}
  <2>1. \A x \in s : n - x \in Nat OBVIOUS
  <2>2. PICK x \in s : TRUE OBVIOUS
  <2>3. n - x \in Gaps OBVIOUS
  <2> QED BY <2>1, <2>3
<1>2. PICK y \in Gaps : \A z \in Gaps : y <= z
  <2> HIDE DEF Gaps
  <2> QED BY <1>1, LeastOf
<1>3. PICK m \in s : y = n - m OBVIOUS
<1>4. \A x \in s : m >= x
  <2> TAKE x \in s
  <2>1. n - x \in Gaps OBVIOUS
  <2>2. n - m <= n - x BY <2>1, <1>2, <1>3
  <2>3. m \in Nat /\ x \in Nat OBVIOUS
  <2> QED BY <2>2, <2>3
<1>5. Max(s) = m
  <2>1. s \subseteq Nat OBVIOUS
  <2> QED BY <2>1, <1>4, MaxIs
<1> QED BY <1>5

\* The positions up to one of them.
LEMMA MaxUpTo ==
    ASSUME NEW k \in Nat \ {0}
    PROVE  Max(1 .. k) = k /\ (1 .. k) \ {k} = 1 .. k - 1 /\ 1 .. k # {}
<1>1. k \in 1 .. k /\ 1 .. k \subseteq Nat /\ \A x \in 1 .. k : k >= x OBVIOUS
<1>2. Max(1 .. k) = k BY <1>1, MaxIs
<1>3. (1 .. k) \ {k} = 1 .. k - 1 OBVIOUS
<1> QED BY <1>2, <1>3, <1>1

\* A function on sets of positions that satisfies the equation of a fold, read along the positions.
LEMMA FoldAlong ==
    ASSUME NEW n \in Nat, NEW f, NEW D, f[1 .. 0] \in D[0],
           \A k \in 1 .. n : f[1 .. k - 1] \in D[k - 1] => f[1 .. k] \in D[k]
    PROVE  \A k \in 0 .. n : f[1 .. k] \in D[k]
<1> DEFINE T == {k \in 0 .. n : f[1 .. k] \in D[k]}
<1>1. 0 \in T OBVIOUS
<1>2. \A k \in 1 .. n : k - 1 \in T => k \in T OBVIOUS
<1>3. \A k \in 0 .. n : k \in T
  <2> HIDE DEF T
  <2> QED BY <1>1, <1>2, UpTo
<1> QED BY <1>3

\* The elements of a sequence up to a position.
Till(s, k) == {s[i] : i \in 1 .. k}

\* The equation that Only unfolds to.
LEMMA OnlyIs ==
    ASSUME NEW V, NEW s \in Seq(V), NEW S
    PROVE  \E f : /\ Only(s, S) = f[1 .. Len(s)] /\ f[1 .. 0] = <<>>
                  /\ \A k \in 1 .. Len(s) :
                        f[1 .. k] = IF s[k] \in S THEN Append(f[1 .. k - 1], s[k]) ELSE f[1 .. k - 1]
<1> DEFINE n == Len(s)
           D == Seq(V)
           step == [k \in 1 .. n |-> [u \in D |-> IF s[k] \in S THEN Append(u, s[k]) ELSE u]]
           Body(f) == [k \in 0 .. Len(s) |->
                          IF k = 0 THEN <<>> ELSE IF s[k] \in S THEN Append(f[k - 1], s[k]) ELSE f[k - 1]]
           g == CHOOSE f : f = Body(f)
<1>1. n \in Nat /\ DOMAIN s = 1 .. n /\ \A k \in 1 .. n : s[k] \in V OBVIOUS
<1>2. step \in [1 .. n -> [D -> D]] BY <1>1
<1>3. PICK it \in [SUBSET (1 .. n) -> D] : Folds(it, n, <<>>, step)
  <2>1. <<>> \in D OBVIOUS
  <2> HIDE DEF D, step, n
  <2> QED BY <2>1, <1>1, <1>2, IterExists
<1>4. \A r \in SUBSET (1 .. n) : r # {} =>
          /\ Max(r) \in 1 .. n /\ it[r \ {Max(r)}] \in D
          /\ it[r] = IF s[Max(r)] \in S THEN Append(it[r \ {Max(r)}], s[Max(r)]) ELSE it[r \ {Max(r)}]
  <2> TAKE r \in SUBSET (1 .. n)
  <2> HAVE r # {}
  <2>1. Max(r) \in r BY <1>1, MaxIn
  <2>2. r \ {Max(r)} \in SUBSET (1 .. n) /\ Max(r) \in 1 .. n BY <2>1
  <2>3. it[r \ {Max(r)}] \in D BY <2>2
  <2>4. it[r] = step[Max(r)][it[r \ {Max(r)}]] BY <1>3 DEF Folds
  <2> HIDE DEF D
  <2> QED BY <2>2, <2>3, <2>4
<1>5. it[{}] = <<>> BY <1>3 DEF Folds
<1>6. \A k \in 1 .. n : it[1 .. k] = IF s[k] \in S THEN Append(it[1 .. k - 1], s[k]) ELSE it[1 .. k - 1]
  <2> TAKE k \in 1 .. n
  <2>1. Max(1 .. k) = k /\ (1 .. k) \ {k} = 1 .. k - 1 /\ 1 .. k # {} BY <1>1, MaxUpTo
  <2>2. 1 .. k \in SUBSET (1 .. n) BY <1>1
  <2> QED BY <1>4, <2>1, <2>2
<1> DEFINE h == [k \in 0 .. n |-> it[1 .. k]]
<1>7. h = Body(h)
  <2>1. 1 .. 0 = {} OBVIOUS
  <2>2. \A k \in 0 .. n : h[k] = IF k = 0 THEN <<>> ELSE IF s[k] \in S THEN Append(h[k - 1], s[k]) ELSE h[k - 1]
    <3> TAKE k \in 0 .. n
    <3>1. h[k] = it[1 .. k] OBVIOUS
    <3>2. CASE k = 0 BY <3>1, <3>2, <2>1, <1>5
    <3>3. CASE k # 0
      <4>1. k \in 1 .. n /\ k - 1 \in 0 .. n BY <3>3, <1>1
      <4>2. h[k - 1] = it[1 .. k - 1] BY <4>1
      <4> HIDE DEF h, n, step
      <4> QED BY <4>1, <4>2, <3>1, <3>3, <1>6
    <3> QED BY <3>2, <3>3
  <2> HIDE DEF step
  <2> QED BY <2>2
<1>8. g = Body(g) BY <1>7
<1>9. Only(s, S) = g[Len(s)] BY DEF Only
<1> HIDE DEF g
<1> DEFINE f == [r \in SUBSET (1 .. n) |-> IF r = {} THEN g[0] ELSE g[Max(r)]]
<1>10. f[1 .. 0] = g[0] /\ \A k \in 1 .. n : f[1 .. k] = g[k]
  <2>1. 1 .. 0 = {} OBVIOUS
  <2>2. ASSUME NEW k \in 1 .. n PROVE f[1 .. k] = g[k]
    <3>1. 1 .. k \in SUBSET (1 .. n) /\ 1 .. k # {} /\ Max(1 .. k) = k BY <1>1, MaxUpTo
    <3> QED BY <3>1
  <2> QED BY <2>1, <2>2
<1> HIDE DEF f
<1>11. g[0] = <<>> BY <1>8, <1>1
<1>12. ASSUME NEW k \in 1 .. n
       PROVE  f[1 .. k] = IF s[k] \in S THEN Append(f[1 .. k - 1], s[k]) ELSE f[1 .. k - 1]
  <2>1. k \in 0 .. Len(s) /\ k # 0 BY <1>1
  <2>2. g[k] = Body(g)[k] BY <1>8
  <2>3. Body(g)[k] = IF s[k] \in S THEN Append(g[k - 1], s[k]) ELSE g[k - 1]
    <3> HIDE DEF n, D, step
    <3> QED BY <2>1
  <2>4. k = 1 \/ k - 1 \in 1 .. n BY <1>1
  <2>5. f[1 .. k] = g[k] /\ f[1 .. k - 1] = g[k - 1] BY <1>10, <2>4
  <2> QED BY <2>2, <2>3, <2>5
<1>13. Only(s, S) = f[1 .. Len(s)] /\ f[1 .. 0] = <<>>
  <2>1. n = 0 \/ n \in 1 .. n BY <1>1
  <2> QED BY <1>9, <1>10, <1>11, <2>1
<1> HIDE DEF Body
<1> QED BY <1>12, <1>13

\* No element twice.
Apart(s) == \A i, j \in DOMAIN s : s[i] = s[j] => i = j

\* The elements of a sequence, and of one with an element appended.
LEMMA SetOf ==
    ASSUME NEW V, NEW s \in Seq(V)
    PROVE  /\ ToSet(s) = Till(s, Len(s)) /\ ToSet(s) \subseteq V /\ Till(s, 0) = {}
           /\ Len(s) \in Nat /\ DOMAIN s = 1 .. Len(s) /\ \A i \in 1 .. Len(s) : s[i] \in V /\ s[i] \in ToSet(s)
           /\ (s = <<>> <=> Len(s) = 0) /\ (s = <<>> <=> ToSet(s) = {})
<1>1. Len(s) \in Nat /\ DOMAIN s = 1 .. Len(s) /\ \A i \in 1 .. Len(s) : s[i] \in V OBVIOUS
<1>2. s = <<>> <=> Len(s) = 0 OBVIOUS
<1>3. ToSet(s) = Till(s, Len(s)) /\ ToSet(s) \subseteq V /\ Till(s, 0) = {} /\ \A i \in 1 .. Len(s) : s[i] \in ToSet(s)
  BY <1>1 DEF ToSet, Till
<1>4. s = <<>> <=> ToSet(s) = {}
  <2>1. CASE Len(s) = 0 BY <2>1, <1>2, <1>1 DEF ToSet
  <2>2. CASE Len(s) # 0 BY <2>2, <1>1, <1>3, <1>2
  <2> QED BY <2>1, <2>2
<1> QED BY <1>1, <1>2, <1>3, <1>4

\* A sequence with an element appended has one element more, and none twice if it is new.
LEMMA SetOfAppend ==
    ASSUME NEW V, NEW s \in Seq(V), NEW e \in V
    PROVE  /\ Append(s, e) \in Seq(V) /\ Append(s, e) # <<>> /\ ToSet(Append(s, e)) = ToSet(s) \cup {e}
           /\ (Apart(s) /\ e \notin ToSet(s) => Apart(Append(s, e)))
           /\ Append(s, e)[1] = IF s = <<>> THEN e ELSE s[1]
<1> DEFINE n == Len(s)  t == Append(s, e)
<1>1. /\ n \in Nat /\ DOMAIN s = 1 .. n /\ DOMAIN t = 1 .. n + 1 /\ t \in Seq(V) /\ t # <<>>
      /\ t[n + 1] = e /\ \A i \in 1 .. n : t[i] = s[i] OBVIOUS
<1>2. ToSet(s) = {s[i] : i \in 1 .. n} /\ ToSet(t) = {t[i] : i \in 1 .. n + 1} BY <1>1 DEF ToSet
<1>3. s = <<>> <=> n = 0 OBVIOUS
<1> HIDE DEF n, t
<1>4. ToSet(t) = ToSet(s) \cup {e}
  <2>1. ASSUME NEW i \in 1 .. n + 1 PROVE t[i] \in ToSet(s) \cup {e}
    <3>1. CASE i = n + 1 BY <3>1, <1>1
    <3>2. CASE i # n + 1 BY <3>2, <1>1, <1>2
    <3> QED BY <3>1, <3>2
  <2>2. ASSUME NEW i \in 1 .. n PROVE s[i] \in ToSet(t) BY <1>1, <1>2
  <2>3. n + 1 \in 1 .. n + 1 BY <1>1
  <2>4. e \in ToSet(t) BY <2>3, <1>1, <1>2
  <2>5. \A x \in ToSet(t) : x \in ToSet(s) \cup {e} BY <2>1, <1>2
  <2>6. \A x \in ToSet(s) : x \in ToSet(t) BY <2>2, <1>2
  <2> QED BY <2>4, <2>5, <2>6
<1>5. ASSUME Apart(s), e \notin ToSet(s) PROVE Apart(t)
  <2> SUFFICES ASSUME NEW i \in 1 .. n + 1, NEW j \in 1 .. n + 1, t[i] = t[j] PROVE i = j BY <1>1 DEF Apart
  <2>1. \A k \in 1 .. n : t[k] \in ToSet(s) /\ t[k] # e BY <1>1, <1>2, <1>5
  <2>2. CASE i = n + 1 BY <2>2, <2>1, <1>1
  <2>3. CASE j = n + 1 BY <2>3, <2>1, <1>1
  <2>4. CASE i # n + 1 /\ j # n + 1 BY <2>4, <1>1, <1>5 DEF Apart
  <2> QED BY <2>2, <2>3, <2>4
<1>6. t[1] = IF s = <<>> THEN e ELSE s[1]
  <2>1. CASE n = 0 BY <2>1, <1>1, <1>3
  <2>2. CASE n # 0 BY <2>2, <1>1, <1>3
  <2> QED BY <2>1, <2>2
<1> QED BY <1>1, <1>4, <1>5, <1>6 DEF t

\* One position further.
LEMMA TillNext ==
    ASSUME NEW s, NEW k \in Nat \ {0}
    PROVE  Till(s, k) = Till(s, k - 1) \cup {s[k]}
BY DEF Till

\* What Only is: a sequence of what there is in both, in the order of the first.
LEMMA OnlyFacts ==
    ASSUME NEW V, NEW s \in Seq(V), NEW S
    PROVE  /\ Only(s, S) \in Seq(V) /\ ToSet(Only(s, S)) = ToSet(s) \cap S
           /\ (Apart(s) => Apart(Only(s, S)))
           /\ (s # <<>> /\ s[1] \in S => Only(s, S)[1] = s[1])
<1> DEFINE n == Len(s)
           Good(t, k) == /\ ToSet(t) = Till(s, k) \cap S /\ (Apart(s) => Apart(t))
                         /\ (k > 0 /\ s[1] \in S => t # <<>> /\ t[1] = s[1])
           D == [k \in 0 .. n |-> {t \in Seq(V) : Good(t, k)}]
<1>1. n \in Nat /\ \A i \in 1 .. n : s[i] \in V BY SetOf
<1>2. PICK f : /\ Only(s, S) = f[1 .. n] /\ f[1 .. 0] = <<>>
               /\ \A k \in 1 .. n : f[1 .. k] = IF s[k] \in S THEN Append(f[1 .. k - 1], s[k]) ELSE f[1 .. k - 1]
  BY OnlyIs
<1> HIDE DEF n
<1>3. f[1 .. 0] \in D[0]
  <2>1. <<>> \in Seq(V) /\ ToSet(<<>>) = {} /\ Apart(<<>>) BY DEF ToSet, Apart
  <2>2. Till(s, 0) = {} BY DEF Till
  <2>3. Good(<<>>, 0) BY <2>1, <2>2
  <2> HIDE DEF Good
  <2> QED BY <2>1, <2>3, <1>1, <1>2
<1>4. ASSUME NEW k \in 1 .. n, f[1 .. k - 1] \in D[k - 1] PROVE f[1 .. k] \in D[k]
  <2> DEFINE t == f[1 .. k - 1]
  <2>1. t \in Seq(V) /\ Good(t, k - 1) /\ s[k] \in V /\ k - 1 \in 0 .. n
    <3> HIDE DEF Good
    <3> QED BY <1>4, <1>1
  <2>2. Till(s, k) = Till(s, k - 1) \cup {s[k]} BY TillNext, <1>1
  <2> HIDE DEF t
  <2>3. CASE s[k] \in S
    <3>1. f[1 .. k] = Append(t, s[k]) BY <1>2, <2>3 DEF t
    <3>2. /\ Append(t, s[k]) \in Seq(V) /\ Append(t, s[k]) # <<>> /\ ToSet(Append(t, s[k])) = ToSet(t) \cup {s[k]}
          /\ (Apart(t) /\ s[k] \notin ToSet(t) => Apart(Append(t, s[k])))
          /\ Append(t, s[k])[1] = IF t = <<>> THEN s[k] ELSE t[1] BY <2>1, SetOfAppend
    <3>3. Apart(s) => s[k] \notin Till(s, k - 1) BY <1>1, SetOf DEF n, Apart, Till
    <3>4. k > 0 /\ s[1] \in S => Append(t, s[k])[1] = s[1]
      <4>1. CASE k = 1 BY <2>1, <4>1, <3>2, SetOf DEF Till
      <4>2. CASE k # 1 BY <4>2, <1>1, <2>1, <3>2
      <4> QED BY <4>1, <4>2
    <3>5. Good(Append(t, s[k]), k) BY <2>1, <2>2, <2>3, <3>2, <3>3, <3>4
    <3> DEFINE u == Append(t, s[k])
    <3>6. f[1 .. k] = u /\ u \in Seq(V) /\ Good(u, k) /\ k \in 0 .. n BY <3>1, <3>2, <3>5, <1>1
    <3> HIDE DEF Good, u
    <3> QED BY <3>6
  <2>4. CASE s[k] \notin S
    <3>1. f[1 .. k] = t BY <1>2, <2>4 DEF t
    <3>2. Good(t, k)
      <4>1. CASE k = 1 BY <4>1, <2>1, <2>2, <2>4
      <4>2. CASE k # 1 BY <4>2, <1>1, <2>1, <2>2, <2>4
      <4> QED BY <4>1, <4>2
    <3> HIDE DEF Good
    <3> QED BY <3>1, <3>2, <2>1, <1>1
  <2> QED BY <2>3, <2>4
<1>5. \A k \in 0 .. n : f[1 .. k] \in D[k]
  <2>1. \A k \in 1 .. n : f[1 .. k - 1] \in D[k - 1] => f[1 .. k] \in D[k] BY <1>4
  <2> HIDE DEF D
  <2> QED BY <1>3, <2>1, <1>1, FoldAlong
<1>6. n \in 0 .. n BY <1>1
<1>7. Only(s, S) \in D[n] BY <1>5, <1>6, <1>2
<1>8. Only(s, S) \in Seq(V) /\ Good(Only(s, S), n)
  <2> HIDE DEF Good
  <2> QED BY <1>7, <1>6
<1>9. ToSet(s) = Till(s, n) /\ (s # <<>> => n > 0) BY <1>1, SetOf DEF n
<1> QED BY <1>8, <1>9

\* What FlattenSeq unfolds to.
LEMMA FlattenIs ==
    ASSUME NEW V, NEW ss \in Seq(Seq(V)), ss # <<>>
    PROVE  \E f : /\ FlattenSeq(ss) = f[Len(ss)] /\ f[1] = ss[1]
                  /\ \A i \in 2 .. Len(ss) : f[i] = f[i - 1] \o ss[i]
<1> DEFINE n == Len(ss)
           Body(f) == [i \in 1 .. n |-> IF i = 1 THEN ss[i] ELSE f[i - 1] \o ss[i]]
           g == CHOOSE f : f = Body(f)
           Joins(h, k) == \A i \in 1 .. k : h[i] = IF i = 1 THEN ss[i] ELSE h[i - 1] \o ss[i]
           T == {k \in 0 .. n : \E h \in [1 .. k -> Seq(V)] : Joins(h, k)}
<1>1. n \in Nat \ {0} /\ \A i \in 1 .. n : ss[i] \in Seq(V) OBVIOUS
<1> HIDE DEF n
<1>2. 0 \in T
  <2>1. [i \in {} |-> <<>>] \in [1 .. 0 -> Seq(V)] OBVIOUS
  <2>2. Joins([i \in {} |-> <<>>], 0) OBVIOUS
  <2>3. \E h \in [1 .. 0 -> Seq(V)] : Joins(h, 0)
    <3> HIDE DEF Joins
    <3> QED BY <2>1, <2>2
  <2>4. 0 \in 0 .. n BY <1>1
  <2> HIDE DEF Joins
  <2> QED BY <2>3, <2>4
<1>3. ASSUME NEW k \in 1 .. n, k - 1 \in T PROVE k \in T
  <2>1. PICK h \in [1 .. k - 1 -> Seq(V)] : Joins(h, k - 1)
    <3> HIDE DEF Joins
    <3> QED BY <1>3
  <2> DEFINE j == [i \in 1 .. k |-> IF i = k THEN (IF k = 1 THEN ss[k] ELSE h[k - 1] \o ss[k]) ELSE h[i]]
  <2>2. \A i \in 1 .. k : i # k => i \in 1 .. k - 1 OBVIOUS
  <2>3. k # 1 => k - 1 \in 1 .. k - 1 OBVIOUS
  <2>4. j \in [1 .. k -> Seq(V)]
    <3>1. k # 1 => h[k - 1] \o ss[k] \in Seq(V) BY <2>3, <1>1
    <3> QED BY <3>1, <2>2, <1>1
  <2>5. ASSUME NEW i \in 1 .. k PROVE j[i] = IF i = 1 THEN ss[i] ELSE j[i - 1] \o ss[i]
    <3>1. CASE i = k BY <2>3, <3>1
    <3>2. CASE i # k
      <4>1. i \in 1 .. k - 1 /\ j[i] = h[i] BY <3>2, <2>2
      <4>2. i # 1 => j[i - 1] = h[i - 1] BY <4>1
      <4> QED BY <4>1, <4>2, <2>1
    <3> QED BY <3>1, <3>2
  <2>6. Joins(j, k) BY <2>5
  <2>7. \E jj \in [1 .. k -> Seq(V)] : Joins(jj, k)
    <3> HIDE DEF j, Joins
    <3> QED BY <2>4, <2>6
  <2> HIDE DEF Joins
  <2> QED BY <2>7
<1>4. \A k \in 0 .. n : k \in T
  <2>1. \A k \in 1 .. n : k - 1 \in T => k \in T BY <1>3
  <2> HIDE DEF T
  <2> QED BY <1>1, <1>2, <2>1, UpTo
<1>5. n \in T
  <2> HIDE DEF T
  <2> QED BY <1>4, <1>1
<1>6. PICK h \in [1 .. n -> Seq(V)] : Joins(h, n)
  <2> HIDE DEF Joins
  <2> QED BY <1>5
<1>7. h = Body(h) BY <1>6
<1>8. g = Body(g) BY <1>7
<1>9. FlattenSeq(ss) = g[n] BY <1>1 DEF FlattenSeq, n
<1> HIDE DEF g
<1>10. g[1] = ss[1] /\ \A i \in 2 .. n : g[i] = g[i - 1] \o ss[i]
  <2>1. \A i \in 1 .. n : g[i] = Body(g)[i] BY <1>8
  <2>2. 1 \in 1 .. n /\ \A i \in 2 .. n : i \in 1 .. n /\ i # 1 BY <1>1
  <2> QED BY <2>1, <2>2
<1> QED BY <1>9, <1>10 DEF n

\* Sequences one after the other.
LEMMA SetOfConcat ==
    ASSUME NEW V, NEW s \in Seq(V), NEW t \in Seq(V)
    PROVE  /\ s \o t \in Seq(V) /\ ToSet(s \o t) = ToSet(s) \cup ToSet(t)
           /\ (Apart(s) /\ Apart(t) /\ ToSet(s) \cap ToSet(t) = {} => Apart(s \o t))
           /\ (s # <<>> => (s \o t)[1] = s[1])
<1> DEFINE n == Len(s)  m == Len(t)  u == s \o t
<1>1. /\ n \in Nat /\ m \in Nat /\ DOMAIN s = 1 .. n /\ DOMAIN t = 1 .. m /\ DOMAIN u = 1 .. n + m /\ u \in Seq(V)
      /\ \A i \in 1 .. n + m : u[i] = IF i <= n THEN s[i] ELSE t[i - n] BY ConcatProperties
<1>2. ToSet(s) = {s[i] : i \in 1 .. n} /\ ToSet(t) = {t[i] : i \in 1 .. m} /\ ToSet(u) = {u[i] : i \in 1 .. n + m}
  BY <1>1 DEF ToSet
<1>3. s # <<>> => n > 0 BY <1>1, SetOf
<1> HIDE DEF n, m, u
<1>4. \A i \in 1 .. n + m : (i \in 1 .. n /\ u[i] = s[i]) \/ (i - n \in 1 .. m /\ u[i] = t[i - n]) BY <1>1
<1>5. \A i \in 1 .. n : i \in 1 .. n + m /\ u[i] = s[i] BY <1>1
<1>6. \A i \in 1 .. m : n + i \in 1 .. n + m /\ u[n + i] = t[i]
  <2> TAKE i \in 1 .. m
  <2>1. n + i \in 1 .. n + m /\ ~(n + i <= n) /\ n + i - n = i BY <1>1
  <2> QED BY <2>1, <1>1
<1>7. ToSet(u) = ToSet(s) \cup ToSet(t) BY <1>2, <1>4, <1>5, <1>6
<1>8. ASSUME Apart(s), Apart(t), ToSet(s) \cap ToSet(t) = {} PROVE Apart(u)
  <2> SUFFICES ASSUME NEW i \in 1 .. n + m, NEW j \in 1 .. n + m, u[i] = u[j] PROVE i = j BY <1>1 DEF Apart
  <2>1. \A k \in 1 .. n, l \in 1 .. m : s[k] # t[l] BY <1>2, <1>8
  <2>2. CASE i \in 1 .. n /\ u[i] = s[i] /\ j \in 1 .. n /\ u[j] = s[j] BY <2>2, <1>8, <1>1 DEF Apart
  <2>3. CASE i - n \in 1 .. m /\ u[i] = t[i - n] /\ j - n \in 1 .. m /\ u[j] = t[j - n]
    <3>1. i - n = j - n BY <2>3, <1>8, <1>1 DEF Apart
    <3> QED BY <3>1, <1>1
  <2> QED BY <2>1, <2>2, <2>3, <1>4
<1>9. s # <<>> => u[1] = s[1]
  <2> HAVE s # <<>>
  <2>1. 1 \in 1 .. n BY <1>1, <1>3
  <2> QED BY <2>1, <1>5
<1> QED BY <1>1, <1>7, <1>8, <1>9 DEF u

\* What FlattenSeq is: all the elements, each once if no two parts share one.
LEMMA FlattenFacts ==
    ASSUME NEW V, NEW ss \in Seq(Seq(V))
    PROVE  /\ FlattenSeq(ss) \in Seq(V) /\ ToSet(FlattenSeq(ss)) = UNION {ToSet(ss[i]) : i \in 1 .. Len(ss)}
           /\ (/\ \A i \in 1 .. Len(ss) : Apart(ss[i])
               /\ \A i, j \in 1 .. Len(ss) : i # j => ToSet(ss[i]) \cap ToSet(ss[j]) = {}
               => Apart(FlattenSeq(ss)))
           /\ (ss # <<>> /\ ss[1] # <<>> => FlattenSeq(ss) # <<>> /\ FlattenSeq(ss)[1] = ss[1][1])
<1>1. CASE ss = <<>> BY <1>1 DEF FlattenSeq, ToSet, Apart
<1>2. CASE ss # <<>>
  <2> DEFINE n == Len(ss)
             All(k) == UNION {ToSet(ss[i]) : i \in 1 .. k}
             Ok == /\ \A i \in 1 .. n : Apart(ss[i])
                   /\ \A i, j \in 1 .. n : i # j => ToSet(ss[i]) \cap ToSet(ss[j]) = {}
             Good(t, k) == /\ ToSet(t) = All(k) /\ (Ok => Apart(t))
                           /\ (ss[1] # <<>> => t # <<>> /\ t[1] = ss[1][1])
  <2>1. PICK f : /\ FlattenSeq(ss) = f[n] /\ f[1] = ss[1] /\ \A i \in 2 .. n : f[i] = f[i - 1] \o ss[i]
    BY <1>2, FlattenIs
  <2> DEFINE T == {k \in 0 .. n : k = 0 \/ (f[k] \in Seq(V) /\ Good(f[k], k))}
  <2>2. n \in Nat \ {0} /\ \A i \in 1 .. n : ss[i] \in Seq(V) BY <1>2, SetOf
  <2> HIDE DEF n
  <2>3. 0 \in T BY <2>2
  <2>4. ASSUME NEW k \in 1 .. n, k - 1 \in T PROVE k \in T
    <3>1. CASE k = 1
      <4>1. 1 .. 1 = {1} /\ 1 \in 1 .. n BY <2>2
      <4>2. All(1) = ToSet(ss[1]) BY <4>1
      <4>3. f[1] \in Seq(V) /\ Good(f[1], 1) BY <2>1, <2>2, <4>1, <4>2
      <4> HIDE DEF Good
      <4> QED BY <4>3, <3>1
    <3>2. CASE k # 1
      <4> DEFINE t == f[k - 1]
      <4>1. k - 1 # 0 /\ k \in 2 .. n BY <3>2, <2>2
      <4>2. t \in Seq(V) /\ Good(t, k - 1)
        <5> HIDE DEF Good
        <5> QED BY <4>1, <2>4
      <4>3. f[k] = t \o ss[k] BY <4>1, <2>1
      <4> HIDE DEF t
      <4>4. /\ t \o ss[k] \in Seq(V) /\ ToSet(t \o ss[k]) = ToSet(t) \cup ToSet(ss[k])
            /\ (Apart(t) /\ Apart(ss[k]) /\ ToSet(t) \cap ToSet(ss[k]) = {} => Apart(t \o ss[k]))
            /\ (t # <<>> => (t \o ss[k])[1] = t[1]) BY <2>2, <4>2, SetOfConcat
      <4>5. All(k) = All(k - 1) \cup ToSet(ss[k]) BY <2>2
      <4>6. Ok => ToSet(t) \cap ToSet(ss[k]) = {}
        <5> SUFFICES ASSUME Ok PROVE \A x \in ToSet(t) : x \notin ToSet(ss[k]) OBVIOUS
        <5> TAKE x \in ToSet(t)
        <5>1. ToSet(t) = All(k - 1) BY <4>2
        <5>2. PICK i \in 1 .. k - 1 : x \in ToSet(ss[i]) BY <5>1
        <5>3. i \in 1 .. n /\ k \in 1 .. n /\ i # k BY <2>2
        <5>4. ToSet(ss[i]) \cap ToSet(ss[k]) = {} BY <5>3
        <5> QED BY <5>2, <5>4
      <4>7. t # <<>> => t \o ss[k] # <<>>
        <5>0. t \in Seq(V) BY <4>2
        <5>1. t # <<>> => ToSet(t) # {}
          <6> HIDE DEF Good, Ok, All
          <6> QED BY <5>0, SetOf
        <5>2. ToSet(t \o ss[k]) # {} => t \o ss[k] # <<>> BY <4>4, SetOf
        <5> QED BY <5>1, <5>2, <4>4
      <4>8. Good(t \o ss[k], k) BY <4>2, <4>4, <4>5, <4>6, <4>7
      <4> DEFINE u == t \o ss[k]
      <4> HIDE DEF Good
      <4>9. f[k] = u BY <4>3
      <4>10. u \in Seq(V) BY <4>4
      <4>11. Good(u, k) BY <4>8
      <4>12. k \in 0 .. n BY <2>2
      <4> HIDE DEF u
      <4>13. f[k] \in Seq(V) /\ Good(f[k], k) BY <4>9, <4>10, <4>11
      <4> QED BY <4>12, <4>13
    <3> QED BY <3>1, <3>2
  <2>5. \A k \in 0 .. n : k \in T
    <3>1. \A k \in 1 .. n : k - 1 \in T => k \in T BY <2>4
    <3> HIDE DEF T
    <3> QED BY <2>2, <2>3, <3>1, UpTo
  <2>6. n \in 0 .. n /\ n # 0 BY <2>2
  <2>7. f[n] \in Seq(V) /\ Good(f[n], n)
    <3>1. n \in T
      <4> HIDE DEF T
      <4> QED BY <2>5, <2>6
    <3> HIDE DEF Good
    <3> QED BY <3>1, <2>6
  <2> QED BY <2>7, <2>1 DEF n
<1> QED BY <1>1, <1>2

----
(* The inductive invariant. *)

\* Values of the right kind: of a probe, a tab, a pane and the workspace.
PageSet == PageIds \cup {NoPage, Settings}
Ends == (Servers \cup {NoServer}) \X Nat
ProbeType == [on : BOOLEAN, target : Ends, socket : Ends, late : Ends, text : Ends]
PageType ==
    [panes : Seq(PaneIds), active : PaneIds \cup {NoPane}, pin : PaneIds \cup {NoPane}, end : Ends, probe : ProbeType]
States == {"off", "connecting", "up"}
PaneType == [server : Servers \cup {NoServer}, version : Nat, next : Nat, state : States, known : BOOLEAN]
Badges == {"online", "connecting", "offline", "rdp"}
WsType ==
    [tabs : Seq(PageIds \cup {Settings}), cur : PageSet, home : BOOLEAN, pages : [PageSet -> PageType],
     panes : [PaneIds -> PaneType], opened : 0 .. MaxPanes, selected : SUBSET PageIds,
     monitor : PageIds \cup {NoPage}, session : PaneIds \cup {NoPane},
     shown : Servers \cup {NoServer, Rdp}, badge : Badges, label : Ends]

\* A probe that is off has no socket and says nothing; the others are about their target.
ProbeSound(q) ==
    /\ q.socket \in {Blank, q.target} /\ q.text \in {Blank, Waiting, q.target}
    /\ q.on \/ (q.socket = Blank /\ q.text = Blank)

\* A tab of terminals, and the number it has: that of a pane that is first in it, or gone from
\* every tab, or not there at all.
PageSound(w, g) ==
    LET page == w.pages[g]
    IN  /\ page.panes # <<>> /\ Apart(page.panes) /\ page.active \in ToSet(page.panes)
        /\ g <= w.opened /\ (g \in ToSet(page.panes) => page.panes[1] = g)
        /\ \A p \in ToSet(page.panes) :
               p <= w.opened /\ w.panes[p].server \in Servers /\ (p = g \/ p \notin ToSet(w.tabs))

\* The tabs, and every pane in one of them at most.
Layout(w) ==
    /\ w \in WsType /\ Apart(w.tabs) /\ w.selected \subseteq ToSet(w.tabs)
    /\ IF w.tabs = <<>> THEN w.cur = NoPage ELSE w.cur \in ToSet(w.tabs)
    /\ \A g \in PageSet : IF g \in ToSet(w.tabs) \ {Settings} THEN PageSound(w, g) ELSE w.pages[g] = EmptyPage
    /\ \A g, h \in PageSet : g # h => ToSet(w.pages[g].panes) \cap ToSet(w.pages[h].panes) = {}
    /\ \A g \in PageSet : ProbeSound(w.pages[g].probe)

\* The session of the rail is a pane that is there, the source of the tab of the rail.
Bound(w) ==
    /\ w.monitor \in ToSet(w.tabs) \cup {NoPage}
    /\ w.session # NoPane =>
           /\ w.session \in Live(w) /\ w.shown = w.panes[w.session].server
           /\ w.monitor # NoPage => w.session = w.pages[w.monitor].pin

\* The tab in front has the rail, and its source is connected if it can be.
InFront(w) ==
    (\E p \in ToSet(CurrentPanes(w)) : Up(w, p)) /\ w.shown # Rdp =>
        /\ w.monitor = w.cur /\ w.session = w.pages[w.cur].pin
        /\ w.session \in ToSet(CurrentPanes(w))
        /\ Up(w, w.session)
           \/ ~ \E p \in ToSet(CurrentPanes(w)) : Up(w, p) /\ Endpoint(w, p) = Endpoint(w, w.session)

Badged(w) ==
    w.session # NoPane /\ w.panes[w.session].known /\ w.badge # "rdp" => (w.badge = "online") = Up(w, w.session)

\* Only the tab in front is probed, the tab of the rail for the session of the rail.
Timed(w) ==
    /\ w.session # NoPane => w.label \in {Blank, Waiting, Endpoint(w, w.session)}
    /\ \A g \in PageSet : w.pages[g].probe.on =>
           /\ ~w.home /\ w.cur \in {g, Settings}
           /\ w.session # NoPane /\ g = w.monitor => w.pages[g].probe.target = Endpoint(w, w.session)

Rail(w) == Bound(w) /\ InFront(w) /\ Badged(w) /\ Timed(w)

\* The panes an item of a request stands for.
OfItem(w, item) == IF item.page = NoPage THEN {item.pane} ELSE ToSet(w.pages[item.page].panes)

\* What an open question q is about: its items have no panes but those that were meant, and a pane
\* that was meant and is there is in one of them.
ItemType == [page : PageSet, pane : PaneIds \cup {NoPane}]
QuestionType == [open : BOOLEAN, items : Seq(ItemType), panes : SUBSET PaneIds, kept : PageSet]
Meant(w, q) ==
    /\ q \in QuestionType /\ \A p \in q.panes : p <= w.opened
    /\ \A i \in DOMAIN q.items : LET item == q.items[i] IN
           OfItem(w, item) \subseteq q.panes /\ (item.page <= w.opened \/ item.page = Settings)
    /\ \A p \in q.panes \cap Live(w) : \E i \in DOMAIN q.items : p \in OfItem(w, q.items[i])

IInv ==
    /\ Layout(ws) /\ Rail(ws) /\ Meant(ws, question) /\ IF question.open THEN confirm ELSE question = NoQuestion
    /\ saved \in [Servers -> Nat] /\ \A p \in Live(ws) : saved[ws.panes[p].server] # 0
    /\ confirm \in BOOLEAN

----
(* The constants, and what a sound layout says of panes and tabs. *)

\* Numbers of panes, tabs and the settings page.
LEMMA Numbers ==
    /\ MaxPanes \in Nat \ {0} /\ PaneIds = 1 .. MaxPanes /\ PageIds = PaneIds /\ PaneIds \subseteq Nat
    /\ NoPane = 0 /\ NoPage = 0 /\ NoPane \notin PaneIds /\ Settings \in Nat /\ Settings \notin PaneIds /\ Settings # NoPage
    /\ \A p \in PaneIds : p # Settings /\ p # NoPage /\ p > 0 /\ p <= MaxPanes
    /\ PageSet = PageIds \cup {NoPage, Settings} /\ PageSet \subseteq Nat
    /\ NoServer \notin Servers /\ Rdp \notin Servers /\ Rdp # NoServer
BY WorkspaceAssumption DEF PaneIds, PageIds, NoPane, NoPage, Settings, PageSet

\* The values of a probe, a tab and a pane that has not been opened.
LEMMA Nothings ==
    /\ Blank \in Ends /\ Waiting \in Ends /\ Blank # Waiting /\ \A s, v : s # NoServer => <<s, v>> \notin {Blank, Waiting}
    /\ NoProbe \in ProbeType /\ ProbeSound(NoProbe) /\ ~NoProbe.on /\ NoProbe.text = Blank
    /\ EmptyPage \in PageType /\ EmptyPage.panes = <<>> /\ EmptyPage.pin = NoPane /\ EmptyPage.probe = NoProbe
    /\ EmptyPage.active = NoPane
    /\ Unused \in PaneType /\ Unused.state = "off" /\ Unused.server = NoServer
<1>1. Blank \in Ends /\ Waiting \in Ends /\ Blank # Waiting BY DEF Blank, Waiting, Ends
<1>2. \A s, v : s # NoServer => <<s, v>> \notin {Blank, Waiting} BY DEF Blank, Waiting
<1>3. NoProbe \in ProbeType /\ ~NoProbe.on /\ NoProbe.text = Blank BY <1>1 DEF NoProbe, ProbeType
<1>4. ProbeSound(NoProbe) BY DEF ProbeSound, NoProbe
<1>5. /\ EmptyPage \in PageType /\ EmptyPage.panes = <<>> /\ EmptyPage.pin = NoPane /\ EmptyPage.probe = NoProbe
      /\ EmptyPage.active = NoPane BY <1>1, <1>3 DEF EmptyPage, NewPage, PageType
<1>6. Unused \in PaneType /\ Unused.state = "off" /\ Unused.server = NoServer BY DEF Unused, NewPane, PaneType, States
<1> QED BY <1>1, <1>2, <1>3, <1>4, <1>5, <1>6

\* The types of the parts of a workspace.
LEMMA Parts ==
    ASSUME NEW w \in WsType
    PROVE  /\ w.tabs \in Seq(PageIds \cup {Settings}) /\ w.cur \in PageSet /\ w.home \in BOOLEAN
           /\ w.pages \in [PageSet -> PageType] /\ w.panes \in [PaneIds -> PaneType] /\ w.opened \in 0 .. MaxPanes
           /\ w.opened \in Nat
           /\ w.selected \in SUBSET PageIds /\ w.monitor \in PageIds \cup {NoPage} /\ w.session \in PaneIds \cup {NoPane}
           /\ w.shown \in Servers \cup {NoServer, Rdp} /\ w.badge \in Badges /\ w.label \in Ends
BY WorkspaceAssumption DEF WsType

\* The types of the parts of a tab, a pane and a probe.
LEMMA PartsOf ==
    /\ \A page \in PageType : /\ page.panes \in Seq(PaneIds) /\ page.active \in PaneIds \cup {NoPane}
                              /\ page.pin \in PaneIds \cup {NoPane} /\ page.end \in Ends /\ page.probe \in ProbeType
                              /\ ToSet(page.panes) \subseteq PaneIds
    /\ \A r \in PaneType : /\ r.server \in Servers \cup {NoServer} /\ r.version \in Nat /\ r.next \in Nat
                           /\ r.state \in States /\ r.known \in BOOLEAN
    /\ \A q \in ProbeType : q.on \in BOOLEAN /\ q.target \in Ends /\ q.socket \in Ends /\ q.late \in Ends /\ q.text \in Ends
BY SetOf DEF PageType, ProbeType, PaneType

\* The endpoint of a pane, and that of none is no time.
LEMMA EndOf ==
    ASSUME NEW w \in WsType, NEW p \in PaneIds
    PROVE  Endpoint(w, p) \in Ends /\ (w.panes[p].server # NoServer => Endpoint(w, p) \notin {Blank, Waiting})
BY Parts, PartsOf, Nothings DEF Endpoint, Ends

\* The tabs and panes of a sound layout.
LEMMA Laid ==
    ASSUME NEW w, Layout(w)
    PROVE  /\ w \in WsType /\ Apart(w.tabs) /\ w.tabs \in Seq(PageIds \cup {Settings})
           /\ ToSet(w.tabs) \subseteq PageIds \cup {Settings} /\ NoPage \notin ToSet(w.tabs)
           /\ w.selected \subseteq ToSet(w.tabs)
           /\ (w.tabs = <<>> <=> ToSet(w.tabs) = {}) /\ (w.cur = NoPage <=> w.tabs = <<>>)
           /\ (w.cur # NoPage => w.cur \in ToSet(w.tabs))
           /\ \A g \in PageSet : /\ w.pages[g] \in PageType /\ ProbeSound(w.pages[g].probe)
                                 /\ (w.pages[g].panes # <<>> <=> g \in ToSet(w.tabs) \ {Settings})
                                 /\ (w.pages[g].panes # <<>> => PageSound(w, g))
                                 /\ (w.pages[g].panes = <<>> => w.pages[g] = EmptyPage)
           /\ w.pages[Settings].panes = <<>> /\ w.pages[NoPage].panes = <<>>
<1>1. /\ w \in WsType /\ Apart(w.tabs) /\ w.selected \subseteq ToSet(w.tabs)
      /\ IF w.tabs = <<>> THEN w.cur = NoPage ELSE w.cur \in ToSet(w.tabs)
      /\ \A g \in PageSet : IF g \in ToSet(w.tabs) \ {Settings} THEN PageSound(w, g) ELSE w.pages[g] = EmptyPage
      /\ \A g \in PageSet : ProbeSound(w.pages[g].probe) BY DEF Layout
<1>2. w.tabs \in Seq(PageIds \cup {Settings}) /\ w.pages \in [PageSet -> PageType] BY <1>1, Parts
<1>3. ToSet(w.tabs) \subseteq PageIds \cup {Settings} /\ (w.tabs = <<>> <=> ToSet(w.tabs) = {}) BY <1>2, SetOf
<1>4. NoPage \notin PageIds \cup {Settings} /\ NoPage \in PageSet /\ Settings \in PageSet BY Numbers
<1>5. \A g \in PageSet : PageSound(w, g) => w.pages[g].panes # <<>> BY DEF PageSound
<1>6. EmptyPage.panes = <<>> BY Nothings
<1>7. \A g \in PageSet : /\ w.pages[g] \in PageType /\ ProbeSound(w.pages[g].probe)
                         /\ (w.pages[g].panes # <<>> <=> g \in ToSet(w.tabs) \ {Settings})
                         /\ (w.pages[g].panes # <<>> => PageSound(w, g))
                         /\ (w.pages[g].panes = <<>> => w.pages[g] = EmptyPage) BY <1>1, <1>2, <1>5, <1>6
<1>8. w.pages[Settings].panes = <<>> /\ w.pages[NoPage].panes = <<>> BY <1>7, <1>4, <1>3
<1>9. (w.cur = NoPage <=> w.tabs = <<>>) /\ (w.cur # NoPage => w.cur \in ToSet(w.tabs)) BY <1>1, <1>3, <1>4
<1> QED BY <1>1, <1>2, <1>3, <1>4, <1>7, <1>8, <1>9

\* A pane is there when some tab has it, and that is one tab only.
LEMMA LiveIs ==
    ASSUME NEW w, Layout(w)
    PROVE  /\ Live(w) \subseteq PaneIds
           /\ \A p : p \in Live(w) <=> \E g \in PageSet : p \in ToSet(w.pages[g].panes)
           /\ \A p \in Live(w) : /\ PageOf(w, p) \in ToSet(w.tabs) \ {Settings} /\ p \in ToSet(w.pages[PageOf(w, p)].panes)
                                 /\ p <= w.opened /\ w.panes[p].server \in Servers
           /\ \A g, h \in PageSet : \A p : p \in ToSet(w.pages[g].panes) /\ p \in ToSet(w.pages[h].panes) => g = h
           /\ \A p \in ToSet(CurrentPanes(w)) : p \in Live(w) /\ w.cur \in ToSet(w.tabs) \ {Settings}
<1>1. /\ w \in WsType /\ ToSet(w.tabs) \subseteq PageIds \cup {Settings}
      /\ \A g \in PageSet : /\ w.pages[g] \in PageType /\ (w.pages[g].panes # <<>> <=> g \in ToSet(w.tabs) \ {Settings})
                            /\ (w.pages[g].panes # <<>> => PageSound(w, g)) BY Laid
<1>2. ToSet(<<>>) = {} BY DEF ToSet
<1>3. \A g \in ToSet(w.tabs) : g \in PageSet BY <1>1, Numbers
<1>4. \A p : p \in Live(w) <=> \E g \in PageSet : p \in ToSet(w.pages[g].panes)
  <2> TAKE p
  <2>1. ASSUME NEW g \in PageSet, p \in ToSet(w.pages[g].panes) PROVE g \in ToSet(w.tabs) \ {Settings}
    BY <2>1, <1>1, <1>2
  <2>2. p \in Live(w) <=> \E g \in ToSet(w.tabs) : p \in ToSet(w.pages[g].panes) BY DEF Live
  <2> QED BY <2>1, <2>2, <1>3
<1>5. Live(w) \subseteq PaneIds BY <1>1, <1>4, PartsOf
<1>6. \A g, h \in PageSet : \A p : p \in ToSet(w.pages[g].panes) /\ p \in ToSet(w.pages[h].panes) => g = h
  BY DEF Layout
<1>7. ASSUME NEW p \in Live(w)
      PROVE  /\ PageOf(w, p) \in ToSet(w.tabs) \ {Settings} /\ p \in ToSet(w.pages[PageOf(w, p)].panes)
             /\ p <= w.opened /\ w.panes[p].server \in Servers BY <1>2, <1>3, <1>1 DEF Live, PageOf, PageSound
<1>8. ASSUME NEW p \in ToSet(CurrentPanes(w)) PROVE p \in Live(w) /\ w.cur \in ToSet(w.tabs) \ {Settings}
  BY <1>2, <1>1, <1>4, Parts DEF CurrentPanes
<1> QED BY <1>4, <1>5, <1>6, <1>7, <1>8
----
(* Steps that leave the tabs and the panes in them. *)

\* The same tabs with the same panes of the same hosts.
Same(w, v) ==
    /\ v.tabs = w.tabs /\ v.opened = w.opened
    /\ \A g \in PageSet : v.pages[g].panes = w.pages[g].panes /\ v.pages[g].active = w.pages[g].active
    /\ \A p \in PaneIds : v.panes[p].server = w.panes[p].server

\* It goes on from step to step.
LEMMA SameAll ==
    /\ \A w : Same(w, w)
    /\ \A w, u, v : Same(w, u) /\ Same(u, v) => Same(w, v)
BY DEF Same

\* Panes that stay in their tabs stay alive.
LEMMA SameLive ==
    ASSUME NEW w, NEW v, Layout(w), Same(w, v)
    PROVE  Live(v) = Live(w)
<1>1. \A g \in ToSet(w.tabs) : g \in PageSet BY Laid, Numbers
<1>2. v.tabs = w.tabs /\ \A g \in PageSet : v.pages[g].panes = w.pages[g].panes BY DEF Same
<1>3. \A g \in ToSet(w.tabs) : ToSet(v.pages[g].panes) = ToSet(w.pages[g].panes) BY <1>1, <1>2
<1> QED BY <1>2, <1>3 DEF Live

\* A layout stays sound when the tabs are the same.
LEMMA LayoutKeeps ==
    ASSUME NEW w, Layout(w), NEW v \in WsType, Same(w, v), v.selected \subseteq ToSet(w.tabs),
           IF w.tabs = <<>> THEN v.cur = NoPage ELSE v.cur \in ToSet(w.tabs),
           \A g \in PageSet : ProbeSound(v.pages[g].probe) /\ (w.pages[g] = EmptyPage => v.pages[g] = EmptyPage)
    PROVE  Layout(v)
<1>1. v.tabs = w.tabs /\ v.opened = w.opened
      /\ \A g \in PageSet : v.pages[g].panes = w.pages[g].panes /\ v.pages[g].active = w.pages[g].active
  BY DEF Same
<1>2. \A p \in PaneIds : v.panes[p].server = w.panes[p].server BY DEF Same
<1>3. \A g \in PageSet : w.pages[g].panes \in Seq(PaneIds) /\ ToSet(w.pages[g].panes) \subseteq PaneIds
  BY Laid, PartsOf
<1>4. ASSUME NEW g \in PageSet, PageSound(w, g) PROVE PageSound(v, g) BY <1>1, <1>2, <1>3, <1>4 DEF PageSound
<1>5. \A g \in PageSet : IF g \in ToSet(v.tabs) \ {Settings} THEN PageSound(v, g) ELSE v.pages[g] = EmptyPage
  BY <1>1, <1>4 DEF Layout
<1>6. \A g, h \in PageSet : g # h => ToSet(v.pages[g].panes) \cap ToSet(v.pages[h].panes) = {} BY <1>1 DEF Layout
<1>7. Apart(v.tabs) BY <1>1 DEF Layout
<1> QED BY <1>1, <1>5, <1>6, <1>7 DEF Layout

\* The badge alone is another, and true if it was or if the host shown is s.
Presented(w, s, v) ==
    \E b \in Badges : /\ v = [w EXCEPT !.badge = b]
                      /\ ((w.session # NoPane => w.shown = w.panes[w.session].server) /\ (Badged(w) \/ w.shown = s)
                          => Badged(v))

\* updateConnectionPresentation changes the badge alone.
LEMMA PresentIs ==
    ASSUME NEW w \in WsType, NEW s, NEW c \in BOOLEAN, NEW d \in BOOLEAN
    PROVE  Presented(w, s, Present(w, s, c, d))
<1> DEFINE focused == w.session # NoPane /\ w.panes[w.session].known /\ w.panes[w.session].server = s
           up == IF focused THEN Up(w, w.session) ELSE c \/ ConnectedTo(w, s)
           coming == IF focused THEN w.panes[w.session].state = "connecting" ELSE d
           b == IF w.shown # s THEN w.badge ELSE IF up THEN "online" ELSE IF coming THEN "connecting" ELSE "offline"
<1>1. b \in Badges BY Parts DEF Badges
<1>2. Present(w, s, c, d) = [w EXCEPT !.badge = b] BY DEF WsType, Present
<1> DEFINE v == [w EXCEPT !.badge = b]
<1>3. v.session = w.session /\ v.panes = w.panes /\ v.badge = b BY DEF WsType
<1>4. ASSUME w.session # NoPane => w.shown = w.panes[w.session].server, Badged(w) \/ w.shown = s PROVE Badged(v)
  <2> SUFFICES ASSUME w.session # NoPane, w.panes[w.session].known, b # "rdp"
               PROVE  (b = "online") = Up(w, w.session) BY <1>3 DEF Badged, Up
  <2>1. CASE w.shown # s BY <2>1, <1>4 DEF Badged
  <2>2. CASE w.shown = s BY <2>2, <1>4 DEF Up
  <2> QED BY <2>1, <2>2
<1>5. Present(w, s, c, d) = v BY <1>2
<1>6. v = [w EXCEPT !.badge = b] OBVIOUS
<1> HIDE DEF v, b
<1> QED BY <1>1, <1>4, <1>5, <1>6 DEF Presented
----
(* The probes and the source of a tab. *)

\* What becomes of a probe.
LEMMA ProbeOps ==
    ASSUME NEW q \in ProbeType, ProbeSound(q), NEW end \in Ends
    PROVE  /\ Aimed(q, end) \in ProbeType /\ ProbeSound(Aimed(q, end)) /\ Aimed(q, end).on /\ Aimed(q, end).target = end
           /\ Paused(q) \in ProbeType /\ ProbeSound(Paused(q)) /\ ~Paused(q).on /\ Paused(q).text = Blank
<1>1. q.on \in BOOLEAN /\ q.target \in Ends /\ q.socket \in Ends /\ q.late \in Ends /\ q.text \in Ends BY PartsOf
<1>2. Blank \in Ends /\ Waiting \in Ends BY Nothings
<1>3. Late(q) \in Ends BY <1>1 DEF Late
<1> HIDE DEF Ends
<1>4. Paused(q) \in ProbeType /\ ~Paused(q).on /\ Paused(q).text = Blank /\ Paused(q).socket = Blank
  BY <1>1, <1>2, <1>3 DEF Paused, ProbeType
<1>5. ProbeSound(Paused(q)) BY <1>4 DEF ProbeSound
<1> DEFINE r == [Paused(q) EXCEPT !.on = TRUE, !.target = end]
<1>6. r \in ProbeType /\ r.on /\ r.target = end BY <1>4 DEF ProbeType
<1> HIDE DEF r
<1>7. StartProbe(r) \in ProbeType /\ StartProbe(r).on /\ StartProbe(r).target = end
      /\ StartProbe(r).socket = end /\ StartProbe(r).text = Waiting BY <1>2, <1>6 DEF StartProbe, ProbeType
<1>8. ProbeSound(StartProbe(r)) BY <1>7 DEF ProbeSound
<1>9. Aimed(q, end) = IF q.on /\ q.target = end THEN q ELSE StartProbe(r) BY DEF Aimed, r
<1> QED BY <1>4, <1>5, <1>7, <1>8, <1>9

\* The probes of the tabs after updateProbes, and what the label takes.
LEMMA ProbesAre ==
    ASSUME NEW w, Layout(w), NEW v, v = UpdateProbes(w)
    PROVE  /\ Layout(v) /\ Same(w, v)
           /\ v.cur = w.cur /\ v.home = w.home /\ v.panes = w.panes /\ v.selected = w.selected
           /\ v.monitor = w.monitor /\ v.session = w.session /\ v.shown = w.shown /\ v.badge = w.badge
           /\ \A g \in PageSet : /\ v.pages[g].pin = w.pages[g].pin
                                 /\ v.pages[g].probe.on => /\ g = w.cur /\ ~w.home /\ g \in ToSet(w.tabs) \ {Settings}
                                                           /\ v.pages[g].probe.target = Endpoint(w, w.pages[g].pin)
           /\ \/ v.label = w.label /\ w.cur # w.monitor
              \/ v.label \in {Blank, Waiting}
              \/ w.cur = w.monitor /\ w.cur # NoPage /\ v.label = Endpoint(w, w.pages[w.monitor].pin)
<1> DEFINE group == IF w.home THEN NoPage ELSE w.cur
           pin == w.pages[group].pin
           enabled == pin # NoPane /\ pin \in ToSet(w.pages[group].panes) /\ Up(w, pin)
           pages == [g \in DOMAIN w.pages |->
               IF g = group /\ enabled THEN [w.pages[g] EXCEPT !.probe = Aimed(@, Endpoint(w, pin))]
               ELSE IF w.pages[g].probe.on THEN [w.pages[g] EXCEPT !.probe = Paused(@)]
               ELSE w.pages[g]]
           label == IF group \notin {NoPage, w.monitor} THEN w.label ELSE pages[group].probe.text
<1>1. /\ w \in WsType /\ w.pages \in [PageSet -> PageType] /\ w.cur \in PageSet /\ w.label \in Ends
      /\ w.panes \in [PaneIds -> PaneType] /\ DOMAIN w.pages = PageSet BY Laid, Parts
<1>2. group \in PageSet BY <1>1, Numbers
<1>3. \A g \in PageSet : w.pages[g] \in PageType /\ w.pages[g].probe \in ProbeType /\ ProbeSound(w.pages[g].probe)
  BY Laid, PartsOf
<1>4. enabled => /\ pin \in PaneIds /\ Endpoint(w, pin) \in Ends /\ group = w.cur /\ ~w.home /\ group # NoPage
                 /\ group \in ToSet(w.tabs) \ {Settings}
  <2> HAVE enabled
  <2>1. w.pages[group].panes # <<>> /\ pin \in PaneIds BY <1>2, <1>3, PartsOf DEF ToSet
  <2>2. group \in ToSet(w.tabs) \ {Settings} BY <2>1, <1>2, Laid
  <2>3. group # NoPage BY <2>2, Laid
  <2> QED BY <2>1, <2>2, <2>3, <1>1, EndOf
<1>5. v = [w EXCEPT !.pages = pages, !.label = label] BY DEF UpdateProbes
<1> DEFINE at(g) == IF g = group /\ enabled THEN Aimed(w.pages[g].probe, Endpoint(w, pin))
                    ELSE IF w.pages[g].probe.on THEN Paused(w.pages[g].probe) ELSE w.pages[g].probe
<1>6. ASSUME NEW g \in PageSet
      PROVE  /\ at(g) \in ProbeType /\ ProbeSound(at(g))
             /\ at(g).on => g = group /\ enabled /\ at(g).target = Endpoint(w, pin)
             /\ ~at(g).on => at(g).text = Blank
  <2>1. CASE g = group /\ enabled
    <3>1. at(g) = Aimed(w.pages[g].probe, Endpoint(w, pin)) BY <2>1
    <3>2. /\ Aimed(w.pages[g].probe, Endpoint(w, pin)) \in ProbeType
          /\ ProbeSound(Aimed(w.pages[g].probe, Endpoint(w, pin)))
          /\ Aimed(w.pages[g].probe, Endpoint(w, pin)).on
          /\ Aimed(w.pages[g].probe, Endpoint(w, pin)).target = Endpoint(w, pin) BY <2>1, <1>4, <1>3, ProbeOps
    <3> HIDE DEF at, enabled, pin, group
    <3> QED BY <2>1, <3>1, <3>2
  <2>2. CASE ~(g = group /\ enabled) /\ w.pages[g].probe.on
    <3>1. at(g) = Paused(w.pages[g].probe) BY <2>2
    <3>2. /\ Paused(w.pages[g].probe) \in ProbeType /\ ProbeSound(Paused(w.pages[g].probe))
          /\ ~Paused(w.pages[g].probe).on /\ Paused(w.pages[g].probe).text = Blank BY <1>3, ProbeOps, Nothings
    <3> HIDE DEF at, enabled, pin, group
    <3> QED BY <2>2, <3>1, <3>2
  <2>3. CASE ~(g = group /\ enabled) /\ ~w.pages[g].probe.on
    <3>1. at(g) = w.pages[g].probe BY <2>3
    <3> HIDE DEF at, enabled, pin, group
    <3> QED BY <2>3, <3>1, <1>3 DEF ProbeSound
  <2> QED BY <2>1, <2>2, <2>3
<1>7. \A g \in PageSet : pages[g] = [w.pages[g] EXCEPT !.probe = at(g)]
  <2> TAKE g \in PageSet
  <2>1. w.pages[g] = [w.pages[g] EXCEPT !.probe = w.pages[g].probe] BY <1>3 DEF PageType
  <2>2. pages[g] = IF g = group /\ enabled THEN [w.pages[g] EXCEPT !.probe = Aimed(w.pages[g].probe, Endpoint(w, pin))]
               ELSE IF w.pages[g].probe.on THEN [w.pages[g] EXCEPT !.probe = Paused(w.pages[g].probe)]
               ELSE w.pages[g] BY <1>1
  <2> HIDE DEF pages, enabled, pin, group
  <2> QED BY <2>1, <2>2 DEF at
<1> HIDE DEF at
<1>8. \A g \in PageSet : /\ pages[g] \in PageType /\ pages[g].panes = w.pages[g].panes /\ pages[g].active = w.pages[g].active
                         /\ pages[g].pin = w.pages[g].pin /\ pages[g].probe = at(g)
  <2> HIDE DEF pages
  <2> QED BY <1>3, <1>6, <1>7 DEF PageType
<1>9. pages \in [PageSet -> PageType]
  <2>1. pages = [g \in PageSet |-> pages[g]] BY <1>1
  <2> HIDE DEF pages
  <2> QED BY <2>1, <1>8
<1>10. ASSUME NEW g \in PageSet, w.pages[g] = EmptyPage PROVE pages[g] = EmptyPage
  <2>1. ~(g = group /\ enabled) BY <1>10, Nothings DEF ToSet
  <2>2. ~w.pages[g].probe.on BY <1>10, Nothings
  <2> QED BY <2>1, <2>2, <1>10, <1>1
<1>11. label \in Ends
  <2> HIDE DEF pages, group
  <2> QED BY <1>1, <1>2, <1>6, <1>8, PartsOf
<1> HIDE DEF pages, label
<1>12. /\ v \in WsType /\ v.tabs = w.tabs /\ v.opened = w.opened /\ v.pages = pages /\ v.label = label
       /\ v.cur = w.cur /\ v.home = w.home /\ v.panes = w.panes /\ v.selected = w.selected
       /\ v.monitor = w.monitor /\ v.session = w.session /\ v.shown = w.shown /\ v.badge = w.badge
  BY <1>1, <1>5, <1>9, <1>11 DEF WsType
<1>13. Same(w, v) BY <1>8, <1>12 DEF Same
<1>14. Layout(v)
  <2>1. v.selected \subseteq ToSet(w.tabs) /\ IF w.tabs = <<>> THEN v.cur = NoPage ELSE v.cur \in ToSet(w.tabs)
    BY <1>12 DEF Layout
  <2>2. \A g \in PageSet : ProbeSound(v.pages[g].probe) /\ (w.pages[g] = EmptyPage => v.pages[g] = EmptyPage)
    BY <1>6, <1>8, <1>10, <1>12
  <2> QED BY <2>1, <2>2, <1>12, <1>13, LayoutKeeps
<1>15. \A g \in PageSet : /\ v.pages[g].pin = w.pages[g].pin
                          /\ v.pages[g].probe.on => /\ g = w.cur /\ ~w.home /\ g \in ToSet(w.tabs) \ {Settings}
                                                    /\ v.pages[g].probe.target = Endpoint(w, w.pages[g].pin)
  <2> TAKE g \in PageSet
  <2>1. v.pages[g].pin = w.pages[g].pin /\ v.pages[g].probe = at(g) BY <1>8, <1>12
  <2>2. at(g).on => g = group /\ enabled /\ at(g).target = Endpoint(w, pin) BY <1>6
  <2>3. g = group => pin = w.pages[g].pin OBVIOUS
  <2> HIDE DEF group, pin, enabled
  <2> QED BY <2>1, <2>2, <2>3, <1>4
<1>16. \/ v.label = w.label /\ w.cur # w.monitor
       \/ v.label \in {Blank, Waiting}
       \/ w.cur = w.monitor /\ w.cur # NoPage /\ v.label = Endpoint(w, w.pages[w.monitor].pin)
  <2>1. CASE group \notin {NoPage, w.monitor} BY <2>1, <1>12 DEF label
  <2>2. CASE group \in {NoPage, w.monitor}
    <3>1. v.label = at(group).text BY <2>2, <1>12, <1>8, <1>2 DEF label
    <3>2. CASE ~at(group).on BY <3>1, <3>2, <1>6, <1>2
    <3>3. CASE at(group).on BY <3>3, <1>6, <1>2, <3>1, <1>4, <2>2 DEF ProbeSound
    <3> QED BY <3>2, <3>3
  <2> QED BY <2>1, <2>2
<1> QED BY <1>12, <1>13, <1>14, <1>15, <1>16

\* The first and the last of a sequence are of it.
LEMMA Ends1 ==
    ASSUME NEW V, NEW s \in Seq(V), s # <<>>
    PROVE  Head(s) \in ToSet(s) /\ Last(s) \in ToSet(s) /\ Head(s) = s[1]
BY SetOf DEF Last

\* The source of a tab is a pane of it, connected if another of its endpoint is.
LEMMA PinnedFacts ==
    ASSUME NEW w, Layout(w), NEW g \in PageSet, w.pages[g].panes # <<>>
    PROVE  /\ Pinned(w, g) \in ToSet(w.pages[g].panes) /\ Pinned(w, g) \in PaneIds
           /\ \/ Up(w, Pinned(w, g))
              \/ ~ \E q \in ToSet(w.pages[g].panes) : Up(w, q) /\ Endpoint(w, q) = Endpoint(w, Pinned(w, g))
<1> DEFINE page == w.pages[g]
           same(end) == OfEnd(w, page.panes, end)
           up(end) == UpOfEnd(w, page.panes, end)
           pin == IF page.pin \in ToSet(page.panes) THEN page.pin
                  ELSE IF up(page.end) # <<>> THEN Head(up(page.end))
                  ELSE IF same(page.end) # <<>> THEN Last(same(page.end))
                  ELSE Head(page.panes)
           next == up(Endpoint(w, pin))
<1>1. Pinned(w, g) = IF Up(w, pin) \/ next = <<>> THEN pin ELSE Head(next) BY DEF Pinned, HandedOver
<1>2. page.panes \in Seq(PaneIds) /\ ToSet(page.panes) \subseteq PaneIds BY Laid, PartsOf
<1> HIDE DEF page
<1>3. \A end : same(end) \in Seq(PaneIds) /\ ToSet(same(end)) = ToSet(page.panes) \cap {p \in PaneIds : Endpoint(w, p) = end}
  BY <1>2, OnlyFacts DEF OfEnd
<1> HIDE DEF same
<1>4. \A end : up(end) \in Seq(PaneIds) /\ ToSet(up(end)) = ToSet(same(end)) \cap {p \in PaneIds : Up(w, p)}
  <2> TAKE end
  <2>1. up(end) = Only(same(end), {p \in PaneIds : Up(w, p)}) BY DEF UpOfEnd, same
  <2>2. same(end) \in Seq(PaneIds) BY <1>3
  <2> HIDE DEF up
  <2> QED BY <2>1, <2>2, OnlyFacts
<1> HIDE DEF up
<1>5. \A end : same(end) # <<>> => Last(same(end)) \in ToSet(same(end)) BY <1>3, Ends1
<1>6. \A end : up(end) # <<>> => Head(up(end)) \in ToSet(up(end)) BY <1>4, Ends1
<1>7. Head(page.panes) \in ToSet(page.panes) BY <1>2, Ends1 DEF page
<1>8. pin \in ToSet(page.panes) BY <1>3, <1>4, <1>5, <1>6, <1>7
<1> HIDE DEF pin
<1>9. CASE Up(w, pin) BY <1>1, <1>2, <1>8, <1>9 DEF page
<1>10. CASE ~Up(w, pin) /\ next = <<>>
  <2>1. ToSet(next) = {} BY <1>10 DEF ToSet
  <2>2. \A q \in ToSet(page.panes) : ~(Up(w, q) /\ Endpoint(w, q) = Endpoint(w, pin)) BY <2>1, <1>2, <1>3, <1>4
  <2> QED BY <2>2, <1>1, <1>2, <1>8, <1>10 DEF page
<1>11. CASE ~Up(w, pin) /\ next # <<>> BY <1>11, <1>6, <1>3, <1>4, <1>1, <1>2 DEF page
<1> QED BY <1>9, <1>10, <1>11
----
(* What publishes the session in front, and the ways to another tab. *)

\* A workspace whose tabs are in order and whose rail tells the truth.
Sound(w) == Layout(w) /\ Rail(w)

\* The same tabs and panes, whatever the rail shows.
Still(w, v) == Same(w, v) /\ v.cur = w.cur /\ v.home = w.home /\ v.panes = w.panes /\ v.selected = w.selected

\* After publishMonitorSession the rail is true, whatever it showed before, if a terminal is in front.
LEMMA PublishIs ==
    ASSUME NEW w, Layout(w), CurrentPanes(w) = <<>> => Rail(w), NEW v, v = Publish(w)
    PROVE  Sound(v) /\ Still(w, v)
<1>1. CASE CurrentPanes(w) = <<>> BY <1>1, SameAll DEF Publish, Sound, Still
<1>2. CASE CurrentPanes(w) # <<>>
  <2> DEFINE c == w.cur
             pin == Pinned(w, c)
             end == Endpoint(w, pin)
             pages == [w.pages EXCEPT ![c].pin = pin, ![c].end = end]
             pinned == [w EXCEPT !.pages[c].pin = pin, !.pages[c].end = end]
             s == pinned.panes[pin].server
             y == [pinned EXCEPT !.monitor = c, !.session = pin, !.shown = s]
             up == Up(pinned, pin)
             coming == pinned.panes[pin].state = "connecting"
             x == Present(y, s, up, coming)
  <2>1. w \in WsType /\ w.pages \in [PageSet -> PageType] /\ c \in PageSet /\ w.panes \in [PaneIds -> PaneType]
    BY Laid, Parts
  <2>2. c # NoPage /\ CurrentPanes(w) = w.pages[c].panes /\ w.pages[c].panes # <<>> BY <1>2 DEF CurrentPanes
  <2>3. c \in ToSet(w.tabs) \ {Settings} /\ PageSound(w, c) /\ c \in PageIds BY <2>1, <2>2, Laid
  <2>4. /\ pin \in ToSet(w.pages[c].panes) /\ pin \in PaneIds
        /\ \/ Up(w, pin)
           \/ ~ \E q \in ToSet(w.pages[c].panes) : Up(w, q) /\ Endpoint(w, q) = Endpoint(w, pin)
    BY <2>1, <2>2, PinnedFacts
  <2>5. end \in Ends BY <2>1, <2>4, EndOf
  <2>6. v = UpdateProbes(x) BY <1>2 DEF Publish, BindTo, ActivateMonitor
  <2> HIDE DEF c, pin, end
  <2>7. /\ pages \in [PageSet -> PageType]
        /\ \A g \in PageSet : /\ pages[g].panes = w.pages[g].panes /\ pages[g].active = w.pages[g].active
                              /\ pages[g].probe = w.pages[g].probe /\ (g # c => pages[g] = w.pages[g])
                              /\ pages[g].pin = IF g = c THEN pin ELSE w.pages[g].pin
    BY <2>1, <2>4, <2>5 DEF PageType
  <2>8. pinned = [w EXCEPT !.pages = pages] BY <2>1 DEF WsType
  <2> HIDE DEF pages
  <2>9. pinned \in WsType /\ pinned.panes = w.panes BY <2>1, <2>7, <2>8 DEF WsType
  <2>10. y = [w EXCEPT !.pages = pages, !.monitor = c, !.session = pin, !.shown = s] BY <2>8, <2>1 DEF WsType
  <2>11. s \in Servers /\ s = w.panes[pin].server BY <2>3, <2>4, <2>9 DEF PageSound
  <2> HIDE DEF s, pinned
  <2>12. /\ y \in WsType /\ y.pages = pages /\ y.monitor = c /\ y.session = pin /\ y.shown = s
         /\ y.tabs = w.tabs /\ y.cur = c /\ y.home = w.home /\ y.panes = w.panes /\ y.opened = w.opened
         /\ y.selected = w.selected /\ y.label = w.label BY <2>1, <2>3, <2>4, <2>7, <2>10, <2>11 DEF WsType, c
  <2> HIDE DEF y
  <2>13. /\ \E b \in Badges : x = [y EXCEPT !.badge = b]
         /\ ((y.session # NoPane => y.shown = y.panes[y.session].server) /\ (Badged(y) \/ y.shown = s) => Badged(x))
    <3>1. up \in BOOLEAN /\ coming \in BOOLEAN BY DEF Up
    <3> HIDE DEF up, coming
    <3>2. Presented(y, s, x) BY <3>1, <2>12, PresentIs
    <3> HIDE DEF x
    <3> QED BY <3>2 DEF Presented
  <2>14. Badged(x) BY <2>11, <2>12, <2>13
  <2>15. /\ x \in WsType /\ x.pages = pages /\ x.monitor = c /\ x.session = pin /\ x.shown = s
         /\ x.tabs = w.tabs /\ x.cur = c /\ x.home = w.home /\ x.panes = w.panes /\ x.opened = w.opened
         /\ x.selected = w.selected /\ x.label = w.label BY <2>12, <2>13 DEF WsType
  <2> HIDE DEF x
  <2>16. Same(w, x) BY <2>7, <2>15 DEF Same
  <2>17. Layout(x)
    <3>1. x.selected \subseteq ToSet(w.tabs) /\ IF w.tabs = <<>> THEN x.cur = NoPage ELSE x.cur \in ToSet(w.tabs)
      BY <2>15 DEF Layout, c
    <3>2. ASSUME NEW g \in PageSet
          PROVE  ProbeSound(x.pages[g].probe) /\ (w.pages[g] = EmptyPage => x.pages[g] = EmptyPage)
      BY <2>2, <2>7, <2>15, Nothings, Laid
    <3> QED BY <3>1, <3>2, <2>15, <2>16, LayoutKeeps
  <2>18. /\ Layout(v) /\ Same(x, v)
         /\ v.cur = x.cur /\ v.home = x.home /\ v.panes = x.panes /\ v.selected = x.selected
         /\ v.monitor = x.monitor /\ v.session = x.session /\ v.shown = x.shown /\ v.badge = x.badge
         /\ \A g \in PageSet : /\ v.pages[g].pin = x.pages[g].pin
                               /\ v.pages[g].probe.on => /\ g = x.cur /\ ~x.home /\ g \in ToSet(x.tabs) \ {Settings}
                                                         /\ v.pages[g].probe.target = Endpoint(x, x.pages[g].pin)
         /\ \/ v.label = x.label /\ x.cur # x.monitor
            \/ v.label \in {Blank, Waiting}
            \/ x.cur = x.monitor /\ x.cur # NoPage /\ v.label = Endpoint(x, x.pages[x.monitor].pin)
    BY <2>6, <2>17, ProbesAre
  <2>19. Same(w, v) BY <2>16, <2>18, SameAll
  <2>20. Still(w, v) BY <2>15, <2>18, <2>19 DEF Still, c
  <2>21. Live(v) = Live(w) BY <2>19, SameLive
  <2>22. /\ v.tabs = w.tabs /\ v.monitor = c /\ v.session = pin /\ v.shown = w.panes[pin].server /\ v.panes = w.panes
         /\ v.pages[c].pin = pin /\ v.pages[c].panes = w.pages[c].panes /\ v.cur = c /\ pin # NoPane
         /\ CurrentPanes(v) = w.pages[c].panes
    BY <2>1, <2>2, <2>4, <2>7, <2>11, <2>15, <2>18, <2>19, Numbers DEF Same, CurrentPanes
  <2>23. Bound(v) BY <2>1, <2>4, <2>3, <2>21, <2>22, LiveIs DEF Bound
  <2>24. InFront(v) BY <2>22, <2>4 DEF Up, Endpoint, InFront
  <2>25. Badged(v) BY <2>14, <2>18 DEF Badged, Up
  <2>26. Timed(v)
    <3>1. Endpoint(x, pin) = Endpoint(v, pin) BY <2>18 DEF Endpoint
    <3>2. v.label \in {Blank, Waiting, Endpoint(v, v.session)} BY <3>1, <2>1, <2>7, <2>15, <2>18, <2>22
    <3>3. ASSUME NEW g \in PageSet, v.pages[g].probe.on
          PROVE  ~v.home /\ v.cur \in {g, Settings} /\ v.pages[g].probe.target = Endpoint(v, v.session)
      BY <3>3, <2>15, <2>18, <3>1, <2>7, <2>22
    <3> QED BY <3>2, <3>3 DEF Timed
  <2> QED BY <2>18, <2>20, <2>23, <2>24, <2>25, <2>26 DEF Sound, Rail
<1> QED BY <1>1, <1>2

\* What the rail says depends on the tabs, the panes and its own state alone.
LEMMA ShowHomeIs ==
    ASSUME NEW w, Layout(w), NEW home \in BOOLEAN, NEW v, v = ShowHome(w, home)
    PROVE  /\ Layout(v) /\ Same(w, v) /\ (Rail(w) => Rail(v))
           /\ v.cur = w.cur /\ v.home = home /\ v.panes = w.panes /\ v.selected = w.selected
<1>1. CASE w.home = home BY <1>1, SameAll DEF ShowHome
<1>2. CASE w.home # home
  <2> DEFINE x == [w EXCEPT !.home = home]
  <2>1. v = UpdateProbes(x) BY <1>2 DEF ShowHome
  <2>2. w \in WsType BY Laid
  <2>3. /\ x \in WsType /\ x.tabs = w.tabs /\ x.cur = w.cur /\ x.home = home /\ x.pages = w.pages /\ x.panes = w.panes
        /\ x.opened = w.opened /\ x.selected = w.selected /\ x.monitor = w.monitor /\ x.session = w.session
        /\ x.shown = w.shown /\ x.badge = w.badge /\ x.label = w.label BY <2>2 DEF WsType
  <2> HIDE DEF x
  <2>4. Same(w, x) BY <2>3 DEF Same
  <2>5. Layout(x)
    <3>1. x.selected \subseteq ToSet(w.tabs) /\ IF w.tabs = <<>> THEN x.cur = NoPage ELSE x.cur \in ToSet(w.tabs)
      BY <2>3 DEF Layout
    <3>2. \A g \in PageSet : ProbeSound(x.pages[g].probe) /\ (w.pages[g] = EmptyPage => x.pages[g] = EmptyPage)
      BY <2>3, Laid
    <3> QED BY <3>1, <3>2, <2>3, <2>4, LayoutKeeps
  <2>6. /\ Layout(v) /\ Same(x, v)
        /\ v.cur = x.cur /\ v.home = x.home /\ v.panes = x.panes /\ v.selected = x.selected
        /\ v.monitor = x.monitor /\ v.session = x.session /\ v.shown = x.shown /\ v.badge = x.badge
        /\ \A g \in PageSet : /\ v.pages[g].pin = x.pages[g].pin
                              /\ v.pages[g].probe.on => /\ g = x.cur /\ ~x.home /\ g \in ToSet(x.tabs) \ {Settings}
                                                        /\ v.pages[g].probe.target = Endpoint(x, x.pages[g].pin)
        /\ \/ v.label = x.label /\ x.cur # x.monitor
           \/ v.label \in {Blank, Waiting}
           \/ x.cur = x.monitor /\ x.cur # NoPage /\ v.label = Endpoint(x, x.pages[x.monitor].pin)
    BY <2>1, <2>5, ProbesAre
  <2>7. Same(w, v) BY <2>4, <2>6, SameAll
  <2>8. Live(v) = Live(w) BY <2>7, SameLive
  <2>9. ASSUME Rail(w) PROVE Rail(v)
    <3>1. Bound(w) /\ InFront(w) /\ Badged(w) /\ Timed(w) BY <2>9 DEF Rail
    <3>2. w.monitor \in PageSet /\ w.cur \in PageSet BY <2>2, Parts, Numbers
    <3>3. v.tabs = w.tabs /\ \A g \in PageSet : v.pages[g].panes = w.pages[g].panes /\ v.pages[g].pin = w.pages[g].pin
      BY <2>3, <2>6, <2>7 DEF Same
    <3>4. /\ v.monitor = w.monitor /\ v.session = w.session /\ v.shown = w.shown /\ v.badge = w.badge /\ v.panes = w.panes
          /\ v.cur = w.cur BY <2>3, <2>6
    <3>5. Bound(v) BY <3>1, <3>2, <3>3, <3>4, <2>8 DEF Bound
    <3>6. \A p : Up(v, p) = Up(w, p) /\ Endpoint(v, p) = Endpoint(w, p) /\ Endpoint(x, p) = Endpoint(w, p)
      BY <3>4, <2>3 DEF Up, Endpoint
    <3>7. CurrentPanes(v) = CurrentPanes(w) BY <3>2, <3>3, <3>4 DEF CurrentPanes
    <3>8. InFront(v) BY <3>1, <3>2, <3>3, <3>4, <3>6, <3>7 DEF InFront
    <3>9. Badged(v) BY <3>1, <3>4, <3>6 DEF Badged
    <3>10. ASSUME w.session # NoPane PROVE v.label \in {Blank, Waiting, Endpoint(v, v.session)}
      BY <3>1, <3>10, <3>4, <3>6, <2>3, <2>6 DEF Bound, Timed
    <3>11. ASSUME NEW g \in PageSet, v.pages[g].probe.on
           PROVE  /\ ~v.home /\ v.cur \in {g, Settings}
                  /\ v.session # NoPane /\ g = v.monitor => v.pages[g].probe.target = Endpoint(v, v.session)
      BY <3>11, <3>6, <2>3, <2>6, <3>1, <3>4, Laid DEF Bound
    <3>12. Timed(v) BY <3>10, <3>11, <3>4 DEF Timed
    <3> QED BY <3>5, <3>8, <3>9, <3>12 DEF Rail
  <2> QED BY <2>3, <2>6, <2>7, <2>9
<1> QED BY <1>1, <1>2

\* Showing the start page exactly when there is no tab.
LEMMA ShowTabsIs ==
    ASSUME NEW w, Layout(w), NEW v, v = ShowTabs(w)
    PROVE  Layout(v) /\ Same(w, v) /\ (Rail(w) => Rail(v)) /\ v.cur = w.cur /\ v.panes = w.panes /\ v.selected = w.selected
<1> DEFINE home == w.tabs = <<>>
<1>1. home \in BOOLEAN OBVIOUS
<1>2. v = ShowHome(w, home) BY DEF ShowTabs
<1> HIDE DEF home
<1> QED BY <1>1, <1>2, ShowHomeIs

\* Another page in front.
LEMMA Fronted ==
    ASSUME NEW w, Layout(w), NEW g \in ToSet(w.tabs), NEW v, v = [w EXCEPT !.cur = g]
    PROVE  /\ Layout(v) /\ Same(w, v) /\ v.cur = g /\ v.panes = w.panes /\ v.selected = w.selected /\ v.home = w.home
           /\ CurrentPanes(v) = w.pages[g].panes
           /\ (g = Settings /\ Rail(w) => Rail(v))
<1>1. w \in WsType /\ g \in PageSet /\ g # NoPage /\ w.tabs # <<>> BY Laid, Numbers DEF ToSet
<1>2. /\ v \in WsType /\ v.tabs = w.tabs /\ v.cur = g /\ v.home = w.home /\ v.pages = w.pages /\ v.panes = w.panes
      /\ v.opened = w.opened /\ v.selected = w.selected /\ v.monitor = w.monitor /\ v.session = w.session
      /\ v.shown = w.shown /\ v.badge = w.badge /\ v.label = w.label BY <1>1 DEF WsType
<1>3. Same(w, v) BY <1>2 DEF Same
<1>4. Layout(v)
  <2>1. v.selected \subseteq ToSet(w.tabs) BY <1>2 DEF Layout
  <2>2. \A h \in PageSet : ProbeSound(v.pages[h].probe) /\ (w.pages[h] = EmptyPage => v.pages[h] = EmptyPage)
    BY <1>2, Laid
  <2> QED BY <2>1, <2>2, <1>1, <1>2, <1>3, LayoutKeeps
<1>5. CurrentPanes(v) = w.pages[g].panes BY <1>1, <1>2 DEF CurrentPanes
<1>6. ASSUME g = Settings, Rail(w) PROVE Rail(v)
  <2>1. Bound(w) /\ InFront(w) /\ Badged(w) /\ Timed(w) BY <1>6 DEF Rail
  <2>2. Live(v) = Live(w) BY <1>3, SameLive
  <2>3. Bound(v) BY <2>1, <2>2, <1>2 DEF Bound
  <2>4. InFront(v) BY <1>5, <1>6, Laid DEF ToSet, InFront
  <2>5. Badged(v) BY <2>1, <1>2 DEF Badged, Up
  <2>6. Timed(v) BY <2>1, <1>2, <1>6 DEF Timed, Endpoint
  <2> QED BY <2>3, <2>4, <2>5, <2>6 DEF Rail
<1> QED BY <1>2, <1>3, <1>4, <1>5, <1>6

\* The tab bar goes to a tab, and the rail with it.
LEMMA GoToIs ==
    ASSUME NEW w, Layout(w), NEW g \in ToSet(w.tabs), g = Settings => Rail(w), NEW v, v = GoTo(w, g)
    PROVE  Sound(v) /\ Same(w, v) /\ v.cur = g /\ v.panes = w.panes /\ v.selected = w.selected
<1> DEFINE x == [w EXCEPT !.cur = g]  y == ShowHome(x, FALSE)
<1>1. v = Publish(y) BY DEF GoTo
<1>2. /\ Layout(x) /\ Same(w, x) /\ x.cur = g /\ x.panes = w.panes /\ x.selected = w.selected
      /\ CurrentPanes(x) = w.pages[g].panes
      /\ (g = Settings /\ Rail(w) => Rail(x)) BY Fronted
<1> HIDE DEF x
<1>3. Layout(y) /\ Same(x, y) /\ (Rail(x) => Rail(y)) /\ y.cur = x.cur /\ y.panes = x.panes /\ y.selected = x.selected
  <2>1. \E b \in BOOLEAN : b = FALSE OBVIOUS
  <2>2. PICK b \in BOOLEAN : b = FALSE BY <2>1
  <2>3. y = ShowHome(x, b) BY <2>2
  <2> HIDE DEF y
  <2> QED BY <2>3, <1>2, ShowHomeIs
<1> HIDE DEF y
<1>4. Same(w, y) BY <1>2, <1>3, SameAll
<1>5. CurrentPanes(y) = <<>> => Rail(y)
  <2>1. g \in PageSet /\ g # NoPage BY Laid, Numbers
  <2>2. CurrentPanes(y) = y.pages[g].panes BY <1>2, <1>3, <2>1 DEF CurrentPanes
  <2>3. y.tabs = w.tabs BY <1>4 DEF Same
  <2>4. y.pages[g].panes # <<>> \/ g = Settings BY <2>1, <2>3, <1>3, Laid
  <2> QED BY <2>2, <2>4, <1>2, <1>3
<1>6. Sound(v) /\ Still(y, v) BY <1>1, <1>3, <1>5, PublishIs
<1> QED BY <1>2, <1>3, <1>4, <1>6, SameAll DEF Still

\* Another selection.
LEMMA SelectedIs ==
    ASSUME NEW w, Sound(w), NEW chosen, chosen \subseteq ToSet(w.tabs), Settings \notin chosen,
           NEW v, v = [w EXCEPT !.selected = chosen]
    PROVE  Sound(v) /\ Same(w, v) /\ v.cur = w.cur /\ v.panes = w.panes /\ v.selected = chosen
<1>1. w \in WsType /\ Layout(w) /\ Rail(w) /\ chosen \in SUBSET PageIds BY Laid DEF Sound
<1>2. /\ v \in WsType /\ v.tabs = w.tabs /\ v.cur = w.cur /\ v.home = w.home /\ v.pages = w.pages /\ v.panes = w.panes
      /\ v.opened = w.opened /\ v.selected = chosen /\ v.monitor = w.monitor /\ v.session = w.session
      /\ v.shown = w.shown /\ v.badge = w.badge /\ v.label = w.label BY <1>1 DEF WsType
<1>3. Same(w, v) BY <1>2 DEF Same
<1>4. Layout(v)
  <2>1. \A h \in PageSet : ProbeSound(v.pages[h].probe) /\ (w.pages[h] = EmptyPage => v.pages[h] = EmptyPage)
    BY <1>1, <1>2, Laid
  <2>2. IF w.tabs = <<>> THEN v.cur = NoPage ELSE v.cur \in ToSet(w.tabs) BY <1>1, <1>2 DEF Layout
  <2> QED BY <2>1, <2>2, <1>1, <1>2, <1>3, LayoutKeeps
<1>5. Rail(v)
  <2>1. Live(v) = Live(w) BY <1>1, <1>3, SameLive
  <2>2. Bound(v) BY <1>1, <1>2, <2>1 DEF Bound, Rail
  <2>3. InFront(v) BY <1>1, <1>2 DEF InFront, Rail, CurrentPanes, Up, Endpoint
  <2>4. Badged(v) BY <1>1, <1>2 DEF Badged, Rail, Up
  <2>5. Timed(v) BY <1>1, <1>2 DEF Timed, Rail, Endpoint
  <2> QED BY <2>2, <2>3, <2>4, <2>5 DEF Rail
<1> QED BY <1>2, <1>3, <1>4, <1>5 DEF Sound

\* A click on a tab.
LEMMA SelectIs ==
    ASSUME NEW w, Sound(w), NEW g \in ToSet(w.tabs), NEW chosen, chosen \subseteq ToSet(w.tabs), NEW v, v = Select(w, g, chosen)
    PROVE  Sound(v) /\ Same(w, v) /\ v.cur = g /\ v.panes = w.panes
<1> DEFINE set == IF w.pages[g].panes = <<>> THEN {} ELSE {h \in chosen : w.pages[h].panes # <<>>}
           x == [w EXCEPT !.selected = set]
<1>1. v = GoTo(x, g) BY DEF Select
<1>2. set \subseteq ToSet(w.tabs) /\ Settings \notin set BY Laid DEF Sound
<1> HIDE DEF set
<1>3. Sound(x) /\ Same(w, x) /\ x.cur = w.cur /\ x.panes = w.panes BY <1>2, SelectedIs
<1> HIDE DEF x
<1>4. g \in ToSet(x.tabs) BY <1>3 DEF Same
<1>5. Sound(v) /\ Same(x, v) /\ v.cur = g /\ v.panes = x.panes BY <1>1, <1>3, <1>4, GoToIs DEF Sound
<1> QED BY <1>3, <1>5, SameAll

\* A report of a connection that does not change the tabs: the record of the pane alone.
Turned(w, p, state) == [w EXCEPT !.panes[p].state = state, !.panes[p].known = TRUE]

\* The new state of a pane is kept, and the window is as it was.
LEMMA TurnedIs ==
    ASSUME NEW w, Layout(w), NEW p \in PaneIds, NEW state \in States,
           NEW v, v = Turned(w, p, state)
    PROVE  /\ Layout(v) /\ Same(w, v)
           /\ v.cur = w.cur /\ v.home = w.home /\ v.selected = w.selected /\ v.pages = w.pages
           /\ v.monitor = w.monitor /\ v.session = w.session /\ v.shown = w.shown /\ v.badge = w.badge /\ v.label = w.label
           /\ v.panes \in [PaneIds -> PaneType] /\ v.panes[p].state = state /\ v.panes[p].known
           /\ \A q \in PaneIds : /\ Endpoint(v, q) = Endpoint(w, q) /\ v.panes[q].next = w.panes[q].next
                                 /\ v.panes[q].server = w.panes[q].server
                                 /\ q # p => v.panes[q] = w.panes[q]
<1>1. w \in WsType /\ w.panes \in [PaneIds -> PaneType] BY Laid, Parts
<1> DEFINE panes == [w.panes EXCEPT ![p].state = state, ![p].known = TRUE]
<1>2. v = [w EXCEPT !.panes = panes] BY <1>1 DEF WsType, Turned
<1>3. /\ panes \in [PaneIds -> PaneType] /\ panes[p].state = state /\ panes[p].known
      /\ \A q \in PaneIds : /\ panes[q].server = w.panes[q].server /\ panes[q].version = w.panes[q].version
                            /\ panes[q].next = w.panes[q].next /\ (q # p => panes[q] = w.panes[q])
  BY <1>1 DEF PaneType
<1> HIDE DEF panes
<1>4. /\ v \in WsType /\ v.tabs = w.tabs /\ v.cur = w.cur /\ v.home = w.home /\ v.pages = w.pages /\ v.panes = panes
      /\ v.opened = w.opened /\ v.selected = w.selected /\ v.monitor = w.monitor /\ v.session = w.session
      /\ v.shown = w.shown /\ v.badge = w.badge /\ v.label = w.label BY <1>1, <1>2, <1>3 DEF WsType
<1>5. Same(w, v) BY <1>3, <1>4 DEF Same
<1>6. Layout(v)
  <2>1. v.selected \subseteq ToSet(w.tabs) /\ IF w.tabs = <<>> THEN v.cur = NoPage ELSE v.cur \in ToSet(w.tabs)
    BY <1>4 DEF Layout
  <2>2. \A h \in PageSet : ProbeSound(v.pages[h].probe) /\ (w.pages[h] = EmptyPage => v.pages[h] = EmptyPage)
    BY <1>4, Laid
  <2> QED BY <2>1, <2>2, <1>4, <1>5, LayoutKeeps
<1>7. \A q \in PaneIds : Endpoint(v, q) = Endpoint(w, q) BY <1>3, <1>4 DEF Endpoint
<1> QED BY <1>3, <1>4, <1>5, <1>6, <1>7

\* A true rail stays true under another badge that is true.
LEMMA PresentedIs ==
    ASSUME NEW w, Layout(w), NEW s, NEW v, Presented(w, s, v)
    PROVE  /\ Layout(v) /\ Still(w, v)
           /\ v.pages = w.pages /\ v.monitor = w.monitor /\ v.session = w.session /\ v.shown = w.shown /\ v.label = w.label
           /\ (Bound(w) /\ InFront(w) /\ Timed(w) /\ (Badged(w) \/ w.shown = s) => Rail(v))
<1>1. PICK b \in Badges : v = [w EXCEPT !.badge = b] BY DEF Presented
<1>2. w \in WsType BY Laid
<1>3. /\ v \in WsType /\ v.tabs = w.tabs /\ v.cur = w.cur /\ v.home = w.home /\ v.pages = w.pages /\ v.panes = w.panes
      /\ v.opened = w.opened /\ v.selected = w.selected /\ v.monitor = w.monitor /\ v.session = w.session
      /\ v.shown = w.shown /\ v.label = w.label BY <1>1, <1>2 DEF WsType
<1>4. Same(w, v) BY <1>3 DEF Same
<1>5. Layout(v)
  <2>1. v.selected \subseteq ToSet(w.tabs) /\ IF w.tabs = <<>> THEN v.cur = NoPage ELSE v.cur \in ToSet(w.tabs)
    BY <1>3 DEF Layout
  <2>2. \A h \in PageSet : ProbeSound(v.pages[h].probe) /\ (w.pages[h] = EmptyPage => v.pages[h] = EmptyPage)
    BY <1>3, Laid
  <2> QED BY <2>1, <2>2, <1>3, <1>4, LayoutKeeps
<1>6. ASSUME Bound(w), InFront(w), Timed(w), Badged(w) \/ w.shown = s PROVE Rail(v)
  <2>1. Live(v) = Live(w) BY <1>4, SameLive
  <2>2. Bound(v) BY <1>3, <1>6, <2>1 DEF Bound
  <2>3. InFront(v) BY <1>3, <1>6 DEF InFront, CurrentPanes, Up, Endpoint
  <2>4. Badged(v) BY <1>6 DEF Bound, Presented
  <2>5. Timed(v) BY <1>3, <1>6 DEF Timed, Endpoint
  <2> QED BY <2>2, <2>3, <2>4, <2>5 DEF Rail
<1> QED BY <1>3, <1>4, <1>5, <1>6 DEF Still

\* What a report of a connection comes to.
Reported(w, p, state, v) ==
    /\ Sound(v) /\ Same(w, v) /\ v.cur = w.cur /\ v.selected = w.selected
    /\ v.panes[p].state = state
    /\ \A q \in PaneIds : Endpoint(v, q) = Endpoint(w, q) /\ v.panes[q].next = w.panes[q].next
                          /\ (q # p => v.panes[q] = w.panes[q])

\* A session changes its state: the rail and the badge of its host follow (onConnectionStateChanged).
LEMMA ChangedIs ==
    ASSUME NEW w, Layout(w), NEW p \in PaneIds, NEW state \in States,
           p \notin ToSet(CurrentPanes(w)) => Rail(w), NEW v, v = Changed(w, p, state)
    PROVE  Reported(w, p, state, v)
<1> DEFINE now == Turned(w, p, state)
           s == w.panes[p].server
           up == state = "up"
           coming == state = "connecting"
           told == Present(now, s, up, coming)
<1>1. v = IF p \in ToSet(CurrentPanes(told)) THEN Publish(told) ELSE told BY DEF Changed, Turned
<1>0. now = Turned(w, p, state) OBVIOUS
<1> HIDE DEF now
<1>2. /\ Layout(now) /\ Same(w, now)
      /\ now.cur = w.cur /\ now.home = w.home /\ now.selected = w.selected /\ now.pages = w.pages
      /\ now.monitor = w.monitor /\ now.session = w.session /\ now.shown = w.shown /\ now.badge = w.badge
      /\ now.label = w.label
      /\ now.panes \in [PaneIds -> PaneType] /\ now.panes[p].state = state /\ now.panes[p].known
      /\ \A q \in PaneIds : /\ Endpoint(now, q) = Endpoint(w, q) /\ now.panes[q].next = w.panes[q].next
                            /\ now.panes[q].server = w.panes[q].server
                            /\ q # p => now.panes[q] = w.panes[q] BY <1>0, TurnedIs
<1>3. Presented(now, s, told)
  <2>1. now \in WsType /\ up \in BOOLEAN /\ coming \in BOOLEAN BY <1>2, Laid
  <2> HIDE DEF s, up, coming
  <2> QED BY <2>1, PresentIs
<1> HIDE DEF told
<1>4. /\ Layout(told) /\ Still(now, told)
      /\ told.pages = now.pages
      /\ (Bound(now) /\ InFront(now) /\ Timed(now) /\ (Badged(now) \/ now.shown = s) => Rail(told))
  BY <1>2, <1>3, PresentedIs
<1> HIDE DEF s
<1>5. CurrentPanes(told) = CurrentPanes(w) BY <1>2, <1>4 DEF CurrentPanes, Still
<1>6. ASSUME p \notin ToSet(CurrentPanes(w)) PROVE Rail(told)
  <2>1. Bound(w) /\ InFront(w) /\ Badged(w) /\ Timed(w) BY <1>6 DEF Rail
  <2>2. w.session \in PaneIds \cup {NoPane} BY Laid, Parts
  <2>3. Live(now) = Live(w) BY <1>2, SameLive
  <2>4. Bound(now) BY <2>2, <1>2, <2>1, <2>3 DEF Same, Bound
  <2>5. InFront(now) BY <1>2, <1>6, <2>1, LiveIs DEF CurrentPanes, Up, InFront
  <2>6. Timed(now) BY <2>2, <1>2, <2>1 DEF Timed
  <2>7. Badged(now) \/ now.shown = s
    <3>1. CASE w.session = p BY <3>1, <2>1, <1>2, Numbers DEF Bound, s
    <3>2. CASE w.session # p BY <3>2, <2>2, <1>2, <2>1 DEF Badged, Up
    <3> QED BY <3>1, <3>2
  <2> QED BY <2>4, <2>5, <2>6, <2>7, <1>4
<1>7. Sound(v) /\ Still(told, v)
  <2>1. CASE p \in ToSet(CurrentPanes(w)) BY <2>1, <1>5, <1>1, <1>4, PublishIs DEF ToSet
  <2>2. CASE p \notin ToSet(CurrentPanes(w)) BY <2>2, <1>1, <1>5, <1>4, <1>6, SameAll DEF Sound, Still
  <2> QED BY <2>1, <2>2
<1>8. v.panes = now.panes /\ v.cur = w.cur /\ v.selected = w.selected BY <1>2, <1>4, <1>7 DEF Still
<1>9. Same(w, v) BY <1>2, <1>4, <1>7, SameAll DEF Still
<1>10. \A q \in PaneIds : Endpoint(v, q) = Endpoint(w, q) /\ v.panes[q].next = w.panes[q].next
                          /\ (q # p => v.panes[q] = w.panes[q]) BY <1>2, <1>8 DEF Endpoint
<1>11. v.panes[p].state = state BY <1>2, <1>8
<1> QED BY <1>7, <1>8, <1>9, <1>10, <1>11 DEF Reported

\* connectToServer and disconnectFromHost.
LEMMA ConnectIs ==
    ASSUME NEW w, Layout(w), NEW p \in PaneIds,
           w.panes[p].state # "off" \/ p \notin ToSet(CurrentPanes(w)) => Rail(w), NEW v, v = Connect(w, p)
    PROVE  Sound(v) /\ Same(w, v) /\ v.cur = w.cur /\ v.selected = w.selected
<1>1. CASE w.panes[p].state # "off" BY <1>1, SameAll DEF Connect, Sound
<1>2. CASE w.panes[p].state = "off" BY <1>2, ChangedIs DEF Connect, States, Reported
<1> QED BY <1>1, <1>2

\* A pane is disconnected: the workspace stays sound.
LEMMA DisconnectIs ==
    ASSUME NEW w, Sound(w), NEW p \in PaneIds, NEW v, v = Disconnect(w, p)
    PROVE  Sound(v) /\ Same(w, v) /\ v.cur = w.cur /\ v.selected = w.selected
<1>1. CASE w.panes[p].state = "off" BY <1>1, SameAll DEF Disconnect
<1>2. CASE w.panes[p].state # "off" BY <1>2, ChangedIs DEF Disconnect, Sound, States, Reported
<1> QED BY <1>1, <1>2

\* Another pane of the tab in front is the active one.
LEMMA ActivateIs ==
    ASSUME NEW w, Layout(w), NEW p, p \notin ToSet(CurrentPanes(w)) \/ w.pages[w.cur].active = p => Rail(w),
           NEW v, v = Activate(w, p)
    PROVE  /\ Sound(v) /\ v.tabs = w.tabs /\ v.opened = w.opened /\ v.cur = w.cur /\ v.panes = w.panes
           /\ v.selected = w.selected /\ \A g \in PageSet : v.pages[g].panes = w.pages[g].panes
<1>1. CASE p \notin ToSet(CurrentPanes(w)) \/ w.pages[w.cur].active = p BY <1>1 DEF Activate, Sound
<1>2. CASE p \in ToSet(CurrentPanes(w)) /\ w.pages[w.cur].active # p
  <2> DEFINE c == w.cur
             x == [w EXCEPT !.pages[c].active = p]
             pages == [w.pages EXCEPT ![c].active = p]
  <2>1. v = Publish(x) BY <1>2 DEF Activate
  <2>2. /\ w \in WsType /\ w.pages \in [PageSet -> PageType] /\ c \in PageSet /\ c \in ToSet(w.tabs) \ {Settings}
        /\ p \in PaneIds /\ CurrentPanes(w) = w.pages[c].panes BY <1>2, Laid, Parts, LiveIs DEF CurrentPanes
  <2> HIDE DEF c
  <2>3. x = [w EXCEPT !.pages = pages] BY <2>2 DEF WsType
  <2>4. /\ pages \in [PageSet -> PageType]
        /\ \A g \in PageSet : /\ pages[g].panes = w.pages[g].panes /\ pages[g].probe = w.pages[g].probe
                              /\ (g # c => pages[g] = w.pages[g])
        /\ pages[c].active = p BY <2>2 DEF PageType
  <2> HIDE DEF pages
  <2>5. /\ x \in WsType /\ x.tabs = w.tabs /\ x.cur = w.cur /\ x.home = w.home /\ x.pages = pages /\ x.panes = w.panes
        /\ x.opened = w.opened /\ x.selected = w.selected BY <2>2, <2>3, <2>4 DEF WsType
  <2> HIDE DEF x
  <2>6. \A g \in PageSet : PageSound(w, g) => PageSound(x, g)
    <3> TAKE g \in PageSet
    <3> HAVE PageSound(w, g)
    <3>1. x.pages[g].panes = w.pages[g].panes /\ (g = c \/ x.pages[g].active = w.pages[g].active) /\ x.pages[c].active = p
      BY <2>4, <2>5
    <3> QED BY <3>1, <2>2, <2>5, <1>2 DEF PageSound
  <2>7. Layout(x)
    <3>1. \A g \in PageSet : IF g \in ToSet(x.tabs) \ {Settings} THEN PageSound(x, g) ELSE x.pages[g] = EmptyPage
      BY <2>2, <2>4, <2>5, <2>6 DEF Layout
    <3>2. \A g, h \in PageSet : g # h => ToSet(x.pages[g].panes) \cap ToSet(x.pages[h].panes) = {}
      BY <2>4, <2>5 DEF Layout
    <3>3. \A g \in PageSet : ProbeSound(x.pages[g].probe) BY <2>4, <2>5 DEF Layout
    <3>4. /\ Apart(x.tabs) /\ x.selected \subseteq ToSet(x.tabs)
          /\ IF x.tabs = <<>> THEN x.cur = NoPage ELSE x.cur \in ToSet(x.tabs) BY <2>5 DEF Layout
    <3> QED BY <3>1, <3>2, <3>3, <3>4, <2>5 DEF Layout
  <2>8. CurrentPanes(x) # <<>> BY <2>2, <2>4, <2>5, <1>2, Laid DEF CurrentPanes, c, ToSet
  <2>9. Sound(v) /\ Still(x, v) BY <2>1, <2>7, <2>8, PublishIs
  <2> QED BY <2>4, <2>5, <2>9 DEF Still, Same
<1> QED BY <1>1, <1>2
----
(* New panes. *)

\* The next pane is in no tab and no tab has its number.
LEMMA Fresh ==
    ASSUME NEW w, Layout(w), w.opened < MaxPanes, NEW p, p = FreshPane(w)
    PROVE  /\ p \in PaneIds /\ p > w.opened /\ p = w.opened + 1 /\ p # Settings /\ p # NoPage /\ p \in PageSet
           /\ p \notin ToSet(w.tabs) /\ p \notin w.selected /\ w.pages[p] = EmptyPage
           /\ \A g \in PageSet : p \notin ToSet(w.pages[g].panes)
           /\ p \notin Live(w)
<1>1. w.opened \in Nat /\ p = w.opened + 1 BY Laid, Parts DEF FreshPane
<1>2. p \in PaneIds BY <1>1, Numbers
<1>3. p # Settings /\ p # NoPage /\ p \in PageSet BY <1>2, Numbers
<1>4. \A g \in PageSet : g \in ToSet(w.tabs) \ {Settings} => g <= w.opened BY DEF Layout, PageSound
<1>5. p \notin ToSet(w.tabs) BY <1>1, <1>3, <1>4
<1>6. p \notin Live(w) BY <1>1, LiveIs
<1>7. w.pages[p] = EmptyPage BY <1>3, <1>5 DEF Layout
<1> QED BY <1>1, <1>2, <1>3, <1>5, <1>6, <1>7, LiveIs, Laid

\* The pane is opened: its record.
LEMMA OpenedIs ==
    ASSUME NEW w, Layout(w), w.opened < MaxPanes, NEW s \in Servers, NEW n \in Nat, NEW p, p = FreshPane(w)
    PROVE  LET x == Opened(w, p, s, n) IN
           /\ x \in WsType /\ x.tabs = w.tabs /\ x.cur = w.cur /\ x.home = w.home /\ x.pages = w.pages /\ x.opened = p
           /\ x.selected = w.selected /\ x.panes[p].server = s /\ x.panes[p].state = "off"
           /\ \A q \in PaneIds : q # p => x.panes[q] = w.panes[q]
<1>1. w \in WsType /\ w.panes \in [PaneIds -> PaneType] BY Laid, Parts
<1>2. p \in PaneIds BY Fresh
<1>3. NewPane(s, n) \in PaneType /\ NewPane(s, n).server = s /\ NewPane(s, n).state = "off" BY DEF NewPane, PaneType, States
<1> DEFINE r == NewPane(s, n)  panes == [w.panes EXCEPT ![p] = r]
<1>4. Opened(w, p, s, n) = [w EXCEPT !.panes = panes, !.opened = p] BY <1>1 DEF Opened, WsType
<1> HIDE DEF r
<1>5. panes \in [PaneIds -> PaneType] /\ panes[p] = r /\ \A q \in PaneIds : q # p => panes[q] = w.panes[q]
  BY <1>1, <1>2, <1>3 DEF r
<1> HIDE DEF panes
<1>6. p \in 0 .. MaxPanes BY <1>2, Numbers
<1> QED BY <1>1, <1>3, <1>4, <1>5, <1>6 DEF WsType, r

\* A tab with one pane.
LEMMA OnePane ==
    ASSUME NEW p \in PaneIds
    PROVE  /\ NewPage(<<p>>, p) \in PageType /\ NewPage(<<p>>, p).panes = <<p>> /\ NewPage(<<p>>, p).active = p
           /\ NewPage(<<p>>, p).probe = NoProbe
           /\ <<p>> \in Seq(PaneIds) /\ <<p>> # <<>> /\ Apart(<<p>>) /\ ToSet(<<p>>) = {p} /\ <<p>>[1] = p
BY Nothings DEF Apart, ToSet, NewPage, PageType

\* One more pane, of host s.
Grown(w, s, v) ==
    /\ v.opened = w.opened + 1 /\ Live(v) = Live(w) \cup {w.opened + 1}
    /\ \A q \in PaneIds : v.panes[q].server = IF q = w.opened + 1 THEN s ELSE w.panes[q].server

\* What addSession comes to: one more tab, of its own pane.
Added(w, s, v) ==
    /\ Grown(w, s, v)
    /\ \A g \in PageSet : g # w.opened + 1 => v.pages[g].panes = w.pages[g].panes

\* A tab is opened and connected: it is in front, with a pane of its own.
LEMMA AddTabIs ==
    ASSUME NEW w, Sound(w), w.opened < MaxPanes, NEW s \in Servers, NEW n \in Nat, NEW v, v = AddTab(w, s, n)
    PROVE  Sound(v) /\ Added(w, s, v)
<1> DEFINE p == FreshPane(w)
           x == Opened(w, p, s, n)
           new == NewPage(<<p>>, p)
           pages == [x.pages EXCEPT ![p] = new]
           added == [x EXCEPT !.pages[p] = new, !.tabs = Append(@, p), !.cur = p, !.selected = {p}]
           y == Publish(added)
           z == ShowTabs(y)
<1>1. v = Connect(z, p) BY DEF AddTab
<1>2. /\ p \in PaneIds /\ p > w.opened /\ p = w.opened + 1 /\ p # Settings /\ p # NoPage /\ p \in PageSet
      /\ p \notin ToSet(w.tabs) /\ p \notin w.selected /\ w.pages[p] = EmptyPage
      /\ \A g \in PageSet : p \notin ToSet(w.pages[g].panes)
      /\ p \notin Live(w) BY Fresh DEF Sound
<1>3. /\ x \in WsType /\ x.tabs = w.tabs /\ x.cur = w.cur /\ x.home = w.home /\ x.pages = w.pages /\ x.opened = p
      /\ x.selected = w.selected /\ x.panes[p].server = s /\ x.panes[p].state = "off"
      /\ \A q \in PaneIds : q # p => x.panes[q] = w.panes[q] BY OpenedIs DEF Sound
<1> HIDE DEF p
<1>4. /\ new \in PageType /\ new.panes = <<p>> /\ new.active = p /\ new.probe = NoProbe
      /\ <<p>> \in Seq(PaneIds) /\ <<p>> # <<>> /\ Apart(<<p>>) /\ ToSet(<<p>>) = {p} /\ <<p>>[1] = p
  BY <1>2, OnePane
<1>5. x.pages \in [PageSet -> PageType] /\ Layout(w) BY <1>3, Parts DEF Sound
<1> HIDE DEF x, new
<1>6. added = [x EXCEPT !.pages = pages, !.tabs = Append(x.tabs, p), !.cur = p, !.selected = {p}]
  BY <1>3 DEF WsType
<1>7. pages \in [PageSet -> PageType] /\ pages[p] = new /\ \A g \in PageSet : g # p => pages[g] = w.pages[g]
  BY <1>2, <1>3, <1>4, <1>5
<1> HIDE DEF pages
<1> DEFINE tabs == Append(x.tabs, p)
<1>8. /\ tabs \in Seq(PageIds \cup {Settings}) /\ tabs # <<>> /\ ToSet(tabs) = ToSet(w.tabs) \cup {p} /\ Apart(tabs)
  BY <1>2, <1>5, <1>3, Laid, Numbers, SetOfAppend
<1>9. added = [x EXCEPT !.pages = pages, !.tabs = tabs, !.cur = p, !.selected = {p}] BY <1>6
<1> HIDE DEF tabs, added
<1>10. /\ added \in WsType /\ added.pages = pages /\ added.tabs = tabs /\ added.cur = p /\ added.selected = {p}
       /\ added.panes = x.panes /\ added.opened = p BY <1>2, <1>3, <1>7, <1>8, <1>9, Numbers DEF WsType
<1>11. ASSUME NEW g \in ToSet(tabs) \ {Settings} PROVE PageSound(added, g)
  <2>1. CASE g = p
    <3> DEFINE one == <<p>>
    <3>1. one # <<>> /\ Apart(one) /\ one[1] = p /\ p \in ToSet(one) /\ \A q \in ToSet(one) : q = p BY <1>4
    <3>2. added.pages[g].panes = one /\ added.pages[g].active = p BY <2>1, <1>4, <1>7, <1>10
    <3>3. p <= added.opened /\ added.panes[p].server \in Servers BY <1>2, <1>3, <1>10, Numbers
    <3> HIDE DEF one
    <3> QED BY <2>1, <3>1, <3>2, <3>3 DEF PageSound
  <2>2. CASE g # p
    <3>1. g \in ToSet(w.tabs) \ {Settings} /\ g \in PageSet BY <2>2, <1>5, <1>8, Laid, Numbers
    <3>2. PageSound(w, g) /\ w.pages[g].panes \in Seq(PaneIds) BY <3>1, <1>5, Laid, PartsOf
    <3>3. added.pages[g] = w.pages[g] BY <2>2, <3>1, <1>7, <1>10
    <3>4. \A q \in ToSet(w.pages[g].panes) : q # p /\ q \in PaneIds BY <3>1, <1>2, <1>5, LiveIs
    <3>5. g <= w.opened /\ w.opened \in Nat /\ g \in Nat /\ p \in Nat
      BY <3>1, <3>2, <1>2, <1>5, Laid, Parts, Numbers DEF PageSound
    <3>6. g <= p BY <3>5, <1>2
    <3>7. \A q \in ToSet(w.pages[g].panes) : q <= p /\ x.panes[q].server \in Servers /\ (q = g \/ q \notin ToSet(tabs))
      <4> TAKE q \in ToSet(w.pages[g].panes)
      <4>1. q <= w.opened /\ w.panes[q].server \in Servers /\ (q = g \/ q \notin ToSet(w.tabs)) BY <3>2 DEF PageSound
      <4>2. q # p /\ q \in PaneIds /\ q \in Nat BY <3>4, Numbers
      <4> QED BY <4>1, <4>2, <3>5, <1>2, <1>3, <1>8
    <3> QED BY <3>2, <3>3, <3>6, <3>7, <1>10 DEF PageSound
  <2> QED BY <2>1, <2>2
<1>12. Layout(added)
  <2>1. \A g \in PageSet : IF g \in ToSet(tabs) \ {Settings} THEN PageSound(added, g) ELSE added.pages[g] = EmptyPage
    <3> TAKE g \in PageSet
    <3>1. CASE g \in ToSet(tabs) \ {Settings} BY <3>1, <1>11
    <3>2. CASE g \notin ToSet(tabs) \ {Settings} BY <3>2, <1>2, <1>8, <1>5, <1>7, <1>10 DEF Layout
    <3> QED BY <3>1, <3>2
  <2>2. \A g, h \in PageSet : g # h => ToSet(added.pages[g].panes) \cap ToSet(added.pages[h].panes) = {}
    <3>1. \A g, h \in PageSet : g # h => ToSet(w.pages[g].panes) \cap ToSet(w.pages[h].panes) = {} BY <1>5 DEF Layout
    <3>2. \A g \in PageSet : ToSet(added.pages[g].panes) = IF g = p THEN {p} ELSE ToSet(w.pages[g].panes)
      BY <1>4, <1>7, <1>10
    <3> QED BY <3>1, <3>2, <1>2
  <2>3. \A g \in PageSet : ProbeSound(added.pages[g].probe) BY <1>4, <1>5, <1>7, <1>10, Laid, Nothings
  <2>4. /\ Apart(added.tabs) /\ added.selected \subseteq ToSet(added.tabs)
        /\ IF added.tabs = <<>> THEN added.cur = NoPage ELSE added.cur \in ToSet(added.tabs) BY <1>8, <1>10
  <2> QED BY <2>1, <2>2, <2>3, <2>4, <1>10 DEF Layout
<1>13. CurrentPanes(added) = <<p>> BY <1>2, <1>4, <1>7, <1>10 DEF CurrentPanes
<1>14. Sound(y) /\ Still(added, y) BY <1>12, <1>13, <1>4, PublishIs
<1> HIDE DEF y
<1>15. Layout(z) /\ Same(y, z) /\ Rail(z) /\ z.panes = y.panes BY <1>14, ShowTabsIs DEF Sound
<1> HIDE DEF z
<1>16. Sound(v) /\ Same(z, v) BY <1>1, <1>2, <1>15, ConnectIs
<1>17. Same(added, v) BY <1>14, <1>15, <1>16, SameAll DEF Still
<1>18. Live(v) = Live(w) \cup {p}
  <2>1. Live(v) = Live(added) BY <1>12, <1>17, SameLive
  <2>2. \A q : q \in Live(added) <=> q \in Live(w) \/ q = p
    <3> TAKE q
    <3>1. q \in Live(added) <=> \E g \in PageSet : q \in ToSet(added.pages[g].panes) BY <1>12, LiveIs
    <3>2. q \in Live(w) <=> \E g \in PageSet : q \in ToSet(w.pages[g].panes) BY <1>5, LiveIs
    <3>3. \A g \in PageSet : ToSet(added.pages[g].panes) = IF g = p THEN {p} ELSE ToSet(w.pages[g].panes)
      BY <1>4, <1>7, <1>10
    <3>4. ToSet(w.pages[p].panes) = {} BY <1>2, Nothings DEF ToSet
    <3> QED BY <3>1, <3>2, <3>3, <3>4, <1>2
  <2> QED BY <2>1, <2>2
<1>19. \A g \in PageSet : g # p => v.pages[g].panes = w.pages[g].panes BY <1>7, <1>10, <1>17 DEF Same
<1>20. \A q \in PaneIds : v.panes[q].server = IF q = p THEN s ELSE w.panes[q].server BY <1>3, <1>10, <1>17 DEF Same
<1>21. v.opened = p BY <1>10, <1>17 DEF Same
<1> QED BY <1>2, <1>16, <1>18, <1>19, <1>20, <1>21 DEF Added, Grown
----
(* Sequences cut in two, with an element put in or taken out. *)

\* A sequence cut in two: the parts have its elements, in their order.
LEMMA SplitAt ==
    ASSUME NEW V, NEW s \in Seq(V), NEW i \in 0 .. Len(s)
    PROVE  LET a == SubSeq(s, 1, i)  b == SubSeq(s, i + 1, Len(s)) IN
           /\ a \in Seq(V) /\ b \in Seq(V) /\ Len(a) = i /\ Len(b) = Len(s) - i
           /\ \A j \in 1 .. i : a[j] = s[j]
           /\ \A j \in 1 .. Len(s) - i : b[j] = s[i + j]
           /\ ToSet(a) \cup ToSet(b) = ToSet(s)
           /\ (Apart(s) => Apart(a) /\ Apart(b) /\ ToSet(a) \cap ToSet(b) = {})
<1> DEFINE n == Len(s)  a == SubSeq(s, 1, i)  b == SubSeq(s, i + 1, n)
<1>1. n \in Nat /\ DOMAIN s = 1 .. n /\ \A j \in 1 .. n : s[j] \in V BY SetOf
<1>2. a \in Seq(V) /\ Len(a) = i /\ \A j \in 1 .. i : a[j] = s[j] BY <1>1, SubSeqProperties
<1>3. b \in Seq(V) /\ Len(b) = n - i /\ \A j \in 1 .. n - i : b[j] = s[i + j]
  <2> DEFINE m == i + 1  c == SubSeq(s, m, n)
  <2>1. m \in Int /\ n \in Int /\ \A k \in m .. n : s[k] \in V BY <1>1
  <2>0. n \in Nat /\ i \in Nat /\ i <= n BY <1>1
  <2>2. /\ n - m + 1 = n - i /\ (m <= n => n - m + 1 = n - i) /\ (~(m <= n) => n - i = 0)
        /\ \A j \in 1 .. n - i : m + j - 1 = i + j
    <3> HIDE DEF n
    <3> QED BY <2>0
  <2> HIDE DEF m, n
  <2>3. /\ c \in Seq(V) /\ Len(c) = (IF m <= n THEN n - m + 1 ELSE 0)
        /\ \A j \in 1 .. n - m + 1 : c[j] = s[m + j - 1] BY <2>1, SubSeqProperties
  <2> HIDE DEF c
  <2>4. c \in Seq(V) /\ Len(c) = n - i /\ \A j \in 1 .. n - i : c[j] = s[i + j] BY <2>2, <2>3
  <2> QED BY <2>4 DEF c, m, n
<1> HIDE DEF a, b
<1>4. ToSet(a) = {a[j] : j \in 1 .. i} /\ ToSet(b) = {b[j] : j \in 1 .. n - i} /\ ToSet(s) = {s[j] : j \in 1 .. n}
  <2>1. DOMAIN a = 1 .. i /\ DOMAIN b = 1 .. n - i BY <1>2, <1>3
  <2> QED BY <2>1, <1>1 DEF ToSet
<1>5. ToSet(a) \cup ToSet(b) = ToSet(s)
  <2>1. \A j \in 1 .. i : j \in 1 .. n BY <1>1
  <2>2. \A j \in 1 .. n - i : i + j \in 1 .. n BY <1>1
  <2>3. ASSUME NEW j \in 1 .. n PROVE s[j] \in ToSet(a) \cup ToSet(b)
    <3>1. CASE j <= i BY <3>1, <1>1, <1>2, <1>4
    <3>2. CASE ~(j <= i)
      <4>1. j - i \in 1 .. n - i /\ i + (j - i) = j BY <3>2, <1>1
      <4>2. b[j - i] = s[j] BY <4>1, <1>3
      <4> QED BY <4>1, <4>2, <1>4
    <3> QED BY <3>1, <3>2
  <2>4. ASSUME NEW j \in 1 .. i PROVE a[j] \in ToSet(s) BY <2>1, <1>2, <1>4
  <2>5. ASSUME NEW j \in 1 .. n - i PROVE b[j] \in ToSet(s) BY <2>2, <1>3, <1>4
  <2>6. \A x \in ToSet(s) : x \in ToSet(a) \cup ToSet(b) BY <2>3, <1>4
  <2>7. \A x \in ToSet(a) : x \in ToSet(s) BY <2>4, <1>4
  <2>8. \A x \in ToSet(b) : x \in ToSet(s) BY <2>5, <1>4
  <2> QED BY <2>6, <2>7, <2>8
<1>6. ASSUME Apart(s) PROVE Apart(a) /\ Apart(b) /\ ToSet(a) \cap ToSet(b) = {}
  <2>1. \A j, k \in 1 .. n : s[j] = s[k] => j = k BY <1>1, <1>6 DEF Apart
  <2>2. Apart(a) BY <1>1, <1>2, <2>1 DEF Apart
  <2>3. Apart(b) BY <1>1, <1>3, <2>1 DEF Apart
  <2>4. \A j \in 1 .. i, k \in 1 .. n - i : a[j] # b[k]
    <3> TAKE j \in 1 .. i, k \in 1 .. n - i
    <3>1. j \in 1 .. n /\ i + k \in 1 .. n /\ j # i + k BY <1>1
    <3> QED BY <3>1, <2>1, <1>2, <1>3
  <2> QED BY <2>2, <2>3, <2>4, <1>4
<1> QED BY <1>2, <1>3, <1>5, <1>6 DEF a, b

\* An element put in behind another.
LEMMA InsertIs ==
    ASSUME NEW V, NEW s \in Seq(V), NEW i \in 1 .. Len(s), NEW e \in V, e \notin ToSet(s)
    PROVE  LET t == InsertAt(s, i + 1, e) IN
           /\ t \in Seq(V) /\ t # <<>> /\ ToSet(t) = ToSet(s) \cup {e} /\ (Apart(s) => Apart(t)) /\ t[1] = s[1]
<1> DEFINE n == Len(s)  a == SubSeq(s, 1, i)  b == SubSeq(s, i + 1, n)  one == <<e>>  c == a \o one  t == c \o b
<1>1. n \in Nat /\ i \in 0 .. n BY SetOf
<1>2. /\ a \in Seq(V) /\ b \in Seq(V) /\ Len(a) = i /\ \A j \in 1 .. i : a[j] = s[j]
      /\ ToSet(a) \cup ToSet(b) = ToSet(s)
      /\ (Apart(s) => Apart(a) /\ Apart(b) /\ ToSet(a) \cap ToSet(b) = {}) BY <1>1, SplitAt
<1>3. InsertAt(s, i + 1, e) = t
  <2>1. (i + 1) - 1 = i BY <1>1
  <2> DEFINE joined(k) == SubSeq(s, 1, k) \o <<e>> \o SubSeq(s, i + 1, Len(s))
  <2>2. InsertAt(s, i + 1, e) = joined((i + 1) - 1) BY Zenon DEF InsertAt
  <2>3. t = joined(i) OBVIOUS
  <2> HIDE DEF joined, t
  <2>4. joined((i + 1) - 1) = joined(i) BY <2>1
  <2> QED BY <2>2, <2>3, <2>4
<1>4. one \in Seq(V) /\ Apart(one) /\ ToSet(one) = {e} BY DEF Apart, ToSet
<1> HIDE DEF a, b, one
<1>5. a # <<>> /\ a[1] = s[1] BY <1>1, <1>2
<1>6. /\ c \in Seq(V) /\ ToSet(c) = ToSet(a) \cup {e} /\ c[1] = a[1]
      /\ (Apart(a) /\ e \notin ToSet(a) => Apart(c)) BY <1>2, <1>4, <1>5, SetOfConcat
<1> HIDE DEF c
<1>7. c # <<>> BY <1>6, SetOf
<1>8. /\ t \in Seq(V) /\ ToSet(t) = ToSet(c) \cup ToSet(b) /\ t[1] = c[1]
      /\ (Apart(c) /\ Apart(b) /\ ToSet(c) \cap ToSet(b) = {} => Apart(t)) BY <1>2, <1>6, <1>7, SetOfConcat
<1> HIDE DEF t
<1>9. ToSet(t) = ToSet(s) \cup {e} BY <1>2, <1>6, <1>8
<1>10. t # <<>> BY <1>9, <1>8, SetOf
<1>11. Apart(s) => Apart(t) BY <1>2, <1>6, <1>8
<1> QED BY <1>3, <1>5, <1>6, <1>8, <1>9, <1>10, <1>11

\* An element taken out.
LEMMA RemoveIs ==
    ASSUME NEW V, NEW s \in Seq(V), Apart(s), NEW i \in 1 .. Len(s)
    PROVE  LET t == RemoveAt(s, i) IN t \in Seq(V) /\ ToSet(t) = ToSet(s) \ {s[i]} /\ Apart(t)
<1> DEFINE n == Len(s)  a == SubSeq(s, 1, i - 1)  b == SubSeq(s, i, n)  c == SubSeq(s, 1, i)  d == SubSeq(s, i + 1, n)
           t == a \o d
<1>1. n \in Nat /\ i \in 0 .. n /\ i - 1 \in 0 .. n /\ (i - 1) + 1 = i BY SetOf
<1>2. /\ a \in Seq(V) /\ b \in Seq(V) /\ Len(a) = i - 1 /\ \A j \in 1 .. i - 1 : a[j] = s[j]
      /\ ToSet(a) \cup ToSet(b) = ToSet(s) /\ Apart(a) /\ ToSet(a) \cap ToSet(b) = {}
      /\ \A j \in 1 .. n - (i - 1) : b[j] = s[(i - 1) + j]
      /\ Len(b) = n - (i - 1)
  <2> DEFINE k == i - 1
  <2>1. k \in 0 .. Len(s) /\ k + 1 = i BY <1>1
  <2>2. LET aa == SubSeq(s, 1, k)  bb == SubSeq(s, k + 1, n) IN
      /\ aa \in Seq(V) /\ bb \in Seq(V) /\ Len(aa) = k /\ \A j \in 1 .. k : aa[j] = s[j]
      /\ ToSet(aa) \cup ToSet(bb) = ToSet(s) /\ Apart(aa) /\ ToSet(aa) \cap ToSet(bb) = {}
      /\ \A j \in 1 .. n - k : bb[j] = s[k + j]
      /\ Len(bb) = n - k
    <3> HIDE DEF k
    <3> QED BY <2>1, SplitAt
  <2>3. SubSeq(s, k + 1, n) = b /\ SubSeq(s, 1, k) = a
    <3> HIDE DEF k
    <3> QED BY <2>1, Zenon DEF k
  <2> HIDE DEF a, b
  <2> QED BY <2>2, <2>3
<1>3. /\ c \in Seq(V) /\ d \in Seq(V) /\ Len(c) = i /\ \A j \in 1 .. i : c[j] = s[j]
      /\ ToSet(c) \cup ToSet(d) = ToSet(s) /\ Apart(d) /\ ToSet(c) \cap ToSet(d) = {} BY <1>1, SplitAt
<1>4. RemoveAt(s, i) = t BY DEF RemoveAt
<1> HIDE DEF a, b, c, d
<1>5. ToSet(a) = {a[j] : j \in 1 .. i - 1} /\ ToSet(c) = {c[j] : j \in 1 .. i}
  <2>1. DOMAIN a = 1 .. i - 1 /\ DOMAIN c = 1 .. i BY <1>1, <1>2, <1>3
  <2> QED BY <2>1 DEF ToSet
<1>6. ToSet(c) = ToSet(a) \cup {s[i]}
  <2>1. \A j \in 1 .. i : j \in 1 .. i - 1 \/ j = i BY <1>1
  <2>2. \A j \in 1 .. i - 1 : j \in 1 .. i BY <1>1
  <2>3. i \in 1 .. i BY <1>1
  <2>4. \A j \in 1 .. i - 1 : a[j] = c[j] BY <2>2, <1>2, <1>3
  <2>5. c[i] = s[i] BY <2>3, <1>3
  <2>6. \A x \in ToSet(c) : x \in ToSet(a) \/ x = s[i] BY <2>1, <2>4, <2>5, <1>5
  <2>7. \A x \in ToSet(a) : x \in ToSet(c) BY <2>2, <2>4, <1>5
  <2>8. s[i] \in ToSet(c) BY <2>3, <2>5, <1>5
  <2> QED BY <2>6, <2>7, <2>8
<1>7. s[i] \in ToSet(b) /\ s[i] \notin ToSet(a)
  <2>1. 1 \in 1 .. n - (i - 1) /\ (i - 1) + 1 = i BY <1>1
  <2>2. b[1] = s[i] BY <2>1, <1>2
  <2>3. DOMAIN b = 1 .. n - (i - 1) BY <1>1, <1>2
  <2>4. b[1] \in ToSet(b) BY <2>1, <2>3 DEF ToSet
  <2> QED BY <2>2, <2>4, <1>2
<1>8. /\ t \in Seq(V) /\ ToSet(t) = ToSet(a) \cup ToSet(d)
      /\ (Apart(a) /\ Apart(d) /\ ToSet(a) \cap ToSet(d) = {} => Apart(t)) BY <1>2, <1>3, SetOfConcat
<1> HIDE DEF t
<1> QED BY <1>2, <1>3, <1>4, <1>6, <1>7, <1>8

\* A sequence that is not empty has a first one and the rest.
LEMMA TailIs ==
    ASSUME NEW V, NEW s \in Seq(V), s # <<>>
    PROVE  /\ Head(s) \in V /\ Head(s) = s[1] /\ Head(s) \in ToSet(s) /\ Tail(s) \in Seq(V)
           /\ ToSet(s) = {Head(s)} \cup ToSet(Tail(s))
           /\ (Apart(s) => Apart(Tail(s)) /\ Head(s) \notin ToSet(Tail(s)))
<1> DEFINE n == Len(s)  t == Tail(s)
<1>1. n \in Nat \ {0} /\ DOMAIN s = 1 .. n /\ \A j \in 1 .. n : s[j] \in V BY SetOf
<1>2. t \in Seq(V) /\ Len(t) = n - 1 /\ DOMAIN t = 1 .. n - 1 /\ \A j \in 1 .. n - 1 : t[j] = s[j + 1]
  BY <1>1, HeadTailProperties
<1>3. Head(s) = s[1] /\ 1 \in 1 .. n BY <1>1
<1> HIDE DEF n, t
<1>4. ToSet(s) = {s[j] : j \in 1 .. n} /\ ToSet(t) = {t[j] : j \in 1 .. n - 1} BY <1>1, <1>2 DEF ToSet
<1>5. \A j \in 1 .. n : j = 1 \/ (j - 1 \in 1 .. n - 1 /\ s[j] = t[j - 1])
  <2> TAKE j \in 1 .. n
  <2>1. j = 1 \/ (j - 1 \in 1 .. n - 1 /\ (j - 1) + 1 = j) BY <1>1
  <2> QED BY <2>1, <1>2
<1>6. \A j \in 1 .. n - 1 : j + 1 \in 1 .. n /\ j + 1 # 1 /\ t[j] = s[j + 1] BY <1>1, <1>2
<1>7. ToSet(s) = {Head(s)} \cup ToSet(t) BY <1>3, <1>4, <1>5, <1>6
<1>8. ASSUME Apart(s) PROVE Apart(t) /\ Head(s) \notin ToSet(t)
  <2>1. \A j, k \in 1 .. n : s[j] = s[k] => j = k BY <1>1, <1>8 DEF Apart
  <2>2. \A j, k \in 1 .. n - 1 : t[j] = t[k] => j = k
    <3> TAKE j, k \in 1 .. n - 1
    <3> HAVE t[j] = t[k]
    <3>1. j + 1 = k + 1 BY <2>1, <1>6
    <3> QED BY <3>1, <1>1
  <2>3. Apart(t) BY <2>2, <1>2 DEF Apart
  <2>4. \A j \in 1 .. n - 1 : t[j] # s[1] BY <2>1, <1>6, <1>3
  <2> QED BY <2>3, <2>4, <1>3, <1>4
<1> QED BY <1>1, <1>2, <1>3, <1>4, <1>7, <1>8 DEF t

\* Turned round: the same elements.
LEMMA ReverseIs ==
    ASSUME NEW V, NEW s \in Seq(V)
    PROVE  Reverse(s) \in Seq(V) /\ Len(Reverse(s)) = Len(s) /\ ToSet(Reverse(s)) = ToSet(s)
<1> DEFINE n == Len(s)  t == Reverse(s)
<1>1. n \in Nat /\ DOMAIN s = 1 .. n /\ \A j \in 1 .. n : s[j] \in V BY SetOf
<1>2. t = [j \in 1 .. n |-> s[(n - j) + 1]] BY DEF Reverse
<1> HIDE DEF n, t
<1>3. \A j \in 1 .. n : (n - j) + 1 \in 1 .. n /\ (n - ((n - j) + 1)) + 1 = j BY <1>1
<1>4. t \in [1 .. n -> V] BY <1>1, <1>2, <1>3
<1>5. t \in Seq(V) /\ Len(t) = n /\ DOMAIN t = 1 .. n BY <1>1, <1>4
<1>6. ToSet(s) = {s[j] : j \in 1 .. n} /\ ToSet(t) = {t[j] : j \in 1 .. n} BY <1>1, <1>5 DEF ToSet
<1>7. \A j \in 1 .. n : t[j] = s[(n - j) + 1] /\ s[j] = t[(n - j) + 1] BY <1>2, <1>3
<1>8. ToSet(t) = ToSet(s) BY <1>3, <1>6, <1>7
<1> QED BY <1>5, <1>8 DEF n, t
----
(* A pane beside the active one. *)

\* The version of a host is a number.
LEMMA NextIs ==
    ASSUME NEW w, Layout(w), NEW p \in PaneIds
    PROVE  NextVersion(w, p) \in Nat
BY Laid, Parts, PartsOf DEF NextVersion

\* splitActivePane: the workspace before it is connected and published.
Split(w, p, i) ==
    LET page == w.pages[w.cur]
    IN  [Opened(w, p, w.panes[page.active].server, NextVersion(w, page.active))
             EXCEPT !.pages[w.cur].panes = InsertAt(@, i + 1, p)]

\* The active pane is split: the new pane is beside it, of the same host, and connects.
LEMMA SplitIs ==
    ASSUME NEW w, Sound(w), CurrentPanes(w) # <<>>, w.opened < MaxPanes,
           NEW p, p = FreshPane(w), NEW i \in DOMAIN w.pages[w.cur].panes, NEW v, v = Connect(Activate(Split(w, p, i), p), p)
    PROVE  /\ Sound(v) /\ Grown(w, w.panes[w.pages[w.cur].active].server, v)
           /\ w.pages[w.cur].active \in Live(w)
<1> DEFINE c == w.cur
           page == w.pages[c]
           a == page.active
           s == w.panes[a].server
           n == NextVersion(w, a)
           x == Opened(w, p, s, n)
           line == InsertAt(page.panes, i + 1, p)
           pages == [w.pages EXCEPT ![c].panes = line]
           split == Split(w, p, i)
           y == Activate(split, p)
<1>1. /\ p \in PaneIds /\ p > w.opened /\ p = w.opened + 1 /\ p # Settings /\ p # NoPage /\ p \in PageSet
      /\ p \notin ToSet(w.tabs) /\ w.pages[p] = EmptyPage
      /\ \A g \in PageSet : p \notin ToSet(w.pages[g].panes)
      /\ p \notin Live(w) /\ p \in Nat BY Fresh, Numbers DEF Sound
<1>2. /\ Layout(w) /\ w \in WsType /\ w.pages \in [PageSet -> PageType] /\ w.opened \in Nat /\ c \in PageSet
  BY Laid, Parts DEF Sound
<1>3. c # NoPage /\ CurrentPanes(w) = page.panes BY DEF CurrentPanes
<1>4. c \in ToSet(w.tabs) \ {Settings} /\ PageSound(w, c) /\ page \in PageType BY <1>2, <1>3, Laid
<1>5. page.panes \in Seq(PaneIds) /\ ToSet(page.panes) \subseteq PaneIds BY <1>4, PartsOf
<1>6. a \in ToSet(page.panes) /\ a \in PaneIds /\ Apart(page.panes) BY <1>4, <1>5 DEF PageSound
<1>7. a \in Live(w) /\ s \in Servers BY <1>2, <1>6, LiveIs
<1>8. n \in Nat BY <1>2, <1>6, NextIs
<1> HIDE DEF a, s, n
<1>9. /\ x \in WsType /\ x.tabs = w.tabs /\ x.cur = w.cur /\ x.home = w.home /\ x.pages = w.pages /\ x.opened = p
      /\ x.selected = w.selected /\ x.panes[p].server = s /\ x.panes[p].state = "off"
      /\ \A q \in PaneIds : q # p => x.panes[q] = w.panes[q] BY <1>2, <1>7, <1>8, OpenedIs
<1>10. split = [x EXCEPT !.pages[c].panes = line] BY <1>9 DEF Split, a, s, n
<1> HIDE DEF x
<1>11. line \in Seq(PaneIds) /\ line # <<>> /\ ToSet(line) = ToSet(page.panes) \cup {p} /\ Apart(line) /\ line[1] = page.panes[1]
  <2>1. DOMAIN page.panes = 1 .. Len(page.panes) BY <1>5
  <2>2. i \in 1 .. Len(page.panes) /\ p \notin ToSet(page.panes) BY <2>1, <1>1, <1>2
  <2> HIDE DEF page
  <2> QED BY <2>2, <1>1, <1>5, <1>6, InsertIs
<1> HIDE DEF line, split
<1>12. /\ pages \in [PageSet -> PageType]
       /\ \A g \in PageSet : /\ pages[g].active = w.pages[g].active /\ pages[g].probe = w.pages[g].probe
                             /\ (g # c => pages[g] = w.pages[g]) /\ pages[g].panes = IF g = c THEN line ELSE w.pages[g].panes
  BY <1>2, <1>11 DEF PageType
<1>13. split = [x EXCEPT !.pages = pages] BY <1>9, <1>10 DEF WsType
<1> HIDE DEF pages, c, page
<1>14. /\ split \in WsType /\ split.tabs = w.tabs /\ split.cur = c /\ split.home = w.home /\ split.pages = pages
       /\ split.panes = x.panes /\ split.opened = p /\ split.selected = w.selected
  BY <1>9, <1>12, <1>13 DEF WsType, c
<1>15. \A g \in PageSet : ToSet(split.pages[g].panes) = IF g = c THEN ToSet(page.panes) \cup {p} ELSE ToSet(w.pages[g].panes)
  BY <1>11, <1>12, <1>14
<1>16. ASSUME NEW g \in ToSet(w.tabs) \ {Settings} PROVE PageSound(split, g)
  <2>1. g \in PageSet /\ PageSound(w, g) /\ w.pages[g] \in PageType BY <1>2, Laid, Numbers
  <2>2. w.pages[g].panes \in Seq(PaneIds) /\ ToSet(w.pages[g].panes) \subseteq PaneIds BY <2>1, PartsOf
  <2> DEFINE new == split.pages[g].panes
  <2>3. new # <<>> /\ Apart(new) /\ new[1] = w.pages[g].panes[1] BY <2>1, <1>11, <1>12, <1>14 DEF page, PageSound
  <2>4. ToSet(new) = IF g = c THEN ToSet(w.pages[g].panes) \cup {p} ELSE ToSet(w.pages[g].panes) BY <2>1, <1>15 DEF page
  <2>5. split.pages[g].active \in ToSet(new) BY <2>1, <2>4, <1>12, <1>14 DEF PageSound
  <2>6. g # p /\ g <= p BY <2>1, <1>1, <1>2, Numbers DEF PageSound
  <2>7. g \in ToSet(new) => new[1] = g BY <2>1, <2>3, <2>4, <2>6 DEF PageSound
  <2>8. ASSUME NEW q \in ToSet(new) PROVE q <= p /\ x.panes[q].server \in Servers /\ (q = g \/ q \notin ToSet(w.tabs))
    <3>1. CASE q = p BY <3>1, <1>1, <1>7, <1>9
    <3>2. CASE q # p
      <4>1. q \in ToSet(w.pages[g].panes) /\ q \in PaneIds /\ q \in Nat BY <3>2, <2>2, <2>4, Numbers
      <4>2. q <= w.opened /\ w.panes[q].server \in Servers /\ (q = g \/ q \notin ToSet(w.tabs)) BY <4>1, <2>1 DEF PageSound
      <4> QED BY <4>1, <4>2, <3>2, <1>1, <1>2, <1>9
    <3> QED BY <3>1, <3>2
  <2> HIDE DEF new
  <2> QED BY <2>3, <2>5, <2>6, <2>7, <2>8, <1>14 DEF PageSound, new
<1>17. Layout(split)
  <2>1. \A g \in PageSet : IF g \in ToSet(split.tabs) \ {Settings} THEN PageSound(split, g) ELSE split.pages[g] = EmptyPage
    <3> TAKE g \in PageSet
    <3>1. CASE g \in ToSet(w.tabs) \ {Settings} BY <3>1, <1>14, <1>16
    <3>2. CASE g \notin ToSet(w.tabs) \ {Settings} BY <3>2, <1>4, <1>2, <1>12, <1>14 DEF Layout
    <3> QED BY <3>1, <3>2
  <2>2. \A g, h \in PageSet : g # h => ToSet(split.pages[g].panes) \cap ToSet(split.pages[h].panes) = {}
    <3>1. \A g, h \in PageSet : g # h => ToSet(w.pages[g].panes) \cap ToSet(w.pages[h].panes) = {} BY <1>2 DEF Layout
    <3>2. \A g \in PageSet : p \in ToSet(split.pages[g].panes) => g = c BY <1>1, <1>15
    <3>3. \A g \in PageSet : \A q \in ToSet(split.pages[g].panes) : q = p \/ q \in ToSet(w.pages[g].panes)
      BY <1>15 DEF page
    <3>4. ASSUME NEW g \in PageSet, NEW h \in PageSet, g # h, NEW q \in ToSet(split.pages[g].panes),
                 q \in ToSet(split.pages[h].panes) PROVE FALSE BY <3>1, <3>2, <3>3, <3>4
    <3> QED BY <3>4
  <2>3. \A g \in PageSet : ProbeSound(split.pages[g].probe) BY <1>2, <1>12, <1>14 DEF Layout
  <2>4. /\ Apart(split.tabs) /\ split.selected \subseteq ToSet(split.tabs)
        /\ IF split.tabs = <<>> THEN split.cur = NoPage ELSE split.cur \in ToSet(split.tabs)
    BY <1>2, <1>14 DEF Layout, c
  <2> QED BY <2>1, <2>2, <2>3, <2>4, <1>14 DEF Layout
<1>18. p \in ToSet(CurrentPanes(split)) /\ split.pages[split.cur].active # p
  BY <1>2, <1>3, <1>12, <1>14, <1>1, <1>7, <1>11 DEF CurrentPanes, a, page
<1>19. /\ Sound(y) /\ y.tabs = split.tabs /\ y.opened = split.opened /\ y.cur = split.cur /\ y.panes = split.panes
       /\ y.selected = split.selected /\ \A g \in PageSet : y.pages[g].panes = split.pages[g].panes
  BY <1>17, <1>18, ActivateIs
<1> HIDE DEF y
<1>20. Sound(v) /\ Same(y, v) BY <1>19, <1>1, ConnectIs DEF Sound, y, split
<1>21. Live(v) = Live(w) \cup {p}
  <2>1. Live(v) = Live(y) BY <1>19, <1>20, SameLive DEF Sound
  <2>2. \A q : q \in Live(y) <=> q \in Live(w) \/ q = p
    <3> TAKE q
    <3>1. q \in Live(y) <=> \E g \in PageSet : q \in ToSet(y.pages[g].panes) BY <1>19, LiveIs DEF Sound
    <3>2. q \in Live(w) <=> \E g \in PageSet : q \in ToSet(w.pages[g].panes) BY <1>2, LiveIs
    <3>3. \A g \in PageSet : ToSet(y.pages[g].panes) = IF g = c THEN ToSet(page.panes) \cup {p} ELSE ToSet(w.pages[g].panes)
      BY <1>15, <1>19
    <3> QED BY <3>1, <3>2, <3>3, <1>2 DEF page
  <2> QED BY <2>1, <2>2
<1>22. \A q \in PaneIds : v.panes[q].server = IF q = p THEN s ELSE w.panes[q].server
  BY <1>9, <1>14, <1>19, <1>20 DEF Same
<1>23. v.opened = p BY <1>14, <1>19, <1>20 DEF Same
<1> QED BY <1>1, <1>7, <1>20, <1>21, <1>22, <1>23 DEF Grown, a, s, page, c
----
(* What closing leaves. *)

\* No tab and no pane more than before, the panes in their tabs, of their hosts.
Less(w, v) ==
    /\ v.opened = w.opened
    /\ \A g \in PageSet : ToSet(v.pages[g].panes) \subseteq ToSet(w.pages[g].panes)
    /\ \A p \in Live(v) : v.panes[p].server = w.panes[p].server

\* With fewer panes in its tabs, each of the host it had, a workspace is on its way from an earlier one.
LEMMA LessAll ==
    /\ \A w : Layout(w) => Less(w, w)
    /\ \A w, v : Layout(w) /\ Layout(v) /\ Less(w, v) => Live(v) \subseteq Live(w)
    /\ \A w, v : Layout(w) /\ Same(w, v) => Less(w, v)
    /\ \A w, u, v : Layout(w) /\ Layout(u) /\ Layout(v) /\ Less(w, u) /\ Less(u, v) => Less(w, v)
<1>1. ASSUME NEW w, NEW v, Layout(w), Layout(v), Less(w, v) PROVE Live(v) \subseteq Live(w) BY <1>1, LiveIs DEF Less
<1>2. ASSUME NEW w, NEW v, Layout(w), Same(w, v) PROVE Less(w, v) BY <1>2, SameLive, LiveIs DEF Less, Same
<1>3. ASSUME NEW w, NEW u, NEW v, Layout(w), Layout(u), Layout(v), Less(w, u), Less(u, v) PROVE Less(w, v)
  BY <1>1, <1>3 DEF Less
<1>4. \A w : Layout(w) => Less(w, w) BY <1>2, SameAll
<1> QED BY <1>1, <1>2, <1>3, <1>4

\* The session p is over: of a pane that is not in front, the record and the rail's binding.
Ended(w, p, v) ==
    /\ v \in WsType /\ v.tabs = w.tabs /\ v.cur = w.cur /\ v.home = w.home /\ v.pages = w.pages /\ v.opened = w.opened
    /\ v.selected = w.selected /\ v.monitor = w.monitor /\ v.shown = w.shown /\ v.label = w.label
    /\ v.session = IF w.session = p THEN NoPane ELSE w.session
    /\ v.panes[p] = Unused /\ \A q \in PaneIds : q # p => v.panes[q] = w.panes[q]
    /\ ((w.session # NoPane => w.shown = w.panes[w.session].server) /\ Badged(w) => Badged(v))

\* A pane that is in no tab any more is ended: its session is cut and its host told.
LEMMA ClosedIs ==
    ASSUME NEW w \in WsType, NEW p \in PaneIds, p \notin ToSet(CurrentPanes(w)), NEW v, v = Closed(w, p)
    PROVE  Ended(w, p, v)
<1> DEFINE now == Turned(w, p, "off")
           s == w.panes[p].server
           told == Present(now, s, FALSE, FALSE)
           cut == Disconnect(w, p)
<1>1. w.panes \in [PaneIds -> PaneType] /\ w.session \in PaneIds \cup {NoPane} /\ p # NoPane BY Parts, Numbers
<1>2. /\ cut \in WsType /\ cut.tabs = w.tabs /\ cut.cur = w.cur /\ cut.home = w.home /\ cut.pages = w.pages
      /\ cut.opened = w.opened
      /\ cut.selected = w.selected /\ cut.monitor = w.monitor /\ cut.shown = w.shown /\ cut.label = w.label
      /\ cut.session = w.session
      /\ \A q \in PaneIds : q # p => cut.panes[q] = w.panes[q]
      /\ ((w.session # NoPane => w.shown = w.panes[w.session].server) /\ Badged(w) /\ w.session # p => Badged(cut))
  <2>1. CASE w.panes[p].state = "off"
    <3>1. cut = w BY <2>1 DEF Disconnect
    <3> HIDE DEF cut
    <3> QED BY <3>1
  <2>2. CASE w.panes[p].state # "off"
    <3>0. now = [w EXCEPT !.panes[p].state = "off", !.panes[p].known = TRUE] BY DEF Turned
    <3>1. cut = IF p \in ToSet(CurrentPanes(told)) THEN Publish(told) ELSE told
      <4>1. cut = Changed(w, p, "off") BY <2>2 DEF Disconnect
      <4>2. ("off" = "up") = FALSE /\ ("off" = "connecting") = FALSE OBVIOUS
      <4> QED BY <4>1, <4>2 DEF Changed, Turned
    <3> DEFINE panes == [w.panes EXCEPT ![p].state = "off", ![p].known = TRUE]
    <3>2. now = [w EXCEPT !.panes = panes] BY <3>0 DEF WsType
    <3>3. panes \in [PaneIds -> PaneType] /\ \A q \in PaneIds : q # p => panes[q] = w.panes[q]
      BY <1>1 DEF PaneType, States
    <3> HIDE DEF panes, now, cut
    <3>4. /\ now \in WsType /\ now.tabs = w.tabs /\ now.cur = w.cur /\ now.home = w.home /\ now.pages = w.pages
          /\ now.opened = w.opened /\ now.selected = w.selected /\ now.monitor = w.monitor /\ now.shown = w.shown
          /\ now.label = w.label /\ now.session = w.session /\ now.panes = panes /\ now.badge = w.badge
      BY <3>2, <3>3 DEF WsType
    <3>5. Presented(now, s, told)
      <4>1. \E b \in BOOLEAN : b = FALSE OBVIOUS
      <4>2. PICK b \in BOOLEAN : b = FALSE BY <4>1
      <4>3. told = Present(now, s, b, b) BY <4>2
      <4> HIDE DEF told, s
      <4> QED BY <4>3, <3>4, PresentIs
    <3> HIDE DEF told
    <3>6. PICK b \in Badges : told = [now EXCEPT !.badge = b] BY <3>5 DEF Presented
    <3>7. /\ told \in WsType /\ told.tabs = w.tabs /\ told.cur = w.cur /\ told.home = w.home /\ told.pages = w.pages
          /\ told.opened = w.opened /\ told.selected = w.selected /\ told.monitor = w.monitor /\ told.shown = w.shown
          /\ told.label = w.label /\ told.session = w.session /\ told.panes = panes BY <3>4, <3>6 DEF WsType
    <3>8. CurrentPanes(told) = CurrentPanes(w) BY <3>7 DEF CurrentPanes
    <3>9. cut = told BY <3>1, <3>8
    <3>10. ASSUME w.session # NoPane => w.shown = w.panes[w.session].server, Badged(w), w.session # p PROVE Badged(cut)
      BY <3>3, <3>10, <1>1, <3>4, <3>5, <3>9 DEF Badged, Up, Presented
    <3> QED BY <3>3, <3>7, <3>9, <3>10
  <2> QED BY <2>1, <2>2
<1> DEFINE free == Release(cut, p)
           panes == [cut.panes EXCEPT ![p] = Unused]
<1>3. v = [free EXCEPT !.panes[p] = Unused] BY DEF Closed
<1> HIDE DEF cut
<1>4. /\ free \in WsType /\ free.tabs = w.tabs /\ free.cur = w.cur /\ free.home = w.home /\ free.pages = w.pages
      /\ free.opened = w.opened /\ free.selected = w.selected /\ free.monitor = w.monitor /\ free.shown = w.shown
      /\ free.label = w.label /\ free.panes = cut.panes /\ free.badge = cut.badge
      /\ free.session = IF w.session = p THEN NoPane ELSE w.session BY <1>2 DEF Release, WsType
<1>5. panes \in [PaneIds -> PaneType] /\ panes[p] = Unused /\ \A q \in PaneIds : q # p => panes[q] = w.panes[q]
  BY <1>2, Parts, Nothings
<1> HIDE DEF free
<1>6. v = [free EXCEPT !.panes = panes] BY <1>3, <1>4 DEF WsType
<1> HIDE DEF panes
<1>7. /\ v \in WsType /\ v.tabs = w.tabs /\ v.cur = w.cur /\ v.home = w.home /\ v.pages = w.pages /\ v.opened = w.opened
      /\ v.selected = w.selected /\ v.monitor = w.monitor /\ v.shown = w.shown /\ v.label = w.label
      /\ v.session = (IF w.session = p THEN NoPane ELSE w.session)
      /\ v.panes = panes /\ v.badge = cut.badge BY <1>4, <1>5, <1>6 DEF WsType
<1>8. ASSUME w.session # NoPane => w.shown = w.panes[w.session].server, Badged(w) PROVE Badged(v)
  <2>1. CASE v.session = NoPane BY <2>1 DEF Badged
  <2>2. CASE v.session # NoPane BY <2>2, <1>2, <1>7, <1>8, <1>1, <1>5 DEF Badged, Up
  <2> QED BY <2>1, <2>2
<1> QED BY <1>5, <1>7, <1>8 DEF Ended

\* The panes of out are gone, and nothing else.
Without(w, out, v) == Sound(v) /\ Less(w, v) /\ Live(v) = Live(w) \ out

\* A pane taken out of a tab that keeps others.
LEMMA DetachIs ==
    ASSUME NEW w, Sound(w), NEW p \in Live(w), Len(w.pages[PageOf(w, p)].panes) > 1, NEW v, v = DetachPane(w, p)
    PROVE  Without(w, {p}, v)
<1> DEFINE g == PageOf(w, p)
           line == w.pages[g].panes
           rest == Only(line, PaneIds \ {p})
           cut == [w EXCEPT !.pages[g].panes = rest]
           cuts == [w.pages EXCEPT ![g].panes = rest]
           out == Closed(cut, p)
           a == IF w.pages[g].active = p THEN Head(rest) ELSE w.pages[g].active
           pages == [cuts EXCEPT ![g].active = a]
           x == IF w.pages[g].active = p THEN [out EXCEPT !.pages[g].active = Head(out.pages[g].panes)] ELSE out
<1>1. /\ Layout(w) /\ w \in WsType /\ w.pages \in [PageSet -> PageType] /\ w.opened \in Nat /\ w.cur \in PageSet
      /\ w.panes \in [PaneIds -> PaneType] /\ w.session \in PaneIds \cup {NoPane} BY Laid, Parts DEF Sound
<1>2. p \in PaneIds /\ g \in ToSet(w.tabs) \ {Settings} /\ p \in ToSet(line) BY <1>1, LiveIs
<1>3. g \in PageSet /\ g # NoPage /\ g # Settings /\ PageSound(w, g) /\ w.pages[g] \in PageType BY <1>1, <1>2, Laid, Numbers
<1>4. line \in Seq(PaneIds) /\ ToSet(line) \subseteq PaneIds /\ Apart(line) /\ w.pages[g].active \in ToSet(line)
  BY <1>3, PartsOf DEF PageSound
<1> HIDE DEF g, line
<1>5. /\ rest \in Seq(PaneIds) /\ ToSet(rest) = ToSet(line) \ {p} /\ Apart(rest)
      /\ (line[1] # p /\ line # <<>> => rest[1] = line[1])
  <2>1. /\ rest \in Seq(PaneIds) /\ ToSet(rest) = ToSet(line) \cap (PaneIds \ {p}) /\ (Apart(line) => Apart(rest))
        /\ (line # <<>> /\ line[1] \in PaneIds \ {p} => rest[1] = line[1]) BY <1>4, OnlyFacts
  <2>2. line # <<>> => line[1] \in PaneIds
    <3> HAVE line # <<>>
    <3>1. Len(line) # 0 /\ Len(line) \in Nat BY <1>4, SetOf
    <3>2. 1 \in 1 .. Len(line) BY <3>1
    <3> QED BY <3>2, <1>4, SetOf
  <2> QED BY <2>1, <2>2, <1>4
<1>6. rest # <<>>
  <2>1. DOMAIN line = 1 .. Len(line) /\ Len(line) > 1 /\ Len(line) \in Nat BY <1>4, SetOf DEF line, g
  <2>2. 1 \in DOMAIN line /\ 2 \in DOMAIN line BY <2>1
  <2>3. line[1] # line[2] BY <2>2, <1>4 DEF Apart
  <2>4. line[1] \in ToSet(line) /\ line[2] \in ToSet(line) BY <2>2 DEF ToSet
  <2>5. ToSet(rest) # {}
    <3>1. \E q \in ToSet(line) : q # p BY <2>3, <2>4
    <3> HIDE DEF rest
    <3> QED BY <3>1, <1>5
  <2> QED BY <2>5, <1>5, SetOf
<1>7. /\ cuts \in [PageSet -> PageType] /\ cuts[g].active = w.pages[g].active
      /\ \A h \in PageSet : /\ cuts[h].probe = w.pages[h].probe /\ cuts[h].pin = w.pages[h].pin
                            /\ (h # g => cuts[h] = w.pages[h]) /\ cuts[h].panes = IF h = g THEN rest ELSE w.pages[h].panes
  BY <1>1, <1>3, <1>5 DEF PageType
<1>8. cut = [w EXCEPT !.pages = cuts] BY <1>1 DEF WsType
<1> HIDE DEF cuts
<1>9. /\ cut \in WsType /\ cut.tabs = w.tabs /\ cut.cur = w.cur /\ cut.home = w.home /\ cut.pages = cuts
      /\ cut.panes = w.panes /\ cut.opened = w.opened /\ cut.selected = w.selected /\ cut.monitor = w.monitor
      /\ cut.session = w.session /\ cut.shown = w.shown /\ cut.label = w.label /\ cut.badge = w.badge
  BY <1>1, <1>7, <1>8 DEF WsType
<1> HIDE DEF cut
<1>10. p \notin ToSet(CurrentPanes(cut))
  <2>1. \A h \in PageSet : p \notin ToSet(cuts[h].panes) BY <1>1, <1>2, <1>3, <1>5, <1>7, LiveIs DEF line
  <2>2. p \notin ToSet(<<>>) BY DEF ToSet
  <2> QED BY <2>1, <2>2, <1>1, <1>9 DEF CurrentPanes
<1>11. Ended(cut, p, out) BY <1>2, <1>9, <1>10, ClosedIs
<1> HIDE DEF out
<1>12. /\ out \in WsType /\ out.tabs = w.tabs /\ out.cur = w.cur /\ out.home = w.home /\ out.pages = cuts /\ out.opened = w.opened
       /\ out.selected = w.selected /\ out.monitor = w.monitor /\ out.shown = w.shown /\ out.label = w.label
       /\ out.session = (IF w.session = p THEN NoPane ELSE w.session)
       /\ out.panes \in [PaneIds -> PaneType] /\ \A q \in PaneIds : q # p => out.panes[q] = w.panes[q]
       /\ ((w.session # NoPane => w.shown = w.panes[w.session].server) /\ Badged(cut) => Badged(out))
  BY <1>9, <1>11, Parts DEF Ended
<1>13. Head(rest) \in ToSet(rest) /\ Head(rest) \in PaneIds BY <1>4, <1>5, <1>6, Ends1
<1>14. a \in ToSet(rest) /\ a \in PaneIds BY <1>4, <1>5, <1>13
<1>15. /\ pages \in [PageSet -> PageType] /\ pages[g].active = a
       /\ \A h \in PageSet : /\ pages[h].probe = w.pages[h].probe /\ pages[h].pin = w.pages[h].pin
                             /\ (h # g => pages[h] = w.pages[h])
                             /\ pages[h].panes = IF h = g THEN rest ELSE w.pages[h].panes
  <2> HIDE DEF a, rest
  <2> QED BY <1>3, <1>7, <1>14 DEF PageType
<1>16. x = [out EXCEPT !.pages = pages]
  <2>1. CASE w.pages[g].active = p
    <3>1. x = [out EXCEPT !.pages[g].active = Head(cuts[g].panes)] BY <2>1, <1>12
    <3>2. cuts[g].panes = rest BY <1>3, <1>7
    <3>3. a = Head(rest) BY <2>1
    <3> HIDE DEF x, a, rest
    <3> QED BY <3>1, <3>2, <3>3, <1>12 DEF WsType
  <2>2. CASE w.pages[g].active # p
    <3>1. x = out /\ a = cuts[g].active BY <2>2, <1>7
    <3> HIDE DEF x, a
    <3>2. [cuts[g] EXCEPT !.active = cuts[g].active] = cuts[g] BY <1>3, <1>7 DEF PageType
    <3>3. pages = cuts BY <3>1, <3>2, <1>7
    <3> HIDE DEF pages
    <3> QED BY <3>1, <3>3, <1>12 DEF WsType
  <2> QED BY <2>1, <2>2
<1>17. v = Publish(x) BY DEF DetachPane, out, cut, rest, line, g
<1> HIDE DEF x, pages, a, rest
<1>18. /\ x \in WsType /\ x.tabs = w.tabs /\ x.cur = w.cur /\ x.home = w.home /\ x.pages = pages /\ x.opened = w.opened
       /\ x.selected = w.selected /\ x.monitor = w.monitor /\ x.shown = w.shown /\ x.label = w.label
       /\ x.session = (IF w.session = p THEN NoPane ELSE w.session) /\ x.panes = out.panes /\ x.badge = out.badge
  BY <1>12, <1>15, <1>16 DEF WsType
<1>19. \A h \in PageSet : ToSet(x.pages[h].panes) = ToSet(w.pages[h].panes) \ {p}
  <2>1. \A h \in PageSet : p \in ToSet(w.pages[h].panes) => h = g BY <1>1, <1>2, <1>3, LiveIs DEF line
  <2> QED BY <2>1, <1>5, <1>15, <1>18 DEF line
<1>20. ASSUME NEW h \in ToSet(w.tabs) \ {Settings} PROVE PageSound(x, h)
  <2>1. h \in PageSet /\ PageSound(w, h) /\ w.pages[h] \in PageType BY <1>1, Laid, Numbers
  <2>2. ToSet(w.pages[h].panes) \subseteq PaneIds BY <2>1, PartsOf
  <2> DEFINE new == x.pages[h].panes
  <2>3. new # <<>> /\ Apart(new) /\ x.pages[h].active \in ToSet(new)
    <3>1. CASE h = g BY <3>1, <1>3, <1>5, <1>6, <1>14, <1>15, <1>18
    <3>2. CASE h # g BY <3>2, <2>1, <1>15, <1>18 DEF PageSound
    <3> QED BY <3>1, <3>2
  <2>4. ToSet(new) = ToSet(w.pages[h].panes) \ {p} BY <2>1, <1>19
  <2>5. h \in ToSet(new) => new[1] = h
    <3> HAVE h \in ToSet(new)
    <3>1. h # p /\ w.pages[h].panes[1] = h /\ w.pages[h].panes # <<>> BY <2>1, <2>4 DEF PageSound
    <3>2. CASE h = g BY <3>1, <3>2, <2>1, <1>15, <1>18, <1>5 DEF line
    <3>3. CASE h # g BY <3>1, <3>3, <2>1, <1>15, <1>18
    <3> QED BY <3>2, <3>3
  <2>6. ASSUME NEW q \in ToSet(new) PROVE q <= w.opened /\ out.panes[q].server \in Servers /\ (q = h \/ q \notin ToSet(w.tabs))
    BY <2>2, <2>4, <2>1, <1>12 DEF PageSound
  <2>7. h <= w.opened BY <2>1 DEF PageSound
  <2> HIDE DEF new
  <2> QED BY <2>3, <2>5, <2>6, <2>7, <1>18 DEF PageSound, new
<1>21. Layout(x)
  <2>1. \A h \in PageSet : IF h \in ToSet(x.tabs) \ {Settings} THEN PageSound(x, h) ELSE x.pages[h] = EmptyPage
    <3> TAKE h \in PageSet
    <3>1. CASE h \in ToSet(w.tabs) \ {Settings} BY <3>1, <1>18, <1>20
    <3>2. CASE h \notin ToSet(w.tabs) \ {Settings} BY <3>2, <1>2, <1>1, <1>15, <1>18 DEF Layout
    <3> QED BY <3>1, <3>2
  <2>2. \A h, k \in PageSet : h # k => ToSet(x.pages[h].panes) \cap ToSet(x.pages[k].panes) = {}
    <3>1. \A h, k \in PageSet : h # k => ToSet(w.pages[h].panes) \cap ToSet(w.pages[k].panes) = {} BY <1>1 DEF Layout
    <3>2. ASSUME NEW h \in PageSet, NEW k \in PageSet, h # k, NEW q \in ToSet(x.pages[h].panes),
                 q \in ToSet(x.pages[k].panes) PROVE FALSE BY <3>1, <3>2, <1>19
    <3> QED BY <3>2
  <2>3. \A h \in PageSet : ProbeSound(x.pages[h].probe) BY <1>1, <1>15, <1>18 DEF Layout
  <2>4. /\ Apart(x.tabs) /\ x.selected \subseteq ToSet(x.tabs)
        /\ IF x.tabs = <<>> THEN x.cur = NoPage ELSE x.cur \in ToSet(x.tabs) BY <1>1, <1>18 DEF Layout
  <2> QED BY <2>1, <2>2, <2>3, <2>4, <1>18 DEF Layout
<1>22. Live(x) = Live(w) \ {p}
  <2>1. \A q : q \in Live(x) <=> \E h \in PageSet : q \in ToSet(x.pages[h].panes) BY <1>21, LiveIs
  <2>2. \A q : q \in Live(w) <=> \E h \in PageSet : q \in ToSet(w.pages[h].panes) BY <1>1, LiveIs
  <2>3. \A q : q \in Live(x) <=> q \in Live(w) /\ q # p BY <2>1, <2>2, <1>19
  <2> QED BY <2>3
<1>23. Less(w, x)
  <2>1. Live(w) \subseteq PaneIds BY <1>1, LiveIs
  <2> QED BY <2>1, <1>12, <1>18, <1>19, <1>22 DEF Less
<1>24. ASSUME CurrentPanes(x) = <<>> PROVE Rail(x)
  <2>1. Bound(w) /\ InFront(w) /\ Badged(w) /\ Timed(w) BY DEF Sound, Rail
  <2>2. w.monitor \in PageSet BY <1>1, Parts, Numbers
  <2>3. Bound(x)
    <3>1. x.monitor \in ToSet(x.tabs) \cup {NoPage} BY <2>1, <1>18 DEF Bound
    <3>2. ASSUME x.session # NoPane
          PROVE  /\ x.session \in Live(x) /\ x.shown = x.panes[x.session].server
                 /\ x.monitor # NoPage => x.session = x.pages[x.monitor].pin
      BY <3>2, <1>18, <1>1, <1>12, <2>2, <1>15, <2>1, <1>22 DEF Bound
    <3> QED BY <3>1, <3>2 DEF Bound
  <2>4. InFront(x) BY <1>24 DEF ToSet, InFront
  <2>5. Badged(x) BY <2>1, <1>9, <1>12, <1>18 DEF Bound, Badged, Up
  <2>6. Timed(x)
    <3>1. x.session # NoPane => x.session = w.session /\ Endpoint(x, x.session) = Endpoint(w, w.session)
      <4> HAVE x.session # NoPane
      <4>1. w.session # p /\ x.session = w.session BY <1>18
      <4>2. x.panes[w.session] = w.panes[w.session] BY <4>1, <1>1, <1>12, <1>18
      <4> QED BY <4>1, <4>2 DEF Endpoint
    <3> QED BY <3>1, <2>1, <1>15, <1>18 DEF Timed
  <2> QED BY <2>3, <2>4, <2>5, <2>6 DEF Rail
<1>25. Sound(v) /\ Same(x, v) BY <1>17, <1>21, <1>24, PublishIs DEF Still
<1>26. Live(v) = Live(w) \ {p} BY <1>21, <1>22, <1>25, SameLive
<1>27. Less(w, v) BY <1>1, <1>21, <1>23, <1>25, LessAll DEF Sound
<1> QED BY <1>25, <1>26, <1>27 DEF Without

\* The last terminal is gone: the rail shows nothing.
LEMMA EmptiedIs ==
    ASSUME NEW w, Sound(w), NEW v, v = Emptied(w)
    PROVE  Sound(v) /\ Same(w, v)
<1>1. CASE \E g \in ToSet(w.tabs) : w.pages[g].panes # <<>> BY <1>1, SameAll DEF Emptied
<1>2. CASE ~ \E g \in ToSet(w.tabs) : w.pages[g].panes # <<>>
  <2>1. v = [w EXCEPT !.session = NoPane, !.monitor = NoPage, !.shown = NoServer, !.badge = "offline", !.label = Blank]
    BY <1>2 DEF Emptied
  <2>2. w \in WsType /\ Layout(w) /\ Rail(w) BY Laid DEF Sound
  <2>3. Blank \in Ends /\ "offline" \in Badges BY Nothings DEF Badges
  <2>4. /\ v \in WsType /\ v.tabs = w.tabs /\ v.cur = w.cur /\ v.home = w.home /\ v.pages = w.pages /\ v.panes = w.panes
        /\ v.opened = w.opened /\ v.selected = w.selected /\ v.monitor = NoPage /\ v.session = NoPane
        /\ v.shown = NoServer /\ v.badge = "offline" /\ v.label = Blank BY <2>1, <2>2, <2>3 DEF WsType
  <2>5. Same(w, v) BY <2>4 DEF Same
  <2>6. Layout(v)
    <3>1. v.selected \subseteq ToSet(w.tabs) /\ IF w.tabs = <<>> THEN v.cur = NoPage ELSE v.cur \in ToSet(w.tabs)
      BY <2>2, <2>4 DEF Layout
    <3>2. \A h \in PageSet : ProbeSound(v.pages[h].probe) /\ (w.pages[h] = EmptyPage => v.pages[h] = EmptyPage)
      BY <2>2, <2>4, Laid
    <3> QED BY <3>1, <3>2, <2>2, <2>4, <2>5, LayoutKeeps
  <2>7. Bound(v) /\ Badged(v) BY <2>4 DEF Bound, Badged
  <2>8. InFront(v)
    <3>1. \A q \in ToSet(CurrentPanes(v)) : FALSE
      <4> TAKE q \in ToSet(CurrentPanes(v))
      <4>1. q \in Live(v) BY <2>6, LiveIs
      <4>2. PICK g \in ToSet(v.tabs) : q \in ToSet(v.pages[g].panes) BY <4>1 DEF Live
      <4>3. v.pages[g].panes # <<>> BY <4>2 DEF ToSet
      <4> QED BY <4>2, <4>3, <2>4, <1>2
    <3> QED BY <3>1 DEF InFront
  <2>9. Timed(v) BY <2>2, <2>4 DEF Timed, Rail
  <2> QED BY <2>5, <2>6, <2>7, <2>8, <2>9 DEF Sound, Rail
<1> QED BY <1>1, <1>2

\* The sessions of a tab that is already out of the bar are ended one after the other.
Lost(x, gone, u) ==
    /\ u \in WsType /\ u.tabs = x.tabs /\ u.cur = x.cur /\ u.home = x.home /\ u.pages = x.pages /\ u.opened = x.opened
    /\ u.selected = x.selected /\ u.monitor = x.monitor /\ u.shown = x.shown /\ u.label = x.label
    /\ u.session = IF x.session \in gone THEN NoPane ELSE x.session
    /\ \A q \in PaneIds : q \notin gone => u.panes[q] = x.panes[q]
    /\ ((x.session # NoPane => x.shown = x.panes[x.session].server) /\ Badged(x) => Badged(u))

\* Several panes are ended one after the other.
LEMMA AllClosed ==
    ASSUME NEW x \in WsType, NEW s \in Seq(PaneIds), ToSet(s) \cap ToSet(CurrentPanes(x)) = {},
           NEW v, v = ClosedAll(x, s)
    PROVE  Lost(x, ToSet(s), v)
<1> DEFINE n == Len(s)
           D == {u \in WsType : u.pages = x.pages /\ u.cur = x.cur}
           step == [k \in 1 .. n |-> [u \in D |-> Closed(u, s[k])]]
           Body(f) == [r \in SUBSET DOMAIN s |-> IF r = {} THEN x ELSE Closed(f[r \ {Max(r)}], s[Max(r)])]
           g == CHOOSE f : f = Body(f)
           Good == [k \in 0 .. n |-> {u \in WsType : Lost(x, Till(s, k), u)}]
<1>1. n \in Nat /\ DOMAIN s = 1 .. n /\ \A k \in 1 .. n : s[k] \in PaneIds /\ s[k] \in ToSet(s) BY SetOf
<1> HIDE DEF n
<1>2. ASSUME NEW u \in D, NEW k \in 1 .. n
      PROVE  Ended(u, s[k], Closed(u, s[k])) /\ Closed(u, s[k]) \in D BY <1>1, ClosedIs DEF CurrentPanes, Ended
<1>3. step \in [1 .. n -> [D -> D]]
  <2> HIDE DEF D
  <2> QED BY <1>2
<1>4. x \in D OBVIOUS
<1>5. PICK it \in [SUBSET (1 .. n) -> D] : Folds(it, n, x, step)
  <2> HIDE DEF D, step
  <2> QED BY <1>1, <1>3, <1>4, IterExists
<1>6. \A r \in SUBSET (1 .. n) : r # {} =>
          Max(r) \in 1 .. n /\ it[r \ {Max(r)}] \in D /\ it[r] = Closed(it[r \ {Max(r)}], s[Max(r)])
  <2> TAKE r \in SUBSET (1 .. n)
  <2> HAVE r # {}
  <2>1. Max(r) \in r BY <1>1, MaxIn
  <2>2. r \ {Max(r)} \in SUBSET (1 .. n) /\ Max(r) \in 1 .. n BY <2>1
  <2> HIDE DEF D
  <2>3. it[r \ {Max(r)}] \in D BY <2>2
  <2>4. it[r] = step[Max(r)][it[r \ {Max(r)}]]
    <3> HIDE DEF step
    <3> QED BY <1>5 DEF Folds
  <2> QED BY <2>2, <2>3, <2>4
<1>7. it[{}] = x
  <2> HIDE DEF step, D
  <2> QED BY <1>5 DEF Folds
<1>8. it = Body(it)
  <2> HIDE DEF D, step
  <2> QED BY <1>6, <1>7, <1>1
<1>9. g = Body(g) BY <1>8
<1>10. v = g[DOMAIN s] BY DEF ClosedAll, FoldLeft, MapThenFoldSet
<1> HIDE DEF g
<1>11. g[1 .. 0] = x BY <1>9
<1>12. \A k \in 1 .. n : g[1 .. k] = Closed(g[1 .. k - 1], s[k])
  <2> TAKE k \in 1 .. n
  <2>0. k \in Nat \ {0} /\ 1 .. k \subseteq 1 .. n BY <1>1
  <2>1. Max(1 .. k) = k /\ (1 .. k) \ {k} = 1 .. k - 1 /\ 1 .. k # {} BY <2>0, MaxUpTo
  <2>2. 1 .. k \in SUBSET DOMAIN s BY <1>1, <2>0
  <2>3. g[1 .. k] = Closed(g[(1 .. k) \ {Max(1 .. k)}], s[Max(1 .. k)]) BY <1>9, <2>1, <2>2
  <2> QED BY <2>3, <2>1
<1> HIDE DEF Body, step
<1>13. g[1 .. 0] \in Good[0] BY <1>1, <1>11 DEF Till, Lost
<1>14. ASSUME NEW k \in 1 .. n, g[1 .. k - 1] \in Good[k - 1] PROVE g[1 .. k] \in Good[k]
  <2> DEFINE u == g[1 .. k - 1]  y == g[1 .. k]  p == s[k]
  <2>1. u \in WsType /\ Lost(x, Till(s, k - 1), u) /\ k - 1 \in 0 .. n BY <1>14, <1>1
  <2> HIDE DEF u
  <2>2. u \in D BY <2>1 DEF Lost
  <2>3. y = Closed(u, p) /\ p \in PaneIds BY <1>1, <1>12 DEF u
  <2> HIDE DEF y
  <2>4. Ended(u, p, y) BY <2>2, <2>3, <1>2
  <2>5. Till(s, k) = Till(s, k - 1) \cup {p} BY TillNext, <1>1
  <2> HIDE DEF p, D
  <2>6. p # NoPane /\ x.session \in PaneIds \cup {NoPane} BY <2>3, Numbers, Parts
  <2>7. /\ y \in WsType /\ y.tabs = x.tabs /\ y.cur = x.cur /\ y.home = x.home /\ y.pages = x.pages /\ y.opened = x.opened
        /\ y.selected = x.selected /\ y.monitor = x.monitor /\ y.shown = x.shown /\ y.label = x.label
    BY <2>1, <2>4 DEF Lost, Ended
  <2>8. y.session = IF x.session \in Till(s, k) THEN NoPane ELSE x.session BY <2>1, <2>4, <2>5, <2>6 DEF Lost, Ended
  <2>9. \A q \in PaneIds : q \notin Till(s, k) => y.panes[q] = x.panes[q] BY <2>1, <2>4, <2>5 DEF Lost, Ended
  <2>10. ASSUME x.session # NoPane => x.shown = x.panes[x.session].server, Badged(x) PROVE Badged(y)
    <3>1. Badged(u) BY <2>1, <2>10 DEF Lost
    <3>2. u.session # NoPane => u.shown = u.panes[u.session].server
      <4> HAVE u.session # NoPane
      <4>1. x.session \notin Till(s, k - 1) /\ u.session = x.session BY <2>1 DEF Lost
      <4>2. u.panes[x.session] = x.panes[x.session] BY <4>1, <2>1, <2>6 DEF Lost
      <4> QED BY <4>1, <4>2, <2>1, <2>10 DEF Lost
    <3> QED BY <3>1, <3>2, <2>4 DEF Ended
  <2>11. Lost(x, Till(s, k), y) BY <2>7, <2>8, <2>9, <2>10 DEF Lost
  <2>12. k \in 0 .. n BY <1>1
  <2> QED BY <2>7, <2>11, <2>12 DEF y
<1>15. \A k \in 0 .. n : g[1 .. k] \in Good[k]
  <2>1. \A k \in 1 .. n : g[1 .. k - 1] \in Good[k - 1] => g[1 .. k] \in Good[k] BY <1>14
  <2> HIDE DEF Good
  <2> QED BY <1>1, <1>13, <2>1, FoldAlong
<1>16. Lost(x, Till(s, n), g[1 .. n])
  <2>1. n \in 0 .. n BY <1>1
  <2>2. g[1 .. n] \in Good[n]
    <3> HIDE DEF Good
    <3> QED BY <1>15, <2>1
  <2> QED BY <2>1, <2>2
<1>17. Till(s, n) = ToSet(s) BY SetOf DEF n
<1>18. v = g[1 .. n] BY <1>1, <1>10
<1> QED BY <1>16, <1>17, <1>18

\* A tab that is closed, with the sessions of all its panes.
LEMMA RemovePageIs ==
    ASSUME NEW w, Sound(w), NEW g \in ToSet(w.tabs), NEW v, v = RemovePage(w, g)
    PROVE  Without(w, ToSet(w.pages[g].panes), v)
<1> DEFINE i == CHOOSE k \in DOMAIN w.tabs : w.tabs[k] = g
           left == RemoveAt(w.tabs, i)
           near == IF left = <<>> THEN NoPage ELSE left[IF i <= Len(left) THEN i ELSE Len(left)]
           line == w.pages[g].panes
           cur == IF w.cur = g THEN near ELSE w.cur
           out == [w EXCEPT !.tabs = left, !.cur = IF w.cur = g THEN near ELSE @]
           s == w.panes[w.pages[g].active].server
           said == IF line = <<>> THEN out ELSE Present(out, s, FALSE, FALSE)
           closed == ClosedAll(said, line)
           pages == [w.pages EXCEPT ![g] = EmptyPage]
           mon == IF w.monitor = g THEN NoPage ELSE w.monitor
           gone == [closed EXCEPT !.pages[g] = EmptyPage, !.selected = @ \ {g}, !.monitor = IF @ = g THEN NoPage ELSE @]
<1>1. /\ Layout(w) /\ Bound(w) /\ InFront(w) /\ Badged(w) /\ Timed(w)
      /\ w \in WsType /\ w.pages \in [PageSet -> PageType] /\ w.opened \in Nat /\ w.cur \in PageSet /\ w.opened \in 0 .. MaxPanes
      /\ w.panes \in [PaneIds -> PaneType] /\ w.session \in PaneIds \cup {NoPane} /\ w.monitor \in PageIds \cup {NoPage}
      /\ w.tabs \in Seq(PageIds \cup {Settings}) /\ Apart(w.tabs) /\ w.selected \in SUBSET PageIds
      /\ w.label \in Ends /\ w.home \in BOOLEAN /\ w.badge \in Badges /\ w.shown \in Servers \cup {NoServer, Rdp}
  BY Laid, Parts DEF Sound, Rail
<1>2. g \in PageIds \cup {Settings} /\ g \in PageSet /\ g # NoPage /\ w.pages[g] \in PageType
      /\ PageIds \cup {Settings, NoPage} = PageSet BY <1>1, Laid, Numbers
<1>3. line \in Seq(PaneIds) /\ ToSet(line) \subseteq PaneIds BY <1>2, PartsOf
<1>4. v = Emptied(ShowTabs(Publish(gone))) BY DEF RemovePage
<1>5. i \in DOMAIN w.tabs /\ w.tabs[i] = g /\ DOMAIN w.tabs = 1 .. Len(w.tabs) /\ Len(w.tabs) \in Nat
  BY <1>1, SetOf DEF ToSet
<1> HIDE DEF i
<1>6. left \in Seq(PageIds \cup {Settings}) /\ ToSet(left) = ToSet(w.tabs) \ {g} /\ Apart(left)
  <2> DEFINE V == PageIds \cup {Settings}
  <2>1. w.tabs \in Seq(V) /\ i \in 1 .. Len(w.tabs) BY <1>1, <1>5
  <2> HIDE DEF V
  <2>2. left \in Seq(V) /\ ToSet(left) = ToSet(w.tabs) \ {w.tabs[i]} /\ Apart(left) BY <1>1, <2>1, RemoveIs
  <2> QED BY <2>2, <1>5 DEF V
<1> HIDE DEF left
<1>7. IF left = <<>> THEN near = NoPage ELSE near \in ToSet(left)
  <2>1. CASE left = <<>> BY <2>1
  <2>2. CASE left # <<>>
    <3> DEFINE k == IF i <= Len(left) THEN i ELSE Len(left)
    <3>1. Len(left) \in Nat /\ Len(left) # 0 /\ \A j \in 1 .. Len(left) : left[j] \in ToSet(left) BY <2>2, <1>6, SetOf
    <3>2. i \in Nat /\ i > 0 BY <1>5
    <3>3. k \in 1 .. Len(left) BY <3>1, <3>2
    <3>4. near = left[k] BY <2>2
    <3> HIDE DEF k, near
    <3> QED BY <2>2, <3>1, <3>3, <3>4
  <2> QED BY <2>1, <2>2
<1> HIDE DEF near
<1>8. /\ IF left = <<>> THEN cur = NoPage ELSE cur \in ToSet(left)
      /\ cur # g /\ cur \in PageSet
  <2>1. ToSet(left) = {} <=> left = <<>> BY <1>6, SetOf
  <2>2. w.cur \in ToSet(w.tabs) BY <1>1, Laid
  <2>3. CASE w.cur = g BY <2>3, <1>7, <1>6, <1>2, <1>1, Laid
  <2>4. CASE w.cur # g
    <3>1. cur = w.cur BY <2>4
    <3> HIDE DEF cur
    <3> QED BY <3>1, <2>2, <2>4, <1>6, <2>1, <1>1
  <2> QED BY <2>3, <2>4
<1>9. out = [w EXCEPT !.tabs = left, !.cur = cur] OBVIOUS
<1> HIDE DEF cur
<1>10. /\ out \in WsType /\ out.tabs = left /\ out.cur = cur /\ out.home = w.home /\ out.pages = w.pages /\ out.panes = w.panes
       /\ out.opened = w.opened /\ out.selected = w.selected /\ out.monitor = w.monitor /\ out.session = w.session
       /\ out.shown = w.shown /\ out.badge = w.badge /\ out.label = w.label
  <2> HIDE DEF out
  <2> QED BY <1>1, <1>6, <1>8, <1>9 DEF WsType
<1> HIDE DEF out
<1>11. \E b \in Badges : /\ said = [out EXCEPT !.badge = b]
                         /\ ((out.session # NoPane => out.shown = out.panes[out.session].server) /\ Badged(out)
                             => Badged(said))
  <2>1. CASE line = <<>>
    <3>1. said = out BY <2>1
    <3> HIDE DEF said
    <3>2. out = [out EXCEPT !.badge = w.badge] BY <1>10 DEF WsType
    <3> QED BY <3>1, <3>2, <1>1
  <2>2. CASE line # <<>>
    <3>1. said = Present(out, s, FALSE, FALSE) BY <2>2
    <3>2. FALSE \in BOOLEAN OBVIOUS
    <3>3. \A c \in BOOLEAN : Presented(out, s, Present(out, s, c, c)) BY <1>10, PresentIs
    <3> HIDE DEF said, s
    <3>4. Presented(out, s, said) BY <3>1, <3>2, <3>3
    <3> QED BY <3>4 DEF Presented
  <2> QED BY <2>1, <2>2
<1> HIDE DEF said, s
<1>12. /\ said \in WsType /\ said.tabs = left /\ said.cur = cur /\ said.home = w.home /\ said.pages = w.pages /\ said.panes = w.panes
       /\ said.opened = w.opened /\ said.selected = w.selected /\ said.monitor = w.monitor /\ said.session = w.session
       /\ said.shown = w.shown /\ said.label = w.label BY <1>10, <1>11 DEF WsType
<1>13. ToSet(line) \cap ToSet(CurrentPanes(said)) = {}
  <2>1. \A q : q \in ToSet(line) /\ q \in ToSet(w.pages[cur].panes) => g = cur BY <1>1, <1>2, <1>8, LiveIs
  <2>2. ToSet(<<>>) = {} BY DEF ToSet
  <2> HIDE DEF line
  <2> QED BY <2>1, <2>2, <1>8, <1>12 DEF CurrentPanes
<1> HIDE DEF line
<1>14. Lost(said, ToSet(line), closed) BY <1>3, <1>12, <1>13, AllClosed
<1> HIDE DEF closed
<1>15. /\ closed \in WsType /\ closed.tabs = left /\ closed.cur = cur /\ closed.home = w.home /\ closed.pages = w.pages
       /\ closed.opened = w.opened /\ closed.selected = w.selected /\ closed.monitor = w.monitor /\ closed.shown = w.shown
       /\ closed.label = w.label /\ closed.session = (IF w.session \in ToSet(line) THEN NoPane ELSE w.session)
       /\ closed.panes \in [PaneIds -> PaneType]
       /\ \A q \in PaneIds : q \notin ToSet(line) => closed.panes[q] = w.panes[q]
       /\ ((said.session # NoPane => said.shown = said.panes[said.session].server) /\ Badged(said) => Badged(closed))
  BY <1>12, <1>14, Parts DEF Lost
<1>16. gone = [closed EXCEPT !.pages = pages, !.selected = w.selected \ {g}, !.monitor = mon]
  BY <1>15 DEF WsType
<1>17. /\ pages \in [PageSet -> PageType] /\ pages[g] = EmptyPage /\ \A h \in PageSet : h # g => pages[h] = w.pages[h]
  BY <1>1, <1>2, Nothings
<1>18. mon \in PageIds \cup {NoPage} /\ w.selected \ {g} \in SUBSET PageIds BY <1>1
<1> HIDE DEF pages, gone
<1>19. /\ gone \in WsType /\ gone.tabs = left /\ gone.cur = cur /\ gone.home = w.home /\ gone.pages = pages
       /\ gone.opened = w.opened /\ gone.selected = w.selected \ {g} /\ gone.monitor = mon /\ gone.shown = w.shown
       /\ gone.label = w.label /\ gone.session = (IF w.session \in ToSet(line) THEN NoPane ELSE w.session)
       /\ gone.panes = closed.panes /\ gone.badge = closed.badge
  <2> HIDE DEF mon
  <2> QED BY <1>15, <1>16, <1>17, <1>18 DEF WsType
<1>20. \A h \in PageSet : ToSet(gone.pages[h].panes) = ToSet(w.pages[h].panes) \ ToSet(line)
  <2> TAKE h \in PageSet
  <2>1. CASE h = g BY <2>1, <1>17, <1>19, Nothings DEF ToSet, line
  <2>2. CASE h # g BY <1>1, <1>2, <2>2, <1>17, <1>19, LiveIs DEF line
  <2> QED BY <2>1, <2>2
<1>21. ASSUME NEW h \in ToSet(left) \ {Settings} PROVE PageSound(gone, h)
  <2>1. h \in ToSet(w.tabs) \ {Settings} /\ h # g /\ h \in PageSet BY <1>1, <1>6, Laid, Numbers
  <2>2. PageSound(w, h) /\ w.pages[h] \in PageType BY <2>1, <1>1, Laid
  <2>3. ToSet(w.pages[h].panes) \subseteq PaneIds BY <2>2, PartsOf
  <2>4. gone.pages[h] = w.pages[h] BY <2>1, <1>17, <1>19
  <2>5. \A q \in ToSet(w.pages[h].panes) : q \notin ToSet(line) BY <2>1, <1>1, <1>2, LiveIs DEF line
  <2>6. \A q \in ToSet(w.pages[h].panes) : gone.panes[q] = w.panes[q] BY <2>3, <2>5, <1>15, <1>19
  <2> QED BY <2>2, <2>4, <2>6, <1>6, <1>19 DEF PageSound
<1>22. Layout(gone)
  <2>1. \A h \in PageSet : IF h \in ToSet(gone.tabs) \ {Settings} THEN PageSound(gone, h) ELSE gone.pages[h] = EmptyPage
    <3> TAKE h \in PageSet
    <3>1. CASE h \in ToSet(left) \ {Settings} BY <3>1, <1>19, <1>21
    <3>2. CASE h \notin ToSet(left) \ {Settings}
      <4>1. CASE h = g BY <4>1, <3>2, <1>17, <1>19
      <4>2. CASE h # g BY <3>2, <4>2, <1>6, <1>1, <1>17, <1>19 DEF Layout
      <4> QED BY <4>1, <4>2
    <3> QED BY <3>1, <3>2
  <2>2. \A h, k \in PageSet : h # k => ToSet(gone.pages[h].panes) \cap ToSet(gone.pages[k].panes) = {}
    <3>1. \A h, k \in PageSet : h # k => ToSet(w.pages[h].panes) \cap ToSet(w.pages[k].panes) = {} BY <1>1 DEF Layout
    <3>2. ASSUME NEW h \in PageSet, NEW k \in PageSet, h # k, NEW q \in ToSet(gone.pages[h].panes),
                 q \in ToSet(gone.pages[k].panes) PROVE FALSE BY <3>1, <3>2, <1>20
    <3> QED BY <3>2
  <2>3. \A h \in PageSet : ProbeSound(gone.pages[h].probe)
    <3> TAKE h \in PageSet
    <3>1. ProbeSound(w.pages[h].probe) BY <1>1, Laid
    <3> QED BY <3>1, <1>17, <1>19, Nothings
  <2>4. /\ Apart(gone.tabs) /\ gone.selected \subseteq ToSet(gone.tabs)
        /\ IF gone.tabs = <<>> THEN gone.cur = NoPage ELSE gone.cur \in ToSet(gone.tabs)
    BY <1>1, <1>6, <1>8, <1>19, Laid
  <2> QED BY <2>1, <2>2, <2>3, <2>4, <1>19 DEF Layout
<1>23. Live(gone) = Live(w) \ ToSet(line)
  <2>1. \A q : q \in Live(gone) <=> \E h \in PageSet : q \in ToSet(gone.pages[h].panes) BY <1>22, LiveIs
  <2>2. \A q : q \in Live(w) <=> \E h \in PageSet : q \in ToSet(w.pages[h].panes) BY <1>1, LiveIs
  <2>3. \A q : q \in Live(gone) <=> q \in Live(w) /\ q \notin ToSet(line) BY <2>1, <2>2, <1>20
  <2> QED BY <2>3
<1>24. Less(w, gone)
  <2>1. Live(w) \subseteq PaneIds BY <1>1, LiveIs
  <2>2. \A q \in Live(gone) : q \in PaneIds /\ q \notin ToSet(line) BY <2>1, <1>23
  <2>3. \A q \in Live(gone) : gone.panes[q].server = w.panes[q].server BY <2>2, <1>15, <1>19
  <2> QED BY <2>3, <1>19, <1>20 DEF Less
<1>25. ASSUME CurrentPanes(gone) = <<>> PROVE Rail(gone)
  <2>1. ASSUME gone.session # NoPane
        PROVE  /\ gone.session = w.session /\ w.session \in PaneIds /\ w.session \notin ToSet(line)
               /\ gone.panes[w.session] = w.panes[w.session] BY <2>1, <1>19, <1>1, <1>15
  <2>2. Bound(gone)
    <3>1. gone.monitor \in ToSet(gone.tabs) \cup {NoPage} BY <1>1, <1>6, <1>19 DEF Bound
    <3>2. ASSUME gone.session # NoPane
          PROVE  /\ gone.session \in Live(gone) /\ gone.shown = gone.panes[gone.session].server
                 /\ gone.monitor # NoPage => gone.session = gone.pages[gone.monitor].pin
      <4>1. w.session # NoPane BY <3>2, <2>1
      <4>2. w.session \in Live(w) /\ w.shown = w.panes[w.session].server BY <4>1, <1>1 DEF Bound
      <4>3. ASSUME gone.monitor # NoPage PROVE w.session = gone.pages[gone.monitor].pin
        BY <4>3, <1>19, <1>1, <1>2, <1>17, <4>1 DEF Bound
      <4> QED BY <4>2, <4>3, <3>2, <2>1, <1>19, <1>23
    <3> QED BY <3>1, <3>2 DEF Bound
  <2>3. InFront(gone) BY <1>25 DEF ToSet, InFront
  <2>4. Badged(gone) BY <1>1, <1>10, <1>11, <1>12, <1>15, <1>19 DEF Bound, Badged, Up
  <2>5. Timed(gone)
    <3>1. gone.session # NoPane => gone.session = w.session /\ Endpoint(gone, gone.session) = Endpoint(w, w.session)
      BY <2>1 DEF Endpoint
    <3>2. gone.cur \in {NoPage, Settings} BY <1>22, <1>25, <1>8, <1>19, Laid DEF CurrentPanes
    <3>3. ASSUME NEW h \in PageSet, gone.pages[h].probe.on
          PROVE  /\ ~gone.home /\ gone.cur \in {h, Settings}
                 /\ gone.session # NoPane /\ h = gone.monitor => gone.pages[h].probe.target = Endpoint(gone, gone.session)
      <4>1. gone.pages[h] # EmptyPage BY <3>3, Nothings
      <4>2. h # g BY <4>1, <1>17, <1>19
      <4>3. gone.pages[h] = w.pages[h] BY <4>2, <1>17, <1>19
      <4>4. gone.cur # NoPage BY <4>1, <1>22, Laid DEF Layout
      <4>5. h = gone.monitor => h = w.monitor
        <5>1. h \in ToSet(gone.tabs) BY <4>1, <1>22 DEF Layout
        <5>2. h # NoPage BY <5>1, <1>22, Laid
        <5>3. gone.monitor = IF w.monitor = g THEN NoPage ELSE w.monitor BY <1>19
        <5> QED BY <5>2, <5>3
      <4>6. w.pages[h].probe.on /\ ~w.home BY <4>3, <3>3, <1>1 DEF Timed
      <4>7. w.session # NoPane /\ h = w.monitor => w.pages[h].probe.target = Endpoint(w, w.session) BY <4>6, <1>1 DEF Timed
      <4> QED BY <3>1, <3>2, <4>3, <4>4, <4>5, <4>6, <4>7, <1>19
    <3> QED BY <3>1, <3>3, <1>1, <1>19 DEF Timed
  <2> QED BY <2>2, <2>3, <2>4, <2>5 DEF Rail
<1> DEFINE a == Publish(gone)  b == ShowTabs(a)
<1>26. Sound(a) /\ Same(gone, a) BY <1>22, <1>25, PublishIs DEF Still
<1> HIDE DEF a
<1>27. Sound(b) /\ Same(a, b) BY <1>26, ShowTabsIs DEF Sound
<1>28. v = Emptied(b) BY <1>4 DEF a
<1> HIDE DEF b
<1>29. Sound(v) /\ Same(b, v) BY <1>27, <1>28, EmptiedIs
<1>30. Same(gone, v) BY <1>26, <1>27, <1>29, SameAll
<1>31. Live(v) = Live(gone) BY <1>22, <1>30, SameLive
<1>32. Less(gone, v) BY <1>22, <1>30, LessAll
<1>33. Less(w, v) BY <1>1, <1>22, <1>24, <1>29, <1>32, LessAll DEF Sound
<1> QED BY <1>23, <1>29, <1>31, <1>33 DEF Without, line

----
(* Closing several things, one after the other. *)

\* A pane that is closed, and its tab if it was the last one there.
LEMMA RemovePaneIs ==
    ASSUME NEW w, Sound(w), NEW p, NEW v, v = RemovePane(w, p)
    PROVE  Without(w, {p}, v)
<1> DEFINE g == PageOf(w, p)
<1>1. Layout(w) BY DEF Sound
<1>2. CASE p \notin Live(w) BY <1>2, <1>1, LessAll DEF RemovePane, Without
<1>3. CASE p \in Live(w)
  <2>1. p \in PaneIds /\ g \in ToSet(w.tabs) \ {Settings} /\ p \in ToSet(w.pages[g].panes) BY <1>1, <1>3, LiveIs
  <2>2. CASE Len(w.pages[g].panes) <= 1
    <3>1. v = RemovePage(w, g) BY <1>3, <2>2 DEF RemovePane
    <3>2. w.pages[g].panes \in Seq(PaneIds) BY <1>1, <2>1, Laid, Numbers, PartsOf
    <3> HIDE DEF g
    <3>3. Without(w, ToSet(w.pages[g].panes), v) BY <3>1, <2>1, RemovePageIs
    <3>4. ToSet(w.pages[g].panes) = {p}
      <4> DEFINE line == w.pages[g].panes
      <4>1. /\ Len(line) \in Nat /\ ToSet(line) = Till(line, Len(line)) /\ (line = <<>> <=> Len(line) = 0)
            /\ (line = <<>> <=> ToSet(line) = {}) BY <3>2, SetOf
      <4>2. Len(line) # 0 /\ p \in ToSet(line) BY <4>1, <2>1
      <4>3. Len(line) = 1 BY <4>1, <4>2, <2>2
      <4> HIDE DEF line
      <4>4. ToSet(line) = {line[1]} BY <4>1, <4>3 DEF Till
      <4> QED BY <4>2, <4>4 DEF line
    <3> QED BY <3>3, <3>4
  <2>3. CASE ~(Len(w.pages[g].panes) <= 1)
    <3>1. v = DetachPane(w, p) BY <1>3, <2>3 DEF RemovePane
    <3>2. Len(w.pages[g].panes) \in Nat BY <1>1, <2>1, Laid, Numbers, PartsOf, SetOf
    <3>3. Len(w.pages[g].panes) > 1 BY <3>2, <2>3
    <3> QED BY <3>1, <3>3, <1>3, DetachIs
  <2> QED BY <2>2, <2>3
<1> QED BY <1>2, <1>3

\* An item of a request that is closed.
LEMMA CloseItemIs ==
    ASSUME NEW w, Sound(w), NEW item \in ItemType, NEW v, v = CloseItem(w, item)
    PROVE  Without(w, OfItem(w, item), v)
<1>0. Layout(w) /\ item.page \in PageSet BY DEF Sound, ItemType
<1>1. CASE item.page = NoPage BY <1>1, RemovePaneIs DEF CloseItem, OfItem
<1>2. CASE item.page # NoPage /\ item.page \in ToSet(w.tabs) BY <1>2, RemovePageIs DEF CloseItem, OfItem
<1>3. CASE item.page # NoPage /\ item.page \notin ToSet(w.tabs)
  BY <1>3, <1>0, Laid, LessAll DEF CloseItem, OfItem, ToSet, Without
<1> QED BY <1>1, <1>2, <1>3

\* Less panes, less in an item.
LEMMA LessOf ==
    ASSUME NEW w, NEW v, Less(w, v), NEW item \in ItemType
    PROVE  OfItem(v, item) \subseteq OfItem(w, item)
BY DEF ItemType, Less, OfItem

\* All items of a request are closed: only panes that were meant are gone, and none of theirs is left.
LEMMA CloseItemsIs ==
    ASSUME NEW w, Sound(w), NEW items \in Seq(ItemType), NEW Q, \A i \in DOMAIN items : OfItem(w, items[i]) \subseteq Q,
           NEW v, v = CloseItems(w, items)
    PROVE  /\ Sound(v) /\ Less(w, v) /\ Live(w) \ Live(v) \subseteq Q
           /\ \A i \in DOMAIN items : OfItem(v, items[i]) \cap Live(v) = {}
<1> DEFINE s == Reverse(items)
           n == Len(s)
           D == {u \in WsType : Sound(u)}
           step == [k \in 1 .. n |-> [u \in D |-> CloseItem(u, s[k])]]
           Body(f) == [r \in SUBSET DOMAIN s |-> IF r = {} THEN w ELSE CloseItem(f[r \ {Max(r)}], s[Max(r)])]
           g == CHOOSE f : f = Body(f)
           Good == [k \in 0 .. n |-> {u \in D : /\ Less(w, u) /\ Live(w) \ Live(u) \subseteq Q
                                                /\ \A j \in 1 .. k : OfItem(u, s[j]) \cap Live(u) = {}}]
<1>1. s \in Seq(ItemType) /\ ToSet(s) = ToSet(items) BY ReverseIs
<1>2. \A k \in 1 .. n : OfItem(w, s[k]) \subseteq Q
  <2> TAKE k \in 1 .. n
  <2>1. s[k] \in ToSet(items) BY <1>1, SetOf
  <2>2. PICK i \in DOMAIN items : s[k] = items[i] BY <2>1 DEF ToSet
  <2> QED BY <2>2
<1>3. v = FoldLeft(LAMBDA u, item : CloseItem(u, item), w, s) BY DEF CloseItems
<1>4. v = g[DOMAIN s] BY <1>3 DEF FoldLeft, MapThenFoldSet
<1> HIDE DEF s
<1>5. n \in Nat /\ DOMAIN s = 1 .. n /\ \A k \in 1 .. n : s[k] \in ItemType /\ s[k] \in ToSet(s) BY <1>1, SetOf
<1> HIDE DEF n
<1>6. ASSUME NEW u \in D, NEW k \in 1 .. n
      PROVE  Without(u, OfItem(u, s[k]), CloseItem(u, s[k])) /\ CloseItem(u, s[k]) \in D
  BY <1>5, CloseItemIs, Laid DEF Without, Sound
<1>7. step \in [1 .. n -> [D -> D]]
  <2> HIDE DEF D
  <2> QED BY <1>6
<1>8. w \in D BY Laid DEF Sound
<1>9. PICK it \in [SUBSET (1 .. n) -> D] : Folds(it, n, w, step)
  <2> HIDE DEF D, step
  <2> QED BY <1>5, <1>7, <1>8, IterExists
<1>10. \A r \in SUBSET (1 .. n) : r # {} =>
          Max(r) \in 1 .. n /\ it[r \ {Max(r)}] \in D /\ it[r] = CloseItem(it[r \ {Max(r)}], s[Max(r)])
  <2> TAKE r \in SUBSET (1 .. n)
  <2> HAVE r # {}
  <2>1. Max(r) \in r BY <1>5, MaxIn
  <2>2. r \ {Max(r)} \in SUBSET (1 .. n) /\ Max(r) \in 1 .. n BY <2>1
  <2> HIDE DEF D
  <2>3. it[r \ {Max(r)}] \in D BY <2>2
  <2>4. it[r] = step[Max(r)][it[r \ {Max(r)}]]
    <3> HIDE DEF step
    <3> QED BY <1>9 DEF Folds
  <2> QED BY <2>2, <2>3, <2>4
<1>11. it[{}] = w
  <2> HIDE DEF step, D
  <2> QED BY <1>9 DEF Folds
<1>12. it = Body(it)
  <2> HIDE DEF D, step
  <2> QED BY <1>10, <1>11, <1>5
<1>13. g = Body(g) BY <1>12
<1> HIDE DEF g
<1>14. g[1 .. 0] = w BY <1>13
<1>15. \A k \in 1 .. n : g[1 .. k] = CloseItem(g[1 .. k - 1], s[k])
  <2> TAKE k \in 1 .. n
  <2>0. k \in Nat \ {0} /\ 1 .. k \subseteq 1 .. n BY <1>5
  <2>1. Max(1 .. k) = k /\ (1 .. k) \ {k} = 1 .. k - 1 /\ 1 .. k # {} BY <2>0, MaxUpTo
  <2>2. 1 .. k \in SUBSET DOMAIN s BY <1>5, <2>0
  <2>3. g[1 .. k] = CloseItem(g[(1 .. k) \ {Max(1 .. k)}], s[Max(1 .. k)]) BY <1>13, <2>1, <2>2
  <2> QED BY <2>3, <2>1
<1> HIDE DEF Body, step
<1>16. g[1 .. 0] \in Good[0]
  <2>1. Less(w, w) BY LessAll DEF Sound
  <2>2. w \in {u \in D : /\ Less(w, u) /\ Live(w) \ Live(u) \subseteq Q
                         /\ \A j \in 1 .. 0 : OfItem(u, s[j]) \cap Live(u) = {}}
    <3> HIDE DEF D
    <3> QED BY <2>1, <1>8
  <2>3. 0 \in 0 .. n BY <1>5
  <2> HIDE DEF D
  <2> QED BY <2>2, <2>3, <1>14
<1>17. ASSUME NEW k \in 1 .. n, g[1 .. k - 1] \in Good[k - 1] PROVE g[1 .. k] \in Good[k]
  <2> DEFINE u == g[1 .. k - 1]  y == g[1 .. k]  e == s[k]
  <2>1. k - 1 \in 0 .. n /\ k \in 0 .. n /\ e \in ItemType BY <1>5
  <2>2. u \in D /\ Less(w, u) /\ Live(w) \ Live(u) \subseteq Q /\ \A j \in 1 .. k - 1 : OfItem(u, s[j]) \cap Live(u) = {}
    <3> HIDE DEF D
    <3> QED BY <1>17, <2>1
  <2> HIDE DEF u
  <2>3. y = CloseItem(u, e) BY <1>15 DEF u
  <2> HIDE DEF y
  <2>4. Without(u, OfItem(u, e), y) /\ y \in D BY <2>2, <2>3, <1>6
  <2>5. Layout(w) /\ Layout(u) /\ Layout(y) /\ Less(u, y) /\ Live(y) = Live(u) \ OfItem(u, e)
    BY <2>2, <2>4, <1>8 DEF Without, Sound
  <2>6. Less(w, y) BY <2>2, <2>5, LessAll
  <2>7. OfItem(u, e) \subseteq Q BY <2>1, <2>2, <1>2, LessOf
  <2>8. Live(w) \ Live(y) \subseteq Q BY <2>2, <2>5, <2>7
  <2>9. ASSUME NEW j \in 1 .. k PROVE OfItem(y, s[j]) \cap Live(y) = {}
    <3>1. s[j] \in ItemType BY <1>5
    <3>2. OfItem(y, s[j]) \subseteq OfItem(u, s[j]) BY <3>1, <2>5, LessOf
    <3>3. CASE j = k BY <3>2, <3>3, <2>5
    <3>4. CASE j # k BY <3>4, <1>5, <3>2, <2>2, <2>5
    <3> QED BY <3>3, <3>4
  <2> HIDE DEF D
  <2> QED BY <2>1, <2>4, <2>6, <2>8, <2>9 DEF y
<1>18. \A k \in 0 .. n : g[1 .. k] \in Good[k]
  <2>1. \A k \in 1 .. n : g[1 .. k - 1] \in Good[k - 1] => g[1 .. k] \in Good[k] BY <1>17
  <2> HIDE DEF Good
  <2> QED BY <1>5, <1>16, <2>1, FoldAlong
<1>19. v \in Good[n]
  <2>1. n \in 0 .. n BY <1>5
  <2> HIDE DEF Good
  <2> QED BY <2>1, <1>18, <1>4, <1>5
<1>20. /\ Sound(v) /\ Less(w, v) /\ Live(w) \ Live(v) \subseteq Q
       /\ \A j \in 1 .. n : OfItem(v, s[j]) \cap Live(v) = {} BY <1>5, <1>19
<1>21. \A i \in DOMAIN items : OfItem(v, items[i]) \cap Live(v) = {}
  <2> TAKE i \in DOMAIN items
  <2>1. items[i] \in ToSet(s) BY <1>1 DEF ToSet
  <2>2. PICK j \in DOMAIN s : s[j] = items[i] BY <2>1 DEF ToSet
  <2> QED BY <2>2, <1>5, <1>20
<1> QED BY <1>20, <1>21

\* Panes that are closed one after the other, as closeServer does it.
LEMMA RemovePanesIs ==
    ASSUME NEW w, Sound(w), NEW s \in Seq(PaneIds), NEW v, v = RemovePanes(w, s)
    PROVE  Without(w, ToSet(s), v)
<1> DEFINE n == Len(s)
           D == {u \in WsType : Sound(u)}
           step == [k \in 1 .. n |-> [u \in D |-> RemovePane(u, s[k])]]
           Body(f) == [r \in SUBSET DOMAIN s |-> IF r = {} THEN w ELSE RemovePane(f[r \ {Max(r)}], s[Max(r)])]
           g == CHOOSE f : f = Body(f)
           Good == [k \in 0 .. n |-> {u \in D : Less(w, u) /\ Live(u) = Live(w) \ Till(s, k)}]
<1>4. v = g[DOMAIN s] BY DEF RemovePanes, FoldLeft, MapThenFoldSet
<1>5. n \in Nat /\ DOMAIN s = 1 .. n /\ ToSet(s) = Till(s, n) BY SetOf
<1> HIDE DEF n
<1>6. ASSUME NEW u \in D, NEW k \in 1 .. n
      PROVE  Without(u, {s[k]}, RemovePane(u, s[k])) /\ RemovePane(u, s[k]) \in D
  BY RemovePaneIs, Laid DEF Without, Sound
<1>7. step \in [1 .. n -> [D -> D]]
  <2> HIDE DEF D
  <2> QED BY <1>6
<1>8. w \in D BY Laid DEF Sound
<1>9. PICK it \in [SUBSET (1 .. n) -> D] : Folds(it, n, w, step)
  <2> HIDE DEF D, step
  <2> QED BY <1>5, <1>7, <1>8, IterExists
<1>10. \A r \in SUBSET (1 .. n) : r # {} =>
          Max(r) \in 1 .. n /\ it[r \ {Max(r)}] \in D /\ it[r] = RemovePane(it[r \ {Max(r)}], s[Max(r)])
  <2> TAKE r \in SUBSET (1 .. n)
  <2> HAVE r # {}
  <2>1. Max(r) \in r BY <1>5, MaxIn
  <2>2. r \ {Max(r)} \in SUBSET (1 .. n) /\ Max(r) \in 1 .. n BY <2>1
  <2> HIDE DEF D
  <2>3. it[r \ {Max(r)}] \in D BY <2>2
  <2>4. it[r] = step[Max(r)][it[r \ {Max(r)}]]
    <3> HIDE DEF step
    <3> QED BY <1>9 DEF Folds
  <2> QED BY <2>2, <2>3, <2>4
<1>11. it[{}] = w
  <2> HIDE DEF step, D
  <2> QED BY <1>9 DEF Folds
<1>12. it = Body(it)
  <2> HIDE DEF D, step
  <2> QED BY <1>10, <1>11, <1>5
<1>13. g = Body(g) BY <1>12
<1> HIDE DEF g
<1>14. g[1 .. 0] = w BY <1>13
<1>15. \A k \in 1 .. n : g[1 .. k] = RemovePane(g[1 .. k - 1], s[k])
  <2> TAKE k \in 1 .. n
  <2>0. k \in Nat \ {0} /\ 1 .. k \subseteq 1 .. n BY <1>5
  <2>1. Max(1 .. k) = k /\ (1 .. k) \ {k} = 1 .. k - 1 /\ 1 .. k # {} BY <2>0, MaxUpTo
  <2>2. 1 .. k \in SUBSET DOMAIN s BY <1>5, <2>0
  <2>3. g[1 .. k] = RemovePane(g[(1 .. k) \ {Max(1 .. k)}], s[Max(1 .. k)]) BY <1>13, <2>1, <2>2
  <2> QED BY <2>3, <2>1
<1> HIDE DEF Body, step
<1>16. g[1 .. 0] \in Good[0]
  <2>1. Less(w, w) /\ Till(s, 0) = {} BY LessAll, SetOf DEF Sound
  <2>3. 0 \in 0 .. n BY <1>5
  <2> HIDE DEF D
  <2> QED BY <2>1, <2>3, <1>8, <1>14
<1>17. ASSUME NEW k \in 1 .. n, g[1 .. k - 1] \in Good[k - 1] PROVE g[1 .. k] \in Good[k]
  <2> DEFINE u == g[1 .. k - 1]  y == g[1 .. k]  e == s[k]
  <2>1. k - 1 \in 0 .. n /\ k \in 0 .. n /\ Till(s, k) = Till(s, k - 1) \cup {e} BY <1>5, TillNext
  <2>2. u \in D /\ Less(w, u) /\ Live(u) = Live(w) \ Till(s, k - 1)
    <3> HIDE DEF D
    <3> QED BY <1>17, <2>1
  <2> HIDE DEF u
  <2>3. y = RemovePane(u, e) BY <1>15 DEF u
  <2> HIDE DEF y
  <2>4. Without(u, {e}, y) /\ y \in D BY <2>2, <2>3, <1>6
  <2>5. Layout(w) /\ Layout(u) /\ Layout(y) /\ Less(u, y) /\ Live(y) = Live(u) \ {e}
    BY <2>2, <2>4, <1>8 DEF Without, Sound
  <2>6. Less(w, y) BY <2>2, <2>5, LessAll
  <2> HIDE DEF e
  <2>8. Live(y) = Live(w) \ Till(s, k) BY <2>1, <2>2, <2>5
  <2> HIDE DEF D
  <2> QED BY <2>1, <2>4, <2>6, <2>8 DEF y
<1>18. \A k \in 0 .. n : g[1 .. k] \in Good[k]
  <2>1. \A k \in 1 .. n : g[1 .. k - 1] \in Good[k - 1] => g[1 .. k] \in Good[k] BY <1>17
  <2> HIDE DEF Good
  <2> QED BY <1>5, <1>16, <2>1, FoldAlong
<1>19. v \in Good[n]
  <2>1. n \in 0 .. n BY <1>5
  <2> HIDE DEF Good
  <2> QED BY <2>1, <1>18, <1>4, <1>5
<1>20. Sound(v) /\ Less(w, v) /\ Live(v) = Live(w) \ Till(s, n) BY <1>5, <1>19
<1> QED BY <1>5, <1>20 DEF Without

----
(* The rail lets go: a remote desktop, a host that is deleted. *)

\* The same tabs and panes with the rail bound to no session.
LEMMA UnboundIs ==
    ASSUME NEW w, Sound(w), NEW v \in WsType, v.tabs = w.tabs, v.cur = w.cur, v.home = w.home, v.pages = w.pages,
           v.panes = w.panes, v.opened = w.opened, v.selected = w.selected, v.label = w.label, v.session = NoPane,
           v.monitor \in {w.monitor, NoPage}, InFront(v)
    PROVE  Sound(v) /\ Same(w, v)
<1>1. Layout(w) /\ Bound(w) /\ Timed(w) BY DEF Sound, Rail
<1>2. Same(w, v) BY DEF Same
<1>3. Layout(v)
  <2>1. v.selected \subseteq ToSet(w.tabs) /\ IF w.tabs = <<>> THEN v.cur = NoPage ELSE v.cur \in ToSet(w.tabs)
    BY <1>1 DEF Layout
  <2>2. \A h \in PageSet : ProbeSound(v.pages[h].probe) /\ (w.pages[h] = EmptyPage => v.pages[h] = EmptyPage)
    BY <1>1, Laid
  <2> QED BY <2>1, <2>2, <1>1, <1>2, LayoutKeeps
<1>4. Bound(v) /\ Badged(v) /\ Timed(v) BY <1>1 DEF Bound, Badged, Timed
<1> QED BY <1>2, <1>3, <1>4 DEF Sound, Rail

\* A remote desktop takes the rail.
LEMMA RdpIs ==
    ASSUME NEW w, Sound(w), NEW v, v = [w EXCEPT !.monitor = NoPage, !.session = NoPane, !.shown = Rdp, !.badge = "rdp"]
    PROVE  Sound(v) /\ Same(w, v)
<1>1. w \in WsType BY Laid DEF Sound
<1>2. "rdp" \in Badges BY DEF Badges
<1>3. /\ v \in WsType /\ v.tabs = w.tabs /\ v.cur = w.cur /\ v.home = w.home /\ v.pages = w.pages /\ v.panes = w.panes
      /\ v.opened = w.opened /\ v.selected = w.selected /\ v.label = w.label /\ v.session = NoPane /\ v.monitor = NoPage
      /\ v.shown = Rdp BY <1>1, <1>2 DEF WsType
<1>4. InFront(v) BY <1>3 DEF InFront
<1> QED BY <1>3, <1>4, UnboundIs

\* The panes of a host, from the last tab to the first.
Hosted(w, s) ==
    FlattenSeq([i \in DOMAIN w.tabs |->
        Only(w.pages[Reverse(w.tabs)[i]].panes, {p \in PaneIds : w.panes[p].server = s})])

\* They are all the panes of the host that are there.
LEMMA HostedIs ==
    ASSUME NEW w, Layout(w), NEW s
    PROVE  Hosted(w, s) \in Seq(PaneIds) /\ ToSet(Hosted(w, s)) = {p \in Live(w) : w.panes[p].server = s}
<1> DEFINE n == Len(w.tabs)
           back == Reverse(w.tabs)
           His == {p \in PaneIds : w.panes[p].server = s}
           ss == [i \in DOMAIN w.tabs |-> Only(w.pages[back[i]].panes, His)]
           V == PageIds \cup {Settings}
<1>1. w.tabs \in Seq(V) BY Laid
<1>2. back \in Seq(V) /\ Len(back) = n /\ ToSet(back) = ToSet(w.tabs)
  <2> HIDE DEF V
  <2> QED BY <1>1, ReverseIs
<1>3. n \in Nat /\ DOMAIN w.tabs = 1 .. n /\ DOMAIN back = 1 .. n /\ \A i \in 1 .. n : back[i] \in ToSet(w.tabs)
  <2> HIDE DEF V, back
  <2> QED BY <1>1, <1>2, SetOf
<1> HIDE DEF n, back, V, His
<1>4. \A i \in 1 .. n : back[i] \in PageSet /\ w.pages[back[i]].panes \in Seq(PaneIds)
  <2> TAKE i \in 1 .. n
  <2>1. back[i] \in PageSet BY <1>3, Laid, Numbers
  <2> QED BY <2>1, Laid, PartsOf
<1>5. ss \in Seq(Seq(PaneIds)) /\ Len(ss) = n /\ \A i \in 1 .. n : ToSet(ss[i]) = ToSet(w.pages[back[i]].panes) \cap His
  <2>1. \A i \in 1 .. n : ss[i] \in Seq(PaneIds) /\ ToSet(ss[i]) = ToSet(w.pages[back[i]].panes) \cap His
    BY <1>3, <1>4, OnlyFacts
  <2>2. ss = [i \in 1 .. n |-> ss[i]] BY <1>3
  <2> HIDE DEF ss
  <2> QED BY <2>1, <2>2, <1>3
<1>6. Hosted(w, s) = FlattenSeq(ss) BY DEF Hosted, back, His
<1> HIDE DEF ss
<1>7. Hosted(w, s) \in Seq(PaneIds) /\ ToSet(Hosted(w, s)) = UNION {ToSet(ss[i]) : i \in 1 .. n} BY <1>5, <1>6, FlattenFacts
<1>8. ASSUME NEW p \in Live(w), w.panes[p].server = s PROVE p \in ToSet(Hosted(w, s))
  <2>1. PICK g \in ToSet(w.tabs) : p \in ToSet(w.pages[g].panes) BY <1>8 DEF Live
  <2>2. g \in ToSet(back) BY <2>1, <1>2
  <2>3. PICK i \in 1 .. n : g = back[i] BY <2>2, <1>3 DEF ToSet
  <2>4. p \in His BY <1>8, LiveIs DEF His
  <2> QED BY <2>1, <2>3, <2>4, <1>5, <1>7
<1>9. ASSUME NEW p \in ToSet(Hosted(w, s)) PROVE p \in Live(w) /\ w.panes[p].server = s
  <2>1. PICK i \in 1 .. n : p \in ToSet(w.pages[back[i]].panes) \cap His BY <1>5, <1>7
  <2> QED BY <2>1, <1>4, LiveIs DEF His
<1> QED BY <1>7, <1>8, <1>9

\* What deleteServer leaves: nothing of the host.
LEMMA DeletedIs ==
    ASSUME NEW w, Sound(w), NEW s \in Servers, NEW u, u = RemovePanes(w, Hosted(w, s)),
           NEW v, v = IF u.shown # s THEN u ELSE [u EXCEPT !.shown = NoServer, !.session = NoPane, !.badge = "offline"]
    PROVE  LET his == {p \in Live(w) : w.panes[p].server = s} IN Without(w, his, u) /\ Without(w, his, v)
<1> DEFINE His == {p \in Live(w) : w.panes[p].server = s}
<1>1. Layout(w) BY DEF Sound
<1>2. Without(w, His, u)
  <2>1. Hosted(w, s) \in Seq(PaneIds) /\ ToSet(Hosted(w, s)) = His BY <1>1, HostedIs
  <2> HIDE DEF His
  <2>2. Without(w, ToSet(Hosted(w, s)), u) BY <2>1, RemovePanesIs
  <2> QED BY <2>1, <2>2
<1>3. Sound(u) /\ Layout(u) /\ u \in WsType BY <1>2, Laid DEF Without, Sound
<1>4. \A p \in Live(u) : u.panes[p].server # s
  <2> HIDE DEF His
  <2>1. \A p \in Live(u) : p \in Live(w) /\ p \notin His /\ u.panes[p].server = w.panes[p].server BY <1>2 DEF Without, Less
  <2> QED BY <2>1 DEF His
<1> HIDE DEF His
<1>5. CASE u.shown # s BY <1>2, <1>5 DEF His
<1>6. CASE u.shown = s
  <2>1. v = [u EXCEPT !.shown = NoServer, !.session = NoPane, !.badge = "offline"] BY <1>6
  <2>2. "offline" \in Badges BY DEF Badges
  <2>3. /\ v \in WsType /\ v.tabs = u.tabs /\ v.cur = u.cur /\ v.home = u.home /\ v.pages = u.pages /\ v.panes = u.panes
        /\ v.opened = u.opened /\ v.selected = u.selected /\ v.label = u.label /\ v.session = NoPane /\ v.monitor = u.monitor
        /\ v.shown = NoServer BY <1>3, <2>1, <2>2 DEF WsType
  <2>4. InFront(v)
    <3>1. ASSUME \E p \in ToSet(CurrentPanes(u)) : Up(u, p) PROVE FALSE
      BY <1>3, <1>6, <3>1, <1>4, Numbers, LiveIs DEF Sound, Rail, InFront, Bound
    <3>2. CurrentPanes(v) = CurrentPanes(u) /\ \A p : Up(v, p) = Up(u, p) BY <2>3 DEF CurrentPanes, Up
    <3> QED BY <3>1, <3>2 DEF InFront
  <2>5. Sound(v) /\ Same(u, v) BY <1>3, <2>3, <2>4, UnboundIs
  <2>6. Live(v) = Live(u) BY <1>3, <2>5, SameLive
  <2>7. Less(w, v) BY <1>1, <1>2, <1>3, <2>5, LessAll DEF Without, Sound
  <2> QED BY <1>2, <2>5, <2>6, <2>7 DEF Without, His
<1>7. Without(w, {p \in Live(w) : w.panes[p].server = s}, u) BY <1>2 DEF His
<1> QED BY <1>5, <1>6, <1>7

----
(* Tabs that are merged and taken apart. *)

\* The same panes, of the same hosts.
Kept(w, v) ==
    /\ Sound(v) /\ v.opened = w.opened /\ Live(v) = Live(w)
    /\ \A p \in Live(w) : v.panes[p].server = w.panes[p].server

\* The tabs that are merged, and their panes.
MergedTabs(w) == Only(w.tabs, {g \in w.selected : w.pages[g].panes # <<>>})
Together(w) == FlattenSeq([i \in DOMAIN MergedTabs(w) |-> w.pages[MergedTabs(w)[i]].panes])

\* They are tabs with terminals; their panes are those of all of them, each once, led by those of the first.
LEMMA MergedTabsAre ==
    ASSUME NEW w, Layout(w), Len(MergedTabs(w)) >= 2
    PROVE  /\ Head(MergedTabs(w)) \in ToSet(MergedTabs(w)) /\ ToSet(MergedTabs(w)) \subseteq ToSet(w.tabs) \ {Settings}
           /\ Together(w) \in Seq(PaneIds) /\ Together(w) # <<>> /\ Apart(Together(w))
           /\ Together(w)[1] = w.pages[Head(MergedTabs(w))].panes[1]
           /\ \A p : p \in ToSet(Together(w)) <=> \E g \in ToSet(MergedTabs(w)) : p \in ToSet(w.pages[g].panes)
<1> DEFINE m == MergedTabs(w)
           n == Len(m)
           V == PageIds \cup {Settings}
           Chosen == {g \in w.selected : w.pages[g].panes # <<>>}
           ss == [i \in DOMAIN m |-> w.pages[m[i]].panes]
<1>1. m \in Seq(V) /\ ToSet(m) = ToSet(w.tabs) \cap Chosen /\ Apart(m)
  <2>1. w.tabs \in Seq(V) /\ Apart(w.tabs) BY Laid
  <2> HIDE DEF V, Chosen
  <2> QED BY <2>1, OnlyFacts DEF MergedTabs, Chosen
<1>2. \A g \in ToSet(m) : g \in ToSet(w.tabs) \ {Settings} /\ g \in PageSet /\ w.pages[g].panes # <<>>
  <2> TAKE g \in ToSet(m)
  <2>1. g \in ToSet(w.tabs) /\ w.pages[g].panes # <<>> BY <1>1
  <2>2. g \in PageSet BY <2>1, Laid, Numbers
  <2> QED BY <2>1, <2>2, Laid
<1> HIDE DEF m, V, Chosen
<1>3. n \in Nat /\ n >= 2 /\ DOMAIN m = 1 .. n /\ ToSet(m) = Till(m, n) /\ \A i \in 1 .. n : m[i] \in ToSet(m)
  BY <1>1, SetOf DEF m
<1>4. m # <<>> BY <1>1, <1>3, SetOf
<1>5. Head(m) = m[1] /\ Head(m) \in ToSet(m) BY <1>1, <1>4, Ends1
<1>6. \A i \in 1 .. n : /\ w.pages[m[i]].panes \in Seq(PaneIds) /\ w.pages[m[i]].panes # <<>>
                        /\ Apart(w.pages[m[i]].panes)
  <2> TAKE i \in 1 .. n
  <2>1. m[i] \in PageSet /\ w.pages[m[i]].panes # <<>> BY <1>2, <1>3
  <2>2. w.pages[m[i]] \in PageType /\ PageSound(w, m[i]) BY <2>1, Laid
  <2> QED BY <2>1, <2>2, PartsOf DEF PageSound
<1>7. ss \in Seq(Seq(PaneIds)) /\ Len(ss) = n /\ \A i \in 1 .. n : ss[i] = w.pages[m[i]].panes
  <2>1. \A i \in 1 .. n : ss[i] = w.pages[m[i]].panes /\ ss[i] \in Seq(PaneIds) BY <1>3, <1>6
  <2>2. ss = [i \in 1 .. n |-> ss[i]] BY <1>3
  <2> HIDE DEF ss
  <2> QED BY <2>1, <2>2, <1>3
<1>8. Together(w) = FlattenSeq(ss) BY DEF Together, m
<1> HIDE DEF ss
<1>9. \A i, j \in 1 .. n : i # j => ToSet(ss[i]) \cap ToSet(ss[j]) = {}
  <2> TAKE i, j \in 1 .. n
  <2> HAVE i # j
  <2>1. m[i] # m[j] BY <1>1, <1>3 DEF Apart
  <2>2. m[i] \in PageSet /\ m[j] \in PageSet BY <1>2, <1>3
  <2>3. \A p : p \in ToSet(w.pages[m[i]].panes) /\ p \in ToSet(w.pages[m[j]].panes) => m[i] = m[j] BY <2>2, LiveIs
  <2>4. ss[i] = w.pages[m[i]].panes /\ ss[j] = w.pages[m[j]].panes BY <1>7
  <2>5. \A p : ~(p \in ToSet(ss[i]) /\ p \in ToSet(ss[j])) BY <2>1, <2>3, <2>4
  <2> QED BY <2>5
<1>10. /\ FlattenSeq(ss) \in Seq(PaneIds) /\ ToSet(FlattenSeq(ss)) = UNION {ToSet(ss[i]) : i \in 1 .. Len(ss)}
       /\ Apart(FlattenSeq(ss)) /\ FlattenSeq(ss) # <<>> /\ FlattenSeq(ss)[1] = ss[1][1]
  <2>1. \A i \in 1 .. Len(ss) : Apart(ss[i]) BY <1>6, <1>7
  <2>2. 1 \in 1 .. n /\ ss # <<>> /\ ss[1] # <<>>
    <3>1. 1 \in 1 .. n BY <1>3
    <3>2. ss # <<>> BY <1>3, <1>7, SetOf
    <3> QED BY <3>1, <3>2, <1>6, <1>7
  <2> QED BY <2>1, <2>2, <1>7, <1>9, FlattenFacts
<1>11. FlattenSeq(ss)[1] = w.pages[Head(m)].panes[1]
  <2>1. 1 \in 1 .. n BY <1>3
  <2> QED BY <2>1, <1>5, <1>7, <1>10
<1>12. \A p : p \in ToSet(Together(w)) <=> \E g \in ToSet(m) : p \in ToSet(w.pages[g].panes)
  <2> TAKE p
  <2>1. ASSUME p \in ToSet(Together(w)) PROVE \E g \in ToSet(m) : p \in ToSet(w.pages[g].panes)
    <3>1. PICK i \in 1 .. n : p \in ToSet(ss[i]) BY <2>1, <1>7, <1>8, <1>10
    <3> QED BY <3>1, <1>3, <1>7
  <2>2. ASSUME NEW g \in ToSet(m), p \in ToSet(w.pages[g].panes) PROVE p \in ToSet(Together(w))
    <3>1. PICK i \in 1 .. n : g = m[i] BY <1>3 DEF Till
    <3> QED BY <3>1, <2>2, <1>7, <1>8, <1>10
  <2> QED BY <2>1, <2>2
<1> QED BY <1>2, <1>5, <1>8, <1>10, <1>11, <1>12 DEF m

\* The merged tabs before they are published.
Joined(w) ==
    LET target == Head(MergedTabs(w))
        others == ToSet(MergedTabs(w)) \ {target}
        front == IF w.cur = NoPage THEN NoPane ELSE w.pages[w.cur].active
        focused == IF front \in ToSet(Together(w)) THEN front ELSE Head(Together(w))
        pages == [g \in DOMAIN w.pages |->
            CASE g = target -> [w.pages[g] EXCEPT !.panes = Together(w), !.active = focused]
              [] g \in others -> EmptyPage
              [] OTHER -> w.pages[g]]
    IN  [w EXCEPT !.pages = pages, !.tabs = Only(@, ToSet(@) \ others), !.cur = target,
                  !.selected = {target}, !.monitor = IF @ \in others THEN NoPage ELSE @]

\* What mergeSelectedSessions comes to.
LEMMA JoinedIs ==
    ASSUME NEW w, Sound(w), Len(MergedTabs(w)) >= 2, NEW v, v = ShowTabs(Publish(Joined(w)))
    PROVE  Kept(w, v)
<1> DEFINE target == Head(MergedTabs(w))
           others == ToSet(MergedTabs(w)) \ {target}
           items == Together(w)
           front == IF w.cur = NoPage THEN NoPane ELSE w.pages[w.cur].active
           focused == IF front \in ToSet(items) THEN front ELSE Head(items)
           pages == [g \in DOMAIN w.pages |->
               CASE g = target -> [w.pages[g] EXCEPT !.panes = items, !.active = focused]
                 [] g \in others -> EmptyPage
                 [] OTHER -> w.pages[g]]
           tabs == Only(w.tabs, ToSet(w.tabs) \ others)
           mon == IF w.monitor \in others THEN NoPage ELSE w.monitor
           x == Joined(w)
<1>1. /\ Layout(w) /\ w \in WsType /\ w.pages \in [PageSet -> PageType] /\ w.opened \in Nat /\ w.opened \in 0 .. MaxPanes
      /\ w.panes \in [PaneIds -> PaneType] /\ w.monitor \in PageIds \cup {NoPage}
      /\ w.tabs \in Seq(PageIds \cup {Settings}) /\ Apart(w.tabs) /\ w.selected \in SUBSET PageIds
  BY Laid, Parts DEF Sound
<1>2. x = [w EXCEPT !.pages = pages, !.tabs = tabs, !.cur = target, !.selected = {target}, !.monitor = mon]
  BY DEF Joined
<1>3. /\ target \in ToSet(MergedTabs(w)) /\ ToSet(MergedTabs(w)) \subseteq ToSet(w.tabs) \ {Settings}
      /\ items \in Seq(PaneIds) /\ items # <<>> /\ Apart(items) /\ items[1] = w.pages[target].panes[1]
      /\ \A p : p \in ToSet(items) <=> \E g \in ToSet(MergedTabs(w)) : p \in ToSet(w.pages[g].panes)
  BY <1>1, MergedTabsAre
<1> DEFINE all == ToSet(MergedTabs(w))
<1>4. /\ all = {target} \cup others /\ target \notin others /\ target \in all
      /\ \A g \in all : g \in PageSet /\ g \in ToSet(w.tabs) /\ g # Settings /\ PageSound(w, g) /\ g \in PageIds
      /\ \A p : p \in ToSet(items) <=> \E g \in all : p \in ToSet(w.pages[g].panes)
  <2>1. \A g \in all : g \in PageSet /\ g \in ToSet(w.tabs) /\ g # Settings /\ PageSound(w, g) /\ g \in PageIds
    <3> TAKE g \in all
    <3>1. g \in ToSet(w.tabs) \ {Settings} BY <1>3
    <3> HIDE DEF all
    <3>2. g \in PageSet /\ g \in PageIds BY <3>1, <1>1, Laid, Numbers
    <3> QED BY <3>1, <3>2, <1>1 DEF Layout
  <2> QED BY <2>1, <1>3
<1>5. ToSet(items) \subseteq PaneIds /\ focused \in ToSet(items) /\ Head(items) \in ToSet(items) BY <1>3, Ends1, SetOf
<1> HIDE DEF focused, items, target, others, all
<1>6. /\ pages \in [PageSet -> PageType] /\ pages[target].panes = items /\ pages[target].active = focused
      /\ pages[target].probe = w.pages[target].probe
      /\ \A g \in others : pages[g] = EmptyPage
      /\ \A g \in PageSet : g \notin all => pages[g] = w.pages[g]
  <2>1. [w.pages[target] EXCEPT !.panes = items, !.active = focused] \in PageType
    <3>1. w.pages[target] \in PageType /\ items \in Seq(PaneIds) /\ focused \in PaneIds \cup {NoPane}
      BY <1>4, <1>3, <1>5, <1>1 DEF items
    <3> QED BY <3>1 DEF PageType
  <2>2. DOMAIN w.pages = PageSet /\ target \in PageSet /\ others \subseteq PageSet BY <1>1, <1>4
  <2>3. pages[target] = [w.pages[target] EXCEPT !.panes = items, !.active = focused] BY <2>2, <1>4
  <2>4. \A g \in others : pages[g] = EmptyPage BY <2>2, <1>4
  <2>5. \A g \in PageSet : g \notin all => pages[g] = w.pages[g] BY <2>2, <1>4
  <2>6. \A g \in PageSet : pages[g] \in PageType
    <3> TAKE g \in PageSet
    <3>1. g = target \/ g \in others \/ g \notin all BY <1>4
    <3> HIDE DEF pages
    <3> QED BY <3>1, <2>1, <2>3, <2>4, <2>5, <1>1, Nothings
  <2>7. pages = [g \in PageSet |-> pages[g]] BY <2>2
  <2>8. w.pages[target] \in PageType BY <1>1, <2>2
  <2> HIDE DEF pages
  <2>9. pages[target].panes = items /\ pages[target].active = focused /\ pages[target].probe = w.pages[target].probe
    BY <2>3, <2>8 DEF PageType
  <2>10. pages \in [PageSet -> PageType] BY <2>6, <2>7
  <2> QED BY <2>4, <2>5, <2>9, <2>10
<1>7. tabs \in Seq(PageIds \cup {Settings}) /\ ToSet(tabs) = ToSet(w.tabs) \ others /\ Apart(tabs)
  <2> DEFINE V == PageIds \cup {Settings}
  <2>1. w.tabs \in Seq(V) BY <1>1
  <2> HIDE DEF V
  <2>2. tabs \in Seq(V) /\ ToSet(tabs) = ToSet(w.tabs) \cap (ToSet(w.tabs) \ others) /\ Apart(tabs) BY <1>1, <2>1, OnlyFacts
  <2> QED BY <2>2 DEF V
<1>8. mon \in PageIds \cup {NoPage} BY <1>1
<1> HIDE DEF pages, tabs, mon, x
<1>9. /\ x \in WsType /\ x.tabs = tabs /\ x.cur = target /\ x.pages = pages /\ x.panes = w.panes
      /\ x.opened = w.opened /\ x.selected = {target} BY <1>4, <1>1, <1>2, <1>6, <1>7, <1>8 DEF WsType
<1>10. target \in ToSet(tabs) /\ target \in PageSet /\ target # NoPage BY <1>1, <1>4, <1>7, Laid
<1>11. PageSound(x, target)
  <2>1. PageSound(w, target) BY <1>4
  <2>2. target \in ToSet(items) => items[1] = target
    <3> HAVE target \in ToSet(items)
    <3>1. PICK h \in all : target \in ToSet(w.pages[h].panes) BY <1>4
    <3>2. PageSound(w, h) /\ target \in ToSet(w.tabs) BY <1>4
    <3>3. target = h BY <3>1, <3>2 DEF PageSound
    <3> QED BY <3>1, <3>3, <2>1, <1>3 DEF PageSound, items, target
  <2>3. ASSUME NEW p \in ToSet(items)
        PROVE  p <= w.opened /\ w.panes[p].server \in Servers /\ (p = target \/ p \notin ToSet(tabs))
    <3>1. PICK h \in all : p \in ToSet(w.pages[h].panes) BY <1>4
    <3>2. PageSound(w, h) BY <1>4
    <3>3. p <= w.opened /\ w.panes[p].server \in Servers /\ (p = h \/ p \notin ToSet(w.tabs)) BY <3>1, <3>2 DEF PageSound
    <3>4. h = target \/ h \notin ToSet(tabs) BY <1>4, <1>7
    <3> QED BY <3>3, <3>4, <1>7
  <2>4. items # <<>> /\ Apart(items) BY <1>3 DEF items
  <2>5. target <= w.opened BY <2>1 DEF PageSound
  <2> QED BY <2>2, <2>3, <2>4, <2>5, <1>5, <1>6, <1>9 DEF PageSound
<1>12. ASSUME NEW h \in ToSet(tabs) \ {Settings}, h # target PROVE PageSound(x, h)
  <2>1. h \in ToSet(w.tabs) \ {Settings} /\ h \notin all BY <1>12, <1>4, <1>7
  <2>2. h \in PageSet BY <2>1, <1>1, Laid, Numbers
  <2>3. PageSound(w, h) /\ x.pages[h] = w.pages[h] BY <2>1, <2>2, <1>1, <1>6, <1>9 DEF Layout
  <2> QED BY <2>3, <1>7, <1>9 DEF PageSound
<1>13. \A p : (\E g \in PageSet : p \in ToSet(pages[g].panes)) <=> \E g \in PageSet : p \in ToSet(w.pages[g].panes)
  <2>1. ASSUME NEW p, NEW g \in PageSet, p \in ToSet(pages[g].panes) PROVE \E h \in PageSet : p \in ToSet(w.pages[h].panes)
    <3>1. CASE g = target BY <3>1, <2>1, <1>4, <1>6
    <3>2. CASE g \in others BY <3>2, <2>1, <1>6, Nothings DEF ToSet
    <3>3. CASE g \notin all BY <3>3, <2>1, <1>6
    <3> QED BY <3>1, <3>2, <3>3, <1>4
  <2>2. ASSUME NEW p, NEW g \in PageSet, p \in ToSet(w.pages[g].panes) PROVE \E h \in PageSet : p \in ToSet(pages[h].panes)
    <3>1. CASE g \in all BY <3>1, <2>2, <1>4, <1>6, <1>10
    <3>2. CASE g \notin all BY <3>2, <2>2, <1>6
    <3> QED BY <3>1, <3>2
  <2> QED BY <2>1, <2>2
<1>14. \A g, h \in PageSet : g # h => ToSet(pages[g].panes) \cap ToSet(pages[h].panes) = {}
  <2>1. \A g, h \in PageSet : \A p : p \in ToSet(w.pages[g].panes) /\ p \in ToSet(w.pages[h].panes) => g = h BY <1>1, LiveIs
  <2>2. ASSUME NEW g \in PageSet, NEW p \in ToSet(pages[g].panes)
        PROVE  (g = target /\ p \in ToSet(items)) \/ (g \notin all /\ p \in ToSet(w.pages[g].panes) /\ p \notin ToSet(items))
    <3>1. CASE g = target BY <3>1, <2>2, <1>6
    <3>2. CASE g \in others BY <3>2, <2>2, <1>6, Nothings DEF ToSet
    <3>3. CASE g \notin all
      <4>1. p \in ToSet(w.pages[g].panes) BY <3>3, <2>2, <1>6
      <4>2. \A h \in all : h \in PageSet /\ h # g BY <3>3, <1>4
      <4>3. \A h \in all : p \notin ToSet(w.pages[h].panes) BY <2>1, <4>1, <4>2
      <4> QED BY <3>3, <4>1, <4>3, <1>4
    <3> QED BY <3>1, <3>2, <3>3, <1>4
  <2>3. ASSUME NEW g \in PageSet, NEW h \in PageSet, g # h, NEW p \in ToSet(pages[g].panes), p \in ToSet(pages[h].panes)
        PROVE  FALSE BY <2>1, <2>2, <2>3
  <2> QED BY <2>3
<1>15. Layout(x)
  <2>1. \A g \in PageSet : IF g \in ToSet(x.tabs) \ {Settings} THEN PageSound(x, g) ELSE x.pages[g] = EmptyPage
    <3> TAKE g \in PageSet
    <3>1. CASE g \in ToSet(tabs) \ {Settings} BY <3>1, <1>9, <1>11, <1>12
    <3>2. CASE g \notin ToSet(tabs) \ {Settings}
      <4>1. CASE g \in others BY <4>1, <3>2, <1>6, <1>9
      <4>2. CASE g \notin others BY <3>2, <4>2, <1>4, <1>10, <1>7, <1>1, <1>6, <1>9 DEF Layout
      <4> QED BY <4>1, <4>2
    <3> QED BY <3>1, <3>2
  <2>2. \A g \in PageSet : ProbeSound(x.pages[g].probe)
    <3> TAKE g \in PageSet
    <3>1. ProbeSound(w.pages[g].probe) BY <1>1, Laid
    <3>2. x.pages[g].probe \in {w.pages[g].probe, NoProbe} BY <1>4, <1>6, <1>9, Nothings
    <3> QED BY <3>1, <3>2, Nothings
  <2>3. x.selected \subseteq ToSet(x.tabs) /\ IF x.tabs = <<>> THEN x.cur = NoPage ELSE x.cur \in ToSet(x.tabs)
    BY <1>7, <1>10, <1>9, SetOf
  <2> QED BY <2>1, <2>2, <2>3, <1>7, <1>9, <1>14 DEF Layout
<1>16. Live(x) = Live(w)
  <2>1. \A q : q \in Live(x) <=> \E h \in PageSet : q \in ToSet(x.pages[h].panes) BY <1>15, LiveIs
  <2>2. \A q : q \in Live(w) <=> \E h \in PageSet : q \in ToSet(w.pages[h].panes) BY <1>1, LiveIs
  <2>3. \A q : q \in Live(x) <=> q \in Live(w) BY <2>1, <2>2, <1>9, <1>13
  <2> QED BY <2>3
<1>17. CurrentPanes(x) # <<>> BY <1>3, <1>6, <1>9, <1>10 DEF items, CurrentPanes
<1> DEFINE a == Publish(x)
<1>18. Sound(a) /\ Same(x, a) BY <1>15, <1>17, PublishIs DEF Still
<1>19. v = ShowTabs(a) BY DEF x
<1> HIDE DEF a
<1>20. Sound(v) /\ Same(a, v) BY <1>18, <1>19, ShowTabsIs DEF Sound
<1>21. Same(x, v) BY <1>18, <1>20, SameAll
<1>22. Live(v) = Live(x) BY <1>15, <1>21, SameLive
<1>23. \A p \in Live(w) : v.panes[p].server = w.panes[p].server BY <1>1, <1>9, <1>21, LiveIs DEF Same
<1>24. v.opened = w.opened BY <1>9, <1>21 DEF Same
<1> QED BY <1>16, <1>20, <1>22, <1>23, <1>24 DEF Kept

\* The tabs that are made of one, before they are published.
Parted(w) ==
    LET items == CurrentPanes(w)
        pages == [g \in DOMAIN w.pages |->
            CASE g = w.cur -> [w.pages[g] EXCEPT !.panes = <<Head(items)>>, !.active = Head(items)]
              [] g \in ToSet(Tail(items)) -> NewPage(<<g>>, g)
              [] OTHER -> w.pages[g]]
        active == w.pages[w.cur].active
        front == IF active = Head(items) THEN w.cur ELSE active
    IN  [w EXCEPT !.pages = pages, !.tabs = @ \o Tail(items), !.cur = front, !.selected = {front}]

\* What unmergeActiveSession comes to.
LEMMA PartedIs ==
    ASSUME NEW w, Sound(w), Len(CurrentPanes(w)) > 1, NEW v, v = ShowTabs(Publish(Parted(w)))
    PROVE  Kept(w, v)
<1> DEFINE cur == w.cur
           items == CurrentPanes(w)
           first == Head(items)
           rest == ToSet(Tail(items))
           active == w.pages[cur].active
           front == IF active = first THEN cur ELSE active
           pages == [g \in DOMAIN w.pages |->
               CASE g = cur -> [w.pages[g] EXCEPT !.panes = <<first>>, !.active = first]
                 [] g \in rest -> NewPage(<<g>>, g)
                 [] OTHER -> w.pages[g]]
           tabs == w.tabs \o Tail(items)
           x == Parted(w)
<1>1. /\ Layout(w) /\ w \in WsType /\ w.pages \in [PageSet -> PageType] /\ w.opened \in Nat /\ w.opened \in 0 .. MaxPanes
      /\ w.panes \in [PaneIds -> PaneType]
      /\ w.tabs \in Seq(PageIds \cup {Settings}) /\ Apart(w.tabs) /\ w.selected \in SUBSET PageIds
  BY Laid, Parts DEF Sound
<1>2. x = [w EXCEPT !.pages = pages, !.tabs = tabs, !.cur = front, !.selected = {front}] BY DEF Parted
<1>3. items # <<>> /\ items \in Seq(PaneIds)
  <2>1. Len(<<>>) = 0 OBVIOUS
  <2>2. items # <<>> BY <2>1
  <2>3. items = w.pages[cur].panes /\ cur # NoPage BY <2>2 DEF CurrentPanes
  <2>4. cur \in PageSet BY <1>1, Parts
  <2>5. w.pages[cur].panes \in Seq(PaneIds) BY <1>1, <2>4, PartsOf
  <2> QED BY <2>2, <2>3, <2>5
<1>4. /\ items = w.pages[cur].panes /\ cur \in ToSet(w.tabs) \ {Settings} /\ cur \in PageSet /\ cur \in PageIds /\ PageSound(w, cur)
      /\ w.pages[cur] \in PageType
  <2>1. items = w.pages[cur].panes /\ cur # NoPage BY <1>3 DEF CurrentPanes
  <2>2. cur \in PageSet /\ w.pages[cur].panes # <<>> BY <1>1, <1>3, <2>1, Parts
  <2> HIDE DEF items, cur
  <2>3. cur \in ToSet(w.tabs) \ {Settings} /\ PageSound(w, cur) /\ w.pages[cur] \in PageType BY <1>1, <2>2, Laid
  <2>4. cur \in PageIds BY <2>2, <2>3, <2>1, Numbers
  <2> QED BY <2>1, <2>2, <2>3, <2>4
<1>5. /\ first \in PaneIds /\ first = items[1] /\ first \in ToSet(items) /\ Tail(items) \in Seq(PaneIds)
      /\ ToSet(items) = {first} \cup rest /\ Apart(Tail(items)) /\ first \notin rest /\ Apart(items)
  <2>1. Apart(items) BY <1>4 DEF PageSound
  <2> HIDE DEF items
  <2> QED BY <1>3, <2>1, TailIs
<1>6. /\ active \in ToSet(items) /\ ToSet(items) \subseteq PaneIds
      /\ \A p \in ToSet(items) : p <= w.opened /\ w.panes[p].server \in Servers /\ (p = cur \/ p \notin ToSet(w.tabs))
      /\ (cur \in ToSet(items) => first = cur) /\ cur <= w.opened
  <2>1. ToSet(items) \subseteq PaneIds BY <1>3, SetOf
  <2> HIDE DEF items
  <2> QED BY <2>1, <1>4, <1>5 DEF PageSound
<1> HIDE DEF items, cur, rest, first, active
<1>7. /\ rest \subseteq PaneIds /\ cur \notin rest /\ \A p \in rest : p \notin ToSet(w.tabs) /\ p <= w.opened /\ p # Settings
      /\ \A p \in rest : p \in PageSet /\ p \in PageIds BY <1>5, <1>6, Numbers
<1>8. front \in {cur} \cup rest BY <1>5, <1>6
<1> HIDE DEF front
<1>9. /\ pages \in [PageSet -> PageType] /\ pages[cur].panes = <<first>> /\ pages[cur].active = first
      /\ pages[cur].probe = w.pages[cur].probe
      /\ \A g \in rest : pages[g] = NewPage(<<g>>, g)
      /\ \A g \in PageSet : g # cur /\ g \notin rest => pages[g] = w.pages[g]
  <2>1. [w.pages[cur] EXCEPT !.panes = <<first>>, !.active = first] \in PageType
    <3>1. first \in PaneIds \cup {NoPane} /\ <<first>> \in Seq(PaneIds) BY <1>5
    <3> QED BY <3>1, <1>4 DEF PageType
  <2>2. DOMAIN w.pages = PageSet /\ cur \in PageSet /\ rest \subseteq PageSet BY <1>1, <1>4, <1>7
  <2>3. pages[cur] = [w.pages[cur] EXCEPT !.panes = <<first>>, !.active = first] BY <2>2, <1>7
  <2>4. \A g \in rest : pages[g] = NewPage(<<g>>, g) BY <2>2, <1>7
  <2>5. \A g \in PageSet : g # cur /\ g \notin rest => pages[g] = w.pages[g] BY <2>2
  <2>6. \A g \in PageSet : pages[g] \in PageType
    <3> TAKE g \in PageSet
    <3>1. g = cur \/ g \in rest \/ (g # cur /\ g \notin rest) OBVIOUS
    <3>2. g \in rest => NewPage(<<g>>, g) \in PageType BY <1>7, OnePane
    <3> HIDE DEF pages
    <3> QED BY <3>1, <3>2, <2>1, <2>3, <2>4, <2>5, <1>1
  <2>7. pages = [g \in PageSet |-> pages[g]] BY <2>2
  <2> HIDE DEF pages
  <2>9. pages[cur].panes = <<first>> /\ pages[cur].active = first /\ pages[cur].probe = w.pages[cur].probe
    BY <2>3, <1>4 DEF PageType
  <2>10. pages \in [PageSet -> PageType] BY <2>6, <2>7
  <2> QED BY <2>4, <2>5, <2>9, <2>10
<1>10. tabs \in Seq(PageIds \cup {Settings}) /\ ToSet(tabs) = ToSet(w.tabs) \cup rest /\ Apart(tabs)
  <2> DEFINE V == PageIds \cup {Settings}  tail == Tail(items)
  <2>1. w.tabs \in Seq(V) BY <1>1
  <2>2. tail \in Seq(V) /\ rest = ToSet(tail) /\ Apart(tail)
    <3>1. tail \in Seq(PageIds) BY <1>5, Numbers
    <3> HIDE DEF tail
    <3>2. tail \in Seq(V) BY <3>1
    <3> QED BY <3>2, <1>5 DEF rest, tail
  <2>3. ToSet(w.tabs) \cap ToSet(tail) = {} BY <2>2, <1>7
  <2> HIDE DEF V, tail
  <2>4. /\ w.tabs \o tail \in Seq(V) /\ ToSet(w.tabs \o tail) = ToSet(w.tabs) \cup ToSet(tail)
        /\ Apart(w.tabs \o tail) BY <1>1, <2>1, <2>2, <2>3, SetOfConcat
  <2>5. tabs = w.tabs \o tail BY DEF tail
  <2> QED BY <2>2, <2>4, <2>5 DEF V
<1> HIDE DEF pages, tabs, x
<1>11. front \in ToSet(tabs) /\ front \in PageSet /\ front \in PageIds /\ front # NoPage
  BY <1>4, <1>7, <1>8, <1>10, Numbers
<1>12. /\ x \in WsType /\ x.tabs = tabs /\ x.cur = front /\ x.pages = pages /\ x.panes = w.panes
       /\ x.opened = w.opened /\ x.selected = {front} /\ x.monitor = w.monitor
  BY <1>1, <1>2, <1>9, <1>10, <1>11 DEF WsType
<1>13. /\ <<first>> # <<>> /\ Apart(<<first>>) /\ ToSet(<<first>>) = {first} /\ <<first>>[1] = first
       /\ \A g \in rest : /\ <<g>> # <<>> /\ Apart(<<g>>) /\ ToSet(<<g>>) = {g} /\ <<g>>[1] = g
                          /\ NewPage(<<g>>, g).panes = <<g>> /\ NewPage(<<g>>, g).active = g
                          /\ NewPage(<<g>>, g).probe = NoProbe BY <1>5, <1>7, OnePane
<1>14. PageSound(x, cur) BY <1>5, <1>6, <1>10, <1>9, <1>12, <1>13 DEF PageSound
<1>15. ASSUME NEW h \in rest PROVE PageSound(x, h)
  <2>1. x.pages[h].panes = <<h>> /\ x.pages[h].active = h /\ h \in ToSet(items) BY <1>5, <1>9, <1>12, <1>13
  <2>2. h <= w.opened /\ w.panes[h].server \in Servers BY <2>1, <1>6
  <2> QED BY <2>1, <2>2, <1>12, <1>13 DEF PageSound
<1>16. ASSUME NEW h \in ToSet(w.tabs) \ {Settings}, h # cur PROVE PageSound(x, h)
  <2>1. h \in PageSet /\ h \notin rest BY <1>1, <1>7, Laid, Numbers
  <2>2. PageSound(w, h) /\ x.pages[h] = w.pages[h] BY <2>1, <1>16, <1>1, <1>9, <1>12 DEF Layout
  <2>3. \A p : p \in ToSet(w.pages[h].panes) => p \notin rest BY <1>1, <1>4, <2>1, <1>5, <1>16, LiveIs
  <2> QED BY <2>2, <2>3, <1>10, <1>12 DEF PageSound
<1>17. /\ ToSet(pages[cur].panes) = {first} /\ \A g \in rest : ToSet(pages[g].panes) = {g} /\ w.pages[g].panes = <<>>
       /\ \A g \in PageSet : g # cur /\ g \notin rest => pages[g].panes = w.pages[g].panes
       /\ ToSet(w.pages[cur].panes) = {first} \cup rest
  <2>1. \A g \in rest : w.pages[g].panes = <<>> BY <1>1, <1>7, Laid
  <2> QED BY <2>1, <1>4, <1>5, <1>9, <1>13
<1>18. \A p : (\E g \in PageSet : p \in ToSet(pages[g].panes)) <=> \E g \in PageSet : p \in ToSet(w.pages[g].panes)
  <2>0. ToSet(<<>>) = {} BY DEF ToSet
  <2>1. ASSUME NEW p, NEW g \in PageSet, p \in ToSet(pages[g].panes) PROVE \E h \in PageSet : p \in ToSet(w.pages[h].panes)
    <3>1. CASE g = cur BY <3>1, <2>1, <1>17
    <3>2. CASE g \in rest BY <3>2, <2>1, <1>17, <1>4
    <3>3. CASE g # cur /\ g \notin rest BY <3>3, <2>1, <1>17
    <3> QED BY <3>1, <3>2, <3>3
  <2>2. ASSUME NEW p, NEW g \in PageSet, p \in ToSet(w.pages[g].panes) PROVE \E h \in PageSet : p \in ToSet(pages[h].panes)
    <3>1. CASE g = cur
      <4>1. CASE p = first BY <4>1, <1>4, <1>17
      <4>2. CASE p # first BY <3>1, <4>2, <2>2, <1>17, <1>7
      <4> QED BY <4>1, <4>2
    <3>2. CASE g \in rest BY <3>2, <2>2, <2>0, <1>17
    <3>3. CASE g # cur /\ g \notin rest BY <3>3, <2>2, <1>17
    <3> QED BY <3>1, <3>2, <3>3
  <2> QED BY <2>1, <2>2
<1>19. \A g, h \in PageSet : g # h => ToSet(pages[g].panes) \cap ToSet(pages[h].panes) = {}
  <2>1. \A g, h \in PageSet : \A p : p \in ToSet(w.pages[g].panes) /\ p \in ToSet(w.pages[h].panes) => g = h BY <1>1, LiveIs
  <2>2. ASSUME NEW g \in PageSet, NEW p \in ToSet(pages[g].panes)
        PROVE  \/ g = cur /\ p = first /\ p \in ToSet(w.pages[cur].panes)
               \/ g \in rest /\ p = g /\ p \in ToSet(w.pages[cur].panes)
               \/ g # cur /\ g \notin rest /\ p \in ToSet(w.pages[g].panes) BY <2>2, <1>17
  <2>3. ASSUME NEW g \in PageSet, NEW h \in PageSet, g # h, NEW p \in ToSet(pages[g].panes), p \in ToSet(pages[h].panes)
        PROVE  FALSE
    <3>1. \/ g = cur /\ p = first /\ p \in ToSet(w.pages[cur].panes)
          \/ g \in rest /\ p = g /\ p \in ToSet(w.pages[cur].panes)
          \/ g # cur /\ g \notin rest /\ p \in ToSet(w.pages[g].panes) BY <2>2
    <3>2. \/ h = cur /\ p = first /\ p \in ToSet(w.pages[cur].panes)
          \/ h \in rest /\ p = h /\ p \in ToSet(w.pages[cur].panes)
          \/ h # cur /\ h \notin rest /\ p \in ToSet(w.pages[h].panes) BY <2>2, <2>3
    <3> QED BY <3>1, <3>2, <2>1, <2>3, <1>4, <1>5
  <2> QED BY <2>3
<1>20. Layout(x)
  <2>1. \A g \in PageSet : IF g \in ToSet(x.tabs) \ {Settings} THEN PageSound(x, g) ELSE x.pages[g] = EmptyPage
    <3> TAKE g \in PageSet
    <3>1. CASE g \in ToSet(tabs) \ {Settings} BY <3>1, <1>10, <1>12, <1>14, <1>15, <1>16
    <3>2. CASE g \notin ToSet(tabs) \ {Settings} BY <3>2, <1>4, <1>7, <1>10, <1>1, <1>9, <1>12 DEF Layout
    <3> QED BY <3>1, <3>2
  <2>2. \A g \in PageSet : ProbeSound(x.pages[g].probe)
    <3> TAKE g \in PageSet
    <3>1. ProbeSound(w.pages[g].probe) BY <1>1, Laid
    <3>2. x.pages[g].probe = w.pages[g].probe \/ x.pages[g].probe = NoProbe
      <4>0. x.pages = pages BY <1>12
      <4>1. CASE g = cur BY <4>0, <4>1, <1>9
      <4>2. CASE g \in rest BY <4>2, <1>9, <1>13, <4>0
      <4>3. CASE g # cur /\ g \notin rest BY <4>0, <4>3, <1>9
      <4> QED BY <4>1, <4>2, <4>3
    <3> QED BY <3>1, <3>2, Nothings
  <2>3. x.selected \subseteq ToSet(x.tabs) /\ IF x.tabs = <<>> THEN x.cur = NoPage ELSE x.cur \in ToSet(x.tabs)
    BY <1>10, <1>11, <1>12, SetOf
  <2> QED BY <2>1, <2>2, <2>3, <1>10, <1>12, <1>19 DEF Layout
<1>21. Live(x) = Live(w)
  <2>1. \A q : q \in Live(x) <=> \E h \in PageSet : q \in ToSet(x.pages[h].panes) BY <1>20, LiveIs
  <2>2. \A q : q \in Live(w) <=> \E h \in PageSet : q \in ToSet(w.pages[h].panes) BY <1>1, LiveIs
  <2>3. \A q : q \in Live(x) <=> q \in Live(w) BY <2>1, <2>2, <1>12, <1>18
  <2> QED BY <2>3
<1>22. CurrentPanes(x) # <<>>
  <2>1. pages[front].panes # <<>>
    <3>1. CASE front = cur BY <3>1, <1>9
    <3>2. CASE front \in rest
      <4>1. pages[front] = NewPage(<<front>>, front) /\ NewPage(<<front>>, front).panes = <<front>> BY <3>2, <1>9, <1>13
      <4> QED BY <4>1
    <3> QED BY <3>1, <3>2, <1>8
  <2> QED BY <2>1, <1>11, <1>12 DEF CurrentPanes
<1> DEFINE a == Publish(x)
<1>23. Sound(a) /\ Same(x, a) BY <1>20, <1>22, PublishIs DEF Still
<1>24. v = ShowTabs(a) BY DEF x
<1> HIDE DEF a
<1>25. Sound(v) /\ Same(a, v) BY <1>23, <1>24, ShowTabsIs DEF Sound
<1>26. Same(x, v) BY <1>23, <1>25, SameAll
<1>27. Live(v) = Live(x) BY <1>20, <1>26, SameLive
<1>28. \A p \in Live(w) : v.panes[p].server = w.panes[p].server BY <1>1, <1>12, <1>26, LiveIs DEF Same
<1>29. v.opened = w.opened BY <1>12, <1>26 DEF Same
<1> QED BY <1>21, <1>25, <1>27, <1>28, <1>29 DEF Kept

----
(* The other acts. *)

\* No pane comes, goes or moves.
Steady(w, v) == Sound(v) /\ Less(w, v) /\ Live(v) = Live(w)

\* It goes on from step to step, and what keeps the tabs is one.
LEMMA SteadyAll ==
    /\ \A w, v : Sound(w) /\ Sound(v) /\ Same(w, v) => Steady(w, v)
    /\ \A w, u, v : Sound(w) /\ Steady(w, u) /\ Steady(u, v) => Steady(w, v)
<1>1. \A w, v : Sound(w) /\ Sound(v) /\ Same(w, v) => Steady(w, v)
  <2> TAKE w, v
  <2> HAVE Sound(w) /\ Sound(v) /\ Same(w, v)
  <2>1. Less(w, v) BY LessAll DEF Sound
  <2>2. Live(v) = Live(w) BY SameLive DEF Sound
  <2> QED BY <2>1, <2>2 DEF Steady
<1>2. \A w, u, v : Sound(w) /\ Steady(w, u) /\ Steady(u, v) => Steady(w, v)
  <2> TAKE w, u, v
  <2> HAVE Sound(w) /\ Steady(w, u) /\ Steady(u, v)
  <2>1. Less(w, v) BY LessAll DEF Steady, Sound
  <2> QED BY <2>1 DEF Steady
<1> QED BY <1>1, <1>2

\* The settings come to the front, in a tab of their own.
LEMMA SettingsIs ==
    ASSUME NEW w, Sound(w), NEW u, u = IF Settings \in ToSet(w.tabs) THEN w ELSE [w EXCEPT !.tabs = Append(@, Settings)],
           NEW v, v = ShowTabs(GoTo(u, Settings))
    PROVE  Steady(w, v)
<1>1. /\ Layout(w) /\ Rail(w) /\ w \in WsType /\ w.pages \in [PageSet -> PageType]
      /\ w.tabs \in Seq(PageIds \cup {Settings}) /\ Apart(w.tabs) /\ Settings \in PageSet
  BY Laid, Parts, Numbers DEF Sound
<1>2. CASE Settings \in ToSet(w.tabs)
  <2> DEFINE a == GoTo(w, Settings)
  <2>1. v = ShowTabs(a) BY <1>2
  <2>2. Sound(a) /\ Same(w, a) BY <1>1, <1>2, GoToIs
  <2> HIDE DEF a
  <2>3. Sound(v) /\ Same(a, v) BY <2>1, <2>2, ShowTabsIs DEF Sound
  <2>4. Same(w, v) BY <2>2, <2>3, SameAll
  <2> QED BY <2>3, <2>4, SteadyAll
<1>3. CASE Settings \notin ToSet(w.tabs)
  <2> DEFINE tabs == Append(w.tabs, Settings)
             x == [u EXCEPT !.cur = Settings]
             h == ShowHome(x, FALSE)
             a == Publish(h)
  <2>1. u = [w EXCEPT !.tabs = tabs] BY <1>3
  <2>2. tabs \in Seq(PageIds \cup {Settings}) /\ ToSet(tabs) = ToSet(w.tabs) \cup {Settings} /\ Apart(tabs) /\ tabs # <<>>
    <3> DEFINE V == PageIds \cup {Settings}
    <3>1. w.tabs \in Seq(V) /\ Settings \in V BY <1>1
    <3> HIDE DEF V
    <3> QED BY <3>1, <1>1, <1>3, SetOfAppend DEF V
  <2> HIDE DEF tabs
  <2>3. /\ x \in WsType /\ x.tabs = tabs /\ x.cur = Settings /\ x.home = w.home /\ x.pages = w.pages /\ x.panes = w.panes
        /\ x.opened = w.opened /\ x.selected = w.selected /\ x.monitor = w.monitor /\ x.session = w.session
        /\ x.shown = w.shown /\ x.badge = w.badge /\ x.label = w.label BY <1>1, <2>1, <2>2 DEF WsType
  <2> HIDE DEF x
  <2>4. ASSUME NEW g \in ToSet(w.tabs) \ {Settings} PROVE PageSound(x, g)
    <3>1. g \in PageSet BY <1>1, Laid, Numbers
    <3>2. PageSound(w, g) /\ w.pages[g] \in PageType BY <3>1, <1>1 DEF Layout
    <3>3. \A p \in ToSet(w.pages[g].panes) : p # Settings BY <3>2, PartsOf, Numbers
    <3> QED BY <3>2, <3>3, <2>2, <2>3 DEF PageSound
  <2>5. Layout(x)
    <3>1. \A g \in PageSet : IF g \in ToSet(x.tabs) \ {Settings} THEN PageSound(x, g) ELSE x.pages[g] = EmptyPage
      <4> TAKE g \in PageSet
      <4>1. CASE g \in ToSet(w.tabs) \ {Settings} BY <4>1, <2>2, <2>3, <2>4
      <4>2. CASE g \notin ToSet(w.tabs) \ {Settings} BY <4>2, <1>1, <2>2, <2>3 DEF Layout
      <4> QED BY <4>1, <4>2
    <3>2. x.selected \subseteq ToSet(x.tabs) BY <1>1, <2>2, <2>3 DEF Layout
    <3> QED BY <3>1, <3>2, <1>1, <2>2, <2>3 DEF Layout
  <2>6. Live(x) = Live(w)
    <3>1. \A q : q \in Live(x) <=> \E g \in PageSet : q \in ToSet(x.pages[g].panes) BY <2>5, LiveIs
    <3>2. \A q : q \in Live(w) <=> \E g \in PageSet : q \in ToSet(w.pages[g].panes) BY <1>1, LiveIs
    <3>3. \A q : q \in Live(x) <=> q \in Live(w) BY <3>1, <3>2, <2>3
    <3> QED BY <3>3
  <2>7. Rail(x)
    <3>1. Bound(x) BY <1>1, <2>2, <2>3, <2>6 DEF Rail, Bound
    <3>2. Badged(x) BY <1>1, <2>3 DEF Rail, Badged, Up
    <3>3. InFront(x) BY <1>1, <2>3, Laid, Numbers DEF CurrentPanes, ToSet, InFront
    <3>4. Timed(x) BY <1>1, <2>3 DEF Rail, Timed, Endpoint
    <3> QED BY <3>1, <3>2, <3>3, <3>4 DEF Rail
  <2>8. Less(w, x) BY <2>3 DEF Less
  <2>9. Steady(w, x) BY <2>5, <2>6, <2>7, <2>8 DEF Steady, Sound
  <2>10. FALSE \in BOOLEAN OBVIOUS
  <2>11. \A home \in BOOLEAN : Layout(ShowHome(x, home)) /\ Same(x, ShowHome(x, home)) /\ Rail(ShowHome(x, home))
    BY <2>5, <2>7, ShowHomeIs
  <2>12. Sound(h) /\ Same(x, h) BY <2>10, <2>11 DEF Sound
  <2>13. v = ShowTabs(a) BY DEF GoTo, x
  <2> HIDE DEF h
  <2>14. Sound(a) /\ Same(h, a) BY <2>12, PublishIs DEF Sound, Still
  <2> HIDE DEF a
  <2>15. Sound(v) /\ Same(a, v) BY <2>13, <2>14, ShowTabsIs DEF Sound
  <2>16. Same(x, v) BY <2>12, <2>14, <2>15, SameAll
  <2>17. Steady(x, v) BY <2>9, <2>15, <2>16, SteadyAll DEF Steady
  <2> QED BY <2>9, <2>17, SteadyAll
<1> QED BY <1>2, <1>3

\* A report of a probe, and the label.
LEMMA ProbedIs ==
    ASSUME NEW w, Sound(w), NEW g \in PageSet, w.pages[g].probe # NoProbe, NEW q \in ProbeType, ProbeSound(q),
           q.on = w.pages[g].probe.on, q.target = w.pages[g].probe.target,
           NEW v, v = Tell([w EXCEPT !.pages[g].probe = q], g)
    PROVE  Steady(w, v)
<1> DEFINE pages == [w.pages EXCEPT ![g].probe = q]
           x == [w EXCEPT !.pages[g].probe = q]
           label == IF q.on /\ g = w.monitor THEN q.text ELSE w.label
<1>1. Layout(w) /\ Rail(w) /\ w \in WsType /\ w.pages \in [PageSet -> PageType] /\ w.label \in Ends
  BY Laid, Parts DEF Sound
<1>2. /\ pages \in [PageSet -> PageType] /\ pages[g].probe = q /\ \A h \in PageSet : h # g => pages[h] = w.pages[h]
      /\ \A h \in PageSet : /\ pages[h].panes = w.pages[h].panes /\ pages[h].active = w.pages[h].active
                            /\ pages[h].pin = w.pages[h].pin BY <1>1 DEF PageType
<1>3. x = [w EXCEPT !.pages = pages] BY <1>1 DEF WsType
<1>4. w.pages[g] # EmptyPage BY Nothings
<1> HIDE DEF pages, x
<1>5. x \in WsType /\ x.pages = pages /\ x.monitor = w.monitor BY <1>1, <1>2, <1>3 DEF WsType
<1>6. v = [x EXCEPT !.label = label]
  <2>1. CASE q.on /\ g = w.monitor
    <3>1. v = [x EXCEPT !.label = q.text] BY <2>1, <1>2, <1>5 DEF Tell, x
    <3> QED BY <3>1, <2>1
  <2>2. CASE ~(q.on /\ g = w.monitor)
    <3>1. v = x BY <2>2, <1>2, <1>5 DEF Tell, x
    <3>2. label = w.label /\ x.label = w.label BY <2>2, <1>1, <1>3 DEF WsType
    <3> HIDE DEF label
    <3> QED BY <3>1, <3>2, <1>5 DEF WsType
  <2> QED BY <2>1, <2>2
<1>7. label \in Ends BY <1>1, PartsOf
<1> HIDE DEF label
<1>8. /\ v \in WsType /\ v.tabs = w.tabs /\ v.cur = w.cur /\ v.home = w.home /\ v.pages = pages /\ v.panes = w.panes
      /\ v.opened = w.opened /\ v.selected = w.selected /\ v.monitor = w.monitor /\ v.session = w.session
      /\ v.shown = w.shown /\ v.badge = w.badge /\ v.label = label BY <1>1, <1>2, <1>3, <1>6, <1>7 DEF WsType
<1>9. Same(w, v) BY <1>2, <1>8 DEF Same
<1>10. Layout(v)
  <2>1. v.selected \subseteq ToSet(w.tabs) /\ IF w.tabs = <<>> THEN v.cur = NoPage ELSE v.cur \in ToSet(w.tabs)
    BY <1>1, <1>8 DEF Layout
  <2>2. \A h \in PageSet : ProbeSound(v.pages[h].probe) /\ (w.pages[h] = EmptyPage => v.pages[h] = EmptyPage)
    <3> TAKE h \in PageSet
    <3>1. CASE h = g BY <3>1, <1>2, <1>4, <1>8
    <3>2. CASE h # g BY <3>2, <1>1, <1>2, <1>8, Laid
    <3> QED BY <3>1, <3>2
  <2> QED BY <2>1, <2>2, <1>1, <1>8, <1>9, LayoutKeeps
<1>11. Live(v) = Live(w) BY <1>1, <1>9, SameLive
<1>12. Rail(v)
  <2>1. w.monitor \in PageSet /\ w.cur \in PageSet BY <1>1, Parts, Numbers
  <2>2. CurrentPanes(v) = CurrentPanes(w) /\ \A p : Up(v, p) = Up(w, p) /\ Endpoint(v, p) = Endpoint(w, p)
    BY <2>1, <1>2, <1>8 DEF CurrentPanes, Up, Endpoint
  <2>3. Bound(v) BY <2>1, <1>1, <1>2, <1>8, <1>11 DEF Rail, Bound
  <2>4. InFront(v) BY <2>1, <1>2, <1>8, <2>2, <1>1 DEF Rail, InFront
  <2>5. Badged(v) BY <2>2, <1>1, <1>8 DEF Rail, Badged
  <2>6. Timed(v)
    <3>1. \A h \in PageSet : v.pages[h].probe.on = w.pages[h].probe.on /\ v.pages[h].probe.target = w.pages[h].probe.target
      <4> TAKE h \in PageSet
      <4>1. CASE h = g BY <4>1, <1>2, <1>8
      <4>2. CASE h # g BY <4>2, <1>2, <1>8
      <4> QED BY <4>1, <4>2
    <3>2. ASSUME w.session # NoPane PROVE label \in {Blank, Waiting, Endpoint(w, w.session)}
      <4>1. CASE q.on /\ g = w.monitor BY <4>1, <3>2, <1>1 DEF label, ProbeSound, Rail, Timed
      <4>2. CASE ~(q.on /\ g = w.monitor) BY <4>2, <3>2, <1>1 DEF label, Rail, Timed
      <4> QED BY <4>1, <4>2
    <3> QED BY <3>1, <3>2, <2>2, <1>1, <1>8 DEF Rail, Timed
  <2> QED BY <2>3, <2>4, <2>5, <2>6 DEF Rail
<1> QED BY <1>9, <1>10, <1>12, SteadyAll DEF Sound

\* The panes of a host learn of a new configuration.
LEMMA EditedIs ==
    ASSUME NEW w, Sound(w), NEW P, NEW n \in Nat,
           NEW v, v = [w EXCEPT !.panes = [p \in PaneIds |-> IF p \in P THEN [w.panes[p] EXCEPT !.next = n] ELSE w.panes[p]]]
    PROVE  Steady(w, v)
<1> DEFINE panes == [p \in PaneIds |-> IF p \in P THEN [w.panes[p] EXCEPT !.next = n] ELSE w.panes[p]]
<1>1. Layout(w) /\ Rail(w) /\ w \in WsType /\ w.panes \in [PaneIds -> PaneType] BY Laid, Parts DEF Sound
<1>2. ASSUME NEW p \in PaneIds
      PROVE  /\ panes[p] \in PaneType /\ panes[p].server = w.panes[p].server /\ panes[p].version = w.panes[p].version
             /\ panes[p].state = w.panes[p].state /\ panes[p].known = w.panes[p].known
  <2>1. w.panes[p] \in PaneType BY <1>1
  <2>2. CASE p \in P
    <3>1. panes[p] = [w.panes[p] EXCEPT !.next = n] BY <2>2
    <3> HIDE DEF panes
    <3> QED BY <3>1, <2>1 DEF PaneType
  <2>3. CASE p \notin P
    <3>1. panes[p] = w.panes[p] BY <2>3
    <3> HIDE DEF panes
    <3> QED BY <3>1, <2>1
  <2> QED BY <2>2, <2>3
<1>3. panes \in [PaneIds -> PaneType] BY <1>2
<1>4. v = [w EXCEPT !.panes = panes] OBVIOUS
<1> HIDE DEF panes
<1>5. /\ v \in WsType /\ v.tabs = w.tabs /\ v.cur = w.cur /\ v.home = w.home /\ v.pages = w.pages /\ v.panes = panes
      /\ v.opened = w.opened /\ v.selected = w.selected /\ v.monitor = w.monitor /\ v.session = w.session
      /\ v.shown = w.shown /\ v.badge = w.badge /\ v.label = w.label BY <1>1, <1>3, <1>4 DEF WsType
<1>6. Same(w, v) BY <1>2, <1>5 DEF Same
<1>7. Layout(v)
  <2>1. v.selected \subseteq ToSet(w.tabs) /\ IF w.tabs = <<>> THEN v.cur = NoPage ELSE v.cur \in ToSet(w.tabs)
    BY <1>1, <1>5 DEF Layout
  <2>2. \A h \in PageSet : ProbeSound(v.pages[h].probe) /\ (w.pages[h] = EmptyPage => v.pages[h] = EmptyPage)
    BY <1>1, <1>5, Laid
  <2> QED BY <2>1, <2>2, <1>1, <1>5, <1>6, LayoutKeeps
<1>8. Live(v) = Live(w) BY <1>1, <1>6, SameLive
<1>9. Rail(v)
  <2>1. CurrentPanes(v) = CurrentPanes(w) BY <1>5 DEF CurrentPanes
  <2>2. \A p \in PaneIds : Up(v, p) = Up(w, p) /\ Endpoint(v, p) = Endpoint(w, p) BY <1>2, <1>5 DEF Up, Endpoint
  <2>3. w.session \in PaneIds \cup {NoPane} /\ w.monitor \in PageIds \cup {NoPage} BY <1>1, Parts
  <2>4. \A p \in ToSet(CurrentPanes(w)) : p \in PaneIds BY <1>1, LiveIs
  <2>5. Bound(v) BY <2>3, <1>2, <1>5, <1>1, <1>8 DEF Rail, Bound
  <2>6. InFront(v)
    <3>1. ASSUME NEW p \in ToSet(CurrentPanes(w)), Up(v, p), v.shown # Rdp
          PROVE  /\ v.monitor = v.cur /\ v.session = v.pages[v.cur].pin /\ v.session \in ToSet(CurrentPanes(v))
                 /\ \/ Up(v, v.session)
                    \/ ~ \E q \in ToSet(CurrentPanes(v)) : Up(v, q) /\ Endpoint(v, q) = Endpoint(v, v.session)
      BY <3>1, <2>2, <2>4, <1>1, <1>5, <2>1 DEF Rail, InFront
    <3> QED BY <3>1, <2>1 DEF InFront
  <2>7. Badged(v) BY <2>2, <2>3, <1>2, <1>5, <1>1 DEF Rail, Badged
  <2>8. Timed(v) BY <2>2, <2>3, <1>1, <1>5 DEF Rail, Timed
  <2> QED BY <2>5, <2>6, <2>7, <2>8 DEF Rail
<1> QED BY <1>6, <1>7, <1>9, SteadyAll DEF Sound

\* The menu of a tab brings it to the front.
LEMMA MenuIs ==
    ASSUME Sound(ws), NEW g \in MenuTabs, NEW v, v = Menu(g)
    PROVE  /\ Sound(v) /\ Same(ws, v) /\ v.cur = g /\ v.panes = ws.panes /\ g \in ToSet(ws.tabs) \ {Settings}
           /\ g \in PageSet /\ v.pages[g].active \in ToSet(CurrentPanes(v)) /\ v.pages[g].active \in Live(ws)
           /\ v.pages[g].active \in PaneIds
<1>1. Layout(ws) /\ g \in ToSet(ws.tabs) /\ ws.pages[g].panes # <<>> BY DEF Sound, MenuTabs
<1>2. g \in PageSet /\ g # Settings /\ PageSound(ws, g) /\ g # NoPage BY <1>1, Laid, Numbers
<1>3. Sound(v) /\ Same(ws, v) /\ v.cur = g /\ v.panes = ws.panes
  <2>1. CASE g \in ws.selected BY <2>1, <1>1, <1>2, GoToIs DEF Menu
  <2>2. CASE g \notin ws.selected BY <2>2, <1>1, SelectIs DEF Menu
  <2> QED BY <2>1, <2>2
<1>4. v.pages[g].active = ws.pages[g].active /\ v.pages[g].panes = ws.pages[g].panes BY <1>2, <1>3 DEF Same
<1>5. CurrentPanes(v) = ws.pages[g].panes BY <1>2, <1>3, <1>4 DEF CurrentPanes
<1>6. ws.pages[g].active \in ToSet(ws.pages[g].panes) BY <1>2 DEF PageSound
<1>7. ws.pages[g].active \in Live(ws) BY <1>1, <1>2, <1>6, LiveIs
<1> QED BY <1>1, <1>2, <1>3, <1>4, <1>5, <1>6, <1>7, LiveIs

\* A pane of the tab in front takes the configuration of its next connection and connects.
LEMMA RenewedIs ==
    ASSUME NEW w, Sound(w), NEW p \in ToSet(CurrentPanes(w)), w.panes[p].state = "off",
           NEW v, v = Publish(Connect([w EXCEPT !.panes[p].version = NextVersion(w, p), !.panes[p].next = 0], p))
    PROVE  Steady(w, v)
<1> DEFINE n == NextVersion(w, p)
           r == [w.panes[p] EXCEPT !.version = n, !.next = 0]
           panes == [w.panes EXCEPT ![p] = r]
           x == [w EXCEPT !.panes[p].version = n, !.panes[p].next = 0]
           c == Connect(x, p)
<1>1. /\ Layout(w) /\ w \in WsType /\ w.panes \in [PaneIds -> PaneType] /\ p \in PaneIds BY Laid, Parts, LiveIs DEF Sound
<1>2. n \in Nat BY <1>1, NextIs
<1> HIDE DEF n
<1>3. /\ r \in PaneType /\ r.server = w.panes[p].server /\ r.state = "off" BY <1>1, <1>2 DEF PaneType
<1>4. /\ panes \in [PaneIds -> PaneType] /\ panes[p] = r /\ \A q \in PaneIds : panes[q].server = w.panes[q].server
  BY <1>1, <1>3
<1>5. x = [w EXCEPT !.panes = panes] BY <1>1 DEF WsType
<1> HIDE DEF panes, r, x
<1>6. /\ x \in WsType /\ x.tabs = w.tabs /\ x.cur = w.cur /\ x.pages = w.pages /\ x.panes = panes
      /\ x.opened = w.opened /\ x.selected = w.selected BY <1>1, <1>4, <1>5 DEF WsType
<1>7. Same(w, x) BY <1>4, <1>6 DEF Same
<1>8. Layout(x)
  <2>1. x.selected \subseteq ToSet(w.tabs) /\ IF w.tabs = <<>> THEN x.cur = NoPage ELSE x.cur \in ToSet(w.tabs)
    BY <1>1, <1>6 DEF Layout
  <2>2. \A h \in PageSet : ProbeSound(x.pages[h].probe) /\ (w.pages[h] = EmptyPage => x.pages[h] = EmptyPage)
    BY <1>1, <1>6, Laid
  <2> QED BY <2>1, <2>2, <1>1, <1>6, <1>7, LayoutKeeps
<1>9. p \in ToSet(CurrentPanes(x)) BY <1>6 DEF CurrentPanes
<1>10. x.panes[p].state = "off" BY <1>3, <1>4, <1>6
<1>11. Sound(c) /\ Same(x, c) BY <1>1, <1>8, <1>9, <1>10, ConnectIs
<1>12. v = Publish(c) BY DEF x, n
<1> HIDE DEF c
<1>13. Sound(v) /\ Same(c, v) BY <1>11, <1>12, PublishIs DEF Sound, Still
<1>14. Same(w, v) BY <1>7, <1>11, <1>13, SameAll
<1> QED BY <1>13, <1>14, SteadyAll

\* All panes, tab by tab.
AllPanes(w) == FlattenSeq([i \in DOMAIN w.tabs |-> w.pages[w.tabs[i]].panes])

\* They are the panes that are there.
LEMMA AllPanesAre ==
    ASSUME NEW w, Layout(w)
    PROVE  AllPanes(w) \in Seq(PaneIds) /\ ToSet(AllPanes(w)) \subseteq Live(w)
<1> DEFINE n == Len(w.tabs)
           ss == [i \in DOMAIN w.tabs |-> w.pages[w.tabs[i]].panes]
<1>1. w.tabs \in Seq(PageIds \cup {Settings}) BY Laid
<1>2. n \in Nat /\ DOMAIN w.tabs = 1 .. n /\ \A i \in 1 .. n : w.tabs[i] \in ToSet(w.tabs) BY <1>1, SetOf
<1> HIDE DEF n
<1>3. \A i \in 1 .. n : w.tabs[i] \in PageSet /\ w.pages[w.tabs[i]].panes \in Seq(PaneIds)
  <2> TAKE i \in 1 .. n
  <2>1. w.tabs[i] \in PageSet BY <1>2, Laid, Numbers
  <2> QED BY <2>1, Laid, PartsOf
<1>4. ss \in Seq(Seq(PaneIds)) /\ Len(ss) = n /\ \A i \in 1 .. n : ss[i] = w.pages[w.tabs[i]].panes
  <2>1. \A i \in 1 .. n : ss[i] = w.pages[w.tabs[i]].panes /\ ss[i] \in Seq(PaneIds) BY <1>2, <1>3
  <2>2. ss = [i \in 1 .. n |-> ss[i]] BY <1>2
  <2> HIDE DEF ss
  <2> QED BY <2>1, <2>2, <1>2
<1>5. AllPanes(w) = FlattenSeq(ss) BY DEF AllPanes
<1> HIDE DEF ss
<1>6. AllPanes(w) \in Seq(PaneIds) /\ ToSet(AllPanes(w)) = UNION {ToSet(ss[i]) : i \in 1 .. n} BY <1>4, <1>5, FlattenFacts
<1>7. \A q \in ToSet(AllPanes(w)) : q \in Live(w)
  <2> TAKE q \in ToSet(AllPanes(w))
  <2>0. PICK i \in 1 .. n : q \in ToSet(ss[i]) BY <1>6
  <2>1. q \in ToSet(w.pages[w.tabs[i]].panes) BY <2>0, <1>4
  <2> QED BY <2>1, <1>3, LiveIs
<1> QED BY <1>6, <1>7

\* A pane that is there already comes to the front for its host.
LEMMA ReusedIs ==
    ASSUME NEW w, Sound(w), NEW p \in Live(w), NEW g, g = PageOf(w, p),
           NEW v, v = Connect(Publish(Activate(Select(w, g, {g}), p)), p)
    PROVE  Steady(w, v)
<1> DEFINE a == Select(w, g, {g})  b == Activate(a, p)  c == Publish(b)
<1>1. Layout(w) /\ p \in PaneIds /\ g \in ToSet(w.tabs) \ {Settings} /\ g \in PageSet /\ p \in ToSet(w.pages[g].panes)
  BY Laid, LiveIs, Numbers DEF Sound
<1>2. {g} \subseteq ToSet(w.tabs) BY <1>1
<1>3. Sound(a) /\ Same(w, a) /\ a.cur = g BY <1>1, <1>2, SelectIs
<1>4. v = Connect(c, p) OBVIOUS
<1> HIDE DEF a
<1>5. Steady(w, a) BY <1>3, SteadyAll
<1>6. /\ Sound(b) /\ b.tabs = a.tabs /\ b.opened = a.opened /\ b.panes = a.panes
      /\ \A h \in PageSet : b.pages[h].panes = a.pages[h].panes BY <1>3, ActivateIs DEF Sound
<1> HIDE DEF b
<1>7. Live(b) = Live(a)
  <2>1. Layout(a) /\ Layout(b) BY <1>3, <1>6 DEF Sound
  <2>2. \A q : q \in Live(b) <=> \E h \in PageSet : q \in ToSet(b.pages[h].panes) BY <2>1, LiveIs
  <2>3. \A q : q \in Live(a) <=> \E h \in PageSet : q \in ToSet(a.pages[h].panes) BY <2>1, LiveIs
  <2>4. \A q : q \in Live(b) <=> q \in Live(a) BY <2>2, <2>3, <1>6
  <2> QED BY <2>4
<1>8. Less(a, b) BY <1>6 DEF Less
<1>9. Steady(a, b) BY <1>6, <1>7, <1>8 DEF Steady
<1>10. Sound(c) /\ Same(b, c) BY <1>6, PublishIs DEF Sound, Still
<1> HIDE DEF c
<1>11. Sound(v) /\ Same(c, v) BY <1>1, <1>4, <1>10, ConnectIs DEF Sound
<1>12. Steady(b, v) BY <1>6, <1>10, <1>11, SameAll, SteadyAll
<1>13. Steady(a, v) BY <1>3, <1>9, <1>12, SteadyAll
<1> QED BY <1>5, <1>13, SteadyAll

----
(* What is asked, and what kinds of steps there are. *)

\* What was meant and is still there stays in what is asked when panes are closed.
LEMMA MeantStays ==
    ASSUME NEW w, NEW v, NEW q, Layout(w), Layout(v), Meant(w, q), Less(w, v)
    PROVE  Meant(v, q)
<1>1. q \in QuestionType /\ q.items \in Seq(ItemType) /\ q.panes \subseteq PaneIds BY DEF Meant, QuestionType
<1>2. v.opened = w.opened BY DEF Less
<1>3. \A p \in q.panes : p <= v.opened BY <1>2 DEF Meant
<1>4. ASSUME NEW i \in DOMAIN q.items
      PROVE  OfItem(v, q.items[i]) \subseteq q.panes /\ (q.items[i].page <= v.opened \/ q.items[i].page = Settings)
  BY <1>1, <1>2, LessOf DEF Meant
<1>5. ASSUME NEW p \in q.panes \cap Live(v) PROVE \E i \in DOMAIN q.items : p \in OfItem(v, q.items[i])
  <2>1. p \in Live(w) BY LessAll
  <2>2. PICK i \in DOMAIN q.items : p \in OfItem(w, q.items[i]) BY <2>1 DEF Meant
  <2>3. q.items[i] \in ItemType BY <1>1
  <2>4. q.items[i].page \in PageSet BY <2>3 DEF ItemType
  <2>5. CASE q.items[i].page = NoPage BY <2>2, <2>5 DEF OfItem
  <2>6. CASE q.items[i].page # NoPage
    <3>1. p \in ToSet(w.pages[q.items[i].page].panes) BY <2>2, <2>6 DEF OfItem
    <3>2. PICK h \in PageSet : p \in ToSet(v.pages[h].panes) BY LiveIs
    <3>3. p \in ToSet(w.pages[h].panes) BY <3>2 DEF Less
    <3>4. h = q.items[i].page BY <3>1, <3>3, <2>4, LiveIs
    <3>5. p \in OfItem(v, q.items[i]) BY <3>2, <3>4, <2>6 DEF OfItem
    <3> QED BY <3>5
  <2> QED BY <2>5, <2>6
<1> QED BY <1>1, <1>3, <1>4, <1>5 DEF Meant

\* A terminal that is opened in a tab of its own does not join an open question.
LEMMA MeantGrows ==
    ASSUME NEW w, NEW v, NEW q, NEW s, Layout(w), Layout(v), Meant(w, q), Added(w, s, v)
    PROVE  Meant(v, q)
<1>1. q \in QuestionType /\ q.items \in Seq(ItemType) /\ q.panes \subseteq PaneIds BY DEF Meant, QuestionType
<1>2. v.opened = w.opened + 1 /\ Live(v) = Live(w) \cup {w.opened + 1} BY DEF Added, Grown
<1>3. w.opened \in Nat /\ v.opened \in Nat /\ w.opened + 1 \in PaneIds BY <1>2, Laid, Parts, Numbers
<1>4. \A p \in q.panes : p <= w.opened /\ p \in Nat BY <1>1, Numbers DEF Meant
<1>5. \A p \in q.panes : p <= v.opened BY <1>2, <1>3, <1>4
<1>6. ASSUME NEW i \in DOMAIN q.items
      PROVE  /\ OfItem(v, q.items[i]) = OfItem(w, q.items[i]) /\ OfItem(v, q.items[i]) \subseteq q.panes
             /\ (q.items[i].page <= v.opened \/ q.items[i].page = Settings)
  <2>1. q.items[i] \in ItemType BY <1>1
  <2>2. q.items[i].page \in PageSet /\ q.items[i].page \in Nat BY <2>1, Numbers DEF ItemType
  <2>3. OfItem(w, q.items[i]) \subseteq q.panes /\ (q.items[i].page <= w.opened \/ q.items[i].page = Settings) BY DEF Meant
  <2>4. q.items[i].page # w.opened + 1 BY <2>2, <2>3, <1>3, Numbers
  <2>5. OfItem(v, q.items[i]) = OfItem(w, q.items[i]) BY <2>2, <2>4 DEF OfItem, Added
  <2> QED BY <2>2, <2>3, <2>5, <1>2, <1>3
<1>7. ASSUME NEW p \in q.panes \cap Live(v) PROVE \E i \in DOMAIN q.items : p \in OfItem(v, q.items[i])
  <2>1. p \in Live(w) BY <1>2, <1>3, <1>4
  <2>2. PICK i \in DOMAIN q.items : p \in OfItem(w, q.items[i]) BY <2>1 DEF Meant
  <2> QED BY <2>2, <1>6
<1> QED BY <1>1, <1>5, <1>6, <1>7 DEF Meant

\* Without a question nothing is asked.
LEMMA MeantNothing ==
    ASSUME NEW v
    PROVE  Meant(v, NoQuestion)
BY Numbers DEF NoQuestion, QuestionType, Meant

\* A new question about tabs and panes that are there.
LEMMA MeantAnew ==
    ASSUME NEW w, Layout(w), NEW items \in Seq(ItemType), NEW kept \in PageSet,
           \A i \in DOMAIN items : IF items[i].page = NoPage THEN items[i].pane \in Live(w) ELSE items[i].page \in ToSet(w.tabs),
           NEW q, q = [open |-> TRUE, items |-> items, panes |-> MeantPanes(w, items), kept |-> kept]
    PROVE  Meant(w, q)
<1>1. q.items = items /\ q.panes = MeantPanes(w, items) OBVIOUS
<1>2. q.panes = UNION {OfItem(w, items[i]) : i \in DOMAIN items} BY <1>1 DEF MeantPanes, OfItem
<1>3. \A i \in DOMAIN items : items[i] \in ItemType OBVIOUS
<1>4. ASSUME NEW i \in DOMAIN items
      PROVE  OfItem(w, items[i]) \subseteq Live(w) /\ (items[i].page <= w.opened \/ items[i].page = Settings)
  <2>1. items[i].page \in PageSet BY <1>3 DEF ItemType
  <2>2. CASE items[i].page = NoPage BY <2>2, Laid, Parts, Numbers DEF OfItem
  <2>3. CASE items[i].page # NoPage
    <3>1. items[i].page \in ToSet(w.tabs) BY <2>3
    <3>2. items[i].page = Settings \/ PageSound(w, items[i].page) BY <2>1, <3>1, Laid
    <3>3. items[i].page = Settings \/ items[i].page <= w.opened BY <3>2 DEF PageSound
    <3>4. OfItem(w, items[i]) = ToSet(w.pages[items[i].page].panes) BY <2>3 DEF OfItem
    <3>5. \A p \in OfItem(w, items[i]) : p \in Live(w) BY <2>1, <3>4, LiveIs
    <3> QED BY <3>3, <3>5
  <2> QED BY <2>2, <2>3
<1>5. q.panes \subseteq Live(w) BY <1>2, <1>4
<1>6. Live(w) \subseteq PaneIds /\ \A p \in q.panes : p <= w.opened BY <1>5, LiveIs
<1>7. q \in QuestionType BY <1>1, <1>5, <1>6 DEF QuestionType
<1>8. \A i \in DOMAIN items : OfItem(w, items[i]) \subseteq q.panes BY <1>2
<1>9. \A p \in q.panes : \E i \in DOMAIN items : p \in OfItem(w, items[i]) BY <1>2
<1> QED BY <1>1, <1>4, <1>6, <1>7, <1>8, <1>9 DEF Meant

\* What a step may close: in so many words what ClosesWhatWasAsked says of every step.
Asked ==
    LET gone == Live(ws) \ Live(ws')
        answered == question.open /\ ~question'.open
        ofDeleted == {p \in gone : ws.panes[p].server = deleted'}
    IN  /\ gone \ ofDeleted # {} /\ confirm => answered /\ gone \subseteq question.panes
        /\ answered /\ gone # {} => question.panes \cap Live(ws') = {}

\* No question is asked or answered, the setting stays, and no host is deleted.
Calm ==
    /\ question' = question /\ confirm' = confirm
    /\ saved' \in [Servers -> Nat] /\ \A s \in Servers : saved[s] # 0 => saved'[s] # 0

\* The hosts of the panes that are there are saved.
Hosts(w, known) == \A p \in Live(w) : known[w.panes[p].server] # 0

\* The hosts of fewer panes are.
LEMMA HostsStay ==
    ASSUME NEW w, NEW v, NEW was, NEW new, Layout(w), Layout(v), Less(w, v), Hosts(w, was),
           \A s \in Servers : was[s] # 0 => new[s] # 0
    PROVE  Hosts(v, new)
<1> SUFFICES ASSUME NEW p \in Live(v) PROVE new[v.panes[p].server] # 0 BY DEF Hosts
<1>1. p \in Live(w) /\ v.panes[p].server = w.panes[p].server BY LessAll DEF Less
<1>2. w.panes[p].server \in Servers BY <1>1, LiveIs
<1> QED BY <1>1, <1>2 DEF Hosts

\* A step that closes no pane closes nothing that was not asked.
LEMMA NoneGone ==
    ASSUME Live(ws) \subseteq Live(ws')
    PROVE  Asked
BY DEF Asked

\* A step that leaves the panes where they are.
LEMMA Quiet ==
    ASSUME IInv, Calm, Steady(ws, ws')
    PROVE  IInv' /\ Asked
<1>1. Layout(ws) /\ Layout(ws') /\ Rail(ws') /\ Less(ws, ws') BY DEF IInv, Steady, Sound
<1>2. Meant(ws', question') BY <1>1, MeantStays DEF IInv, Calm
<1>3. Hosts(ws', saved') BY <1>1, HostsStay DEF IInv, Hosts, Calm
<1>4. Asked BY NoneGone DEF Steady
<1> QED BY <1>1, <1>2, <1>3, <1>4 DEF IInv, Calm, Hosts

\* A step that opens a terminal: in a tab of its own, or while no question is open.
LEMMA Opening ==
    ASSUME IInv, Calm, Sound(ws'), NEW s \in Servers, saved'[s] # 0,
           Added(ws, s, ws') \/ (~question.open /\ Grown(ws, s, ws'))
    PROVE  IInv' /\ Asked
<1>1. Layout(ws) /\ Layout(ws') /\ Rail(ws') BY DEF IInv, Sound
<1>2. Grown(ws, s, ws') BY DEF Added
<1>3. Meant(ws', question') BY <1>1, MeantGrows, MeantNothing DEF IInv, Calm
<1>4. Hosts(ws', saved')
  <2> SUFFICES ASSUME NEW p \in Live(ws') PROVE saved'[ws'.panes[p].server] # 0 BY DEF Hosts
  <2>1. p \in PaneIds BY <1>1, LiveIs
  <2>2. CASE p = ws.opened + 1 BY <1>2, <2>1, <2>2 DEF Grown
  <2>3. CASE p # ws.opened + 1 BY <1>2, <2>1, <2>3, <1>1, LiveIs DEF Grown, IInv, Calm
  <2> QED BY <2>2, <2>3
<1>5. Asked BY <1>2, NoneGone DEF Grown
<1> QED BY <1>1, <1>3, <1>4, <1>5 DEF IInv, Calm, Hosts

\* A step that moves panes while no question is open.
LEMMA Moving ==
    ASSUME IInv, Calm, ~question.open, Kept(ws, ws')
    PROVE  IInv' /\ Asked
<1>1. Layout(ws) /\ Layout(ws') /\ Rail(ws') BY DEF IInv, Sound, Kept
<1>2. Meant(ws', question') BY MeantNothing DEF IInv, Calm
<1>3. Hosts(ws', saved')
  <2> SUFFICES ASSUME NEW p \in Live(ws') PROVE saved'[ws'.panes[p].server] # 0 BY DEF Hosts
  <2>1. p \in Live(ws) /\ ws'.panes[p].server = ws.panes[p].server BY DEF Kept
  <2>2. ws.panes[p].server \in Servers BY <2>1, <1>1, LiveIs
  <2> QED BY <2>1, <2>2 DEF IInv, Calm
<1>4. Asked BY NoneGone DEF Kept
<1> QED BY <1>1, <1>2, <1>3, <1>4 DEF IInv, Calm, Hosts

\* A step that closes panes although no question is asked: the setting is off.
LEMMA Closing ==
    ASSUME IInv, Calm, ~confirm, Sound(ws'), Less(ws, ws')
    PROVE  IInv' /\ Asked
<1>1. Layout(ws) /\ Layout(ws') /\ Rail(ws') BY DEF IInv, Sound
<1>2. ~question.open /\ question = NoQuestion BY DEF IInv
<1>3. Meant(ws', question') BY <1>2, MeantNothing DEF Calm
<1>4. Hosts(ws', saved') BY <1>1, HostsStay DEF IInv, Hosts, Calm
<1>5. Asked BY <1>2 DEF Asked
<1> QED BY <1>1, <1>2, <1>3, <1>4, <1>5 DEF IInv, Calm, Hosts

----
(* Each act keeps the invariant and closes nothing that was not asked. *)

\* What the user does and what is reported, without a question.
LEMMA DoIs ==
    ASSUME IInv, NEW w, Do(w) \/ Hear(w)
    PROVE  ws' = w /\ Calm
BY DEF IInv, Do, Hear, Calm

\* Most of it leaves the panes where they are.
LEMMA Doing ==
    ASSUME IInv, NEW w, Do(w) \/ Hear(w), Steady(ws, w)
    PROVE  IInv' /\ Asked
BY DoIs, Quiet

\* A workspace with an invariant is sound.
LEMMA IsSound ==
    ASSUME IInv
    PROVE  Sound(ws) /\ Layout(ws) /\ ws \in WsType
BY Laid DEF IInv, Sound

\* A remote desktop is opened: the rail shows no session.
LEMMA ActOpenRdp ==
    ASSUME IInv, OpenRdp
    PROVE  IInv' /\ Asked
<1> DEFINE u == [ws EXCEPT !.monitor = NoPage, !.session = NoPane, !.shown = Rdp]
           v == [ws EXCEPT !.monitor = NoPage, !.session = NoPane, !.shown = Rdp, !.badge = "rdp"]
<1>1. ws' = Badge(u) /\ Calm BY DEF OpenRdp, Launching, IInv, Calm
<1>2. Badge(u) = v BY IsSound DEF Badge, WsType
<1>3. Sound(v) /\ Same(ws, v) BY IsSound, RdpIs
<1> HIDE DEF u, v
<1>4. Steady(ws, v) BY <1>3, IsSound, SteadyAll
<1>5. ws' = v BY <1>1, <1>2
<1> QED BY <1>1, <1>4, <1>5, Quiet

\* A launch goes on, and may write the badge over that of the terminal the rail shows by then.
LEMMA ActLaunch ==
    ASSUME IInv, RdpRead \/ RdpDismissed
    PROVE  IInv' /\ Asked
<1>1. ws' \in {ws, Badge(ws)} /\ Calm BY DEF RdpRead, RdpDismissed, Launching, IInv, Calm
<1> DEFINE v == Badge(ws)
<1>2. Sound(v) /\ Same(ws, v)
  <2>1. "rdp" \in Badges /\ v = [ws EXCEPT !.badge = "rdp"] BY DEF Badges, Badge
  <2>2. v.badge = "rdp" BY <2>1, IsSound DEF WsType
  <2>3. Badged(v) BY <2>2 DEF Badged
  <2> HIDE DEF v
  <2>4. Presented(ws, ws.shown, v) BY <2>1, <2>3 DEF Presented
  <2>5. Layout(v) /\ Still(ws, v) /\ Rail(v) BY <2>4, IsSound, PresentedIs DEF Sound, Rail
  <2> QED BY <2>5 DEF Sound, Still
<1>3. Same(ws, ws) BY SameAll
<1>4. Sound(ws') /\ Same(ws, ws')
  <2>1. CASE ws' = ws BY <2>1, <1>3, IsSound
  <2>2. CASE ws' = v BY <2>2, <1>2
  <2> QED BY <2>1, <2>2, <1>1
<1>5. Steady(ws, ws') BY <1>4, IsSound, SteadyAll
<1> QED BY <1>1, <1>5, Quiet

\* Tabs are selected, by a click alone, with Ctrl or with Shift.
LEMMA ActSelectTab ==
    ASSUME IInv, SelectTab
    PROVE  IInv' /\ Asked
<1>1. PICK g \in ToSet(ws.tabs) :
        \/ Do(Select(ws, g, {g}))
        \/ Do(Select(ws, g, IF g \in ws.selected THEN ws.selected \ {g} ELSE ws.selected \cup {g}))
        \/ \E i, j \in DOMAIN ws.tabs : Do(Select(ws, g, {ws.tabs[k] : k \in i .. j})) BY DEF SelectTab
<1>2. Sound(ws) /\ ws.selected \subseteq ToSet(ws.tabs) BY IsSound, Laid
<1>3. ASSUME NEW chosen, chosen \subseteq ToSet(ws.tabs), Do(Select(ws, g, chosen)) PROVE IInv' /\ Asked
  <2> DEFINE v == Select(ws, g, chosen)
  <2>1. Sound(v) /\ Same(ws, v) BY <1>2, <1>3, SelectIs
  <2>2. Do(v) BY <1>3
  <2> HIDE DEF v
  <2>3. Steady(ws, v) BY <1>2, <2>1, SteadyAll
  <2> QED BY <2>2, <2>3, Doing
<1>4. CASE Do(Select(ws, g, {g})) BY <1>3, <1>4
<1>5. CASE Do(Select(ws, g, IF g \in ws.selected THEN ws.selected \ {g} ELSE ws.selected \cup {g}))
  <2> DEFINE chosen == IF g \in ws.selected THEN ws.selected \ {g} ELSE ws.selected \cup {g}
  <2>1. chosen \subseteq ToSet(ws.tabs) /\ Do(Select(ws, g, chosen)) BY <1>2, <1>5
  <2> HIDE DEF chosen
  <2> QED BY <2>1, <1>3
<1>6. CASE \E i, j \in DOMAIN ws.tabs : Do(Select(ws, g, {ws.tabs[k] : k \in i .. j}))
  <2>1. PICK i, j \in DOMAIN ws.tabs : Do(Select(ws, g, {ws.tabs[k] : k \in i .. j})) BY <1>6
  <2> DEFINE chosen == {ws.tabs[k] : k \in i .. j}
  <2>2. ws.tabs \in Seq(PageIds \cup {Settings}) BY IsSound, Laid
  <2>3. Len(ws.tabs) \in Nat /\ DOMAIN ws.tabs = 1 .. Len(ws.tabs) /\ \A k \in 1 .. Len(ws.tabs) : ws.tabs[k] \in ToSet(ws.tabs)
    BY <2>2, SetOf
  <2>4. \A k \in i .. j : k \in 1 .. Len(ws.tabs) BY <2>3
  <2>5. chosen \subseteq ToSet(ws.tabs) BY <2>3, <2>4
  <2>6. Do(Select(ws, g, chosen)) BY <2>1
  <2> HIDE DEF chosen
  <2> QED BY <2>5, <2>6, <1>3
<1> QED BY <1>1, <1>4, <1>5, <1>6

\* The list of hosts is shown.
LEMMA ActShowServerManager ==
    ASSUME IInv, ShowServerManager
    PROVE  IInv' /\ Asked
<1> DEFINE v == ShowHome(ws, TRUE)
<1>1. Do(v) BY DEF ShowServerManager
<1>2. Layout(v) /\ Same(ws, v) /\ (Rail(ws) => Rail(v)) BY IsSound, ShowHomeIs
<1> HIDE DEF v
<1>3. Sound(v) BY <1>2 DEF Sound, IInv
<1>4. Steady(ws, v) BY <1>2, <1>3, IsSound, SteadyAll
<1> QED BY <1>1, <1>4, Doing

\* The settings are shown, in a tab of their own.
LEMMA ActShowSettings ==
    ASSUME IInv, ShowSettings
    PROVE  IInv' /\ Asked
<1> DEFINE u == IF Settings \in ToSet(ws.tabs) THEN ws ELSE [ws EXCEPT !.tabs = Append(@, Settings)]
           v == ShowTabs(GoTo(u, Settings))
<1>1. Do(v) BY DEF ShowSettings
<1>2. Steady(ws, v) BY IsSound, SettingsIs
<1> HIDE DEF v
<1> QED BY <1>1, <1>2, Doing

\* Another active pane leaves all panes where they are.
LEMMA FocusedIs ==
    ASSUME NEW w, Sound(w), NEW p, NEW v, v = Activate(w, p)
    PROVE  Steady(w, v)
<1>1. /\ Sound(v) /\ v.tabs = w.tabs /\ v.opened = w.opened /\ v.panes = w.panes
      /\ \A g \in PageSet : v.pages[g].panes = w.pages[g].panes BY ActivateIs DEF Sound
<1>2. Live(v) = Live(w)
  <2>1. Layout(w) /\ Layout(v) BY <1>1 DEF Sound
  <2>2. \A q : q \in Live(v) <=> \E h \in PageSet : q \in ToSet(v.pages[h].panes) BY <2>1, LiveIs
  <2>3. \A q : q \in Live(w) <=> \E h \in PageSet : q \in ToSet(w.pages[h].panes) BY <2>1, LiveIs
  <2>4. \A q : q \in Live(v) <=> q \in Live(w) BY <2>2, <2>3, <1>1
  <2> QED BY <2>4
<1>3. Less(w, v) BY <1>1 DEF Less
<1> QED BY <1>1, <1>2, <1>3 DEF Steady

\* Another pane of the tab in front gets the focus.
LEMMA ActFocusPane ==
    ASSUME IInv, FocusPane
    PROVE  IInv' /\ Asked
<1>1. PICK p \in ToSet(CurrentPanes(ws)) : Do(Activate(ws, p)) BY DEF FocusPane
<1>2. Steady(ws, Activate(ws, p)) BY IsSound, FocusedIs
<1> QED BY <1>1, <1>2, Doing

\* The active pane of a tab is connected again, as its host is saved now.
LEMMA ActConnectTab ==
    ASSUME IInv, ConnectTab
    PROVE  IInv' /\ Asked
<1>1. PICK g \in MenuTabs :
        LET w == Menu(g)
            p == w.pages[g].active
            renewed == [w EXCEPT !.panes[p].version = NextVersion(w, p), !.panes[p].next = 0]
        IN  w.panes[p].state = "off" /\ Do(Publish(Connect(renewed, p))) BY DEF ConnectTab
<1> DEFINE w == Menu(g)  p == w.pages[g].active
           v == Publish(Connect([w EXCEPT !.panes[p].version = NextVersion(w, p), !.panes[p].next = 0], p))
<1>2. w.panes[p].state = "off" /\ Do(v) BY <1>1
<1>3. Sound(w) /\ Same(ws, w) /\ p \in ToSet(CurrentPanes(w)) BY IsSound, MenuIs
<1> HIDE DEF w
<1> HIDE DEF p
<1>4. Steady(w, v) BY <1>2, <1>3, RenewedIs
<1> HIDE DEF v
<1>5. Steady(ws, v) BY <1>3, <1>4, IsSound, SteadyAll
<1> QED BY <1>2, <1>5, Doing

\* The active pane of a tab is disconnected.
LEMMA ActDisconnectTab ==
    ASSUME IInv, DisconnectTab
    PROVE  IInv' /\ Asked
<1>1. PICK g \in MenuTabs : Do(Disconnect(Menu(g), Menu(g).pages[g].active)) BY DEF DisconnectTab
<1> DEFINE w == Menu(g)  p == w.pages[g].active  v == Disconnect(w, p)
<1>2. Do(v) BY <1>1
<1>3. Sound(w) /\ Same(ws, w) /\ p \in PaneIds BY IsSound, MenuIs
<1> HIDE DEF w
<1> HIDE DEF p
<1>4. Sound(v) /\ Same(w, v) BY <1>3, DisconnectIs
<1> HIDE DEF v
<1>5. Same(ws, v) BY <1>3, <1>4, SameAll
<1>6. Steady(ws, v) BY <1>4, <1>5, IsSound, SteadyAll
<1> QED BY <1>2, <1>6, Doing

\* Reports of connections.
LEMMA ActSession ==
    ASSUME IInv, SessionUp \/ SessionLost
    PROVE  IInv' /\ Asked
<1>1. PICK p \in Live(ws) : \E state \in States : Hear(Changed(ws, p, state))
  BY DEF SessionUp, SessionLost, States
<1>2. PICK state \in States : Hear(Changed(ws, p, state)) BY <1>1
<1> DEFINE v == Changed(ws, p, state)
<1>3. Layout(ws) /\ Rail(ws) /\ p \in PaneIds BY IsSound, LiveIs DEF Sound
<1>4. Reported(ws, p, state, v) BY <1>3, ChangedIs
<1>5. Hear(v) BY <1>2
<1> HIDE DEF v
<1>6. Sound(v) /\ Same(ws, v) BY <1>4 DEF Reported
<1>7. Steady(ws, v) BY <1>6, IsSound, SteadyAll
<1> QED BY <1>5, <1>7, Doing

\* Values of a probe that was told something.
LEMMA ProbeTold ==
    ASSUME NEW q \in ProbeType, ProbeSound(q)
    PROVE  /\ q.on => StartProbe(q) \in ProbeType /\ ProbeSound(StartProbe(q)) /\ q # NoProbe
           /\ \A reading \in {q.socket, Waiting} : q.socket # Blank =>
                  FinishProbe(q, reading) \in ProbeType /\ ProbeSound(FinishProbe(q, reading)) /\ q # NoProbe
           /\ q.late # Blank => LateReport(q) \in ProbeType /\ ProbeSound(LateReport(q)) /\ q # NoProbe
           /\ StartProbe(q).on = q.on /\ StartProbe(q).target = q.target
           /\ LateReport(q).on = q.on /\ LateReport(q).target = q.target
           /\ \A reading : FinishProbe(q, reading).on = q.on /\ FinishProbe(q, reading).target = q.target
<1>1. /\ q.on \in BOOLEAN /\ q.target \in Ends /\ q.socket \in Ends /\ q.late \in Ends /\ q.text \in Ends
      /\ q = [on |-> q.on, target |-> q.target, socket |-> q.socket, late |-> q.late, text |-> q.text]
  BY DEF ProbeType
<1>2. Blank \in Ends /\ Waiting \in Ends BY Nothings
<1>3. NoProbe.on = FALSE /\ NoProbe.socket = Blank /\ NoProbe.late = Blank BY DEF NoProbe
<1>4. q.on => StartProbe(q) \in ProbeType /\ ProbeSound(StartProbe(q)) /\ q # NoProbe
  BY <1>1, <1>2, <1>3 DEF StartProbe, ProbeType, ProbeSound
<1>5. ASSUME NEW reading \in {q.socket, Waiting}, q.socket # Blank
      PROVE  FinishProbe(q, reading) \in ProbeType /\ ProbeSound(FinishProbe(q, reading)) /\ q # NoProbe
  BY <1>1, <1>2, <1>5, <1>3 DEF ProbeSound, FinishProbe, ProbeType
<1>6. q.late # Blank => LateReport(q) \in ProbeType /\ ProbeSound(LateReport(q)) /\ q # NoProbe
  BY <1>1, <1>2, <1>3 DEF LateReport, ProbeType, ProbeSound
<1>7. /\ StartProbe(q).on = q.on /\ StartProbe(q).target = q.target
      /\ LateReport(q).on = q.on /\ LateReport(q).target = q.target
      /\ \A reading : FinishProbe(q, reading).on = q.on /\ FinishProbe(q, reading).target = q.target
  BY <1>1 DEF StartProbe, LateReport, FinishProbe
<1> QED BY <1>4, <1>5, <1>6, <1>7

\* The timer and the sockets of a probe.
LEMMA ActProbe ==
    ASSUME IInv, ProbeDue \/ ProbeEnds \/ ProbeLate
    PROVE  IInv' /\ Asked
<1>1. ASSUME NEW g \in ToSet(ws.tabs), NEW q \in ProbeType, ProbeSound(q), ws.pages[g].probe # NoProbe,
             q.on = ws.pages[g].probe.on, q.target = ws.pages[g].probe.target, Probed(g, q)
      PROVE  IInv' /\ Asked
  <2> DEFINE v == Tell([ws EXCEPT !.pages[g].probe = q], g)
  <2>1. Hear(v) BY <1>1 DEF Probed
  <2>2. Sound(ws) /\ g \in PageSet BY IsSound, Laid, Numbers
  <2>3. Steady(ws, v) BY <1>1, <2>2, ProbedIs
  <2> HIDE DEF v
  <2> QED BY <2>1, <2>3, Doing
<1>2. ASSUME NEW g \in ToSet(ws.tabs) PROVE ws.pages[g].probe \in ProbeType /\ ProbeSound(ws.pages[g].probe)
  BY IsSound, Laid, Numbers, PartsOf
<1>3. CASE ProbeDue
  <2>1. PICK g \in ToSet(ws.tabs) : ws.pages[g].probe.on /\ Probed(g, StartProbe(ws.pages[g].probe)) BY <1>3 DEF ProbeDue
  <2> QED BY <2>1, <1>1, <1>2, ProbeTold
<1>4. CASE ProbeEnds
  <2>1. PICK g \in ToSet(ws.tabs) :
          /\ ws.pages[g].probe.socket # Blank
          /\ \E reading \in {ws.pages[g].probe.socket, Waiting} : Probed(g, FinishProbe(ws.pages[g].probe, reading))
    BY <1>4 DEF ProbeEnds
  <2>2. PICK reading \in {ws.pages[g].probe.socket, Waiting} : Probed(g, FinishProbe(ws.pages[g].probe, reading)) BY <2>1
  <2> QED BY <2>1, <2>2, <1>1, <1>2, ProbeTold
<1>5. CASE ProbeLate
  <2>1. PICK g \in ToSet(ws.tabs) : ws.pages[g].probe.late # Blank /\ Probed(g, LateReport(ws.pages[g].probe))
    BY <1>5 DEF ProbeLate
  <2> QED BY <2>1, <1>1, <1>2, ProbeTold
<1> QED BY <1>3, <1>4, <1>5

\* The sidebar, or a recent login.
LEMMA ActOpenServer ==
    ASSUME IInv, NEW s \in Servers, OpenServer(s)
    PROVE  IInv' /\ Asked
<1> DEFINE fitting == Only(AllPanes(ws), {p \in PaneIds : ws.panes[p].server = s /\ ws.panes[p].next = 0})
           p == Head(fitting)
           g == PageOf(ws, p)
           a == Connect(Publish(Activate(Select(ws, g, {g}), p)), p)
           b == AddTab(ws, s, saved[s])
<1>1. saved[s] # 0 /\ IF fitting # <<>> THEN Do(a) ELSE CanOpen /\ Do(b) BY DEF OpenServer, AllPanes
<1>2. CASE fitting # <<>>
  <2>1. AllPanes(ws) \in Seq(PaneIds) /\ ToSet(AllPanes(ws)) \subseteq Live(ws) BY IsSound, AllPanesAre
  <2>2. fitting \in Seq(PaneIds) /\ ToSet(fitting) \subseteq Live(ws) BY <2>1, OnlyFacts
  <2> HIDE DEF fitting
  <2>3. p \in Live(ws) BY <2>2, <1>2, Ends1
  <2> HIDE DEF p
  <2>4. Steady(ws, a) BY <2>3, IsSound, ReusedIs
  <2> HIDE DEF a
  <2> QED BY <1>1, <1>2, <2>4, Doing
<1>3. CASE fitting = <<>>
  <2>1. saved[s] \in Nat /\ ws.opened < MaxPanes /\ Do(b) BY <1>1, <1>3 DEF IInv, CanOpen
  <2> HIDE DEF fitting
  <2>2. Sound(b) /\ Added(ws, s, b) BY <2>1, IsSound, AddTabIs
  <2> HIDE DEF b
  <2>3. ws' = b /\ Calm /\ saved' = saved BY <2>1, DoIs DEF Do
  <2> QED BY <2>2, <2>3, <1>1, Opening
<1> QED BY <1>2, <1>3

\* A tab beside another, of the same host.
LEMMA ActDuplicateTab ==
    ASSUME IInv, DuplicateTab
    PROVE  IInv' /\ Asked
<1>1. PICK g \in MenuTabs :
        LET w == Menu(g)  p == w.pages[g].active
        IN  CanOpen /\ Do(AddTab(w, w.panes[p].server, NextVersion(w, p))) BY DEF DuplicateTab
<1> DEFINE w == Menu(g)  p == w.pages[g].active  s == w.panes[p].server  n == NextVersion(w, p)
           v == AddTab(w, s, n)
<1>2. ws.opened < MaxPanes /\ Do(v) BY <1>1 DEF CanOpen
<1>3. Sound(w) /\ Same(ws, w) /\ w.panes = ws.panes /\ p \in Live(ws) /\ p \in PaneIds BY IsSound, MenuIs
<1> HIDE DEF w
<1> HIDE DEF p
<1>4. s \in Servers /\ saved[s] # 0 BY <1>3, IsSound, LiveIs DEF IInv
<1>5. n \in Nat BY <1>3, NextIs DEF Sound
<1>6. w.opened < MaxPanes BY <1>2, <1>3 DEF Same
<1> HIDE DEF s
<1> HIDE DEF n
<1>7. Sound(v) /\ Added(w, s, v) BY <1>3, <1>4, <1>5, <1>6, AddTabIs
<1> HIDE DEF v
<1>8. Added(ws, s, v) BY <1>3, <1>7, IsSound, SameLive DEF Added, Grown, Same
<1>9. ws' = v /\ Calm /\ saved' = saved BY <1>2, DoIs DEF Do
<1> QED BY <1>4, <1>7, <1>8, <1>9, Opening

\* A pane beside the active one.
LEMMA ActSplitPane ==
    ASSUME IInv, SplitPane
    PROVE  IInv' /\ Asked
<1> DEFINE page == ws.pages[ws.cur]
           p == FreshPane(ws)
           i == CHOOSE k \in DOMAIN page.panes : page.panes[k] = page.active
           v == Connect(Activate(Split(ws, p, i), p), p)
           s == page.active
<1>1. CurrentPanes(ws) # <<>> /\ ~question.open /\ ws.opened < MaxPanes /\ Do(v) BY DEF SplitPane, Split, CanOpen
<1>2. i \in DOMAIN page.panes BY <1>1, IsSound, Parts, Laid DEF CurrentPanes, PageSound, ToSet
<1> HIDE DEF i
<1>3. Sound(v) /\ Grown(ws, ws.panes[page.active].server, v) /\ page.active \in Live(ws) BY <1>1, <1>2, IsSound, SplitIs
<1> HIDE DEF v
<1>4. ws.panes[page.active].server \in Servers /\ saved[ws.panes[page.active].server] # 0
  BY <1>3, IsSound, LiveIs DEF IInv
<1>5. ws' = v /\ Calm /\ saved' = saved BY <1>1, DoIs DEF Do
<1> QED BY <1>1, <1>3, <1>4, <1>5, Opening

\* Tabs are merged.
LEMMA ActMergeTabs ==
    ASSUME IInv, MergeTabs
    PROVE  IInv' /\ Asked
<1> DEFINE v == ShowTabs(Publish(Joined(ws)))
<1>1. ~question.open /\ Len(MergedTabs(ws)) >= 2 /\ Do(v) BY DEF MergeTabs, MayRearrange, MergedTabs, Together, Joined
<1>2. Kept(ws, v) BY <1>1, IsSound, JoinedIs
<1> HIDE DEF v
<1>3. ws' = v /\ Calm BY <1>1, DoIs
<1> QED BY <1>1, <1>2, <1>3, Moving

\* A tab is taken apart.
LEMMA ActUnmergeTab ==
    ASSUME IInv, UnmergeTab
    PROVE  IInv' /\ Asked
<1> DEFINE v == ShowTabs(Publish(Parted(ws)))
<1>1. ~question.open /\ Len(CurrentPanes(ws)) > 1 /\ Do(v) BY DEF UnmergeTab, MayRearrange, Parted
<1>2. Kept(ws, v) BY <1>1, IsSound, PartedIs
<1> HIDE DEF v
<1>3. ws' = v /\ Calm BY <1>1, DoIs
<1> QED BY <1>1, <1>2, <1>3, Moving

\* A host is edited.
LEMMA ActEditServer ==
    ASSUME IInv, NEW s \in Servers, EditServer(s)
    PROVE  IInv' /\ Asked
<1> DEFINE P == {p \in Live(ws) : ws.panes[p].server = s}
           n == saved[s] + 1
           v == [ws EXCEPT !.panes = [p \in PaneIds |-> IF p \in P THEN [ws.panes[p] EXCEPT !.next = n] ELSE ws.panes[p]]]
<1>1. ws' = v BY DEF EditServer
<1>2. n \in Nat BY DEF IInv
<1> HIDE DEF n
<1> HIDE DEF P
<1>3. Steady(ws, v) BY <1>2, IsSound, EditedIs
<1> HIDE DEF v
<1>4. Calm BY DEF EditServer, IInv, Calm
<1> QED BY <1>1, <1>3, <1>4, Quiet

\* closeOtherSessions comes back to the tab it keeps.
LEMMA GoToKeptIs ==
    ASSUME NEW w, Sound(w), NEW kept, NEW v, v = GoToKept(w, kept)
    PROVE  Sound(v) /\ Same(w, v)
<1>1. CASE kept \in ToSet(w.tabs) /\ kept # w.cur BY <1>1, GoToIs DEF GoToKept, Sound
<1>2. CASE ~(kept \in ToSet(w.tabs) /\ kept # w.cur) BY <1>2, SameAll DEF GoToKept
<1> QED BY <1>1, <1>2

\* An item is a tab that is there, or a pane that is.
Present1(w, item) == IF item.page = NoPage THEN item.pane \in Live(w) ELSE item.page \in ToSet(w.tabs)

\* A request: the question appears, or the items are closed at once, or it is ignored.
LEMMA RequestIs ==
    ASSUME IInv, NEW w, Sound(w), Same(ws, w), NEW items \in Seq(ItemType), \A i \in DOMAIN items : Present1(w, items[i]),
           NEW kept \in PageSet, Request(w, items, kept)
    PROVE  IInv' /\ Asked
<1>1. Layout(ws) /\ Layout(w) /\ Sound(ws) /\ confirm' = confirm /\ saved' = saved BY IsSound DEF Request, Sound
<1>2. Steady(ws, w) /\ Less(ws, w) BY <1>1, SteadyAll DEF Steady
<1>3. CASE confirm /\ ~question.open /\ items # <<>>
  <2> DEFINE q == [open |-> TRUE, items |-> items, panes |-> MeantPanes(w, items), kept |-> kept]
  <2>1. ws' = w /\ question' = q BY <1>3 DEF Request
  <2>2. Meant(w, q) BY <1>1, MeantAnew DEF Present1
  <2>3. q.open OBVIOUS
  <2> HIDE DEF q
  <2>4. Hosts(w, saved) BY <1>1, <1>2, HostsStay DEF IInv, Hosts
  <2>5. Asked BY <2>1, <1>2, NoneGone DEF Steady
  <2> QED BY <2>1, <2>2, <2>3, <2>4, <2>5, <1>1, <1>3 DEF IInv, Hosts, Sound
<1>4. CASE ~confirm /\ ~question.open
  <2> DEFINE c == CloseItems(w, items)  v == GoToKept(c, kept)  Q == UNION {OfItem(w, items[i]) : i \in DOMAIN items}
  <2>1. ws' = v /\ question' = question BY <1>4 DEF Request
  <2>2. \A i \in DOMAIN items : OfItem(w, items[i]) \subseteq Q OBVIOUS
  <2> HIDE DEF Q
  <2>3. Sound(c) /\ Less(w, c) BY <2>2, CloseItemsIs
  <2> HIDE DEF c
  <2>4. Sound(v) /\ Same(c, v) BY <2>3, GoToKeptIs
  <2> HIDE DEF v
  <2>5. Layout(c) /\ Layout(v) BY <2>3, <2>4 DEF Sound
  <2>6. Less(c, v) BY <2>4, <2>5, LessAll
  <2>7. Less(ws, c) BY <1>1, <1>2, <2>3, <2>5, LessAll
  <2>8. Less(ws, v) BY <1>1, <2>5, <2>6, <2>7, LessAll
  <2>9. Calm BY <1>1, <2>1 DEF Calm, IInv
  <2> QED BY <2>1, <2>4, <2>8, <2>9, <1>4, Closing
<1>5. CASE ~(confirm /\ ~question.open /\ items # <<>>) /\ ~(~confirm /\ ~question.open)
  <2> DEFINE v == GoToKept(w, kept)
  <2>1. ws' = v /\ question' = question BY <1>5 DEF Request
  <2>2. Sound(v) /\ Same(w, v) BY GoToKeptIs
  <2> HIDE DEF v
  <2>3. Same(ws, v) BY <2>2, SameAll
  <2>4. Steady(ws, v) BY <1>1, <2>2, <2>3, SteadyAll
  <2>5. Calm BY <1>1, <2>1 DEF Calm, IInv
  <2> QED BY <2>1, <2>4, <2>5, Quiet
<1> QED BY <1>3, <1>4, <1>5

\* An item for each of some tabs.
LEMMA TabItemsAre ==
    ASSUME NEW w, Layout(w), NEW s \in Seq(PageIds \cup {Settings}), ToSet(s) \subseteq ToSet(w.tabs),
           NEW items, items = [i \in DOMAIN s |-> TabItem(s[i])]
    PROVE  items \in Seq(ItemType) /\ \A i \in DOMAIN items : Present1(w, items[i])
<1>1. Len(s) \in Nat /\ DOMAIN s = 1 .. Len(s) /\ \A i \in 1 .. Len(s) : s[i] \in ToSet(s) BY SetOf
<1>2. ASSUME NEW i \in 1 .. Len(s) PROVE items[i] \in ItemType /\ Present1(w, items[i])
  BY <1>1, Laid, Numbers DEF TabItem, ItemType, Present1
<1>3. items = [i \in 1 .. Len(s) |-> items[i]] /\ DOMAIN items = 1 .. Len(s) BY <1>1
<1>4. items \in Seq(ItemType) BY <1>1, <1>2, <1>3
<1> QED BY <1>2, <1>3, <1>4

\* A tab is closed, at once or after a question.
LEMMA ActCloseTab ==
    ASSUME IInv, CloseTab
    PROVE  IInv' /\ Asked
<1>1. PICK g \in ToSet(ws.tabs) :
        IF g = Settings \/ ~confirm THEN Do(RemovePage(ws, g)) ELSE Request(ws, <<TabItem(g)>>, NoPage)
  BY DEF CloseTab
<1>2. Layout(ws) /\ Sound(ws) /\ g \in PageIds \cup {Settings} BY IsSound, Laid
<1>3. CASE g = Settings \/ ~confirm
  <2> DEFINE v == RemovePage(ws, g)
  <2>1. Do(v) BY <1>1, <1>3
  <2>2. Without(ws, ToSet(ws.pages[g].panes), v) BY <1>2, RemovePageIs
  <2> HIDE DEF v
  <2>3. ws' = v /\ Calm BY <2>1, DoIs
  <2>4. CASE ~confirm BY <2>2, <2>3, <2>4, Closing DEF Without
  <2>5. CASE g = Settings
    <3>1. ws.pages[g].panes = <<>> BY <1>2, <2>5, Laid
    <3>2. ToSet(ws.pages[g].panes) = {} BY <3>1 DEF ToSet
    <3>3. Steady(ws, v) BY <2>2, <3>2 DEF Without, Steady
    <3> QED BY <2>1, <3>3, Doing
  <2> QED BY <1>3, <2>4, <2>5
<1>4. CASE ~(g = Settings \/ ~confirm)
  <2> DEFINE items == <<TabItem(g)>>  s == <<g>>
  <2>1. Request(ws, items, NoPage) BY <1>1, <1>4
  <2>2. s \in Seq(PageIds \cup {Settings}) /\ ToSet(s) \subseteq ToSet(ws.tabs) BY <1>2 DEF ToSet
  <2>3. items = [i \in DOMAIN s |-> TabItem(s[i])] OBVIOUS
  <2> HIDE DEF s
  <2> HIDE DEF items
  <2>4. items \in Seq(ItemType) /\ \A i \in DOMAIN items : Present1(ws, items[i]) BY <1>2, <2>2, <2>3, TabItemsAre
  <2>5. NoPage \in PageSet /\ Same(ws, ws) BY Numbers, SameAll
  <2> QED BY <1>2, <2>1, <2>4, <2>5, RequestIs
<1> QED BY <1>3, <1>4

\* A pane is closed, at once or after a question.
LEMMA ActClosePane ==
    ASSUME IInv, ClosePane
    PROVE  IInv' /\ Asked
<1>1. PICK p \in Live(ws) : Request(ws, <<PaneItem(p)>>, NoPage) BY DEF ClosePane
<1> DEFINE items == <<PaneItem(p)>>
<1>2. Layout(ws) /\ Sound(ws) /\ p \in PaneIds BY IsSound, LiveIs
<1>3. PaneItem(p) \in ItemType /\ Present1(ws, PaneItem(p)) BY <1>2, Numbers DEF PaneItem, ItemType, Present1
<1>4. items \in Seq(ItemType) /\ \A i \in DOMAIN items : Present1(ws, items[i]) BY <1>3
<1>5. Request(ws, items, NoPage) BY <1>1
<1> HIDE DEF items
<1>6. NoPage \in PageSet /\ Same(ws, ws) BY Numbers, SameAll
<1> QED BY <1>2, <1>4, <1>5, <1>6, RequestIs

\* All tabs but one are closed, at once or after a question.
LEMMA ActCloseOthers ==
    ASSUME IInv, CloseOthers
    PROVE  IInv' /\ Asked
<1>1. PICK g \in MenuTabs :
        LET w == Menu(g)
            others == Only(w.tabs, ToSet(w.tabs) \ {g})
        IN  Request(w, [i \in DOMAIN others |-> TabItem(others[i])], g) BY DEF CloseOthers
<1> DEFINE w == Menu(g)  others == Only(w.tabs, ToSet(w.tabs) \ {g})  items == [i \in DOMAIN others |-> TabItem(others[i])]
<1>2. Request(w, items, g) BY <1>1
<1>3. Sound(w) /\ Same(ws, w) /\ g \in PageSet BY IsSound, MenuIs
<1> HIDE DEF w
<1>4. others \in Seq(PageIds \cup {Settings}) /\ ToSet(others) \subseteq ToSet(w.tabs)
  BY <1>3, Laid, OnlyFacts DEF Sound
<1> HIDE DEF others
<1>5. items \in Seq(ItemType) /\ \A i \in DOMAIN items : Present1(w, items[i]) BY <1>3, <1>4, TabItemsAre DEF Sound
<1> HIDE DEF items
<1> QED BY <1>2, <1>3, <1>5, RequestIs

\* All tabs are closed, at once or after a question.
LEMMA ActCloseAll ==
    ASSUME IInv, CloseAll
    PROVE  IInv' /\ Asked
<1> DEFINE items == [i \in DOMAIN ws.tabs |-> TabItem(ws.tabs[i])]
<1>1. Request(ws, items, NoPage) BY DEF CloseAll
<1>2. Layout(ws) /\ Sound(ws) /\ ws.tabs \in Seq(PageIds \cup {Settings}) BY IsSound, Laid
<1>3. items \in Seq(ItemType) /\ \A i \in DOMAIN items : Present1(ws, items[i]) BY <1>2, TabItemsAre
<1> HIDE DEF items
<1>4. NoPage \in PageSet /\ Same(ws, ws) BY Numbers, SameAll
<1> QED BY <1>1, <1>2, <1>3, <1>4, RequestIs

\* The answer to a question, after whatever happened while it was open.
LEMMA ActAnswerClose ==
    ASSUME IInv, AnswerClose
    PROVE  IInv' /\ Asked
<1>1. question.open /\ question' = NoQuestion /\ confirm' = confirm /\ saved' = saved BY DEF AnswerClose
<1>2. PICK yes \in BOOLEAN : ws' = GoToKept(IF yes THEN CloseItems(ws, question.items) ELSE ws, question.kept)
  BY DEF AnswerClose
<1> DEFINE c == IF yes THEN CloseItems(ws, question.items) ELSE ws
<1>3. Layout(ws) /\ Sound(ws) /\ Meant(ws, question) BY IsSound DEF IInv
<1>4. /\ question.items \in Seq(ItemType) /\ question.kept \in PageSet
      /\ \A i \in DOMAIN question.items : OfItem(ws, question.items[i]) \subseteq question.panes
  BY <1>3 DEF Meant, QuestionType
<1>5. Sound(c) /\ Less(ws, c) /\ Live(ws) \ Live(c) \subseteq question.panes
      /\ (Live(ws) \ Live(c) # {} => question.panes \cap Live(c) = {})
  <2>1. CASE yes
    <3> DEFINE d == CloseItems(ws, question.items)
    <3>1. c = d BY <2>1
    <3>2. /\ Sound(d) /\ Less(ws, d) /\ Live(ws) \ Live(d) \subseteq question.panes
          /\ \A i \in DOMAIN question.items : OfItem(d, question.items[i]) \cap Live(d) = {}
      BY <1>3, <1>4, CloseItemsIs
    <3> HIDE DEF d
    <3>3. Meant(d, question) BY <1>3, <3>2, MeantStays DEF Sound
    <3>4. question.panes \cap Live(d) = {}
      <4> SUFFICES ASSUME NEW p \in question.panes \cap Live(d) PROVE FALSE OBVIOUS
      <4>1. PICK i \in DOMAIN question.items : p \in OfItem(d, question.items[i]) BY <3>3 DEF Meant
      <4> QED BY <4>1, <3>2
    <3> HIDE DEF c
    <3> QED BY <3>1, <3>2, <3>4
  <2>2. CASE ~yes
    <3>1. c = ws BY <2>2
    <3>2. Less(ws, ws) BY <1>3, LessAll
    <3> HIDE DEF c
    <3> QED BY <3>1, <3>2, <1>3
  <2> QED BY <2>1, <2>2
<1>6. ws' = GoToKept(c, question.kept) BY <1>2
<1> HIDE DEF c
<1>7. Sound(ws') /\ Same(c, ws') BY <1>5, <1>6, GoToKeptIs
<1>8. Layout(c) /\ Layout(ws') /\ Rail(ws') BY <1>5, <1>7 DEF Sound
<1>9. Live(ws') = Live(c) BY <1>7, <1>8, SameLive
<1>10. Less(ws, ws') BY <1>7, <1>8, <1>3, <1>5, LessAll
<1>11. Hosts(ws', saved') BY <1>1, <1>3, <1>8, <1>10, HostsStay DEF IInv, Hosts
<1>12. Meant(ws', question') /\ ~question'.open BY <1>1, MeantNothing DEF NoQuestion
<1>13. Asked BY <1>5, <1>9, <1>1, <1>12 DEF Asked
<1> QED BY <1>1, <1>8, <1>11, <1>12, <1>13 DEF IInv, Hosts

\* A host is deleted, with its terminals in every tab.
LEMMA ActDeleteServer ==
    ASSUME IInv, NEW s \in Servers, DeleteServer(s)
    PROVE  IInv' /\ Asked
<1> DEFINE u == RemovePanes(ws, Hosted(ws, s))
           v == IF u.shown # s THEN u ELSE [u EXCEPT !.shown = NoServer, !.session = NoPane, !.badge = "offline"]
<1>1. /\ \/ ws' = v /\ saved' = [saved EXCEPT ![s] = 0]
         \/ ws' = u /\ saved' = saved
      /\ deleted' = s /\ question' = question /\ confirm' = confirm BY DEF DeleteServer, Hosted
<1>2. Layout(ws) /\ Sound(ws) BY IsSound
<1>3. LET his == {p \in Live(ws) : ws.panes[p].server = s} IN Without(ws, his, u) /\ Without(ws, his, v) BY <1>2, DeletedIs
<1> HIDE DEF u, v
<1> DEFINE out == {p \in Live(ws) : ws.panes[p].server = s}
<1>4. Sound(ws') /\ Less(ws, ws') /\ Live(ws') = Live(ws) \ out /\ Layout(ws') /\ Rail(ws') BY <1>1, <1>3 DEF Without, Sound
<1>5. saved' \in [Servers -> Nat] /\ \A h \in Servers : h # s => saved'[h] = saved[h] BY <1>1 DEF IInv
<1>6. Meant(ws', question') BY <1>1, <1>2, <1>4, MeantStays DEF IInv
<1>7. Hosts(ws', saved')
  <2> SUFFICES ASSUME NEW p \in Live(ws') PROVE saved'[ws'.panes[p].server] # 0 BY DEF Hosts
  <2>1. p \in Live(ws) /\ ws.panes[p].server # s /\ ws'.panes[p].server = ws.panes[p].server BY <1>4 DEF Less
  <2>2. ws.panes[p].server \in Servers BY <2>1, <1>2, LiveIs
  <2> QED BY <2>1, <2>2, <1>5 DEF IInv
<1>8. Asked BY <1>4, <1>5, <1>1 DEF Asked
<1> QED BY <1>1, <1>4, <1>5, <1>6, <1>7, <1>8 DEF IInv, Hosts

----
(* The first state: the tabs of the last run, none of them connected. *)
LEMMA RestoredIs ==
    ASSUME NEW ids \in SeqOf(Servers, MaxRestored), NEW front \in IF ids = <<>> THEN {NoPage} ELSE DOMAIN ids,
           NEW v, v = Restored(ids, front)
    PROVE  Sound(v) /\ \A p \in Live(v) : v.panes[p].server \in Servers
<1>1. PICK n \in 0 .. MaxRestored : ids \in [1 .. n -> Servers] BY DEF SeqOf
<1>2. n \in 0 .. MaxPanes /\ n \in Nat /\ 1 .. n \subseteq PaneIds /\ 1 .. n \subseteq PageIds
  BY Numbers, WorkspaceAssumption
<1>3. ids \in Seq(Servers) /\ Len(ids) = n /\ DOMAIN ids = 1 .. n /\ (ids = <<>> <=> n = 0) BY <1>1, <1>2
<1>4. front \in PageSet /\ IF n = 0 THEN front = NoPage ELSE front \in 1 .. n BY <1>2, <1>3, Numbers
<1> DEFINE tabs == [i \in 1 .. n |-> i]
           F(g) == IF g \notin 1 .. n THEN EmptyPage
                   ELSE IF g \notin {1, front} THEN NewPage(<<g>>, g)
                   ELSE [NewPage(<<g>>, g) EXCEPT !.pin = g, !.end = <<ids[g], 1>>]
           pages == [g \in PageSet |-> F(g)]
           panes == [p \in PaneIds |-> IF p \in 1 .. n THEN NewPane(ids[p], 1) ELSE Unused]
<1>5. /\ v.tabs = tabs /\ v.cur = front /\ v.home = (ids = <<>>) /\ v.pages = pages /\ v.panes = panes
      /\ v.opened = n /\ v.selected = 1 .. n \cap {1} /\ v.monitor = NoPage /\ v.session = NoPane
      /\ v.shown = NoServer /\ v.badge = "offline" /\ v.label = Blank
      /\ v = [tabs |-> tabs, cur |-> front, home |-> (ids = <<>>), pages |-> pages, panes |-> panes, opened |-> n,
              selected |-> 1 .. n \cap {1}, monitor |-> NoPage, session |-> NoPane, shown |-> NoServer,
              badge |-> "offline", label |-> Blank] BY <1>3 DEF Restored, PageSet
<1>6. tabs \in Seq(PageIds \cup {Settings}) /\ Apart(tabs) /\ ToSet(tabs) = 1 .. n /\ (tabs = <<>> <=> n = 0)
  <2>1. \A i \in 1 .. n : tabs[i] = i /\ i \in PageIds \cup {Settings} BY <1>2
  <2>2. tabs \in Seq(PageIds \cup {Settings}) /\ Len(tabs) = n /\ DOMAIN tabs = 1 .. n BY <1>2
  <2>3. Apart(tabs) BY <2>1, <2>2 DEF Apart
  <2>4. ToSet(tabs) = 1 .. n BY <2>1, <2>2 DEF ToSet
  <2> HIDE DEF tabs
  <2> QED BY <2>2, <2>3, <2>4, <1>2
<1> HIDE DEF tabs
<1>7. ASSUME NEW g \in 1 .. n
      PROVE  /\ F(g) \in PageType /\ F(g).panes = <<g>> /\ F(g).active = g /\ F(g).probe = NoProbe
  <2>1. g \in PaneIds /\ ids[g] \in Servers BY <1>1, <1>2
  <2>2. NewPage(<<g>>, g) \in PageType /\ NewPage(<<g>>, g).panes = <<g>> /\ NewPage(<<g>>, g).active = g
        /\ NewPage(<<g>>, g).probe = NoProbe BY <2>1, OnePane
  <2>3. <<ids[g], 1>> \in Ends BY <2>1 DEF Ends
  <2> QED BY <2>1, <2>2, <2>3, <1>7 DEF PageType
<1>8. ASSUME NEW g \in PageSet
      PROVE  /\ pages[g] \in PageType /\ pages[g].probe = NoProbe
             /\ IF g \in 1 .. n THEN pages[g].panes = <<g>> /\ pages[g].active = g ELSE pages[g] = EmptyPage
  <2>1. pages[g] = F(g) OBVIOUS
  <2>2. CASE g \in 1 .. n
    <3> HIDE DEF F, pages
    <3> QED BY <2>1, <2>2, <1>7
  <2>3. CASE g \notin 1 .. n BY <2>1, <2>3, Nothings
  <2> QED BY <2>2, <2>3
<1>9. pages \in [PageSet -> PageType] BY <1>8
<1>10. ASSUME NEW p \in PaneIds
       PROVE  panes[p] \in PaneType /\ panes[p].state = "off" /\ (p \in 1 .. n => panes[p].server \in Servers)
  <2>1. CASE p \in 1 .. n
    <3>1. ids[p] \in Servers BY <1>1, <2>1
    <3>2. panes[p] = [server |-> ids[p], version |-> 1, next |-> 0, state |-> "off", known |-> FALSE] BY <2>1 DEF NewPane
    <3> HIDE DEF panes
    <3> QED BY <3>1, <3>2 DEF PaneType, States
  <2>2. CASE p \notin 1 .. n BY <2>2, Nothings
  <2> QED BY <2>1, <2>2
<1>11. panes \in [PaneIds -> PaneType] BY <1>10
<1> HIDE DEF F
<1> HIDE DEF pages
<1> HIDE DEF panes
<1>12. v \in WsType BY <1>2, <1>4, <1>5, <1>6, <1>9, <1>11, Nothings DEF Badges, WsType
<1>13. Layout(v)
  <2>1. v.selected \subseteq ToSet(v.tabs) /\ IF v.tabs = <<>> THEN v.cur = NoPage ELSE v.cur \in ToSet(v.tabs)
    BY <1>4, <1>5, <1>6
  <2>2. ASSUME NEW g \in PageSet PROVE IF g \in ToSet(v.tabs) \ {Settings} THEN PageSound(v, g) ELSE v.pages[g] = EmptyPage
    <3>1. CASE g \in 1 .. n
      <4>1. g \in PaneIds /\ v.pages[g].panes = <<g>> /\ v.pages[g].active = g BY <1>2, <1>5, <1>8, <3>1
      <4>2. <<g>> # <<>> /\ Apart(<<g>>) /\ ToSet(<<g>>) = {g} /\ <<g>>[1] = g BY <4>1, OnePane
      <4>3. g <= n BY <3>1
      <4>4. v.panes[g].server \in Servers BY <1>5, <1>10, <3>1, <4>1
      <4>5. PageSound(v, g) BY <4>1, <4>2, <4>3, <4>4, <1>5 DEF PageSound
      <4>6. g \in ToSet(v.tabs) \ {Settings} BY <3>1, <4>1, <1>5, <1>6, Numbers
      <4> QED BY <4>5, <4>6
    <3>2. CASE g \notin 1 .. n BY <3>2, <1>5, <1>6, <1>8
    <3> QED BY <3>1, <3>2
  <2>3. ASSUME NEW g \in PageSet, NEW h \in PageSet, g # h PROVE ToSet(v.pages[g].panes) \cap ToSet(v.pages[h].panes) = {}
    <3>1. ASSUME NEW k \in PageSet PROVE ToSet(v.pages[k].panes) \subseteq {k}
      <4>1. CASE k \in 1 .. n
        <5>1. k \in PaneIds /\ v.pages[k].panes = <<k>> BY <1>2, <1>5, <1>8, <4>1
        <5> QED BY <5>1, OnePane
      <4>2. CASE k \notin 1 .. n BY <4>2, <1>5, <1>8, Nothings DEF ToSet
      <4> QED BY <4>1, <4>2
    <3> QED BY <3>1, <2>3
  <2>4. \A g \in PageSet : ProbeSound(v.pages[g].probe) BY <1>5, <1>8, Nothings
  <2> QED BY <1>5, <1>6, <1>12, <2>1, <2>2, <2>3, <2>4 DEF Layout
<1>14. \A p \in Live(v) : p \in PaneIds /\ v.panes[p].server \in Servers /\ v.panes[p].state = "off"
  BY <1>13, <1>5, <1>10, LiveIs
<1>15. Rail(v)
  <2>1. Bound(v) BY <1>5 DEF Bound
  <2>2. InFront(v) BY <1>13, <1>14, LiveIs DEF Up, InFront
  <2>3. Badged(v) BY <1>5 DEF Badged
  <2>4. Timed(v) BY <1>5, <1>8, Nothings DEF Timed
  <2> QED BY <2>1, <2>2, <2>3, <2>4 DEF Rail
<1> QED BY <1>13, <1>14, <1>15 DEF Sound

\* The initial states of the workspace.
LEMMA InitIs ==
    ASSUME Init
    PROVE  IInv
<1>1. PICK ids \in SeqOf(Servers, MaxRestored) : \E front \in IF ids = <<>> THEN {NoPage} ELSE DOMAIN ids : ws = Restored(ids, front)
  BY DEF Init
<1>2. PICK front \in IF ids = <<>> THEN {NoPage} ELSE DOMAIN ids : ws = Restored(ids, front) BY <1>1
<1>3. Sound(ws) /\ \A p \in Live(ws) : ws.panes[p].server \in Servers BY <1>2, RestoredIs
<1>4. saved = [s \in Servers |-> 1] /\ question = NoQuestion /\ confirm \in BOOLEAN /\ ~NoQuestion.open BY DEF Init, NoQuestion
<1>5. saved \in [Servers -> Nat] /\ \A p \in Live(ws) : saved[ws.panes[p].server] # 0 BY <1>3, <1>4
<1> QED BY <1>3, <1>4, <1>5, MeantNothing DEF IInv, Sound

----
(* The theorems. *)

\* Every step keeps the invariant and closes nothing that was not asked.
LEMMA NextIsFine ==
    ASSUME IInv, [Next]_vars
    PROVE  IInv' /\ Asked
<1>1. ASSUME NEW s \in Servers, OpenServer(s) \/ EditServer(s) \/ DeleteServer(s) PROVE IInv' /\ Asked
  BY <1>1, ActOpenServer, ActEditServer, ActDeleteServer
<1>2. CASE OpenRdp \/ RdpRead \/ RdpDismissed \/ DuplicateTab \/ SplitPane
  BY <1>2, ActOpenRdp, ActLaunch, ActDuplicateTab, ActSplitPane
<1>3. CASE SelectTab \/ ShowServerManager \/ ShowSettings \/ FocusPane
  BY <1>3, ActSelectTab, ActShowServerManager, ActShowSettings, ActFocusPane
<1>4. CASE ConnectTab \/ DisconnectTab \/ SessionUp \/ SessionLost BY <1>4, ActConnectTab, ActDisconnectTab, ActSession
<1>5. CASE MergeTabs \/ UnmergeTab BY <1>5, ActMergeTabs, ActUnmergeTab
<1>6. CASE CloseTab \/ ClosePane \/ CloseOthers \/ CloseAll \/ AnswerClose
  BY <1>6, ActCloseTab, ActClosePane, ActCloseOthers, ActCloseAll, ActAnswerClose
<1>7. CASE ProbeDue \/ ProbeEnds \/ ProbeLate BY <1>7, ActProbe
<1>8. CASE UNCHANGED vars BY <1>8, NoneGone DEF vars, IInv
<1> QED BY <1>1, <1>2, <1>3, <1>4, <1>5, <1>6, <1>7, <1>8 DEF Next

\* No tab twice: as many tabs as positions.
LEMMA AsMany ==
    ASSUME NEW V, NEW s \in Seq(V), Apart(s)
    PROVE  Cardinality(ToSet(s)) = Len(s)
<1> DEFINE f == [i \in 1 .. Len(s) |-> s[i]]
<1>1. Len(s) \in Nat /\ DOMAIN s = 1 .. Len(s) /\ ToSet(s) = {s[i] : i \in 1 .. Len(s)} BY SetOf DEF Till
<1>2. f \in Bijection(1 .. Len(s), ToSet(s))
  <2>1. f \in [1 .. Len(s) -> ToSet(s)] BY <1>1
  <2>2. \A i, j \in 1 .. Len(s) : f[i] = f[j] => i = j BY <1>1 DEF Apart
  <2>3. \A e \in ToSet(s) : \E i \in 1 .. Len(s) : f[i] = e BY <1>1
  <2>4. DOMAIN f = 1 .. Len(s) BY <2>1
  <2> HIDE DEF f
  <2>5. f \in Injection(1 .. Len(s), ToSet(s)) BY <2>1, <2>2, <2>4 DEF Injection, IsInjective
  <2>6. f \in Surjection(1 .. Len(s), ToSet(s)) BY <2>1, <2>3 DEF Surjection
  <2> QED BY <2>5, <2>6 DEF Bijection
<1>3. ExistsBijection(1 .. Len(s), ToSet(s)) BY <1>2 DEF ExistsBijection
<1> QED BY <1>1, <1>3, FS_CountingElements

\* What the invariant says of the types, the rail and its badge.
LEMMA IInvSays ==
    ASSUME IInv
    PROVE  MonitorIsLive /\ RailIsTrue
<1>1. Layout(ws) /\ Rail(ws) /\ ws \in WsType BY IsSound DEF IInv
<1>2. ws.pages \in [PageSet -> PageType] /\ DOMAIN ws.pages = PageSet BY <1>1, Parts
<1>3. TypeOK
  <2>1. ToSet(ws.tabs) \subseteq PageIds \cup {Settings} /\ Cardinality(ToSet(ws.tabs)) = Len(ws.tabs)
    BY <1>1, Laid, AsMany
  <2>2. ws.cur \in ToSet(ws.tabs) \cup {NoPage} /\ (ws.cur = NoPage) = (ws.tabs = <<>>)
    <3>1. ws.cur = NoPage <=> ws.tabs = <<>> BY <1>1, Laid
    <3>2. (ws.cur = NoPage) = (ws.tabs = <<>>) BY <3>1, Zenon
    <3> QED BY <3>2, <1>1, Laid
  <2>3. ASSUME NEW g \in PageSet
        PROVE  LET page == ws.pages[g] IN
                 /\ (page.panes = <<>>) = (g \notin ToSet(ws.tabs) \ {Settings})
                 /\ page.panes # <<>> => page.active \in ToSet(page.panes)
                 /\ \A h \in PageSet \ {g} : ToSet(page.panes) \cap ToSet(ws.pages[h].panes) = {}
    <3>1. (ws.pages[g].panes # <<>> <=> g \in ToSet(ws.tabs) \ {Settings}) BY <1>1, Laid
    <3>2. (ws.pages[g].panes = <<>>) = (g \notin ToSet(ws.tabs) \ {Settings}) BY <3>1, Zenon
    <3>3. ws.pages[g].panes # <<>> => ws.pages[g].active \in ToSet(ws.pages[g].panes) BY <1>1, Laid DEF PageSound
    <3>4. \A h \in PageSet \ {g} : ToSet(ws.pages[g].panes) \cap ToSet(ws.pages[h].panes) = {} BY <1>1 DEF Layout
    <3> QED BY <3>2, <3>3, <3>4
  <2>4. ws.selected \subseteq MenuTabs BY <1>1, Laid, Parts, Numbers DEF MenuTabs
  <2>5. \A p \in Live(ws) : p <= ws.opened /\ saved[ws.panes[p].server] # 0 BY <1>1, LiveIs DEF IInv
  <2> QED BY <2>1, <2>2, <2>3, <2>4, <2>5, <1>2 DEF TypeOK
<1>4. MonitorIsLive BY <1>1, <1>3 DEF Rail, Bound, MonitorIsLive, InFront
<1>5. RailIsTrue BY <1>1, Laid, Numbers DEF Rail, Badged, BadgeIsTrue, Timed, LatencyIsOfTarget, RailIsTrue, SpeaksOfRdp
<1> QED BY <1>4, <1>5

\* The invariant holds throughout, whatever the user does and the connections report.
THEOREM Invariance == Spec => []IInv
<1>1. Init => IInv BY InitIs
<1>2. IInv /\ [Next]_vars => IInv' BY NextIsFine
<1> QED BY <1>1, <1>2, PTL DEF Spec

\* The tabs, the panes in them and the selection are of the right kind, and every pane is in one tab.
THEOREM TypeCorrect == Spec => []TypeOK
<1>1. IInv => TypeOK BY IInvSays DEF MonitorIsLive
<1> QED BY <1>1, Invariance, PTL

\* The rail is bound to a terminal that is there, and to a connected one if the tab in front has one.
THEOREM MonitorCorrect == Spec => []MonitorIsLive
<1>1. IInv => MonitorIsLive BY IInvSays
<1> QED BY <1>1, Invariance, PTL

\* The badge and the latency are those of the session the rail shows.
THEOREM RailCorrect == Spec => []RailIsTrue
<1>1. IInv => RailIsTrue BY IInvSays
<1> QED BY <1>1, Invariance, PTL

\* A terminal is closed only if it was meant by the question that was answered.
THEOREM ClosesCorrect == Spec => ClosesWhatWasAsked
<1>1. IInv /\ [Next]_vars => [Asked]_vars BY NextIsFine
<1> QED BY <1>1, Invariance, PTL DEF Spec, ClosesWhatWasAsked, Asked

----
(* The command history: its inductive invariant. *)

\* Rows with ids up to m, and a table of them: no id and no command twice.
RowsTo(m) == [id : 1 .. m, command : Commands, note : Notes, favorite : BOOLEAN]
Table(t, m) ==
    /\ t \in Seq(RowsTo(m)) /\ Apart(t)
    /\ \A e, f \in ToSet(t) : e.id = f.id \/ e.command = f.command => e = f

\* An id is the table's of no other command than command, and of none once its row is deleted.
Means(t, m, id, command) ==
    id \in 1 .. m /\ command \in Commands /\ \A e \in ToSet(t) : e.id = id => e.command = command

PanelSound(x, t, m) ==
    /\ x = [visible |-> x.visible, starred |-> x.starred, search |-> x.search, due |-> x.due, rows |-> x.rows, current |-> x.current]
    /\ x.visible \in BOOLEAN /\ x.starred \in BOOLEAN /\ x.search \in Searches \cup {Anything} /\ x.due \in BOOLEAN
    /\ x.rows \in Seq(RowsTo(m)) /\ x.current \in 0 .. Len(x.rows)
    /\ \A r \in ToSet(x.rows) : Means(t, m, r.id, r.command)

DialogSound(d, t, m) == d.kind = "note" => Means(t, m, d.id, d.command)

HistoryInv ==
    /\ made \in Nat /\ Table(history, made)
    /\ panel = [p \in Panes |-> panel[p]] /\ dialog = [p \in Panes |-> dialog[p]]
    /\ \A p \in Panes : PanelSound(panel[p], history, made) /\ DialogSound(dialog[p], history, made)
    /\ old \in OldTables \cup {<<>>}
    /\ old # <<>> => history = <<>> /\ made = 0 /\ \A p \in Panes : panel[p] = NewPanel /\ dialog[p] = NoDialog

----
(* Parts of sequences, side by side. *)

\* Two sequences that have the same elements in the same order in their parts up to a position.
LEMMA OnlySide ==
    ASSUME NEW V, NEW s \in Seq(V), NEW t \in Seq(V), NEW S, NEW T, Len(s) <= Len(t),
           \A i \in 1 .. Len(s) : (s[i] \in S <=> t[i] \in T) /\ (s[i] \in S => s[i] = t[i])
    PROVE  /\ Len(s) = Len(t) => Only(s, S) = Only(t, T)
           /\ Len(t) = Len(s) + 1 => Only(t, T) = IF t[Len(t)] \in T THEN Append(Only(s, S), t[Len(t)]) ELSE Only(s, S)
<1> DEFINE n == Len(s)  m == Len(t)
<1>1. n \in Nat /\ m \in Nat BY SetOf
<1>2. PICK f : /\ Only(s, S) = f[1 .. n] /\ f[1 .. 0] = <<>>
               /\ \A k \in 1 .. n : f[1 .. k] = IF s[k] \in S THEN Append(f[1 .. k - 1], s[k]) ELSE f[1 .. k - 1]
  BY OnlyIs
<1>3. PICK g : /\ Only(t, T) = g[1 .. m] /\ g[1 .. 0] = <<>>
               /\ \A k \in 1 .. m : g[1 .. k] = IF t[k] \in T THEN Append(g[1 .. k - 1], t[k]) ELSE g[1 .. k - 1]
  BY OnlyIs
<1> HIDE DEF n, m
<1> DEFINE P == {k \in 0 .. n : f[1 .. k] = g[1 .. k]}
<1>4. 0 \in P BY <1>1, <1>2, <1>3
<1>5. ASSUME NEW k \in 1 .. n, k - 1 \in P PROVE k \in P
  <2>1. k \in 1 .. m /\ f[1 .. k - 1] = g[1 .. k - 1] BY <1>1, <1>5 DEF n, m
  <2>2. f[1 .. k] = IF s[k] \in S THEN Append(f[1 .. k - 1], s[k]) ELSE f[1 .. k - 1] BY <1>2
  <2>3. g[1 .. k] = IF t[k] \in T THEN Append(g[1 .. k - 1], t[k]) ELSE g[1 .. k - 1] BY <1>3, <2>1
  <2>4. (s[k] \in S <=> t[k] \in T) /\ (s[k] \in S => s[k] = t[k]) BY DEF n
  <2>5. f[1 .. k] = g[1 .. k] BY <2>1, <2>2, <2>3, <2>4
  <2> QED BY <1>1, <2>5
<1> HIDE DEF P
<1>6. \A k \in 0 .. n : k \in P BY <1>1, <1>4, <1>5, UpTo
<1>7. f[1 .. n] = g[1 .. n] BY <1>1, <1>6 DEF P
<1>8. n = m => Only(s, S) = Only(t, T) BY <1>2, <1>3, <1>7
<1>9. ASSUME m = n + 1 PROVE Only(t, T) = IF t[m] \in T THEN Append(Only(s, S), t[m]) ELSE Only(s, S)
  <2>1. m \in 1 .. m /\ m - 1 = n BY <1>1, <1>9
  <2>2. g[1 .. m] = IF t[m] \in T THEN Append(g[1 .. m - 1], t[m]) ELSE g[1 .. m - 1] BY <1>3, <2>1
  <2> QED BY <2>1, <2>2, <1>2, <1>3, <1>7
<1> QED BY <1>8, <1>9 DEF n, m

\* The part of a sequence with an element appended.
LEMMA OnlyAppend ==
    ASSUME NEW V, NEW s \in Seq(V), NEW e \in V, NEW S
    PROVE  Only(Append(s, e), S) = IF e \in S THEN Append(Only(s, S), e) ELSE Only(s, S)
<1> DEFINE t == Append(s, e)
<1>1. t \in Seq(V) /\ Len(t) = Len(s) + 1 /\ t[Len(t)] = e /\ \A i \in 1 .. Len(s) : t[i] = s[i] OBVIOUS
<1>2. Len(s) \in Nat BY SetOf
<1> HIDE DEF t
<1>3. Only(t, S) = IF t[Len(t)] \in S THEN Append(Only(s, S), t[Len(t)]) ELSE Only(s, S) BY <1>1, <1>2, OnlySide
<1> QED BY <1>1, <1>3 DEF t

\* The part of a part.
LEMMA OnlyOnly ==
    ASSUME NEW V, NEW s \in Seq(V), NEW A, NEW B, B \subseteq A
    PROVE  Only(Only(s, A), B) = Only(s, B)
<1> DEFINE n == Len(s)
<1>1. n \in Nat BY SetOf
<1>2. PICK f : /\ Only(s, A) = f[1 .. n] /\ f[1 .. 0] = <<>>
               /\ \A k \in 1 .. n : f[1 .. k] = IF s[k] \in A THEN Append(f[1 .. k - 1], s[k]) ELSE f[1 .. k - 1]
  BY OnlyIs
<1>3. PICK g : /\ Only(s, B) = g[1 .. n] /\ g[1 .. 0] = <<>>
               /\ \A k \in 1 .. n : g[1 .. k] = IF s[k] \in B THEN Append(g[1 .. k - 1], s[k]) ELSE g[1 .. k - 1]
  BY OnlyIs
<1>4. \A k \in 1 .. n : s[k] \in V BY SetOf
<1> HIDE DEF n
<1> DEFINE P == {k \in 0 .. n : f[1 .. k] \in Seq(V) /\ Only(f[1 .. k], B) = g[1 .. k]}
<1>5. 0 \in P
  <2>1. \A z \in Seq(V) : Only(z, B) \in Seq(V) /\ ToSet(Only(z, B)) = ToSet(z) \cap B BY OnlyFacts
  <2>2. <<>> \in Seq(V) /\ ToSet(<<>>) = {} BY DEF ToSet
  <2>3. Only(<<>>, B) \in Seq(V) /\ ToSet(Only(<<>>, B)) = {} BY <2>1, <2>2
  <2>4. Only(<<>>, B) = <<>> BY <2>3, SetOf
  <2>5. f[1 .. 0] = <<>> /\ g[1 .. 0] = <<>> /\ 0 \in 0 .. n BY <1>1, <1>2, <1>3
  <2> QED BY <2>2, <2>4, <2>5
<1>6. ASSUME NEW k \in 1 .. n, k - 1 \in P PROVE k \in P
  <2> DEFINE a == f[1 .. k - 1]  b == g[1 .. k - 1]
  <2>1. a \in Seq(V) /\ Only(a, B) = b /\ s[k] \in V BY <1>4, <1>6
  <2>2. f[1 .. k] = IF s[k] \in A THEN Append(a, s[k]) ELSE a BY <1>2
  <2>3. g[1 .. k] = IF s[k] \in B THEN Append(b, s[k]) ELSE b BY <1>3
  <2> HIDE DEF a, b
  <2>4. Append(a, s[k]) \in Seq(V) /\ Only(Append(a, s[k]), B) = IF s[k] \in B THEN Append(b, s[k]) ELSE b
    <3>1. Only(Append(a, s[k]), B) = IF s[k] \in B THEN Append(Only(a, B), s[k]) ELSE Only(a, B) BY <2>1, OnlyAppend
    <3> QED BY <3>1, <2>1
  <2>5. f[1 .. k] \in Seq(V) /\ Only(f[1 .. k], B) = g[1 .. k]
    <3>1. CASE s[k] \in A BY <2>2, <2>3, <2>4, <3>1
    <3>2. CASE s[k] \notin A BY <2>1, <2>2, <2>3, <3>2
    <3> QED BY <3>1, <3>2
  <2> QED BY <1>1, <2>5
<1> HIDE DEF P
<1>7. \A k \in 0 .. n : k \in P BY <1>1, <1>5, <1>6, UpTo
<1>8. Only(f[1 .. n], B) = g[1 .. n] BY <1>1, <1>7 DEF P
<1> QED BY <1>2, <1>3, <1>8

\* The largest of some positions.
LEMMA NewestIs ==
    ASSUME NEW n \in Nat, NEW S \in SUBSET (1 .. n), S # {}
    PROVE  Newest(S) \in S /\ \A j \in S : j <= Newest(S)
<1>1. \E m \in S : \A j \in S : j <= m
  <2> DEFINE T == {n - j : j \in S}
  <2>1. T \in SUBSET Nat /\ T # {}
    <3>1. \A j \in S : n - j \in Nat OBVIOUS
    <3>2. PICK j \in S : TRUE OBVIOUS
    <3>3. n - j \in T OBVIOUS
    <3> QED BY <3>1, <3>3
  <2>2. PICK x \in T : \A y \in T : x <= y
    <3> HIDE DEF T
    <3> QED BY <2>1, LeastOf
  <2>3. PICK m \in S : x = n - m OBVIOUS
  <2>4. ASSUME NEW j \in S PROVE j <= m
    <3>1. n - j \in T OBVIOUS
    <3>2. n - m <= n - j BY <3>1, <2>2, <2>3
    <3>3. m \in Nat /\ j \in Nat OBVIOUS
    <3> QED BY <3>2, <3>3
  <2> QED BY <2>4
<1> QED BY <1>1 DEF Newest

----
(* The table. *)

\* Rows of fewer ids are rows.
LEMMA RowsGrow ==
    ASSUME NEW m \in Nat, NEW k \in Nat, m <= k
    PROVE  RowsTo(m) \subseteq RowsTo(k)
<1>1. 1 .. m \subseteq 1 .. k OBVIOUS
<1> QED BY <1>1 DEF RowsTo

\* The elements of a table.
LEMMA InTableIs ==
    ASSUME NEW t, NEW m, Table(t, m)
    PROVE  /\ t \in Seq(RowsTo(m)) /\ DOMAIN t = 1 .. Len(t) /\ Len(t) \in Nat
           /\ \A e \in ToSet(t) : /\ e \in RowsTo(m) /\ e.id \in 1 .. m /\ e.command \in Commands /\ e.note \in Notes
                                  /\ e.favorite \in BOOLEAN /\ \E i \in DOMAIN t : t[i] = e
           /\ \A i \in DOMAIN t : t[i] \in ToSet(t)
           /\ \A i, j \in DOMAIN t : t[i].id = t[j].id \/ t[i].command = t[j].command => i = j
<1>1. t \in Seq(RowsTo(m)) BY DEF Table
<1>2. ToSet(t) = Till(t, Len(t)) /\ ToSet(t) \subseteq RowsTo(m) /\ Len(t) \in Nat /\ DOMAIN t = 1 .. Len(t)
      /\ \A i \in 1 .. Len(t) : t[i] \in ToSet(t) BY <1>1, SetOf
<1>3. \A e \in ToSet(t) : \E i \in DOMAIN t : t[i] = e BY DEF ToSet
<1>4. \A e \in RowsTo(m) : e.id \in 1 .. m /\ e.command \in Commands /\ e.note \in Notes /\ e.favorite \in BOOLEAN
  BY DEF RowsTo
<1>5. \A i, j \in DOMAIN t : t[i].id = t[j].id \/ t[i].command = t[j].command => i = j
  <2>1. \A i, j \in DOMAIN t : t[i].id = t[j].id \/ t[i].command = t[j].command => t[i] = t[j] BY <1>2 DEF Table
  <2> QED BY <2>1 DEF Table, Apart
<1> QED BY <1>1, <1>2, <1>3, <1>4, <1>5

\* A part of a table is one.
LEMMA PartTable ==
    ASSUME NEW t, NEW m, Table(t, m), NEW S
    PROVE  Table(Only(t, S), m) /\ ToSet(Only(t, S)) = ToSet(t) \cap S
<1>1. t \in Seq(RowsTo(m)) /\ Apart(t) BY DEF Table
<1>2. Only(t, S) \in Seq(RowsTo(m)) /\ ToSet(Only(t, S)) = ToSet(t) \cap S /\ Apart(Only(t, S)) BY <1>1, OnlyFacts
<1> QED BY <1>2 DEF Table

\* A table with another note or star is one.
LEMMA SameTable ==
    ASSUME NEW t, NEW m, Table(t, m), NEW u, DOMAIN u = DOMAIN t, u = [i \in DOMAIN t |-> u[i]],
           \A i \in DOMAIN t : u[i] \in RowsTo(m) /\ u[i].id = t[i].id /\ u[i].command = t[i].command
    PROVE  Table(u, m) /\ Len(u) = Len(t) /\ \A e \in ToSet(u) : \E f \in ToSet(t) : f.id = e.id /\ f.command = e.command
<1>1. /\ DOMAIN t = 1 .. Len(t) /\ Len(t) \in Nat /\ \A i \in DOMAIN t : t[i] \in ToSet(t)
      /\ \A i, j \in DOMAIN t : t[i].id = t[j].id \/ t[i].command = t[j].command => i = j BY InTableIs
<1>2. u \in Seq(RowsTo(m)) /\ Len(u) = Len(t) BY <1>1
<1>3. \A e \in ToSet(u) : \E i \in DOMAIN t : u[i] = e BY DEF ToSet
<1>4. \A i, j \in DOMAIN t : u[i].id = u[j].id \/ u[i].command = u[j].command => i = j BY <1>1
<1>5. Apart(u) BY <1>4 DEF Apart
<1>6. \A e, f \in ToSet(u) : e.id = f.id \/ e.command = f.command => e = f BY <1>3, <1>4
<1>7. \A e \in ToSet(u) : \E f \in ToSet(t) : f.id = e.id /\ f.command = e.command BY <1>1, <1>3
<1> QED BY <1>2, <1>5, <1>6, <1>7 DEF Table

\* A row at the end.
LEMMA MoreTable ==
    ASSUME NEW t, NEW m \in Nat, Table(t, m), NEW k \in Nat, m <= k, NEW e \in RowsTo(k),
           \A f \in ToSet(t) : f.id # e.id /\ f.command # e.command
    PROVE  Table(Append(t, e), k) /\ ToSet(Append(t, e)) = ToSet(t) \cup {e}
<1>1. RowsTo(m) \subseteq RowsTo(k) BY RowsGrow
<1>2. t \in Seq(RowsTo(k)) /\ Apart(t) BY <1>1 DEF Table
<1>3. e \notin ToSet(t) OBVIOUS
<1>4. Append(t, e) \in Seq(RowsTo(k)) /\ ToSet(Append(t, e)) = ToSet(t) \cup {e} /\ Apart(Append(t, e))
  BY <1>2, <1>3, SetOfAppend
<1>5. ASSUME NEW f \in ToSet(t) \cup {e}, NEW g \in ToSet(t) \cup {e}, f.id = g.id \/ f.command = g.command PROVE f = g
  <2>1. CASE f \in ToSet(t) /\ g \in ToSet(t) BY <1>5, <2>1 DEF Table
  <2>2. CASE f = e \/ g = e BY <1>5, <2>2
  <2> QED BY <2>1, <2>2
<1> QED BY <1>4, <1>5 DEF Table

\* What a panel reads: rows of the table.
LEMMA LoadIs ==
    ASSUME NEW t, NEW m \in Nat, Table(t, m), NEW starred, NEW search, NEW r, r = LoadCommandHistory(t, starred, search)
    PROVE  r \in Seq(RowsTo(m)) /\ ToSet(r) \subseteq ToSet(t)
<1> DEFINE part == Only(t, {e \in ToSet(t) : (starred => e.favorite) /\ Matches(e, search)})
           found == Reverse(part)
           k == IF Len(found) < Shown THEN Len(found) ELSE Shown
<1>1. part \in Seq(RowsTo(m)) /\ ToSet(part) \subseteq ToSet(t) BY PartTable DEF Table
<1>2. r = SubSeq(found, 1, k) BY DEF LoadCommandHistory
<1> HIDE DEF part
<1>3. found \in Seq(RowsTo(m)) /\ ToSet(found) = ToSet(part) BY <1>1, ReverseIs
<1> HIDE DEF found
<1>4. Len(found) \in Nat /\ Shown \in Nat BY <1>3, SetOf, HistoryAssumption
<1>5. k \in 0 .. Len(found) BY <1>4
<1> HIDE DEF k
<1>6. SubSeq(found, 1, k) \in Seq(RowsTo(m)) /\ ToSet(SubSeq(found, 1, k)) \subseteq ToSet(found) BY <1>3, <1>5, SplitAt
<1> QED BY <1>1, <1>2, <1>3, <1>6

\* A table that comes after t: its rows are new, or keep the id and the command they had.
Follows(t, m, u, k) ==
    /\ k \in Nat /\ m <= k /\ Table(u, k)
    /\ \A e \in ToSet(u) : (e.id \notin 1 .. m) \/ \E f \in ToSet(t) : f.id = e.id /\ f.command = e.command

\* An id goes on to mean what it meant.
LEMMA MeansOn ==
    ASSUME NEW t, NEW m \in Nat, NEW u, NEW k, Follows(t, m, u, k), NEW id, NEW command, Means(t, m, id, command)
    PROVE  Means(u, k, id, command)
<1>1. id \in 1 .. m /\ command \in Commands /\ k \in Nat /\ m <= k BY DEF Means, Follows
<1>2. id \in 1 .. k BY <1>1
<1>3. \A e \in ToSet(u) : e.id = id => e.command = command BY <1>1 DEF Follows, Means
<1> QED BY <1>1, <1>2, <1>3 DEF Means

\* A row means its own command.
LEMMA RowMeans ==
    ASSUME NEW t, NEW m, Table(t, m), NEW e \in ToSet(t)
    PROVE  Means(t, m, e.id, e.command)
<1>1. e.id \in 1 .. m /\ e.command \in Commands BY InTableIs
<1> QED BY <1>1 DEF Means, Table

\* A part of a table comes after it.
LEMMA PartFollows ==
    ASSUME NEW t, NEW m \in Nat, Table(t, m), NEW S
    PROVE  Follows(t, m, Only(t, S), m) /\ \A e \in ToSet(t) : e \in S => e \in ToSet(Only(t, S))
<1>1. Table(Only(t, S), m) /\ ToSet(Only(t, S)) = ToSet(t) \cap S BY PartTable
<1> QED BY <1>1 DEF Follows

\* A command is put at the end, whether it was there or not.
LEMMA UpsertedIs ==
    ASSUME made \in Nat, Table(history, made), NEW command \in Commands,
           NEW k, k = IF Of(history, command) = {} THEN made + 1 ELSE made, NEW u, u = Upserted(history, command)
    PROVE  Follows(history, made, u, k) /\ ToSet(history) \subseteq ToSet(u)
<1> DEFINE others == OthersOf(history, command)
<1>1. Table(others, made) /\ ToSet(others) = {e \in ToSet(history) : e.command # command}
  <2>1. ToSet(others) = ToSet(history) \cap {e \in ToSet(history) : e.command # command} /\ Table(others, made)
    BY PartTable DEF OthersOf
  <2> QED BY <2>1
<1>2. u = Append(others, IF Of(history, command) = {} THEN Entry(made + 1, command, NoNote, FALSE)
                         ELSE history[Newest(Of(history, command))]) BY DEF Upserted, FreshId
<1> HIDE DEF others
<1>3. CASE Of(history, command) = {}
  <2> DEFINE x == Entry(made + 1, command, NoNote, FALSE)
  <2>1. x.id = made + 1 /\ x.command = command /\ x \in RowsTo(made + 1)
    <3>1. NoNote \in Notes /\ made + 1 \in 1 .. made + 1 BY HistoryAssumption
    <3> QED BY <3>1 DEF Entry, RowsTo
  <2>2. u = Append(others, x) /\ k = made + 1 BY <1>2, <1>3
  <2> HIDE DEF x
  <2>3. \A f \in ToSet(others) : f.id # x.id /\ f.command # x.command
    <3>1. \A f \in ToSet(others) : f.id \in 1 .. made BY <1>1, InTableIs
    <3> QED BY <3>1, <1>1, <2>1
  <2>4. Table(u, k) /\ ToSet(u) = ToSet(others) \cup {x} BY <1>1, <2>1, <2>2, <2>3, MoreTable
  <2>5. \A e \in ToSet(history) : e.command # command BY <1>3, InTableIs DEF Of
  <2>6. ToSet(history) \subseteq ToSet(u) BY <1>1, <2>4, <2>5
  <2>7. \A e \in ToSet(u) : (e.id \notin 1 .. made) \/ e \in ToSet(history) BY <1>1, <2>1, <2>4
  <2>8. k \in Nat /\ made <= k BY <2>2
  <2> QED BY <2>4, <2>6, <2>7, <2>8 DEF Follows
<1>4. CASE Of(history, command) # {}
  <2> DEFINE x == history[Newest(Of(history, command))]
  <2>1. x.command = command /\ x \in ToSet(history) /\ x \in RowsTo(made)
    <3>1. Len(history) \in Nat /\ Of(history, command) \in SUBSET (1 .. Len(history)) BY InTableIs DEF Of
    <3>2. Newest(Of(history, command)) \in Of(history, command) BY <1>4, <3>1, NewestIs
    <3>3. x.command = command /\ x \in ToSet(history) BY <3>2, InTableIs DEF Of
    <3> QED BY <3>3, InTableIs
  <2>2. u = Append(others, x) /\ k = made BY <1>2, <1>4
  <2> HIDE DEF x
  <2>3. \A f \in ToSet(others) : f.id # x.id /\ f.command # x.command
    <3>1. \A f \in ToSet(others) : f \in ToSet(history) /\ f.command # x.command BY <1>1, <2>1
    <3> QED BY <3>1, <2>1 DEF Table
  <2>4. made <= made /\ Table(u, k) /\ ToSet(u) = ToSet(others) \cup {x}
    <3>1. made <= made OBVIOUS
    <3> QED BY <3>1, <1>1, <2>1, <2>2, <2>3, MoreTable
  <2>5. \A e \in ToSet(history) : e.command = command => e = x BY <2>1 DEF Table
  <2>6. ToSet(history) \subseteq ToSet(u) BY <1>1, <2>4, <2>5
  <2>7. \A e \in ToSet(u) : e \in ToSet(history) BY <1>1, <2>1, <2>4
  <2> QED BY <2>2, <2>4, <2>6, <2>7 DEF Follows
<1> QED BY <1>3, <1>4

\* The limit takes rows away, and no favourite.
LEMMA PrunedIs ==
    ASSUME NEW t, NEW m, Table(t, m)
    PROVE  /\ Table(Pruned(t), m) /\ ToSet(Pruned(t)) \subseteq ToSet(t)
           /\ \A e \in ToSet(t) : e.favorite => e \in ToSet(Pruned(t))
<1> DEFINE plain(i) == Cardinality({j \in i .. Len(t) : ~t[j].favorite})
           S == {t[i] : i \in {j \in DOMAIN t : t[j].favorite \/ plain(j) <= Limit}}
<1>1. Pruned(t) = Only(t, S) BY DEF Pruned
<1>2. \A e \in ToSet(t) : e.favorite => e \in S
  <2> SUFFICES ASSUME NEW e \in ToSet(t), e.favorite PROVE e \in S OBVIOUS
  <2>1. PICK i \in DOMAIN t : t[i] = e BY InTableIs
  <2>2. i \in {j \in DOMAIN t : t[j].favorite \/ plain(j) <= Limit} BY <2>1
  <2> QED BY <2>1, <2>2
<1> HIDE DEF S
<1>3. Table(Only(t, S), m) /\ ToSet(Only(t, S)) = ToSet(t) \cap S BY PartTable
<1> QED BY <1>1, <1>2, <1>3

\* A command that is recorded: the favourites stay.
LEMMA RecordedIs ==
    ASSUME made \in Nat, Table(history, made), NEW command \in Commands,
           NEW k, k = IF Of(history, command) = {} THEN made + 1 ELSE made, NEW u, u = Pruned(Upserted(history, command))
    PROVE  Follows(history, made, u, k) /\ \A e \in ToSet(history) : e.favorite => e \in ToSet(u)
<1> DEFINE v == Upserted(history, command)
<1>1. Follows(history, made, v, k) /\ ToSet(history) \subseteq ToSet(v) BY UpsertedIs
<1> HIDE DEF v
<1>2. /\ Table(u, k) /\ ToSet(u) \subseteq ToSet(v)
      /\ \A e \in ToSet(v) : e.favorite => e \in ToSet(u) BY <1>1, PrunedIs DEF Follows, v
<1> QED BY <1>1, <1>2 DEF Follows

----
(* The changes of a row. *)

\* A change of the row with an id: the table goes on, and the other rows stay.
RowChanged(u, id) ==
    Follows(history, made, u, made) /\ \A e \in ToSet(history) : e.id # id => e \in ToSet(u)

\* A change that touches the note and the star of one row.
LEMMA TouchIs ==
    ASSUME made \in Nat, Table(history, made), NEW id, NEW u, DOMAIN u = DOMAIN history, u = [i \in DOMAIN history |-> u[i]],
           \A i \in DOMAIN history : /\ u[i] \in RowsTo(made) /\ u[i].id = history[i].id /\ u[i].command = history[i].command
                                     /\ history[i].id # id => u[i] = history[i]
    PROVE  /\ RowChanged(u, id)
           /\ \A command : Means(history, made, id, command) => OthersOf(u, command) = OthersOf(history, command)
<1>1. Table(u, made) /\ Len(u) = Len(history) /\ \A e \in ToSet(u) : \E f \in ToSet(history) : f.id = e.id /\ f.command = e.command
  BY SameTable
<1>2. made <= made OBVIOUS
<1>3. /\ DOMAIN history = 1 .. Len(history) /\ history \in Seq(RowsTo(made))
      /\ \A e \in ToSet(history) : \E i \in DOMAIN history : history[i] = e
      /\ \A i \in DOMAIN history : history[i] \in ToSet(history) BY InTableIs
<1>4. u \in Seq(RowsTo(made)) /\ \A i \in DOMAIN u : u[i] \in ToSet(u) BY <1>1, InTableIs
<1>5. \A e \in ToSet(history) : e.id # id => e \in ToSet(u) BY <1>3, <1>4
<1>6. ASSUME NEW command, Means(history, made, id, command) PROVE OthersOf(u, command) = OthersOf(history, command)
  <2> DEFINE S == {e \in ToSet(history) : e.command # command}
             T == {e \in ToSet(u) : e.command # command}
  <2>1. \A i \in DOMAIN history : history[i].command # command => history[i].id # id BY <1>3, <1>6 DEF Means
  <2>2. \A i \in 1 .. Len(history) : (history[i] \in S <=> u[i] \in T) /\ (history[i] \in S => history[i] = u[i])
    BY <1>3, <1>4, <2>1
  <2>3. Len(history) <= Len(u) BY <1>1, <1>3
  <2> HIDE DEF S
  <2> HIDE DEF T
  <2>4. history \in Seq(RowsTo(made)) /\ u \in Seq(RowsTo(made)) /\ Len(history) = Len(u) BY <1>1, <1>3, <1>4
  <2>5. Len(history) = Len(u) => Only(history, S) = Only(u, T) BY <2>2, <2>3, <2>4, OnlySide
  <2> QED BY <2>4, <2>5 DEF OthersOf, S, T
<1> QED BY <1>1, <1>2, <1>5, <1>6 DEF RowChanged, Follows

\* A star or a note is set on the row with an id.
LEMMA WithIs ==
    ASSUME made \in Nat, Table(history, made), NEW id, NEW u,
           (\E favorite \in BOOLEAN : u = WithFavorite(history, id, favorite)) \/ (\E note \in Notes : u = WithNote(history, id, note))
    PROVE  /\ RowChanged(u, id)
           /\ \A command : Means(history, made, id, command) => OthersOf(u, command) = OthersOf(history, command)
<1>1. \A i \in DOMAIN history : history[i] \in RowsTo(made) BY InTableIs
<1>2. DOMAIN u = DOMAIN history /\ u = [i \in DOMAIN history |-> u[i]] BY DEF WithFavorite, WithNote
<1>3. \A i \in DOMAIN history :
          /\ u[i] \in RowsTo(made) /\ u[i].id = history[i].id /\ u[i].command = history[i].command
          /\ history[i].id # id => u[i] = history[i]
  <2> SUFFICES ASSUME NEW i \in DOMAIN history
               PROVE  /\ u[i] \in RowsTo(made) /\ u[i].id = history[i].id /\ u[i].command = history[i].command
                      /\ history[i].id # id => u[i] = history[i] OBVIOUS
  <2>1. \/ u[i] = history[i] /\ history[i].id # id
        \/ \E favorite \in BOOLEAN : u[i] = [history[i] EXCEPT !.favorite = favorite] /\ history[i].id = id
        \/ \E note \in Notes : u[i] = [history[i] EXCEPT !.note = note] /\ history[i].id = id
    BY DEF WithFavorite, WithNote
  <2> DEFINE e == history[i]
  <2>2. e \in RowsTo(made) BY <1>1
  <2>3. \A favorite \in BOOLEAN : LET v == [e EXCEPT !.favorite = favorite] IN v \in RowsTo(made) /\ v.id = e.id /\ v.command = e.command
    BY <2>2 DEF RowsTo
  <2>4. \A note \in Notes : LET v == [e EXCEPT !.note = note] IN v \in RowsTo(made) /\ v.id = e.id /\ v.command = e.command
    BY <2>2 DEF RowsTo
  <2> QED BY <2>1, <2>2, <2>3, <2>4
<1> QED BY <1>2, <1>3, TouchIs

\* The row with an id is deleted.
LEMMA WithoutIs ==
    ASSUME made \in Nat, Table(history, made), NEW id, NEW u, u = WithoutId(history, id)
    PROVE  /\ RowChanged(u, id)
           /\ \A command : Means(history, made, id, command) => OthersOf(u, command) = OthersOf(history, command)
<1> DEFINE A == {e \in ToSet(history) : e.id # id}
<1>1. u = Only(history, A) BY DEF WithoutId
<1>2. \A e \in ToSet(history) : e.id # id => e \in A OBVIOUS
<1>3. ToSet(history) \cap A = A OBVIOUS
<1>4. ASSUME NEW command, Means(history, made, id, command) PROVE OthersOf(u, command) = OthersOf(history, command)
  <2> DEFINE B == {e \in ToSet(history) : e.command # command}
             C == {e \in A : e.command # command}
  <2>1. ToSet(u) = A BY <1>1, <1>3, PartTable
  <2>2. B \subseteq A /\ C = B BY <1>4 DEF Means
  <2>3. history \in Seq(RowsTo(made)) BY InTableIs
  <2>4. OthersOf(u, command) = Only(u, C) BY <2>1 DEF OthersOf
  <2>5. OthersOf(history, command) = Only(history, B) BY DEF OthersOf
  <2> HIDE DEF A
  <2> HIDE DEF B
  <2> HIDE DEF C
  <2>6. Only(Only(history, A), B) = Only(history, B) BY <2>2, <2>3, OnlyOnly
  <2> QED BY <1>1, <2>2, <2>4, <2>5, <2>6
<1> HIDE DEF A
<1>5. Follows(history, made, u, made) /\ \A e \in ToSet(history) : e \in A => e \in ToSet(u) BY <1>1, PartFollows
<1> QED BY <1>2, <1>4, <1>5 DEF RowChanged

\* All stars are taken away.
LEMMA UnstarredIs ==
    ASSUME made \in Nat, Table(history, made)
    PROVE  Follows(history, made, [i \in DOMAIN history |-> [history[i] EXCEPT !.favorite = FALSE]], made)
<1> DEFINE u == [i \in DOMAIN history |-> [history[i] EXCEPT !.favorite = FALSE]]
<1>1. \A i \in DOMAIN history : history[i] \in RowsTo(made) BY InTableIs
<1>2. DOMAIN u = DOMAIN history /\ u = [i \in DOMAIN history |-> u[i]] OBVIOUS
<1>3. \A e \in RowsTo(made) : LET v == [e EXCEPT !.favorite = FALSE] IN v \in RowsTo(made) /\ v.id = e.id /\ v.command = e.command
  BY DEF RowsTo
<1>4. \A i \in DOMAIN history : u[i] \in RowsTo(made) /\ u[i].id = history[i].id /\ u[i].command = history[i].command
  BY <1>1, <1>3
<1> HIDE DEF u
<1>5. Table(u, made) /\ \A e \in ToSet(u) : \E f \in ToSet(history) : f.id = e.id /\ f.command = e.command
  BY <1>2, <1>4, SameTable
<1>6. made <= made OBVIOUS
<1>7. Follows(history, made, u, made) BY <1>5, <1>6 DEF Follows
<1> QED BY <1>7 DEF u

----
(* The panels. *)

\* A panel that is not read again shows rows that may have grown old, and mean what they meant.
LEMMA PanelOn ==
    ASSUME NEW t, NEW m \in Nat, NEW u, NEW k, Follows(t, m, u, k), NEW x, PanelSound(x, t, m)
    PROVE  PanelSound(x, u, k)
<1>1. k \in Nat /\ m <= k BY DEF Follows
<1>2. RowsTo(m) \subseteq RowsTo(k) BY <1>1, RowsGrow
<1>3. x.rows \in Seq(RowsTo(k)) BY <1>2 DEF PanelSound
<1>4. \A r \in ToSet(x.rows) : Means(u, k, r.id, r.command) BY MeansOn DEF PanelSound
<1> QED BY <1>3, <1>4 DEF PanelSound

\* The dialog of a row goes on to mean the row's command.
LEMMA DialogOn ==
    ASSUME NEW t, NEW m \in Nat, NEW u, NEW k, Follows(t, m, u, k), NEW d, DialogSound(d, t, m)
    PROVE  DialogSound(d, u, k)
BY MeansOn DEF DialogSound

\* A panel that is read again.
LEMMA RefreshedIs ==
    ASSUME NEW t, NEW m, NEW x, PanelSound(x, t, m), NEW u, NEW k \in Nat, Table(u, k)
    PROVE  PanelSound(Refreshed(x, u), u, k)
<1> DEFINE r == LoadCommandHistory(u, x.starred, x.search)
           y == Refreshed(x, u)
<1>1. r \in Seq(RowsTo(k)) /\ ToSet(r) \subseteq ToSet(u) BY LoadIs
<1>2. \A e \in ToSet(r) : Means(u, k, e.id, e.command) BY <1>1, RowMeans
<1>3. y = [x EXCEPT !.due = FALSE, !.current = 0, !.rows = r] BY DEF Refreshed
<1>4. Len(r) \in Nat BY <1>1, SetOf
<1> HIDE DEF r
<1>5. y = [visible |-> x.visible, starred |-> x.starred, search |-> x.search, due |-> FALSE, rows |-> r, current |-> 0]
  BY <1>3 DEF PanelSound
<1> HIDE DEF y
<1>6. /\ y.visible = x.visible /\ y.starred = x.starred /\ y.search = x.search /\ y.due = FALSE /\ y.rows = r /\ y.current = 0
      /\ y = [visible |-> y.visible, starred |-> y.starred, search |-> y.search, due |-> y.due, rows |-> y.rows, current |-> y.current]
  BY <1>5
<1>7. 0 \in 0 .. Len(r) BY <1>4
<1>8. x.visible \in BOOLEAN /\ x.starred \in BOOLEAN /\ x.search \in Searches \cup {Anything} BY DEF PanelSound
<1>9. PanelSound(y, u, k) BY <1>1, <1>2, <1>6, <1>7, <1>8 DEF PanelSound
<1> QED BY <1>9 DEF y

\* A step of the users that keeps the table or lets it go on, and leaves panels and dialogs sound.
LEMMA GoesOn ==
    ASSUME HistoryInv, old = <<>>, old' = old, Follows(history, made, history', made'),
           panel' = [q \in Panes |-> panel'[q]], dialog' = [q \in Panes |-> dialog'[q]],
           \A q \in Panes : panel'[q] = panel[q] \/ PanelSound(panel'[q], history', made'),
           \A q \in Panes : dialog'[q] = dialog[q] \/ DialogSound(dialog'[q], history', made')
    PROVE  HistoryInv'
<1>1. made \in Nat BY DEF HistoryInv
<1>2. \A q \in Panes : PanelSound(panel[q], history', made') /\ DialogSound(dialog[q], history', made')
  BY <1>1, PanelOn, DialogOn DEF HistoryInv
<1>3. \A q \in Panes : PanelSound(panel'[q], history', made') /\ DialogSound(dialog'[q], history', made') BY <1>2
<1>4. old' = <<>> /\ old' \in OldTables \cup {<<>>} OBVIOUS
<1>5. made' \in Nat /\ Table(history', made') BY DEF Follows
<1> QED BY <1>3, <1>4, <1>5 DEF HistoryInv

\* The table goes on if it stays.
LEMMA SameFollows ==
    ASSUME HistoryInv
    PROVE  Follows(history, made, history, made)
<1>1. made <= made /\ made \in Nat BY DEF HistoryInv
<1> QED BY <1>1 DEF Follows, HistoryInv

\* The row a menu was opened on means the command that it shows.
LEMMA RowIs ==
    ASSUME HistoryInv, NEW p \in Panes, Acts(p)
    PROVE  /\ Means(history, made, Row(p).id, Row(p).command) /\ Row(p).favorite \in BOOLEAN /\ Row(p).command \in Commands
           /\ old = <<>> /\ dialog[p] = NoDialog
<1> DEFINE x == panel[p]
<1>1. /\ x.rows \in Seq(RowsTo(made)) /\ x.current \in 0 .. Len(x.rows)
      /\ \A r \in ToSet(x.rows) : Means(history, made, r.id, r.command) BY DEF HistoryInv, PanelSound
<1>2. Len(x.rows) \in Nat /\ \A i \in 1 .. Len(x.rows) : x.rows[i] \in RowsTo(made) /\ x.rows[i] \in ToSet(x.rows) BY <1>1, SetOf
<1>3. x.current > 0 /\ old = <<>> /\ dialog[p] = NoDialog BY DEF Acts, Free
<1>4. x.current \in 1 .. Len(x.rows) BY <1>1, <1>2, <1>3
<1>5. Row(p) \in RowsTo(made) /\ Row(p) \in ToSet(x.rows) BY <1>2, <1>4 DEF Row
<1>6. Row(p).favorite \in BOOLEAN /\ Row(p).command \in Commands BY <1>5 DEF RowsTo
<1> QED BY <1>1, <1>3, <1>5, <1>6

----
(* The steps. *)

\* A favourite stays, or a user acts on its command or takes all stars away.
FavoritesStay ==
    \A e \in ToSet(history) : e.favorite =>
        \/ e \in ToSet(history')
        \/ \E p \in Panes : ActsOn(p, e.command) \/ ClearFavorites(p)

\* A refreshed panel among the others.
LEMMA RefreshIs ==
    ASSUME HistoryInv, NEW p \in Panes, Table(history', made'), made' \in Nat, Refresh(p, history')
    PROVE  /\ panel' = [q \in Panes |-> panel'[q]]
           /\ \A q \in Panes : panel'[q] = panel[q] \/ PanelSound(panel'[q], history', made')
<1>1. panel = [q \in Panes |-> panel[q]] /\ PanelSound(panel[p], history, made) BY DEF HistoryInv
<1>2. PanelSound(Refreshed(panel[p], history'), history', made') BY <1>1, RefreshedIs
<1>3. panel' = [panel EXCEPT ![p] = Refreshed(panel[p], history')] BY DEF Refresh
<1>4. panel' = [q \in Panes |-> IF q = p THEN Refreshed(panel[p], history') ELSE panel[q]] BY <1>1, <1>3
<1> QED BY <1>2, <1>4

\* A table or a dialog that stays.
LEMMA SameParts ==
    ASSUME HistoryInv
    PROVE  /\ UNCHANGED panel => panel' = [q \in Panes |-> panel'[q]] /\ \A q \in Panes : panel'[q] = panel[q]
           /\ UNCHANGED dialog => dialog' = [q \in Panes |-> dialog'[q]] /\ \A q \in Panes : dialog'[q] = dialog[q]
           /\ history' = history => FavoritesStay
BY Zenon DEF HistoryInv, FavoritesStay

\* A command is recorded, from the terminal, the input line or a row.
LEMMA ActRecord ==
    ASSUME HistoryInv, old = <<>>, NEW p \in Panes, NEW command \in Commands, RecordCommand(p, command)
    PROVE  HistoryInv' /\ FavoritesStay
<1>1. made \in Nat /\ Table(history, made) BY DEF HistoryInv
<1>2. /\ made' = IF Of(history, command) = {} THEN made + 1 ELSE made
      /\ history' = Pruned(Upserted(history, command)) /\ old' = old /\ UNCHANGED dialog
      /\ Refresh(p, history') \/ UNCHANGED panel BY DEF RecordCommand, FreshId
<1>3. Follows(history, made, history', made') /\ \A e \in ToSet(history) : e.favorite => e \in ToSet(history')
  BY <1>1, <1>2, RecordedIs
<1>4. Table(history', made') /\ made' \in Nat BY <1>3 DEF Follows
<1>5. /\ panel' = [q \in Panes |-> panel'[q]]
      /\ \A q \in Panes : panel'[q] = panel[q] \/ PanelSound(panel'[q], history', made')
  BY <1>2, <1>4, RefreshIs, SameParts
<1>6. dialog' = [q \in Panes |-> dialog'[q]] /\ \A q \in Panes : dialog'[q] = dialog[q] BY <1>2, SameParts
<1>7. HistoryInv' BY <1>2, <1>3, <1>5, <1>6, GoesOn
<1> QED BY <1>3, <1>7 DEF FavoritesStay

\* A look at a panel: the panel alone changes.
LEMMA LookIs ==
    ASSUME HistoryInv, old = <<>>, NEW p \in Panes, UNCHANGED <<old, history, made, dialog>>,
           NEW y, panel' = [panel EXCEPT ![p] = y], PanelSound(y, history, made)
    PROVE  HistoryInv' /\ FavoritesStay
<1>1. Follows(history, made, history', made') BY SameFollows
<1>2. panel = [q \in Panes |-> panel[q]] BY DEF HistoryInv
<1>3. panel' = [q \in Panes |-> panel'[q]] /\ \A q \in Panes : panel'[q] = panel[q] \/ PanelSound(panel'[q], history', made')
  BY <1>2
<1>4. dialog' = [q \in Panes |-> dialog'[q]] /\ (\A q \in Panes : dialog'[q] = dialog[q]) /\ FavoritesStay BY SameParts
<1>5. HistoryInv' BY <1>1, <1>3, <1>4, GoesOn
<1> QED BY <1>4, <1>5

\* What the user does with a panel without acting on a row.
LEMMA ActLook ==
    ASSUME HistoryInv, NEW p \in Panes,
           \/ Show(p) \/ Hide(p) \/ SwitchTab(p) \/ Search(p)
           \/ \E search \in Searches \cup {Anything} : TypeSearch(p, search)
           \/ \E row \in 1 .. Shown : OpenMenu(p, row)
    PROVE  HistoryInv' /\ FavoritesStay
<1> DEFINE x == panel[p]
<1>1. PanelSound(x, history, made) /\ Table(history, made) /\ made \in Nat BY DEF HistoryInv
<1>2. old = <<>> /\ UNCHANGED <<old, history, made, dialog>>
  <2>1. x.due => old = <<>>
    <3>1. old # <<>> => x = NewPanel BY DEF HistoryInv
    <3> QED BY <3>1 DEF NewPanel
  <2>2. ASSUME Search(p) PROVE old = <<>> /\ UNCHANGED <<old, history, made, dialog>> BY <2>1, <2>2 DEF Search
  <2>3. ASSUME Looks(p) PROVE old = <<>> /\ UNCHANGED <<old, history, made, dialog>> BY <2>3 DEF Looks, Free
  <2> QED BY <2>2, <2>3 DEF Show, Hide, SwitchTab, TypeSearch, OpenMenu
<1>3. \A y : PanelSound(y, history, made) => PanelSound(Refreshed(y, history), history, made) BY <1>1, RefreshedIs
<1>4. \A y : PanelSound(y, history, made) =>
          /\ \A b \in BOOLEAN : PanelSound([y EXCEPT !.visible = b], history, made) /\ PanelSound([y EXCEPT !.starred = b], history, made)
          /\ \A s \in Searches \cup {Anything} : /\ PanelSound([y EXCEPT !.search = s], history, made)
                                                 /\ PanelSound([y EXCEPT !.search = s, !.due = TRUE], history, made)
          /\ \A row \in DOMAIN y.rows : PanelSound([y EXCEPT !.current = row], history, made)
  <2> SUFFICES ASSUME NEW y, PanelSound(y, history, made)
               PROVE  /\ \A b \in BOOLEAN : PanelSound([y EXCEPT !.visible = b], history, made) /\ PanelSound([y EXCEPT !.starred = b], history, made)
                      /\ \A s \in Searches \cup {Anything} : /\ PanelSound([y EXCEPT !.search = s], history, made)
                                                             /\ PanelSound([y EXCEPT !.search = s, !.due = TRUE], history, made)
                      /\ \A row \in DOMAIN y.rows : PanelSound([y EXCEPT !.current = row], history, made)
    OBVIOUS
  <2>1. \A b \in BOOLEAN : PanelSound([y EXCEPT !.visible = b], history, made) BY DEF PanelSound
  <2>2. \A b \in BOOLEAN : PanelSound([y EXCEPT !.starred = b], history, made) BY DEF PanelSound
  <2>3. \A s \in Searches \cup {Anything} : PanelSound([y EXCEPT !.search = s], history, made) BY DEF PanelSound
  <2>4. \A s \in Searches \cup {Anything} : PanelSound([y EXCEPT !.search = s, !.due = TRUE], history, made)
    <3> SUFFICES ASSUME NEW s \in Searches \cup {Anything} PROVE PanelSound([y EXCEPT !.search = s, !.due = TRUE], history, made) OBVIOUS
    <3> DEFINE z == [y EXCEPT !.search = s]
    <3>1. PanelSound(z, history, made) BY <2>3
    <3>2. [y EXCEPT !.search = s, !.due = TRUE] = [z EXCEPT !.due = TRUE] OBVIOUS
    <3> HIDE DEF z
    <3>3. \A b \in BOOLEAN : PanelSound([z EXCEPT !.due = b], history, made) BY <3>1 DEF PanelSound
    <3>4. PanelSound([z EXCEPT !.due = TRUE], history, made) BY <3>3
    <3> QED BY <3>2, <3>4
  <2>5. DOMAIN y.rows = 1 .. Len(y.rows) /\ Len(y.rows) \in Nat BY SetOf DEF PanelSound
  <2>6. \A row \in DOMAIN y.rows : row \in 0 .. Len(y.rows) BY <2>5
  <2>7. \A row \in DOMAIN y.rows : PanelSound([y EXCEPT !.current = row], history, made) BY <2>6 DEF PanelSound
  <2> QED BY <2>1, <2>2, <2>3, <2>4, <2>7
<1>5. \E y : panel' = [panel EXCEPT ![p] = y] /\ PanelSound(y, history, made)
  <2>1. CASE Show(p)
    <3> DEFINE y == [Refreshed(x, history) EXCEPT !.visible = TRUE]
    <3>1. panel' = [panel EXCEPT ![p] = y] BY <2>1 DEF Show
    <3>2. PanelSound(y, history, made) BY <1>1, <1>3, <1>4
    <3> QED BY <3>1, <3>2
  <2>2. CASE Hide(p)
    <3> DEFINE y == [x EXCEPT !.visible = FALSE]
    <3>1. panel' = [panel EXCEPT ![p] = y] BY <2>2 DEF Hide
    <3>2. PanelSound(y, history, made) BY <1>1, <1>4
    <3> QED BY <3>1, <3>2
  <2>3. CASE SwitchTab(p)
    <3> DEFINE z == [x EXCEPT !.starred = ~x.starred]
               y == Refreshed(z, history)
    <3>1. panel' = [panel EXCEPT ![p] = y] BY <2>3 DEF SwitchTab
    <3>2. (~x.starred) \in BOOLEAN OBVIOUS
    <3>3. PanelSound(z, history, made) BY <1>1, <1>4, <3>2
    <3> HIDE DEF z
    <3>4. PanelSound(y, history, made) BY <1>3, <3>3
    <3> HIDE DEF y
    <3> QED BY <3>1, <3>4
  <2>4. CASE Search(p)
    <3>1. panel' = [panel EXCEPT ![p] = Refreshed(x, history)] BY <2>4 DEF Search, Refresh
    <3>2. PanelSound(Refreshed(x, history), history, made) BY <1>1, <1>3
    <3> QED BY <3>1, <3>2
  <2>5. CASE \E search \in Searches \cup {Anything} : TypeSearch(p, search)
    <3>1. PICK s \in Searches \cup {Anything} : TypeSearch(p, s) BY <2>5
    <3> DEFINE z == [x EXCEPT !.search = s]
               v == [x EXCEPT !.search = s, !.due = TRUE]
               w == Refreshed(z, history)
    <3>2. panel' = [panel EXCEPT ![p] = IF s = Anything THEN w ELSE v] BY <3>1 DEF TypeSearch
    <3>3. PanelSound(z, history, made) /\ PanelSound(v, history, made) BY <1>1, <1>4
    <3> HIDE DEF z
    <3> HIDE DEF v
    <3>4. PanelSound(w, history, made) BY <1>3, <3>3
    <3> HIDE DEF w
    <3> DEFINE y == IF s = Anything THEN w ELSE v
    <3>5. PanelSound(y, history, made) BY <3>3, <3>4
    <3>6. panel' = [panel EXCEPT ![p] = y] BY <3>2
    <3> HIDE DEF y
    <3> QED BY <3>5, <3>6
  <2>6. CASE \E row \in 1 .. Shown : OpenMenu(p, row)
    <3>1. PICK row \in 1 .. Shown : OpenMenu(p, row) BY <2>6
    <3> DEFINE y == [x EXCEPT !.current = row]
    <3>2. panel' = [panel EXCEPT ![p] = y] /\ row \in DOMAIN x.rows BY <3>1 DEF OpenMenu
    <3>3. PanelSound(y, history, made) BY <1>1, <1>4, <3>2
    <3> QED BY <3>2, <3>3
  <2> QED BY <2>1, <2>2, <2>3, <2>4, <2>5, <2>6
<1> QED BY <1>2, <1>5, LookIs

\* The table goes on by the change of one row.
LEMMA ChangeIs ==
    ASSUME HistoryInv, old = <<>>, NEW p \in Panes, NEW id, NEW table, Changes(p, id, table), RowChanged(table, id),
           dialog' = [q \in Panes |-> dialog'[q]],
           \A q \in Panes : dialog'[q] = dialog[q] \/ DialogSound(dialog'[q], history', made')
    PROVE  HistoryInv' /\ \A e \in ToSet(history) : e.id # id => e \in ToSet(history')
<1>1. history' = table /\ old' = old /\ made' = made /\ (Refresh(p, history') \/ UNCHANGED panel) BY DEF Changes
<1>2. Follows(history, made, history', made') /\ \A e \in ToSet(history) : e.id # id => e \in ToSet(history')
  BY <1>1 DEF RowChanged
<1>3. Table(history', made') /\ made' \in Nat BY <1>2 DEF Follows
<1>4. /\ panel' = [q \in Panes |-> panel'[q]]
      /\ \A q \in Panes : panel'[q] = panel[q] \/ PanelSound(panel'[q], history', made')
  BY <1>1, <1>3, RefreshIs, SameParts
<1>5. HistoryInv' BY <1>1, <1>2, <1>4, GoesOn
<1> QED BY <1>2, <1>5

\* The user's act on a row: it is the row of the command that the panel shows.
LEMMA ActRow ==
    ASSUME HistoryInv, NEW p \in Panes, ToggleFavorite(p) \/ DeleteRow(p)
    PROVE  HistoryInv' /\ FavoritesStay /\ OthersOf(history', Row(p).command) = OthersOf(history, Row(p).command)
<1> DEFINE id == Row(p).id
           command == Row(p).command
           fresh == WithFavorite(history, id, ~Row(p).favorite)
<1>1. Acts(p) /\ UNCHANGED dialog /\ (Changes(p, id, fresh) \/ Changes(p, id, WithoutId(history, id)))
  BY DEF ToggleFavorite, DeleteRow
<1>2. Means(history, made, id, command) /\ Row(p).favorite \in BOOLEAN /\ old = <<>> BY <1>1, RowIs
<1>3. made \in Nat /\ Table(history, made) BY DEF HistoryInv
<1>4. (~Row(p).favorite) \in BOOLEAN OBVIOUS
<1>5. \E favorite \in BOOLEAN : fresh = WithFavorite(history, id, favorite) BY <1>4
<1> HIDE DEF fresh
<1> HIDE DEF id
<1> HIDE DEF command
<1>6. RowChanged(fresh, id) /\ OthersOf(fresh, command) = OthersOf(history, command) BY <1>2, <1>3, <1>5, WithIs
<1>7. RowChanged(WithoutId(history, id), id) /\ OthersOf(WithoutId(history, id), command) = OthersOf(history, command)
  BY <1>2, <1>3, WithoutIs
<1>8. PICK t : Changes(p, id, t) /\ RowChanged(t, id) /\ OthersOf(t, command) = OthersOf(history, command) BY <1>1, <1>6, <1>7
<1>9. dialog' = [q \in Panes |-> dialog'[q]] /\ \A q \in Panes : dialog'[q] = dialog[q] BY <1>1, SameParts
<1>10. HistoryInv' /\ \A e \in ToSet(history) : e.id # id => e \in ToSet(history') BY <1>2, <1>8, <1>9, ChangeIs
<1>11. history' = t BY <1>8 DEF Changes
<1>12. \A e \in ToSet(history) : e.id = id => ActsOn(p, e.command) BY <1>1, <1>2 DEF Means, ActsOn, id, command
<1>13. FavoritesStay BY <1>10, <1>12 DEF FavoritesStay
<1> QED BY <1>8, <1>10, <1>11, <1>13 DEF command

\* The note that a dialog asked for goes to the command it was opened on.
LEMMA ActSetNote ==
    ASSUME HistoryInv, NEW p \in Panes, NEW note \in Notes, SetNote(p, note)
    PROVE  HistoryInv' /\ FavoritesStay /\ OthersOf(history', dialog[p].command) = OthersOf(history, dialog[p].command)
<1> DEFINE id == dialog[p].id
           command == dialog[p].command
           t == WithNote(history, id, note)
<1>1. dialog[p].kind = "note" /\ dialog' = [dialog EXCEPT ![p] = NoDialog] /\ Changes(p, id, t) BY DEF SetNote, Answered
<1>2. Means(history, made, id, command) BY <1>1 DEF HistoryInv, DialogSound
<1>3. old = <<>>
  <2>1. old # <<>> => dialog[p] = NoDialog BY DEF HistoryInv
  <2> QED BY <1>1, <2>1 DEF NoDialog
<1>4. made \in Nat /\ Table(history, made) /\ dialog = [q \in Panes |-> dialog[q]] BY DEF HistoryInv
<1>5. RowChanged(t, id) /\ OthersOf(t, command) = OthersOf(history, command) BY <1>2, <1>4, WithIs
<1>6. dialog' = [q \in Panes |-> dialog'[q]] /\ \A q \in Panes : dialog'[q] = dialog[q] \/ DialogSound(dialog'[q], history', made')
  BY <1>1, <1>4 DEF DialogSound, NoDialog
<1>7. history' = t BY <1>1 DEF Changes
<1> HIDE DEF t
<1>8. HistoryInv' /\ \A e \in ToSet(history) : e.id # id => e \in ToSet(history') BY <1>1, <1>3, <1>5, <1>6, ChangeIs
<1>9. \A e \in ToSet(history) : e.id = id => ActsOn(p, e.command) BY <1>2 DEF Means, ActsOn
<1>10. FavoritesStay BY <1>8, <1>9 DEF FavoritesStay
<1> QED BY <1>5, <1>7, <1>8, <1>10

\* A question is asked or taken back.
LEMMA ActAsk ==
    ASSUME HistoryInv, NEW p \in Panes, EditNote(p) \/ ClearView(p) \/ Cancel(p)
    PROVE  HistoryInv' /\ FavoritesStay
<1>1. \E d : dialog' = [dialog EXCEPT ![p] = d] /\ DialogSound(d, history, made)
  <2>1. CASE EditNote(p)
    <3> DEFINE d == [kind |-> "note", id |-> Row(p).id, command |-> Row(p).command, starred |-> FALSE]
    <3>1. dialog' = [dialog EXCEPT ![p] = d] /\ Acts(p) BY <2>1 DEF EditNote, Asks
    <3>2. DialogSound(d, history, made) BY <3>1, RowIs DEF DialogSound
    <3> QED BY <3>1, <3>2
  <2>2. CASE ClearView(p)
    <3> DEFINE d == [kind |-> "clear", id |-> 0, command |-> Anything, starred |-> panel[p].starred]
    <3>1. dialog' = [dialog EXCEPT ![p] = d] BY <2>2 DEF ClearView, Asks
    <3>2. DialogSound(d, history, made) BY DEF DialogSound
    <3> QED BY <3>1, <3>2
  <2>3. CASE Cancel(p)
    <3>1. dialog' = [dialog EXCEPT ![p] = NoDialog] BY <2>3 DEF Cancel, Answered
    <3>2. DialogSound(NoDialog, history, made) BY DEF DialogSound, NoDialog
    <3> QED BY <3>1, <3>2
  <2> QED BY <2>1, <2>2, <2>3
<1>2. old = <<>> /\ UNCHANGED <<old, history, made, panel>>
  <2>1. old # <<>> => dialog[p] = NoDialog BY DEF HistoryInv
  <2> QED BY <2>1 DEF EditNote, ClearView, Cancel, Acts, Free, Asks
<1>3. Follows(history, made, history', made') BY <1>2, SameFollows
<1>4. dialog = [q \in Panes |-> dialog[q]] BY DEF HistoryInv
<1>5. PICK d : dialog' = [dialog EXCEPT ![p] = d] /\ DialogSound(d, history, made) BY <1>1
<1>6. dialog' = [q \in Panes |-> IF q = p THEN d ELSE dialog[q]] BY <1>4, <1>5
<1>7. DialogSound(d, history', made') BY <1>2, <1>5
<1>8. dialog' = [q \in Panes |-> dialog'[q]] /\ \A q \in Panes : dialog'[q] = dialog[q] \/ DialogSound(dialog'[q], history', made')
  BY <1>6, <1>7
<1>9. panel' = [q \in Panes |-> panel'[q]] /\ (\A q \in Panes : panel'[q] = panel[q]) /\ FavoritesStay BY <1>2, SameParts
<1>10. HistoryInv' BY <1>2, <1>3, <1>8, <1>9, GoesOn
<1> QED BY <1>9, <1>10

\* All stars, or all rows without one, are taken away.
LEMMA ActClear ==
    ASSUME HistoryInv, NEW p \in Panes, ClearFavorites(p) \/ ClearHistory(p)
    PROVE  HistoryInv' /\ FavoritesStay
<1> DEFINE S == {e \in ToSet(history) : e.favorite}
<1>1. /\ Answered(p, "clear") /\ UNCHANGED <<old, made>> /\ Refresh(p, history')
      /\ \/ history' = [i \in DOMAIN history |-> [history[i] EXCEPT !.favorite = FALSE]] /\ ClearFavorites(p)
         \/ history' = Only(history, S) BY DEF ClearFavorites, ClearHistory
<1>2. made \in Nat /\ Table(history, made) /\ dialog = [q \in Panes |-> dialog[q]] BY DEF HistoryInv
<1>3. dialog' = [dialog EXCEPT ![p] = NoDialog] /\ old = <<>>
  <2>1. old # <<>> => dialog[p] = NoDialog BY DEF HistoryInv
  <2> QED BY <1>1, <2>1 DEF Answered, NoDialog
<1>4. \A e \in ToSet(history) : e.favorite => e \in S OBVIOUS
<1> HIDE DEF S
<1>5. Follows(history, made, history', made') /\ (ClearFavorites(p) \/ \A e \in ToSet(history) : e.favorite => e \in ToSet(history'))
  <2>1. CASE history' = Only(history, S)
    <3>1. Follows(history, made, Only(history, S), made) /\ \A e \in ToSet(history) : e \in S => e \in ToSet(Only(history, S))
      BY <1>2, PartFollows
    <3> QED BY <1>1, <1>4, <2>1, <3>1
  <2>2. CASE ClearFavorites(p) /\ history' = [i \in DOMAIN history |-> [history[i] EXCEPT !.favorite = FALSE]]
    <3>1. Follows(history, made, [i \in DOMAIN history |-> [history[i] EXCEPT !.favorite = FALSE]], made) BY <1>2, UnstarredIs
    <3> QED BY <1>1, <2>2, <3>1
  <2> QED BY <1>1, <2>1, <2>2
<1>6. FavoritesStay BY <1>5 DEF FavoritesStay
<1>7. Table(history', made') /\ made' \in Nat BY <1>5 DEF Follows
<1>8. /\ panel' = [q \in Panes |-> panel'[q]]
      /\ \A q \in Panes : panel'[q] = panel[q] \/ PanelSound(panel'[q], history', made')
  BY <1>1, <1>7, RefreshIs
<1>9. dialog' = [q \in Panes |-> dialog'[q]] /\ \A q \in Panes : dialog'[q] = dialog[q] \/ DialogSound(dialog'[q], history', made')
  BY <1>2, <1>3 DEF DialogSound, NoDialog
<1>10. HistoryInv' BY <1>1, <1>3, <1>5, <1>8, <1>9, GoesOn
<1> QED BY <1>6, <1>10

----
(* The migration of an old table. *)

\* The rows of an old table in the order of their last execution, and the positions that they had.
LEMMA MergedIs ==
    ASSUME NEW o \in OldTables
    PROVE  /\ Table(Merged(o), Len(Merged(o))) /\ Len(Merged(o)) \in Nat
           /\ \A i \in DOMAIN o : \E k \in DOMAIN Merged(o) :
                  /\ Merged(o)[k].command = o[i].command /\ Merged(o)[k].note = MergedNote(o, o[i].command)
                  /\ Merged(o)[k].favorite = \E j \in Of(o, o[i].command) : o[j].favorite
<1> DEFINE n == Len(o)
           ids == [i \in DOMAIN o |-> i]
           S == {i \in DOMAIN o : i = Newest(Of(o, o[i].command))}
           last == Only(ids, S)
           star(command) == \E i \in Of(o, command) : o[i].favorite
           u == [k \in DOMAIN last |-> Entry(k, o[last[k]].command, MergedNote(o, o[last[k]].command), star(o[last[k]].command))]
<1>1. Merged(o) = u BY DEF Merged
<1>2. /\ n \in Nat /\ DOMAIN o = 1 .. n
      /\ \A i \in 1 .. n : o[i].command \in Commands /\ o[i].note \in Notes /\ o[i].favorite \in BOOLEAN
  <2> DEFINE R == [command : Commands, note : Notes, favorite : BOOLEAN]
  <2>1. o \in Seq(R) BY HistoryAssumption
  <2>2. \A r \in R : r.command \in Commands /\ r.note \in Notes /\ r.favorite \in BOOLEAN OBVIOUS
  <2> HIDE DEF R
  <2>3. n \in Nat /\ DOMAIN o = 1 .. n /\ \A i \in 1 .. n : o[i] \in R BY <2>1
  <2> QED BY <2>2, <2>3
<1>3. ids \in Seq(1 .. n) /\ Len(ids) = n /\ Apart(ids) /\ ToSet(ids) = 1 .. n
  <2>1. ids \in Seq(1 .. n) /\ Len(ids) = n BY <1>2
  <2>2. Apart(ids) /\ ToSet(ids) = 1 .. n BY <1>2 DEF Apart, ToSet
  <2> QED BY <2>1, <2>2
<1>4. \A i \in 1 .. n : Newest(Of(o, o[i].command)) \in S /\ o[Newest(Of(o, o[i].command))].command = o[i].command
  <2> SUFFICES ASSUME NEW i \in 1 .. n
               PROVE  Newest(Of(o, o[i].command)) \in S /\ o[Newest(Of(o, o[i].command))].command = o[i].command
    OBVIOUS
  <2>1. Of(o, o[i].command) \in SUBSET (1 .. n) /\ i \in Of(o, o[i].command) BY <1>2 DEF Of
  <2>2. Newest(Of(o, o[i].command)) \in Of(o, o[i].command) BY <1>2, <2>1, NewestIs
  <2> QED BY <2>2 DEF Of
<1>5. S \subseteq 1 .. n /\ \A i \in S : i = Newest(Of(o, o[i].command)) BY <1>2
<1> HIDE DEF ids
<1> HIDE DEF S
<1>6. last \in Seq(1 .. n) /\ ToSet(last) = S /\ Apart(last)
  <2>1. last \in Seq(1 .. n) /\ ToSet(last) = ToSet(ids) \cap S /\ Apart(last) BY <1>3, OnlyFacts
  <2> QED BY <1>3, <1>5, <2>1
<1> HIDE DEF last
<1> DEFINE m == Len(last)
<1>7. m \in Nat /\ DOMAIN last = 1 .. m /\ \A k \in 1 .. m : last[k] \in 1 .. n /\ last[k] \in S BY <1>6, SetOf
<1>8. \A command : MergedNote(o, command) \in Notes
  <2> SUFFICES ASSUME NEW command PROVE MergedNote(o, command) \in Notes OBVIOUS
  <2> DEFINE noted == {i \in Of(o, command) : o[i].note # NoNote}
             starred == {i \in noted : o[i].favorite}
             chosen == IF starred = {} THEN noted ELSE starred
  <2>1. MergedNote(o, command) = IF noted = {} THEN NoNote ELSE o[Newest(chosen)].note BY DEF MergedNote
  <2>2. chosen \in SUBSET (1 .. n) BY <1>2 DEF Of
  <2>3. noted # {} => chosen # {} OBVIOUS
  <2> HIDE DEF noted
  <2> HIDE DEF chosen
  <2>4. noted # {} => Newest(chosen) \in 1 .. n BY <1>2, <2>2, <2>3, NewestIs
  <2> QED BY <1>2, <2>1, <2>4, HistoryAssumption
<1>9. \A command : star(command) \in BOOLEAN OBVIOUS
<1> HIDE DEF star
<1>10. /\ DOMAIN u = 1 .. m
       /\ \A k \in 1 .. m : /\ u[k].id = k /\ u[k].command = o[last[k]].command
                            /\ u[k].note = MergedNote(o, o[last[k]].command) /\ u[k].favorite = star(o[last[k]].command)
                            /\ u[k] \in RowsTo(m)
  <2>1. DOMAIN u = 1 .. m BY <1>7
  <2>2. ASSUME NEW k \in 1 .. m
        PROVE  /\ u[k].id = k /\ u[k].command = o[last[k]].command
               /\ u[k].note = MergedNote(o, o[last[k]].command) /\ u[k].favorite = star(o[last[k]].command)
               /\ u[k] \in RowsTo(m)
    <3> DEFINE c == o[last[k]].command
    <3>1. u[k] = Entry(k, c, MergedNote(o, c), star(c)) BY <1>7
    <3>2. c \in Commands /\ MergedNote(o, c) \in Notes /\ star(c) \in BOOLEAN BY <1>2, <1>7, <1>8, <1>9
    <3> HIDE DEF c
    <3> HIDE DEF u
    <3>3. u[k] \in RowsTo(m) BY <3>1, <3>2 DEF Entry, RowsTo
    <3>4. u[k].id = k /\ u[k].command = c /\ u[k].note = MergedNote(o, c) /\ u[k].favorite = star(c) BY <3>1 DEF Entry
    <3> QED BY <3>3, <3>4 DEF c
  <2> QED BY <2>1, <2>2
<1>11. u = [k \in 1 .. m |-> u[k]] BY <1>7
<1> HIDE DEF u
<1>12. u \in Seq(RowsTo(m)) /\ Len(u) = m BY <1>7, <1>10, <1>11
<1>13. \A j, k \in 1 .. m : u[j].id = u[k].id \/ u[j].command = u[k].command => j = k
  <2> SUFFICES ASSUME NEW j \in 1 .. m, NEW k \in 1 .. m, u[j].command = u[k].command PROVE j = k BY <1>10
  <2>1. o[last[j]].command = o[last[k]].command BY <1>10
  <2>2. last[j] = Newest(Of(o, o[last[j]].command)) /\ last[k] = Newest(Of(o, o[last[k]].command)) BY <1>5, <1>7
  <2>3. last[j] = last[k] BY <2>1, <2>2
  <2> QED BY <1>6, <1>7, <2>3 DEF Apart
<1>14. Table(u, m)
  <2>1. \A e \in ToSet(u) : \E k \in 1 .. m : u[k] = e BY <1>10 DEF ToSet
  <2>2. \A e, f \in ToSet(u) : e.id = f.id \/ e.command = f.command => e = f BY <1>13, <2>1
  <2>3. Apart(u) BY <1>10, <1>13 DEF Apart
  <2> QED BY <1>12, <2>2, <2>3 DEF Table
<1>15. \A i \in DOMAIN o : \E k \in DOMAIN u :
           u[k].command = o[i].command /\ u[k].note = MergedNote(o, o[i].command) /\ u[k].favorite = star(o[i].command)
  <2> SUFFICES ASSUME NEW i \in DOMAIN o
               PROVE  \E k \in DOMAIN u : /\ u[k].command = o[i].command /\ u[k].note = MergedNote(o, o[i].command)
                                          /\ u[k].favorite = star(o[i].command) OBVIOUS
  <2> DEFINE j == Newest(Of(o, o[i].command))
  <2>1. j \in ToSet(last) /\ o[j].command = o[i].command BY <1>2, <1>4, <1>6
  <2> HIDE DEF j
  <2>2. PICK k \in 1 .. m : last[k] = j BY <1>7, <2>1 DEF ToSet
  <2>3. u[k].command = o[i].command /\ u[k].note = MergedNote(o, o[i].command) /\ u[k].favorite = star(o[i].command)
    BY <1>10, <2>1, <2>2
  <2> QED BY <1>10, <2>2, <2>3
<1> QED BY <1>1, <1>7, <1>12, <1>14, <1>15 DEF star

\* The note of a merged row is the last one that a favourite of its command had, if one had a note.
LEMMA MergedNoteIs ==
    ASSUME NEW o \in OldTables, NEW i \in DOMAIN o, o[i].favorite, o[i].note # NoNote
    PROVE  \E j \in StarredNotes(o, o[i].command) : i <= j /\ MergedNote(o, o[i].command) = o[j].note
<1> DEFINE n == Len(o)
           command == o[i].command
           noted == {j \in Of(o, command) : o[j].note # NoNote}
           starred == {j \in noted : o[j].favorite}
<1>1. n \in Nat /\ DOMAIN o = 1 .. n BY HistoryAssumption
<1>2. i \in starred /\ i \in noted BY DEF Of
<1>3. MergedNote(o, command) = o[Newest(starred)].note BY <1>2 DEF MergedNote
<1>4. starred \in SUBSET (1 .. n) /\ starred = StarredNotes(o, command) BY <1>1 DEF Of, StarredNotes
<1> HIDE DEF starred
<1>5. Newest(starred) \in starred /\ i <= Newest(starred) BY <1>1, <1>2, <1>4, NewestIs
<1> QED BY <1>3, <1>4, <1>5

\* The panel and the dialog of a new pane.
LEMMA NewIs ==
    ASSUME NEW t, NEW m
    PROVE  PanelSound(NewPanel, t, m) /\ DialogSound(NoDialog, t, m)
<1>1. <<>> \in Seq(RowsTo(m)) /\ Len(<<>>) = 0 /\ ToSet(<<>>) = {} BY DEF ToSet
<1> QED BY <1>1 DEF PanelSound, DialogSound, NewPanel, NoDialog

\* An old table is taken over: its favourites stay.
LEMMA ActMigrate ==
    ASSUME HistoryInv, Migrate
    PROVE  /\ HistoryInv' /\ FavoritesStay
           /\ \A i \in DOMAIN old : old[i].favorite =>
                  \E e \in {history'[k] : k \in DOMAIN history'} :
                      /\ e.command = old[i].command /\ e.favorite
                      /\ old[i].note # NoNote => \E j \in StarredNotes(old, e.command) : i <= j /\ e.note = old[j].note
<1>1. /\ old # <<>> /\ old' = <<>> /\ history' = Merged(old) /\ made' = Len(Merged(old)) /\ panel' = panel /\ dialog' = dialog
  BY DEF Migrate
<1>2. old \in OldTables /\ history = <<>> /\ made = 0 /\ \A p \in Panes : panel[p] = NewPanel /\ dialog[p] = NoDialog
  BY <1>1 DEF HistoryInv
<1>3. /\ Table(history', made') /\ made' \in Nat
      /\ \A i \in DOMAIN old : \E k \in DOMAIN history' :
             /\ history'[k].command = old[i].command /\ history'[k].note = MergedNote(old, old[i].command)
             /\ history'[k].favorite = \E j \in Of(old, old[i].command) : old[j].favorite
  BY <1>1, <1>2, MergedIs
<1>4. \A p \in Panes : PanelSound(panel'[p], history', made') /\ DialogSound(dialog'[p], history', made')
  <2>1. PanelSound(NewPanel, history', made') /\ DialogSound(NoDialog, history', made') BY NewIs
  <2> QED BY <1>1, <1>2, <2>1
<1>5. HistoryInv' BY <1>1, <1>3, <1>4 DEF HistoryInv
<1>6. FavoritesStay BY <1>2 DEF FavoritesStay, ToSet
<1>7. ASSUME NEW i \in DOMAIN old, old[i].favorite
      PROVE  \E e \in {history'[k] : k \in DOMAIN history'} :
                 /\ e.command = old[i].command /\ e.favorite
                 /\ old[i].note # NoNote => \E j \in StarredNotes(old, e.command) : i <= j /\ e.note = old[j].note
  <2>1. PICK k \in DOMAIN history' :
             /\ history'[k].command = old[i].command /\ history'[k].note = MergedNote(old, old[i].command)
             /\ history'[k].favorite = \E j \in Of(old, old[i].command) : old[j].favorite BY <1>3
  <2>2. i \in Of(old, old[i].command) BY DEF Of
  <2>3. history'[k].favorite BY <1>7, <2>1, <2>2
  <2>4. old[i].note # NoNote => \E j \in StarredNotes(old, history'[k].command) : i <= j /\ history'[k].note = old[j].note
    BY <1>2, <1>7, <2>1, MergedNoteIs
  <2> QED BY <2>1, <2>3, <2>4
<1> QED BY <1>5, <1>6, <1>7

\* The initial states.
LEMMA HistoryInitIs == HistoryInit => HistoryInv
<1> SUFFICES ASSUME HistoryInit PROVE HistoryInv OBVIOUS
<1>1. /\ old \in OldTables \cup {<<>>} /\ history = <<>> /\ made = 0
      /\ panel = [p \in Panes |-> NewPanel] /\ dialog = [p \in Panes |-> NoDialog] BY DEF HistoryInit
<1>2. <<>> \in Seq(RowsTo(0)) /\ Len(<<>>) = 0 /\ ToSet(<<>>) = {} /\ DOMAIN <<>> = {} BY DEF ToSet
<1>3. Table(history, made) BY <1>1, <1>2 DEF Table, Apart
<1>4. PanelSound(NewPanel, history, made) /\ DialogSound(NoDialog, history, made) BY NewIs
<1> QED BY <1>1, <1>3, <1>4 DEF HistoryInv

----
(* The theorems. *)

\* Every step keeps the invariant and the favourites, and hits the row that it shows.
LEMMA HistoryStep ==
    ASSUME HistoryInv, [HistoryNext]_historyVars
    PROVE  /\ HistoryInv'
           /\ HistoryNext => FavoritesStay
<1>1. CASE UNCHANGED historyVars
  <2>1. FavoritesStay BY <1>1, SameParts DEF historyVars
  <2>2. HistoryInv'
    <3>1. UNCHANGED <<old, history, made, panel, dialog>> BY <1>1 DEF historyVars
    <3> QED BY <3>1 DEF HistoryInv
  <2> QED BY <2>1, <2>2
<1>2. CASE Migrate BY <1>2, ActMigrate
<1>3. ASSUME NEW p \in Panes,
             \/ \E command \in Commands : Submit(p, command)
             \/ Show(p) \/ Hide(p) \/ SwitchTab(p) \/ Search(p)
             \/ \E search \in Searches \cup {Anything} : TypeSearch(p, search)
             \/ \E row \in 1 .. Shown : OpenMenu(p, row)
             \/ Execute(p) \/ ToggleFavorite(p) \/ DeleteRow(p) \/ EditNote(p) \/ ClearView(p)
             \/ \E note \in Notes : SetNote(p, note)
             \/ ClearFavorites(p) \/ ClearHistory(p) \/ Cancel(p)
      PROVE  HistoryInv' /\ FavoritesStay
  <2>1. CASE \E command \in Commands : Submit(p, command)
    <3>1. PICK command \in Commands : Submit(p, command) BY <2>1
    <3>2. old = <<>> /\ RecordCommand(p, command) BY <3>1 DEF Submit, Free
    <3> QED BY <3>2, ActRecord
  <2>2. CASE Execute(p)
    <3>1. Acts(p) /\ RecordCommand(p, Row(p).command) BY <2>2 DEF Execute
    <3>2. old = <<>> /\ Row(p).command \in Commands BY <3>1, RowIs
    <3> QED BY <3>1, <3>2, ActRecord
  <2>3. CASE \/ Show(p) \/ Hide(p) \/ SwitchTab(p) \/ Search(p)
             \/ \E search \in Searches \cup {Anything} : TypeSearch(p, search)
             \/ \E row \in 1 .. Shown : OpenMenu(p, row) BY <2>3, ActLook
  <2>4. CASE ToggleFavorite(p) \/ DeleteRow(p) BY <2>4, ActRow
  <2>5. CASE EditNote(p) \/ ClearView(p) \/ Cancel(p) BY <2>5, ActAsk
  <2>6. CASE \E note \in Notes : SetNote(p, note) BY <2>6, ActSetNote
  <2>7. CASE ClearFavorites(p) \/ ClearHistory(p) BY <2>7, ActClear
  <2> QED BY <1>3, <2>1, <2>2, <2>3, <2>4, <2>5, <2>6, <2>7
<1> QED BY <1>1, <1>2, <1>3 DEF HistoryNext

\* The table has a row for a command and for an id, and the row or the dialog of a pane, however
\* old, has an id that no other command has.
THEOREM HistoryInvariance == HistorySpec => []HistoryInv
<1>1. HistoryInit => HistoryInv BY HistoryInitIs
<1>2. HistoryInv /\ [HistoryNext]_historyVars => HistoryInv' BY HistoryStep
<1> QED BY <1>1, <1>2, PTL DEF HistorySpec

\* The variables keep their types: no id is given twice in the table.
THEOREM HistoryTypeCorrect == HistorySpec => []HistoryTypeOK
<1>1. HistoryInv => HistoryTypeOK
  <2> SUFFICES ASSUME HistoryInv PROVE HistoryTypeOK OBVIOUS
  <2>1. RowsTo(made) = Entries BY DEF RowsTo, Entries
  <2>2. Table(history, made) /\ \A p \in Panes : panel[p].rows \in Seq(RowsTo(made)) /\ panel[p].current \in 0 .. Len(panel[p].rows)
    BY DEF HistoryInv, PanelSound
  <2>3. history \in Seq(RowsTo(made)) /\ \A i, j \in DOMAIN history : history[i].id = history[j].id => i = j BY <2>2, InTableIs
  <2> QED BY <2>1, <2>2, <2>3 DEF HistoryTypeOK
<1> QED BY <1>1, HistoryInvariance, PTL

\* Favourites and their notes stay, whatever is run, pruned or cleared; the migration of an old table
\* keeps them too, but of the notes that favourites of one command have on several hosts only the last.
THEOREM FavoritesCorrect == HistorySpec => FavoritesAreKept
<1> DEFINE Stays == \A i \in DOMAIN history : history[i].favorite =>
                        \/ InTable(history', history[i])
                        \/ \E p \in Panes : ActsOn(p, history[i].command) \/ ClearFavorites(p)
           Comes == \A i \in DOMAIN old : Migrate /\ old[i].favorite =>
                        \E e \in {history'[k] : k \in DOMAIN history'} :
                            /\ e.command = old[i].command /\ e.favorite
                            /\ old[i].note # NoNote => \E j \in StarredNotes(old, e.command) : i <= j /\ e.note = old[j].note
<1>1. HistoryInv /\ [HistoryNext]_historyVars => [Stays]_historyVars
  <2> SUFFICES ASSUME HistoryInv, HistoryNext PROVE Stays OBVIOUS
  <2>1. HistoryInv' /\ FavoritesStay BY HistoryStep
  <2>2. Table(history, made) BY DEF HistoryInv
  <2>3. ASSUME NEW i \in DOMAIN history, history[i].favorite
        PROVE  \/ InTable(history', history[i])
               \/ \E p \in Panes : ActsOn(p, history[i].command) \/ ClearFavorites(p)
    <3>1. history[i] \in ToSet(history) BY <2>2, InTableIs
    <3>2. \/ history[i] \in ToSet(history')
          \/ \E p \in Panes : ActsOn(p, history[i].command) \/ ClearFavorites(p)
      BY <2>1, <2>3, <3>1 DEF FavoritesStay
    <3>3. history[i] \in ToSet(history') => InTable(history', history[i]) BY DEF ToSet, InTable
    <3> QED BY <3>2, <3>3
  <2> QED BY <2>3
<1>2. HistoryInv /\ [HistoryNext]_historyVars => [Comes]_historyVars
  <2> SUFFICES ASSUME HistoryInv, HistoryNext PROVE Comes OBVIOUS
  <2> QED BY ActMigrate
<1>3. HistorySpec => [][Stays]_historyVars
  <2> HIDE DEF Stays
  <2> QED BY <1>1, HistoryInvariance, PTL DEF HistorySpec
<1>4. HistorySpec => [][Comes]_historyVars
  <2> HIDE DEF Comes
  <2> QED BY <1>2, HistoryInvariance, PTL DEF HistorySpec
<1> QED BY <1>3, <1>4, HistoryTypeCorrect DEF FavoritesAreKept

\* An act on a row that has grown old changes the row of its command or none.
THEOREM ActsCorrect == HistorySpec => ActsHitTheirRow
<1> DEFINE Hits == \A p \in Panes, note \in Notes :
                       LET command == IF dialog[p].kind = "note" THEN dialog[p].command ELSE Row(p).command
                       IN  (ToggleFavorite(p) \/ DeleteRow(p) \/ SetNote(p, note)) =>
                           OthersOf(history, command) = OthersOf(history', command)
<1>1. HistoryInv /\ [HistoryNext]_historyVars => [Hits]_historyVars
  <2> SUFFICES ASSUME HistoryInv, NEW p \in Panes, NEW note \in Notes, ToggleFavorite(p) \/ DeleteRow(p) \/ SetNote(p, note)
               PROVE  OthersOf(history, IF dialog[p].kind = "note" THEN dialog[p].command ELSE Row(p).command)
                      = OthersOf(history', IF dialog[p].kind = "note" THEN dialog[p].command ELSE Row(p).command)
    OBVIOUS
  <2>1. CASE ToggleFavorite(p) \/ DeleteRow(p)
    <3>1. OthersOf(history', Row(p).command) = OthersOf(history, Row(p).command) BY <2>1, ActRow
    <3>2. Acts(p) BY <2>1 DEF ToggleFavorite, DeleteRow
    <3>3. dialog[p] = NoDialog BY <3>2, RowIs
    <3>4. dialog[p].kind # "note" BY <3>3 DEF NoDialog
    <3> QED BY <3>1, <3>4
  <2>2. CASE SetNote(p, note)
    <3>1. OthersOf(history', dialog[p].command) = OthersOf(history, dialog[p].command) BY <2>2, ActSetNote
    <3>2. dialog[p].kind = "note" BY <2>2 DEF SetNote, Answered
    <3> QED BY <3>1, <3>2
  <2> QED BY <2>1, <2>2
<1>2. HistorySpec => [][Hits]_historyVars
  <2> HIDE DEF Hits
  <2> QED BY <1>1, HistoryInvariance, PTL DEF HistorySpec
<1> QED BY <1>2 DEF ActsHitTheirRow

================================================================================

--------------------------- MODULE SequenceFacts ---------------------------
(***************************************************************************)
(* What the proofs need of the sequence operators of the community modules *)
(* and of the rings: removing, pushing, flattening, what is in a sequence, *)
(* how often, and whether it repeats.  FlattenSeq is recursive, so what it *)
(* yields is shown by induction, on sets of numbers (NatSet) and of        *)
(* sequences (SeqSet).                                                     *)
(***************************************************************************)
EXTENDS Rings, SequencesExt, SequenceTheorems, FiniteSetTheorems, WellFoundedInduction, TLAPS

(* A set that has 0 and goes on has every number: what the induction       *)
(* theorems say of a predicate, said of a set, so that no operator is a    *)
(* parameter.                                                              *)
LEMMA NatSet ==
    ASSUME NEW S, 0 \in S, \A n \in Nat : n \in S => n + 1 \in S
    PROVE  Nat \subseteq S
<1> DEFINE T == {n \in Nat : n \notin S}
           R == OpToRel(<, Nat)
<1>1. SUFFICES ASSUME T # {} PROVE FALSE
  OBVIOUS
<1>2. PICK n \in T : \A m \in T : <<m, n>> \notin R
  <2>1. T \subseteq Nat
    OBVIOUS
  <2>2. IsWellFoundedOn(R, Nat)
    BY NatLessThanWellFounded
  <2> HIDE DEF T, R
  <2> QED
    BY <1>1, <2>1, <2>2, WFMin
<1>3. n \in Nat /\ n # 0
  BY <1>2
<1> HIDE DEF R
<1>4. PICK m \in Nat : n = m + 1
  <2>1. n - 1 \in Nat /\ n = (n - 1) + 1
    BY <1>3
  <2> QED
    BY <2>1
<1>5. m \in T
  BY <1>2, <1>4
<1>6. <<m, n>> \in R
  <2>1. <<m, n>> \in Nat \X Nat /\ m < n
    BY <1>3, <1>4
  <2> QED
    BY <2>1 DEF R, OpToRel
<1> QED
  BY <1>2, <1>5, <1>6

-----------------------------------------------------------------------------
(* f goes on from c by step, in V. *)
GoesOn(f, c, step, V) ==
    /\ f \in [Nat -> V]
    /\ f[0] = c
    /\ \A n \in Nat : f[n + 1] = step[<<n, f[n]>>]

(* There is a function that goes on by any step: a definition by           *)
(* recursion has something to choose.                                      *)
LEMMA StepsFrom ==
    ASSUME NEW V, NEW c \in V, NEW step \in [Nat \X V -> V]
    PROVE  \E f : GoesOn(f, c, step, V)
<1> DEFINE Runs(g, n) == /\ g \in [0 .. n -> V]
                         /\ g[0] = c
                         /\ \A m \in 0 .. n - 1 : g[m + 1] = step[<<m, g[m]>>]
           Run(n) == CHOOSE g : Runs(g, n)
           S == {n \in Nat : \E g : Runs(g, n)}
           Same(n) == \A g, h : Runs(g, n) /\ Runs(h, n) => g[n] = h[n]
           U == {n \in Nat : Same(n)}
<1>1. 0 \in S
  <2>1. Runs([m \in 0 .. 0 |-> c], 0)
    OBVIOUS
  <2> QED
    BY <2>1
<1>2. ASSUME NEW n \in Nat, n \in S PROVE n + 1 \in S
  <2>1. PICK g : Runs(g, n)
    BY <1>2
  <2> DEFINE h == [m \in 0 .. n + 1 |-> IF m = n + 1 THEN step[<<n, g[n]>>] ELSE g[m]]
  <2>2. step[<<n, g[n]>>] \in V
    BY <2>1
  <2>3. h \in [0 .. n + 1 -> V]
    BY <2>1, <2>2
  <2>4. h[0] = c
    BY <2>1
  <2>5. ASSUME NEW m \in 0 .. n PROVE h[m + 1] = step[<<m, h[m]>>]
    <3>1. h[m] = g[m]
      OBVIOUS
    <3>2. CASE m = n
      <4>1. h[n + 1] = step[<<n, g[n]>>]
        OBVIOUS
      <4> HIDE DEF h
      <4> QED
        BY <3>1, <3>2, <4>1
    <3>3. CASE m # n
      <4>1. m \in 0 .. n - 1 /\ h[m + 1] = g[m + 1]
        BY <3>3
      <4> QED
        BY <2>1, <3>1, <4>1
    <3> QED
      BY <3>2, <3>3
  <2>6. Runs(h, n + 1)
    <3>1. (n + 1) - 1 = n
      OBVIOUS
    <3> HIDE DEF h
    <3> QED
      BY <2>3, <2>4, <2>5, <3>1
  <2> HIDE DEF Runs
  <2> QED
    BY <2>6
<1>3. Nat \subseteq S
  <2> HIDE DEF S
  <2> QED
    BY <1>1, <1>2, NatSet
<1>4. \A n \in Nat : Runs(Run(n), n)
  <2> HIDE DEF Runs
  <2> QED
    BY <1>3
<1>5. 0 \in U
  OBVIOUS
<1>6. ASSUME NEW n \in Nat, n \in U PROVE n + 1 \in U
  <2> SUFFICES ASSUME NEW g, NEW h, Runs(g, n + 1), Runs(h, n + 1)
               PROVE  g[n + 1] = h[n + 1]
    OBVIOUS
  <2> DEFINE gg == [m \in 0 .. n |-> g[m]]
             hh == [m \in 0 .. n |-> h[m]]
  <2>1. Runs(gg, n) /\ Runs(hh, n)
    OBVIOUS
  <2>2. gg[n] = hh[n]
    <3> HIDE DEF gg, hh, Runs
    <3> QED
      BY <1>6, <2>1
  <2>3. g[n] = h[n]
    BY <2>2
  <2>4. g[n + 1] = step[<<n, g[n]>>] /\ h[n + 1] = step[<<n, h[n]>>]
    <3> HIDE DEF gg, hh
    <3> QED
      OBVIOUS
  <2> QED
    BY <2>3, <2>4
<1>7. Nat \subseteq U
  <2> HIDE DEF U
  <2> QED
    BY <1>5, <1>6, NatSet
<1> DEFINE f == [n \in Nat |-> Run(n)[n]]
<1>8. f \in [Nat -> V] /\ f[0] = c
  <2> HIDE DEF Run
  <2> QED
    BY <1>4
<1>9. ASSUME NEW n \in Nat PROVE f[n + 1] = step[<<n, f[n]>>]
  <2> DEFINE g == Run(n + 1)
             gg == [m \in 0 .. n |-> g[m]]
  <2> HIDE DEF Run
  <2>1. Runs(g, n + 1)
    <3> HIDE DEF Runs
    <3> QED
      BY <1>4
  <2>2. Runs(gg, n)
    <3> HIDE DEF g
    <3> QED
      BY <2>1
  <2>3. gg[n] = Run(n)[n]
    <3> HIDE DEF g, gg, Runs
    <3> QED
      BY <1>4, <1>7, <2>2
  <2>4. g[n] = f[n]
    <3> HIDE DEF g, Runs
    <3> QED
      BY <2>3
  <2>5. g[n + 1] = step[<<n, g[n]>>]
    <3> HIDE DEF g
    <3> QED
      BY <2>1
  <2> QED
    BY <2>4, <2>5
<1> QED
  <2> HIDE DEF f
  <2>1. GoesOn(f, c, step, V)
    BY <1>8, <1>9 DEF GoesOn
  <2> QED
    BY <2>1

(* A set of sequences that has the empty one, and with a sequence every    *)
(* longer one, has them all.                                               *)
LEMMA SeqSet ==
    ASSUME NEW S, NEW T, <<>> \in T,
           \A s \in Seq(S), x \in S : s \in T => Append(s, x) \in T
    PROVE  Seq(S) \subseteq T
<1> DEFINE N == {n \in Nat : \A s \in Seq(S) : Len(s) = n => s \in T}
<1>1. 0 \in N
  OBVIOUS
<1>2. ASSUME NEW n \in Nat, n \in N PROVE n + 1 \in N
  <2> SUFFICES ASSUME NEW s \in Seq(S), Len(s) = n + 1 PROVE s \in T
    OBVIOUS
  <2>1. PICK r \in Seq(S), x \in S : s = Append(r, x)
    <3>1. s # <<>>
      OBVIOUS
    <3> QED
      BY <3>1, SequenceEmptyOrAppend
  <2>2. Len(r) = n
    BY <2>1
  <2> QED
    BY <1>2, <2>1, <2>2
<1>3. Nat \subseteq N
  <2> HIDE DEF N
  <2> QED
    BY <1>1, <1>2, NatSet
<1> QED
  BY <1>3

-----------------------------------------------------------------------------
(* What FlattenSeq puts together, one sequence after the other. *)
PutsTogether(g, ss, S) ==
    /\ g \in [1 .. Len(ss) -> Seq(S)]
    /\ g[1] = ss[1]
    /\ \A i \in 2 .. Len(ss) : g[i] = g[i - 1] \o ss[i]

(* FlattenSeq chooses the runs of its concatenations; there are such.      *)
LEMMA FlattenRuns ==
    ASSUME NEW S, NEW ss \in Seq(Seq(S)), ss # <<>>
    PROVE  \E g : PutsTogether(g, ss, S) /\ FlattenSeq(ss) = g[Len(ss)]
<1> DEFINE V == Seq(S)
           n == Len(ss)
           step == [p \in Nat \X V |-> IF p[1] + 1 <= n THEN p[2] \o ss[p[1] + 1] ELSE p[2]]
           none == <<>>
           Is(g) == g = [i \in 1 .. n |-> IF i = 1 THEN ss[i] ELSE g[i - 1] \o ss[i]]
           flat == CHOOSE g : Is(g)
<1>0. n \in Nat /\ n > 0 /\ \A i \in 1 .. n : ss[i] \in V
  OBVIOUS
<1>1. step \in [Nat \X V -> V]
  <2>1. ASSUME NEW p \in Nat \X V, p[1] + 1 <= n PROVE p[2] \o ss[p[1] + 1] \in V
    <3>1. p[2] \in Seq(S) /\ ss[p[1] + 1] \in Seq(S)
      BY <1>0, <2>1
    <3> QED
      BY <3>1
  <2> QED
    BY <2>1
<1>2. none \in V
  OBVIOUS
<1>3. PICK f \in [Nat -> V] : f[0] = <<>> /\ \A m \in Nat : f[m + 1] = step[<<m, f[m]>>]
  <2>1. \E f : GoesOn(f, none, step, V)
    <3> HIDE DEF step, V, none
    <3> QED
      BY <1>1, <1>2, StepsFrom
  <2> HIDE DEF step, V
  <2> QED
    BY <2>1 DEF GoesOn
<1>4. \A m \in 0 .. n - 1 : f[m + 1] = f[m] \o ss[m + 1]
  <2> SUFFICES ASSUME NEW m \in 0 .. n - 1 PROVE f[m + 1] = f[m] \o ss[m + 1]
    OBVIOUS
  <2>1. m \in Nat /\ m + 1 <= n /\ f[m] \in V
    BY <1>0
  <2>2. step[<<m, f[m]>>] = f[m] \o ss[m + 1]
    <3> HIDE DEF V
    <3>1. <<m, f[m]>> \in Nat \X V
      BY <2>1
    <3> QED
      BY <2>1, <3>1
  <2> QED
    BY <1>3, <2>1, <2>2
<1>5. f[1] = ss[1]
  <2>1. 0 \in 0 .. n - 1 /\ 0 + 1 = 1 /\ 1 \in 1 .. n
    BY <1>0
  <2>2. f[1] = f[0] \o ss[1] /\ ss[1] \in Seq(S)
    BY <1>0, <1>4, <2>1
  <2> QED
    BY <1>3, <2>2
<1>6. ASSUME NEW i \in 2 .. n PROVE f[i] = f[i - 1] \o ss[i]
  <2>1. i - 1 \in 0 .. n - 1 /\ (i - 1) + 1 = i
    BY <1>0
  <2> QED
    BY <1>4, <2>1
<1> HIDE DEF step
<1> DEFINE g == [i \in 1 .. n |-> f[i]]
<1>7. Is(g)
  <2>1. ASSUME NEW i \in 1 .. n
        PROVE  g[i] = IF i = 1 THEN ss[i] ELSE g[i - 1] \o ss[i]
    <3>1. CASE i = 1
      BY <1>5, <3>1
    <3>2. CASE i # 1
      <4>1. i \in 2 .. n /\ i - 1 \in 1 .. n
        BY <1>0, <3>2
      <4> QED
        BY <1>6, <3>2, <4>1
    <3> QED
      BY <3>1, <3>2
  <2> QED
    BY <2>1
<1>8. Is(flat)
  <2> HIDE DEF Is, g
  <2> QED
    BY <1>7
<1>9. FlattenSeq(ss) = flat[n]
  BY DEF FlattenSeq
<1> HIDE DEF flat
<1>10. flat \in [1 .. n -> V]
  <2> DEFINE M == {m \in Nat : m \in 1 .. n => flat[m] \in V}
  <2>1. 0 \in M
    OBVIOUS
  <2>2. ASSUME NEW m \in Nat, m \in M PROVE m + 1 \in M
    <3> SUFFICES ASSUME m + 1 \in 1 .. n PROVE flat[m + 1] \in V
      OBVIOUS
    <3>1. CASE m = 0
      BY <1>0, <1>8, <3>1
    <3>2. CASE m # 0
      <4>1. m \in 1 .. n /\ m + 1 # 1 /\ (m + 1) - 1 = m
        BY <1>0, <3>2
      <4>2. flat[m + 1] = flat[m] \o ss[m + 1]
        BY <1>8, <4>1
      <4>3. flat[m] \in Seq(S) /\ ss[m + 1] \in Seq(S)
        BY <1>0, <2>2, <4>1
      <4> QED
        BY <4>2, <4>3
    <3> QED
      BY <3>1, <3>2
  <2>3. Nat \subseteq M
    <3> HIDE DEF M
    <3> QED
      BY <2>1, <2>2, NatSet
  <2>4. \A m \in 1 .. n : flat[m] \in V
    BY <1>0, <2>3
  <2>5. flat = [i \in 1 .. n |-> flat[i]]
    BY <1>8
  <2> QED
    BY <2>4, <2>5
<1>11. flat[1] = ss[1] /\ \A i \in 2 .. n : flat[i] = flat[i - 1] \o ss[i]
  <2>1. 1 \in 1 .. n /\ \A i \in 2 .. n : i \in 1 .. n /\ i # 1
    <3> HIDE DEF n, V, none, Is, g
    <3> QED
      BY <1>0
  <2> QED
    BY <1>8, <2>1
<1> QED
  BY <1>9, <1>10, <1>11 DEF PutsTogether

(* What is flattened from sequences over S is one of them.                 *)
LEMMA FlattenType ==
    ASSUME NEW S, NEW ss \in Seq(Seq(S))
    PROVE  FlattenSeq(ss) \in Seq(S)
<1>1. CASE ss = <<>>
  BY <1>1 DEF FlattenSeq
<1>2. CASE ss # <<>>
  <2>1. PICK g : PutsTogether(g, ss, S) /\ FlattenSeq(ss) = g[Len(ss)]
    BY <1>2, FlattenRuns
  <2>2. Len(ss) \in 1 .. Len(ss)
    BY <1>2
  <2> QED
    BY <2>1, <2>2 DEF PutsTogether
<1> QED
  BY <1>1, <1>2

LEMMA FlattenEmpty == FlattenSeq(<<>>) = <<>>
  BY DEF FlattenSeq

(* One more sequence is one more concatenation.                            *)
LEMMA FlattenAppend ==
    ASSUME NEW S, NEW ss \in Seq(Seq(S)), NEW s \in Seq(S)
    PROVE  FlattenSeq(Append(ss, s)) = FlattenSeq(ss) \o s
<1> DEFINE tt == Append(ss, s)
           n == Len(ss)
<1>1. tt \in Seq(Seq(S)) /\ tt # <<>> /\ Len(tt) = n + 1 /\ tt[n + 1] = s
      /\ \A i \in 1 .. n : tt[i] = ss[i]
  <2> DEFINE V == Seq(S)
  <2>1. ss \in Seq(V) /\ s \in V
    OBVIOUS
  <2> HIDE DEF V
  <2>2. /\ Append(ss, s) \in Seq(V) /\ Len(Append(ss, s)) = Len(ss) + 1
        /\ Append(ss, s) # <<>> /\ Append(ss, s)[Len(ss) + 1] = s
        /\ \A i \in 1 .. Len(ss) : Append(ss, s)[i] = ss[i]
    BY <2>1, AppendProperties
  <2> QED
    BY <2>2 DEF V
<1> HIDE DEF tt
<1>2. PICK h : PutsTogether(h, tt, S) /\ FlattenSeq(tt) = h[Len(tt)]
  BY <1>1, FlattenRuns
<1>3. CASE ss = <<>>
  <2>1. FlattenSeq(tt) = s
    BY <1>1, <1>2, <1>3 DEF PutsTogether
  <2>2. FlattenSeq(ss) = <<>>
    BY <1>3, FlattenEmpty
  <2> QED
    BY <2>1, <2>2 DEF tt
<1>4. CASE ss # <<>>
  <2>0. n \in Nat /\ n >= 1 /\ n \in 1 .. n /\ 1 \in 1 .. n
    BY <1>4
  <2>1. PICK g : PutsTogether(g, ss, S) /\ FlattenSeq(ss) = g[n]
    BY <1>4, FlattenRuns
  <2> DEFINE M == {m \in Nat : m \in 1 .. n => g[m] = h[m]}
  <2>2. 0 \in M
    OBVIOUS
  <2>3. ASSUME NEW m \in Nat, m \in M PROVE m + 1 \in M
    <3> SUFFICES ASSUME m + 1 \in 1 .. n PROVE g[m + 1] = h[m + 1]
      OBVIOUS
    <3>1. CASE m = 0
      BY <1>1, <1>2, <2>0, <2>1, <3>1 DEF PutsTogether
    <3>2. CASE m # 0
      <4>1. /\ m \in 1 .. n /\ m + 1 \in 2 .. n /\ m + 1 \in 2 .. Len(tt)
            /\ (m + 1) - 1 = m
        BY <1>1, <2>0, <3>2
      <4>2. g[m + 1] = g[m] \o ss[m + 1]
        BY <2>1, <4>1 DEF PutsTogether
      <4>3. h[m + 1] = h[m] \o tt[m + 1]
        BY <1>2, <4>1 DEF PutsTogether
      <4>4. g[m] = h[m]
        BY <2>3, <4>1
      <4> QED
        BY <1>1, <4>2, <4>3, <4>4
    <3> QED
      BY <3>1, <3>2
  <2>4. Nat \subseteq M
    <3> HIDE DEF M
    <3> QED
      BY <2>2, <2>3, NatSet
  <2>5. g[n] = h[n]
    BY <2>0, <2>4
  <2>6. n + 1 \in 2 .. Len(tt) /\ (n + 1) - 1 = n
    BY <1>1, <2>0
  <2>7. h[n + 1] = h[n] \o tt[n + 1]
    BY <1>2, <2>6 DEF PutsTogether
  <2> QED
    BY <1>1, <1>2, <2>1, <2>5, <2>7 DEF tt
<1> QED
  BY <1>3, <1>4

-----------------------------------------------------------------------------
(* What is in a sequence, and whether it is there once. *)
LEMMA ConcatRange ==
    ASSUME NEW S, NEW s \in Seq(S), NEW t \in Seq(S)
    PROVE  /\ s \o t \in Seq(S)
           /\ ToSet(s \o t) = ToSet(s) \cup ToSet(t)
           /\ IsInjective(s \o t) <=>
                  IsInjective(s) /\ IsInjective(t) /\ ToSet(s) \cap ToSet(t) = {}
<1> DEFINE m == Len(s)
           n == Len(t)
           w == s \o t
<1>1. /\ m \in Nat /\ n \in Nat
      /\ DOMAIN s = 1 .. m /\ DOMAIN t = 1 .. n
      /\ w \in Seq(S) /\ DOMAIN w = 1 .. m + n
      /\ \A i \in 1 .. m + n : w[i] = IF i <= m THEN s[i] ELSE t[i - m]
  <2>1. /\ w \in Seq(S) /\ Len(w) = m + n
        /\ \A i \in 1 .. m + n : w[i] = IF i <= m THEN s[i] ELSE t[i - m]
    BY ConcatProperties
  <2> HIDE DEF w
  <2> QED
    BY <2>1, LenProperties
<1> HIDE DEF m, n, w
<1>2. /\ \A i \in 1 .. m : i \in 1 .. m + n /\ w[i] = s[i]
      /\ \A i \in 1 .. n : m + i \in 1 .. m + n /\ w[m + i] = t[i]
  <2>1. \A i \in 1 .. m : i \in 1 .. m + n /\ i <= m
    BY <1>1
  <2>2. \A i \in 1 .. n : m + i \in 1 .. m + n /\ ~(m + i <= m) /\ (m + i) - m = i
    BY <1>1
  <2> QED
    BY <1>1, <2>1, <2>2
<1>3. \A k \in 1 .. m + n : k \in 1 .. m \/ \E i \in 1 .. n : k = m + i
  <2>1. \A k \in 1 .. m + n : k \in 1 .. m \/ (k - m \in 1 .. n /\ k = m + (k - m))
    BY <1>1
  <2> QED
    BY <2>1
<1>4. ToSet(w) = ToSet(s) \cup ToSet(t)
  <2>1. ASSUME NEW k \in DOMAIN w PROVE w[k] \in ToSet(s) \cup ToSet(t)
    <3>1. CASE k \in 1 .. m
      BY <1>1, <1>2, <3>1 DEF ToSet
    <3>2. CASE k \notin 1 .. m
      <4>1. PICK i \in 1 .. n : k = m + i
        BY <1>1, <1>3, <3>2
      <4> QED
        BY <1>1, <1>2, <4>1 DEF ToSet
    <3> QED
      BY <3>1, <3>2
  <2>2. \A i \in 1 .. m : s[i] \in ToSet(w)
    BY <1>1, <1>2 DEF ToSet
  <2>3. \A i \in 1 .. n : t[i] \in ToSet(w)
    <3> SUFFICES ASSUME NEW i \in 1 .. n PROVE t[i] \in ToSet(w)
      OBVIOUS
    <3>1. m + i \in DOMAIN w /\ w[m + i] = t[i]
      BY <1>1, <1>2
    <3> QED
      BY <3>1 DEF ToSet
  <2> QED
    BY <1>1, <2>1, <2>2, <2>3 DEF ToSet
<1>5. ASSUME IsInjective(w)
      PROVE  IsInjective(s) /\ IsInjective(t) /\ ToSet(s) \cap ToSet(t) = {}
  <2>1. IsInjective(s)
    BY <1>1, <1>2, <1>5 DEF IsInjective
  <2>2. \A i, j \in 1 .. n : t[i] = t[j] => m + i = m + j
    BY <1>1, <1>2, <1>5 DEF IsInjective
  <2>3. IsInjective(t)
    BY <1>1, <2>2 DEF IsInjective
  <2>4. \A i \in 1 .. m, j \in 1 .. n : s[i] # t[j]
    <3>1. \A i \in 1 .. m, j \in 1 .. n : i # m + j
      BY <1>1
    <3> QED
      BY <1>1, <1>2, <1>5, <3>1 DEF IsInjective
  <2> QED
    BY <1>1, <2>1, <2>3, <2>4 DEF ToSet
<1>6. ASSUME IsInjective(s), IsInjective(t), ToSet(s) \cap ToSet(t) = {}
      PROVE  IsInjective(w)
  <2>1. \A i \in 1 .. m, j \in 1 .. n : s[i] # t[j]
    BY <1>1, <1>6 DEF ToSet
  <2>2. ASSUME NEW a \in 1 .. m + n, NEW b \in 1 .. m + n, w[a] = w[b]
        PROVE  a = b
    <3>1. CASE a \in 1 .. m /\ b \in 1 .. m
      BY <1>1, <1>2, <1>6, <2>2, <3>1 DEF IsInjective
    <3>2. CASE a \in 1 .. m /\ b \notin 1 .. m
      BY <1>2, <1>3, <2>1, <2>2, <3>2
    <3>3. CASE a \notin 1 .. m /\ b \in 1 .. m
      BY <1>2, <1>3, <2>1, <2>2, <3>3
    <3>4. CASE a \notin 1 .. m /\ b \notin 1 .. m
      <4>1. PICK i \in 1 .. n, j \in 1 .. n : a = m + i /\ b = m + j
        BY <1>3, <3>4
      <4>2. t[i] = t[j]
        BY <1>2, <2>2, <4>1
      <4> QED
        BY <1>1, <1>6, <4>1, <4>2 DEF IsInjective
    <3> QED
      BY <3>1, <3>2, <3>3, <3>4
  <2> QED
    BY <1>1, <2>2 DEF IsInjective
<1> QED
  BY <1>1, <1>4, <1>5, <1>6 DEF w

(* A sequence of one element.                                              *)
LEMMA OneIs ==
    ASSUME NEW x
    PROVE  ToSet(<<x>>) = {x} /\ IsInjective(<<x>>)
  BY DEF ToSet, IsInjective

(* What an element at the end adds, and when it adds no repeat.            *)
LEMMA AppendRange ==
    ASSUME NEW S, NEW s \in Seq(S), NEW x \in S
    PROVE  /\ Append(s, x) \in Seq(S)
           /\ ToSet(Append(s, x)) = ToSet(s) \cup {x}
           /\ IsInjective(Append(s, x)) <=> IsInjective(s) /\ x \notin ToSet(s)
<1>1. Append(s, x) = s \o <<x>> /\ <<x>> \in Seq(S)
  BY AppendIsConcat
<1>2. ToSet(s) \cap {x} = {} <=> x \notin ToSet(s)
  OBVIOUS
<1> DEFINE t == <<x>>
<1>3. t \in Seq(S) /\ ToSet(t) = {x} /\ IsInjective(t)
  BY <1>1, OneIs
<1>4. Append(s, x) = s \o t
  BY <1>1
<1> HIDE DEF t
<1>5. /\ s \o t \in Seq(S)
      /\ ToSet(s \o t) = ToSet(s) \cup ToSet(t)
      /\ IsInjective(s \o t) <=>
             IsInjective(s) /\ IsInjective(t) /\ ToSet(s) \cap ToSet(t) = {}
  BY <1>3, ConcatRange
<1> QED
  BY <1>2, <1>3, <1>4, <1>5

(* Sequences of which no two have something in common, and each has what   *)
(* it has once.                                                            *)
Apart(ss) ==
    /\ \A i \in DOMAIN ss : IsInjective(ss[i])
    /\ \A i, j \in DOMAIN ss : i # j => ToSet(ss[i]) \cap ToSet(ss[j]) = {}

(* Flattening loses nothing and adds nothing, and repeats nothing just     *)
(* when no sequence does and no two of them share an element.              *)
LEMMA FlattenRange ==
    ASSUME NEW S, NEW ss \in Seq(Seq(S))
    PROVE  /\ FlattenSeq(ss) \in Seq(S)
           /\ ToSet(FlattenSeq(ss)) = UNION {ToSet(ss[i]) : i \in DOMAIN ss}
           /\ IsInjective(FlattenSeq(ss)) <=> Apart(ss)
<1> DEFINE V == Seq(S)
           T == {tt \in Seq(V) :
                    /\ ToSet(FlattenSeq(tt)) = UNION {ToSet(tt[i]) : i \in DOMAIN tt}
                    /\ IsInjective(FlattenSeq(tt)) <=> Apart(tt)}
<1>1. <<>> \in T
  <2>1. ToSet(<<>>) = {} /\ IsInjective(<<>>) /\ Apart(<<>>)
    BY DEF ToSet, IsInjective, Apart
  <2>2. UNION {ToSet(<<>>[i]) : i \in DOMAIN <<>>} = {}
    OBVIOUS
  <2> QED
    BY <2>1, <2>2, FlattenEmpty
<1>2. ASSUME NEW tt \in Seq(V), NEW s \in V, tt \in T
      PROVE  Append(tt, s) \in T
  <2> DEFINE n == Len(tt)
             uu == Append(tt, s)
  <2>1. /\ uu \in Seq(V) /\ DOMAIN uu = 1 .. n + 1 /\ DOMAIN tt = 1 .. n /\ n \in Nat
        /\ uu[n + 1] = s /\ \A i \in 1 .. n : uu[i] = tt[i]
    <3> HIDE DEF V
    <3>1. /\ uu \in Seq(V) /\ Len(uu) = n + 1 /\ uu[n + 1] = s
          /\ \A i \in 1 .. n : uu[i] = tt[i]
      BY AppendProperties
    <3> HIDE DEF uu
    <3> QED
      BY <3>1, LenProperties
  <2>2. FlattenSeq(uu) = FlattenSeq(tt) \o s /\ FlattenSeq(tt) \in Seq(S) /\ s \in Seq(S)
    BY FlattenAppend, FlattenType
  <2> HIDE DEF uu, n
  <2>3. 1 .. n + 1 = 1 .. n \cup {n + 1} /\ n + 1 \notin 1 .. n
    BY <2>1
  <2>4. ToSet(FlattenSeq(uu)) = UNION {ToSet(uu[i]) : i \in DOMAIN uu}
    <3>1. ToSet(FlattenSeq(uu)) = ToSet(FlattenSeq(tt)) \cup ToSet(s)
      BY <2>2, ConcatRange
    <3>2. ToSet(FlattenSeq(tt)) = UNION {ToSet(tt[i]) : i \in DOMAIN tt}
      BY <1>2
    <3>3. UNION {ToSet(uu[i]) : i \in 1 .. n + 1}
            = (UNION {ToSet(tt[i]) : i \in 1 .. n}) \cup ToSet(s)
      <4>1. \A x : (\E i \in 1 .. n + 1 : x \in ToSet(uu[i]))
                      <=> (\E i \in 1 .. n : x \in ToSet(tt[i])) \/ x \in ToSet(s)
        BY <2>1, <2>3
      <4> QED
        BY <4>1
    <3> QED
      BY <2>1, <3>1, <3>2, <3>3
  <2>5. IsInjective(FlattenSeq(uu)) <=> Apart(uu)
    <3>1. IsInjective(FlattenSeq(uu)) <=>
            /\ Apart(tt) /\ IsInjective(s)
            /\ \A i \in 1 .. n : ToSet(tt[i]) \cap ToSet(s) = {}
      <4>1. ToSet(FlattenSeq(tt)) = UNION {ToSet(tt[i]) : i \in DOMAIN tt}
        BY <1>2
      <4>2. (ToSet(FlattenSeq(tt)) \cap ToSet(s) = {})
              <=> \A i \in 1 .. n : ToSet(tt[i]) \cap ToSet(s) = {}
        BY <2>1, <4>1
      <4> QED
        BY <1>2, <2>2, <4>2, ConcatRange
    <3>2. Apart(uu) <=> /\ Apart(tt) /\ IsInjective(s)
                        /\ \A i \in 1 .. n : ToSet(tt[i]) \cap ToSet(s) = {}
      <4>1. (\A i \in 1 .. n + 1 : IsInjective(uu[i]))
              <=> (\A i \in 1 .. n : IsInjective(tt[i])) /\ IsInjective(s)
        BY <2>1, <2>3
      <4> DEFINE Out(a, b) == ToSet(a) \cap ToSet(b) = {}
      <4>2. \A a, b : Out(a, b) <=> Out(b, a)
        OBVIOUS
      <4>3. (\A i, j \in 1 .. n + 1 : i # j => Out(uu[i], uu[j]))
              <=> /\ \A i, j \in 1 .. n : i # j => Out(tt[i], tt[j])
                  /\ \A i \in 1 .. n : Out(tt[i], s)
        <5> HIDE DEF Out
        <5> QED
          BY <2>1, <2>3, <4>2
      <4> QED
        BY <2>1, <4>1, <4>3 DEF Apart
    <3> QED
      BY <3>1, <3>2
  <2> QED
    BY <2>1, <2>4, <2>5 DEF uu
<1>3. Seq(V) \subseteq T
  <2> HIDE DEF T, V
  <2> QED
    BY <1>1, <1>2, SeqSet
<1> QED
  BY <1>3, FlattenType

(* All that is in the sequences of a sequence. *)
AllOf(ss) == UNION {ToSet(ss[i]) : i \in DOMAIN ss}

(* One more sequence is apart from the others if it has nothing of theirs, *)
(* and nothing twice.                                                      *)
LEMMA AppendApart ==
    ASSUME NEW S, NEW ss \in Seq(Seq(S)), NEW s \in Seq(S)
    PROVE  /\ Append(ss, s) \in Seq(Seq(S))
           /\ AllOf(Append(ss, s)) = AllOf(ss) \cup ToSet(s)
           /\ Apart(Append(ss, s)) <=>
                  Apart(ss) /\ IsInjective(s) /\ AllOf(ss) \cap ToSet(s) = {}
<1> DEFINE tt == Append(ss, s)
           f == FlattenSeq(ss)
<1>1. tt \in Seq(Seq(S))
  OBVIOUS
<1>2. FlattenSeq(tt) = f \o s
  BY FlattenAppend
<1>3. f \in Seq(S) /\ ToSet(f) = AllOf(ss) /\ (IsInjective(f) <=> Apart(ss))
  BY FlattenRange DEF AllOf
<1>4. ToSet(FlattenSeq(tt)) = AllOf(tt) /\ (IsInjective(FlattenSeq(tt)) <=> Apart(tt))
  <2> HIDE DEF tt
  <2> QED
    BY <1>1, FlattenRange DEF AllOf
<1> HIDE DEF f, tt
<1>5. /\ ToSet(f \o s) = ToSet(f) \cup ToSet(s)
      /\ IsInjective(f \o s) <=>
             IsInjective(f) /\ IsInjective(s) /\ ToSet(f) \cap ToSet(s) = {}
  BY <1>3, ConcatRange
<1> QED
  BY <1>1, <1>2, <1>3, <1>4, <1>5 DEF tt

(* What is left when the element at i is removed: the others, in their     *)
(* order.                                                                  *)
LEMMA RemoveAtIs ==
    ASSUME NEW S, NEW s \in Seq(S), NEW i \in DOMAIN s
    PROVE  /\ RemoveAt(s, i) \in Seq(S)
           /\ Len(RemoveAt(s, i)) = Len(s) - 1
           /\ DOMAIN RemoveAt(s, i) = 1 .. Len(s) - 1
           /\ \A j \in 1 .. Len(s) - 1 :
                 RemoveAt(s, i)[j] = IF j < i THEN s[j] ELSE s[j + 1]
<1> DEFINE n == Len(s)
           a == SubSeq(s, 1, i - 1)
           b == SubSeq(s, i + 1, n)
<1>1. n \in Nat /\ i \in 1 .. n /\ DOMAIN s = 1 .. n
  OBVIOUS
<1>2. a \in Seq(S) /\ Len(a) = i - 1 /\ \A j \in 1 .. i - 1 : a[j] = s[j]
  <2>1. 1 \in 1 .. n + 1 /\ i - 1 \in 0 .. n
    BY <1>1
  <2>2. \A j \in 1 .. i - 1 : j \in 1 .. (i - 1) - 1 + 1 /\ 1 + j - 1 = j
    BY <1>1
  <2> QED
    BY <1>1, <2>1, <2>2, SubSeqProperties
<1>3. b \in Seq(S) /\ Len(b) = n - i /\ \A j \in 1 .. n - i : b[j] = s[i + j]
  OBVIOUS
<1> HIDE DEF a, b
<1>4. /\ a \o b \in Seq(S) /\ Len(a \o b) = Len(a) + Len(b)
      /\ \A j \in 1 .. Len(a) + Len(b) :
            (a \o b)[j] = IF j <= Len(a) THEN a[j] ELSE b[j - Len(a)]
  BY <1>2, <1>3, ConcatProperties
<1>5. RemoveAt(s, i) = a \o b
  BY DEF RemoveAt, a, b
<1> DEFINE w == a \o b
<1> HIDE DEF w, n
<1>6. w \in Seq(S) /\ Len(w) = n - 1 /\ DOMAIN w = 1 .. n - 1
  BY <1>1, <1>2, <1>3, <1>4 DEF w
<1>7. \A j \in 1 .. n - 1 : w[j] = IF j < i THEN s[j] ELSE s[j + 1]
  <2> SUFFICES ASSUME NEW j \in 1 .. n - 1
               PROVE  w[j] = IF j < i THEN s[j] ELSE s[j + 1]
    OBVIOUS
  <2>1. CASE j < i
    <3>1. j \in 1 .. i - 1 /\ j <= Len(a) /\ j \in 1 .. Len(a) + Len(b)
      BY <1>1, <1>2, <1>3, <2>1
    <3> QED
      BY <1>2, <1>4, <2>1, <3>1 DEF w
  <2>2. CASE ~(j < i)
    <3>1. /\ j - (i - 1) \in 1 .. n - i /\ ~(j <= Len(a)) /\ j \in 1 .. Len(a) + Len(b)
          /\ i + (j - (i - 1)) = j + 1
      BY <1>1, <1>2, <1>3, <2>2
    <3> QED
      BY <1>2, <1>3, <1>4, <2>2, <3>1 DEF w
  <2> QED
    BY <2>1, <2>2
<1> QED
  BY <1>5, <1>6, <1>7 DEF w, n

(* The same, as a renumbering: where what is left was before.              *)
Before(i, j) == IF j < i THEN j ELSE j + 1

(* What is left after one is removed, and where it was before.             *)
LEMMA RemoveAtRenumbers ==
    ASSUME NEW S, NEW s \in Seq(S), NEW i \in DOMAIN s
    PROVE  /\ RemoveAt(s, i) \in Seq(S)
           /\ \A j \in DOMAIN RemoveAt(s, i) :
                 /\ Before(i, j) \in DOMAIN s \ {i}
                 /\ RemoveAt(s, i)[j] = s[Before(i, j)]
           /\ \A j, k \in DOMAIN RemoveAt(s, i) :
                 /\ j # k => Before(i, j) # Before(i, k)
                 /\ j < k => Before(i, j) < Before(i, k)
           /\ \A k \in DOMAIN s \ {i} : \E j \in DOMAIN RemoveAt(s, i) : Before(i, j) = k
<1> DEFINE n == Len(s)
           w == RemoveAt(s, i)
<1>1. n \in Nat /\ i \in 1 .. n /\ DOMAIN s = 1 .. n
  OBVIOUS
<1>2. /\ w \in Seq(S) /\ DOMAIN w = 1 .. n - 1
      /\ \A j \in 1 .. n - 1 : w[j] = IF j < i THEN s[j] ELSE s[j + 1]
  BY RemoveAtIs
<1> HIDE DEF n, w
<1>3. \A j \in 1 .. n - 1 : Before(i, j) \in 1 .. n /\ Before(i, j) # i
  BY <1>1 DEF Before
<1>4. \A j \in 1 .. n - 1 : w[j] = s[Before(i, j)]
  BY <1>2 DEF Before
<1>5. \A j, k \in 1 .. n - 1 : /\ j # k => Before(i, j) # Before(i, k)
                               /\ j < k => Before(i, j) < Before(i, k)
  BY <1>1 DEF Before
<1>6. ASSUME NEW k \in 1 .. n, k # i PROVE \E j \in 1 .. n - 1 : Before(i, j) = k
  <2>1. CASE k < i
    <3>1. k \in 1 .. n - 1 /\ Before(i, k) = k
      BY <1>1, <2>1 DEF Before
    <3> QED
      BY <3>1
  <2>2. CASE k > i
    <3>1. k - 1 \in 1 .. n - 1 /\ Before(i, k - 1) = k
      BY <1>1, <2>2 DEF Before
    <3> QED
      BY <3>1
  <2> QED
    BY <1>1, <1>6, <2>1, <2>2
<1> QED
  BY <1>1, <1>2, <1>3, <1>4, <1>5, <1>6 DEF w

(* One sequence removed: the others stay apart, and have nothing of it.    *)
LEMMA RemoveApart ==
    ASSUME NEW S, NEW ss \in Seq(Seq(S)), NEW i \in DOMAIN ss, Apart(ss)
    PROVE  /\ RemoveAt(ss, i) \in Seq(Seq(S)) /\ ss[i] \in Seq(S)
           /\ Apart(RemoveAt(ss, i)) /\ IsInjective(ss[i])
           /\ AllOf(ss) = AllOf(RemoveAt(ss, i)) \cup ToSet(ss[i])
           /\ AllOf(RemoveAt(ss, i)) \cap ToSet(ss[i]) = {}
<1> DEFINE w == RemoveAt(ss, i)
<1>1. /\ w \in Seq(Seq(S))
      /\ \A j \in DOMAIN w : Before(i, j) \in DOMAIN ss \ {i} /\ w[j] = ss[Before(i, j)]
      /\ \A j, k \in DOMAIN w : j # k => Before(i, j) # Before(i, k)
      /\ \A k \in DOMAIN ss \ {i} : \E j \in DOMAIN w : Before(i, j) = k
  <2> DEFINE V == Seq(S)
  <2> HIDE DEF V, w
  <2> QED
    BY RemoveAtRenumbers DEF V, w
<1> HIDE DEF w
<1>2. ss[i] \in Seq(S)
  OBVIOUS
<1>3. Apart(w) /\ IsInjective(ss[i])
  BY <1>1 DEF Apart
<1>4. AllOf(ss) = AllOf(w) \cup ToSet(ss[i])
  <2>1. ASSUME NEW x \in AllOf(ss) PROVE x \in AllOf(w) \cup ToSet(ss[i])
    <3>1. PICK k \in DOMAIN ss : x \in ToSet(ss[k])
      BY DEF AllOf
    <3>2. CASE k # i
      <4>1. PICK j \in DOMAIN w : Before(i, j) = k
        BY <1>1, <3>2
      <4> QED
        BY <1>1, <3>1, <4>1 DEF AllOf
    <3> QED
      BY <3>1, <3>2
  <2>2. ASSUME NEW x \in AllOf(w) PROVE x \in AllOf(ss)
    BY <1>1 DEF AllOf
  <2>3. ToSet(ss[i]) \subseteq AllOf(ss)
    BY DEF AllOf
  <2> QED
    BY <2>1, <2>2, <2>3
<1>5. AllOf(w) \cap ToSet(ss[i]) = {}
  BY <1>1 DEF AllOf, Apart
<1> QED
  BY <1>1, <1>2, <1>3, <1>4, <1>5 DEF w

(* A sequence is its first element and the others. *)
LEMMA HeadTailRange ==
    ASSUME NEW S, NEW s \in Seq(S), s # <<>>
    PROVE  /\ Head(s) \in S /\ Tail(s) \in Seq(S)
           /\ <<Head(s)>> \o Tail(s) = s
           /\ ToSet(s) = {Head(s)} \cup ToSet(Tail(s))
           /\ IsInjective(s) => IsInjective(Tail(s)) /\ Head(s) \notin ToSet(Tail(s))
           /\ \A i \in DOMAIN Tail(s) : i + 1 \in DOMAIN s /\ Tail(s)[i] = s[i + 1]
<1> DEFINE h == <<Head(s)>>
           t == Tail(s)
<1>1. Head(s) \in S /\ h \in Seq(S) /\ t \in Seq(S) /\ h \o t = s
  OBVIOUS
<1>2. \A i \in DOMAIN t : i + 1 \in DOMAIN s /\ t[i] = s[i + 1]
  OBVIOUS
<1>3. ToSet(h) = {Head(s)}
  BY OneIs
<1> HIDE DEF h, t
<1>4. /\ ToSet(h \o t) = ToSet(h) \cup ToSet(t)
      /\ IsInjective(h \o t) <=> IsInjective(h) /\ IsInjective(t) /\ ToSet(h) \cap ToSet(t) = {}
  BY <1>1, ConcatRange
<1> QED
  BY <1>1, <1>2, <1>3, <1>4 DEF h, t

(* One sequence loses its first element. *)
LEMMA TailApart ==
    ASSUME NEW S, NEW ss \in Seq(Seq(S)), NEW i \in DOMAIN ss, ss[i] # <<>>, Apart(ss)
    PROVE  LET tt == [ss EXCEPT ![i] = Tail(ss[i])]
           IN  /\ tt \in Seq(Seq(S)) /\ Apart(tt)
               /\ AllOf(ss) = AllOf(tt) \cup {Head(ss[i])}
               /\ Head(ss[i]) \notin AllOf(tt)
<1> DEFINE t == Tail(ss[i])
           tt == [ss EXCEPT ![i] = t]
           h == Head(ss[i])
<1>1. /\ ss[i] \in Seq(S) /\ t \in Seq(S) /\ h \in S
      /\ ToSet(ss[i]) = {h} \cup ToSet(t) /\ IsInjective(t) /\ h \notin ToSet(t)
  <2>1. ss[i] \in Seq(S) /\ IsInjective(ss[i])
    BY DEF Apart
  <2> QED
    BY <2>1, HeadTailRange
<1>2. /\ DOMAIN tt = DOMAIN ss /\ tt[i] = t
      /\ \A j \in DOMAIN ss \ {i} : tt[j] = ss[j]
  OBVIOUS
<1>3. tt \in Seq(Seq(S))
  BY <1>1
<1> HIDE DEF t, tt, h
<1>4. Apart(tt)
  BY <1>1, <1>2 DEF Apart
<1>5. AllOf(ss) = AllOf(tt) \cup {h}
  <2>1. \A x : (\E j \in DOMAIN ss : x \in ToSet(ss[j]))
                  <=> (\E j \in DOMAIN ss : x \in ToSet(tt[j])) \/ x = h
    BY <1>1, <1>2
  <2> QED
    BY <1>2, <2>1 DEF AllOf
<1>6. h \notin AllOf(tt)
  <2>1. \A j \in DOMAIN ss \ {i} : h \notin ToSet(ss[j])
    BY <1>1 DEF Apart
  <2> QED
    BY <1>1, <1>2, <2>1 DEF AllOf
<1> QED
  BY <1>3, <1>4, <1>5, <1>6 DEF t, tt, h

-----------------------------------------------------------------------------
(* What Push keeps of a ring: its type, at most cap elements, and none but *)
(* those it had and the new one.                                           *)
LEMMA PushKeeps ==
    ASSUME NEW S, NEW s \in Seq(S), NEW x \in S, NEW cap \in Nat \ {0}
    PROVE  /\ Push(s, x, cap) \in Seq(S)
           /\ Len(Push(s, x, cap)) <= cap
           /\ ToSet(Push(s, x, cap)) \subseteq ToSet(s) \cup {x}
<1> DEFINE all == Append(s, x)
<1>1. all \in Seq(S) /\ Len(all) = Len(s) + 1
      /\ \A i \in 1 .. Len(all) : all[i] \in ToSet(s) \cup {x}
  BY DEF ToSet
<1> HIDE DEF all
<1>2. CASE Len(all) > cap
  <2>1. Push(s, x, cap) = SubSeq(all, Len(all) - cap + 1, Len(all))
    BY <1>2 DEF Push, all
  <2>2. /\ SubSeq(all, Len(all) - cap + 1, Len(all)) \in Seq(S)
        /\ Len(SubSeq(all, Len(all) - cap + 1, Len(all))) = cap
    BY <1>1, <1>2
  <2>3. ToSet(SubSeq(all, Len(all) - cap + 1, Len(all))) \subseteq ToSet(s) \cup {x}
    BY <1>1, <1>2 DEF ToSet
  <2> QED BY <2>1, <2>2, <2>3
<1>3. CASE ~(Len(all) > cap)
  <2>1. Push(s, x, cap) = all
    BY <1>3 DEF Push, all
  <2>2. Len(all) <= cap /\ ToSet(all) \subseteq ToSet(s) \cup {x}
    BY <1>1, <1>3 DEF ToSet
  <2> QED BY <1>1, <2>1, <2>2
<1>4. Len(all) \in Nat
  BY <1>1
<1> QED BY <1>2, <1>3

(* A ring that is the tail of a history stays one when both grow by the    *)
(* same element.                                                           *)
LEMMA PushKeepsTail ==
    ASSUME NEW S, NEW ring \in Seq(S), NEW history \in Seq(S), NEW x \in S,
           NEW cap \in Nat \ {0}, IsTailOf(ring, history, cap)
    PROVE  IsTailOf(Push(ring, x, cap), Append(history, x), cap)
<1> DEFINE all == Append(ring, x)
           grown == Append(history, x)
           new == Push(ring, x, cap)
           n == Len(ring)
           m == Len(history)
<1>1. /\ n \in Nat /\ m \in Nat
      /\ all \in Seq(S) /\ Len(all) = n + 1
      /\ \A i \in 1 .. n : all[i] = ring[i]
      /\ all[n + 1] = x
      /\ Len(grown) = m + 1
      /\ \A i \in 1 .. m : grown[i] = history[i]
      /\ grown[m + 1] = x
  OBVIOUS
<1>2. /\ n = IF m > cap THEN cap ELSE m
      /\ \A i \in 1 .. n : ring[i] = history[m - n + i]
  BY DEF IsTailOf
<1>3. CASE n + 1 > cap
  <2>1. n = cap /\ m >= cap
    BY <1>1, <1>2, <1>3
  <2>2. new = SubSeq(all, 2, cap + 1)
    BY <1>1, <1>3, <2>1 DEF Push
  <2>3. Len(new) = cap /\ \A i \in 1 .. cap : new[i] = all[i + 1]
    <3> HIDE DEF all
    <3>1. QED
      BY <1>1, <2>1, <2>2
  <2>4. ASSUME NEW i \in 1 .. cap
        PROVE  new[i] = grown[m + 1 - cap + i]
    <3> HIDE DEF all, grown, new, n, m
    <3>1. CASE i = cap
      BY <1>1, <2>1, <2>3, <3>1
    <3>2. CASE i # cap
      <4>1. i + 1 \in 1 .. n /\ m + 1 - cap + i \in 1 .. m
        BY <1>1, <2>1, <3>2
      <4>2. new[i] = ring[i + 1]
        BY <1>1, <2>3, <4>1
      <4>3. ring[i + 1] = history[m - n + (i + 1)] /\ m - n + (i + 1) = m + 1 - cap + i
        BY <1>1, <1>2, <2>1, <4>1
      <4>4. QED
        BY <1>1, <4>1, <4>2, <4>3
    <3>3. QED
      BY <3>1, <3>2
  <2>5. Len(grown) > cap
    BY <1>1, <2>1
  <2>6. IsTailOf(new, grown, cap)
    <3> HIDE DEF all, grown, new, n, m
    <3>1. \A i \in 1 .. cap : Len(grown) - Len(new) + i = m + 1 - cap + i
      BY <1>1, <2>3
    <3>2. QED
      BY <1>1, <2>3, <2>4, <2>5, <3>1 DEF IsTailOf
  <2>7. QED
    BY <2>6
<1>4. CASE ~(n + 1 > cap)
  <2>1. n = m
    BY <1>1, <1>2, <1>4
  <2>2. new = all
    BY <1>1, <1>4 DEF Push
  <2>3. IsTailOf(new, grown, cap)
    <3> HIDE DEF all, grown, new, n, m
    <3>1. ASSUME NEW i \in 1 .. n + 1
          PROVE  all[i] = grown[i]
      <4>1. CASE i = n + 1
        BY <1>1, <2>1, <4>1
      <4>2. CASE i # n + 1
        <5>1. i \in 1 .. n /\ m - n + i = i
          BY <1>1, <2>1, <4>2
        <5>2. QED
          BY <1>1, <1>2, <2>1, <5>1
      <4>3. QED
        BY <4>1, <4>2
    <3>2. /\ Len(new) = m + 1 /\ Len(grown) = m + 1
          /\ ~(Len(grown) > cap)
      BY <1>1, <1>4, <2>1, <2>2
    <3>3. \A i \in 1 .. Len(new) : Len(grown) - Len(new) + i = i
      BY <1>1, <3>2
    <3>4. QED
      BY <1>1, <2>1, <2>2, <3>1, <3>2, <3>3 DEF IsTailOf
  <2>4. QED
    BY <2>3
<1>5. QED
  BY <1>1, <1>3, <1>4
-----------------------------------------------------------------------------
(* How often v is among the first n of a sequence.                         *)
Times(s, n, v) == Cardinality({i \in 1 .. n : s[i] = v})

(* It grows by one with each that is v.                                    *)
LEMMA TimesGrows ==
    ASSUME NEW s, NEW n \in Nat, NEW v
    PROVE  /\ Times(s, 0, v) = 0
           /\ Times(s, n, v) \in Nat
           /\ s[n + 1] = v => Times(s, n + 1, v) = Times(s, n, v) + 1
           /\ s[n + 1] # v => Times(s, n + 1, v) = Times(s, n, v)
<1> DEFINE its == {i \in 1 .. n : s[i] = v}
<1>1. IsFiniteSet(its) /\ Cardinality(its) \in Nat
  <2>1. IsFiniteSet(1 .. n) /\ its \in SUBSET (1 .. n)
    BY FS_Interval
  <2> HIDE DEF its
  <2> QED
    BY <2>1, FS_Subset, FS_CardinalityType
<1>2. Times(s, 0, v) = 0
  <2>1. {i \in 1 .. 0 : s[i] = v} = {}
    OBVIOUS
  <2> QED
    BY <2>1, FS_EmptySet DEF Times
<1>3. CASE s[n + 1] = v
  <2>1. {i \in 1 .. n + 1 : s[i] = v} = its \cup {n + 1} /\ n + 1 \notin its
    BY <1>3
  <2> HIDE DEF its
  <2>2. Cardinality(its \cup {n + 1}) = Cardinality(its) + 1
    BY <1>1, <2>1, FS_AddElement
  <2> QED
    BY <1>1, <1>2, <1>3, <2>1, <2>2 DEF Times, its
<1>4. CASE s[n + 1] # v
  <2>1. {i \in 1 .. n + 1 : s[i] = v} = its
    BY <1>4
  <2> QED
    BY <1>1, <1>2, <1>4, <2>1 DEF Times
<1> QED
  BY <1>3, <1>4

(* It depends on those n alone.                                            *)
LEMMA TimesSame ==
    ASSUME NEW s, NEW t, NEW n \in Nat, NEW v, \A i \in 1 .. n : s[i] = t[i]
    PROVE  Times(s, n, v) = Times(t, n, v)
<1>1. {i \in 1 .. n : s[i] = v} = {i \in 1 .. n : t[i] = v}
  OBVIOUS
<1> QED
  BY <1>1 DEF Times

(* What does not repeat is in a sequence once or not at all.               *)
LEMMA TimesOnce ==
    ASSUME NEW S, NEW t \in Seq(S), IsInjective(t), NEW v
    PROVE  Times(t, Len(t), v) = IF v \in ToSet(t) THEN 1 ELSE 0
<1>1. DOMAIN t = 1 .. Len(t)
  OBVIOUS
<1>2. CASE v \in ToSet(t)
  <2>1. PICK k \in 1 .. Len(t) : t[k] = v
    BY <1>1, <1>2 DEF ToSet
  <2>2. {i \in 1 .. Len(t) : t[i] = v} = {k}
    BY <1>1, <2>1 DEF IsInjective
  <2> QED
    BY <1>2, <2>2, FS_Singleton DEF Times
<1>3. CASE v \notin ToSet(t)
  <2>1. {i \in 1 .. Len(t) : t[i] = v} = {}
    BY <1>1, <1>3 DEF ToSet
  <2> QED
    BY <1>3, <2>1, FS_EmptySet DEF Times
<1> QED
  BY <1>2, <1>3

(* In two sequences, one after the other, it is as often as in both.       *)
LEMMA TimesConcat ==
    ASSUME NEW S, NEW s \in Seq(S), NEW t \in Seq(S), NEW v
    PROVE  Times(s \o t, Len(s \o t), v) = Times(s, Len(s), v) + Times(t, Len(t), v)
<1> DEFINE m == Len(s)
           n == Len(t)
           w == s \o t
           N == {k \in Nat : k <= n => Times(w, m + k, v) = Times(s, m, v) + Times(t, k, v)}
<1>1. /\ m \in Nat /\ n \in Nat /\ Len(w) = m + n
      /\ \A i \in 1 .. m + n : w[i] = IF i <= m THEN s[i] ELSE t[i - m]
  BY ConcatProperties, LenProperties
<1> HIDE DEF m, n, w
<1>2. 0 \in N
  <2>1. \A i \in 1 .. m : w[i] = s[i]
    BY <1>1
  <2>2. Times(w, m, v) = Times(s, m, v)
    BY <1>1, <2>1, TimesSame
  <2>3. Times(s, m, v) \in Nat
    BY <1>1, TimesGrows
  <2>4. Times(t, 0, v) = 0
    BY TimesGrows
  <2>5. m + 0 = m /\ Times(s, m, v) + 0 = Times(s, m, v)
    BY <1>1, <2>3
  <2> QED
    BY <2>2, <2>4, <2>5
<1>3. ASSUME NEW k \in Nat, k \in N PROVE k + 1 \in N
  <2> SUFFICES ASSUME k + 1 <= n
               PROVE  Times(w, m + (k + 1), v) = Times(s, m, v) + Times(t, k + 1, v)
    OBVIOUS
  <2>1. /\ m + k \in Nat /\ m + (k + 1) = (m + k) + 1 /\ (m + k) + 1 \in 1 .. m + n
        /\ ~((m + k) + 1 <= m) /\ ((m + k) + 1) - m = k + 1
    BY <1>1
  <2>2. w[(m + k) + 1] = t[k + 1]
    BY <1>1, <2>1
  <2>3. Times(w, m + k, v) = Times(s, m, v) + Times(t, k, v)
    BY <1>1, <1>3
  <2>4. /\ t[k + 1] = v => Times(w, (m + k) + 1, v) = Times(w, m + k, v) + 1
        /\ t[k + 1] # v => Times(w, (m + k) + 1, v) = Times(w, m + k, v)
    <3> HIDE DEF N
    <3> QED
      BY <2>1, <2>2, TimesGrows
  <2>5. /\ t[k + 1] = v => Times(t, k + 1, v) = Times(t, k, v) + 1
        /\ t[k + 1] # v => Times(t, k + 1, v) = Times(t, k, v)
    <3> HIDE DEF N
    <3> QED
      BY TimesGrows
  <2>6. Times(s, m, v) \in Nat /\ Times(t, k, v) \in Nat
    BY <1>1, TimesGrows
  <2> QED
    BY <2>1, <2>3, <2>4, <2>5, <2>6
<1>4. Nat \subseteq N
  <2> HIDE DEF N
  <2> QED
    BY <1>2, <1>3, NatSet
<1>5. Times(w, m + n, v) = Times(s, m, v) + Times(t, n, v)
  BY <1>1, <1>4
<1> QED
  BY <1>1, <1>5 DEF m, n, w

(* Of sequences that do not repeat, flattened, it is in as many as it is   *)
(* there times.                                                            *)
LEMMA FlattenTimes ==
    ASSUME NEW S, NEW ss \in Seq(Seq(S)), \A i \in DOMAIN ss : IsInjective(ss[i]), NEW v
    PROVE  /\ IsFiniteSet({i \in DOMAIN ss : v \in ToSet(ss[i])})
           /\ Times(FlattenSeq(ss), Len(FlattenSeq(ss)), v)
                = Cardinality({i \in DOMAIN ss : v \in ToSet(ss[i])})
<1> DEFINE V == Seq(S)
           In(tt) == {i \in DOMAIN tt : v \in ToSet(tt[i])}
           Holds(tt) == /\ IsFiniteSet(In(tt))
                        /\ Times(FlattenSeq(tt), Len(FlattenSeq(tt)), v) = Cardinality(In(tt))
           T == {tt \in Seq(V) : (\A i \in DOMAIN tt : IsInjective(tt[i])) => Holds(tt)}
<1>1. <<>> \in T
  <2>1. In(<<>>) = {}
    OBVIOUS
  <2>2. Times(<<>>, Len(<<>>), v) = 0
    <3>1. Len(<<>>) = 0
      OBVIOUS
    <3> QED
      BY <3>1, TimesGrows
  <2>3. Holds(<<>>)
    <3> HIDE DEF In
    <3> QED
      BY <2>1, <2>2, FlattenEmpty, FS_EmptySet
  <2>4. <<>> \in Seq(V)
    OBVIOUS
  <2> QED
    BY <2>3, <2>4
<1>2. ASSUME NEW tt \in Seq(V), NEW s \in V, tt \in T
      PROVE  Append(tt, s) \in T
  <2> DEFINE n == Len(tt)
             uu == Append(tt, s)
  <2>1. /\ uu \in Seq(V) /\ DOMAIN uu = 1 .. n + 1 /\ DOMAIN tt = 1 .. n /\ n \in Nat
        /\ uu[n + 1] = s /\ \A i \in 1 .. n : uu[i] = tt[i]
    <3> HIDE DEF V
    <3>1. /\ uu \in Seq(V) /\ Len(uu) = n + 1 /\ uu[n + 1] = s
          /\ \A i \in 1 .. n : uu[i] = tt[i]
      BY AppendProperties
    <3> HIDE DEF uu
    <3> QED
      BY <3>1, LenProperties
  <2> SUFFICES ASSUME \A i \in DOMAIN uu : IsInjective(uu[i]) PROVE Holds(uu)
    BY <2>1
  <2>2. FlattenSeq(uu) = FlattenSeq(tt) \o s /\ FlattenSeq(tt) \in Seq(S) /\ s \in Seq(S)
    BY FlattenAppend, FlattenType
  <2> HIDE DEF uu, n
  <2>3. 1 .. n + 1 = 1 .. n \cup {n + 1} /\ n + 1 \notin 1 .. n /\ n + 1 \in 1 .. n + 1
    BY <2>1
  <2>4. Holds(tt) /\ IsInjective(s)
    <3>1. \A i \in DOMAIN tt : IsInjective(tt[i])
      BY <2>1, <2>3
    <3> QED
      BY <1>2, <2>1, <2>3, <3>1
  <2>5. Times(FlattenSeq(uu), Len(FlattenSeq(uu)), v)
          = Cardinality(In(tt)) + IF v \in ToSet(s) THEN 1 ELSE 0
    <3> DEFINE f == FlattenSeq(tt)
    <3>1. Times(f \o s, Len(f \o s), v) = Times(f, Len(f), v) + Times(s, Len(s), v)
      <4> HIDE DEF f
      <4> QED
        BY <2>2, TimesConcat DEF f
    <3>2. Times(s, Len(s), v) = IF v \in ToSet(s) THEN 1 ELSE 0
      BY <2>2, <2>4, TimesOnce
    <3> QED
      BY <2>2, <2>4, <3>1, <3>2
  <2>6. In(uu) = In(tt) \cup (IF v \in ToSet(s) THEN {n + 1} ELSE {})
    BY <2>1, <2>3
  <2>7. n + 1 \notin In(tt) /\ Cardinality(In(tt)) \in Nat /\ IsFiniteSet(In(tt))
    BY <2>1, <2>3, <2>4, FS_CardinalityType
  <2> DEFINE old == In(tt)
             new == In(uu)
  <2> HIDE DEF In, old, new
  <2>8. CASE v \in ToSet(s)
    <3>1. IsFiniteSet(old \cup {n + 1}) /\ Cardinality(old \cup {n + 1}) = Cardinality(old) + 1
      BY <2>7, FS_AddElement DEF old
    <3> QED
      BY <2>5, <2>6, <2>8, <3>1 DEF old
  <2>9. CASE v \notin ToSet(s)
    <3>1. In(uu) = In(tt)
      BY <2>6, <2>9
    <3>2. Cardinality(In(tt)) + 0 = Cardinality(In(tt))
      BY <2>7
    <3> QED
      BY <2>5, <2>7, <2>9, <3>1, <3>2
  <2> QED
    BY <2>8, <2>9 DEF uu
<1>3. Seq(V) \subseteq T
  <2> HIDE DEF T, V
  <2> QED
    BY <1>1, <1>2, SeqSet
<1> QED
  BY <1>3
=============================================================================
